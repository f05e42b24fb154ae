------------------------------ MODULE Lifecycle ------------------------------
(***************************************************************************)
(* A process of the program from its environment to its exit: run in       *)
(* cmd/linkedin-mcp/main.go with config.Load, sqlite.New and its           *)
(* migrations (internal/adapters/sqlite/db.go), the requests it serves,    *)
(* the shutdown that waits for them, and the bearer tokens that outlive    *)
(* it.  Several processes may work on one database file, as a deployment   *)
(* that starts the new one before the old one is gone makes them.          *)
(*                                                                         *)
(* A statement may fail, a process may be told to stop or die, and with    *)
(* synchronous = NORMAL a power loss undoes the newest commits.  Time      *)
(* matters to the shutdown only: it is counted down in the records.        *)
(*                                                                         *)
(* A definition X_... next to X is X with a plausible bug; no other        *)
(* definition uses it.                                                     *)
(***************************************************************************)
EXTENDS Router, Sequences

CONSTANTS
  Servers,       \* processes that may run at a time
  Names,         \* migrations
  Builds,        \* binaries: the migrations each embeds, in lexical order
  Repeatable,    \* the migrations whose SQL would run a second time
  Environments,  \* what operators put in the environment
  Calls,         \* concurrent tool calls
  Grace,         \* shutdownGrace
  Timeout,       \* of a request to LinkedIn
  MaxWait,       \* bound: the longest Retry-After LinkedIn answers with
  MaxFaults,     \* bound: stops, crashes, failures and power losses together
  None

ASSUME LifecycleAssumption ==
  /\ Builds \subseteq Seq(Names)
  /\ Repeatable \subseteq Names
  /\ {Grace, Timeout, MaxWait, MaxFaults} \subseteq Nat
  /\ None \notin Servers

\* A variable that is read is there, or Unset.
ASSUME EnvironmentAssumption ==
  \A env \in Environments :
    env.publicURL \in URL \cup {Unset} /\ env.signingKey \in Key \cup {Unset}

VARIABLES
  file,    \* the database as committed
  disk,    \* the part of it that a power loss spares
  writer,  \* the server whose transaction holds the write lock
  server,  \* locals of each process
  call,    \* locals of each tool call that waits for LinkedIn
  bearer,  \* an access token that has not expired, in the hands of a client
  faults   \* how many have happened

vars == <<file, disk, writer, server, call, bearer, faults>>

\* schema_migrations, and how often the effects of a migration are there.
Database == [recorded: SUBSET Names, effects: [Names -> 0 .. 2]]

Starting == {"check", "begin", "body", "record", "commit", "purge"}
Down == [phase |-> "down"]
Process == [phase: Starting \cup {"serving", "draining"}, env: Environments,
            build: Builds, next: Nat, drained: 0 .. Grace]

Idle == [pc |-> "idle"]
Call == [pc: {"send", "wait", "resend", "record"}, at: Servers,
         left: 0 .. Timeout + MaxWait]

TokenOf(env) ==
  LET cfg == Load(env) IN
  [iss |-> cfg.publicURL, aud |-> MCPResourceURL(cfg), key |-> cfg.signingKey, env |-> env]

Up(p) == server[p] # Down

\* Besides the shapes: a process that runs was let in by Load, a lock is held
\* by a transaction, and a call runs in a process that has not ended.
TypeOK ==
  /\ file \in Database /\ disk \in Database
  /\ writer \in Servers \cup {None}
  /\ server \in [Servers -> Process \cup {Down}]
  /\ call \in [Calls -> Call \cup {Idle}]
  /\ bearer # None => bearer.env \in Environments /\ Accepted(bearer.env) /\ bearer = TokenOf(bearer.env)
  /\ faults \in 0 .. MaxFaults
  /\ \A p \in Servers : Up(p) =>
       Accepted(server[p].env) /\ server[p].next \in 1 .. Len(server[p].build) + 1
  /\ \A p \in Servers : writer = p <=> server[p].phase \in {"body", "record", "commit"}
  /\ \A k \in Calls : call[k] # Idle => server[call[k].at].phase \in {"serving", "draining"}

Empty == [recorded |-> {}, effects |-> [n \in Names |-> 0]]

Init ==
  /\ file = Empty /\ disk = Empty
  /\ writer = None
  /\ server = [p \in Servers |-> Down]
  /\ call = [k \in Calls |-> Idle]
  /\ bearer = None
  /\ faults = 0

-----------------------------------------------------------------------------
(* Start: the configuration, then the migrations one by one.               *)

Goes(p, phase) == server' = [server EXCEPT ![p].phase = phase]

\* The rest of Load's inputs change nothing here: an environment that Load
\* refuses ends the process before it has opened anything.
Launch(p, env, build) ==
  /\ ~Up(p)
  /\ Accepted(env)
  /\ server' = [server EXCEPT ![p] =
       [phase |-> "check", env |-> env, build |-> build, next |-> 1, drained |-> 0]]
  /\ UNCHANGED <<file, disk, writer, call, bearer, faults>>

Name(p) == server[p].build[server[p].next]
AllLookedAt_First(p) == server[p].next > 1
AllLookedAt(p) == server[p].next > Len(server[p].build)

Further(p) == server' = [server EXCEPT ![p].phase = "check", ![p].next = @ + 1]

\* A SELECT of its own, outside the transaction that follows.
MigrationApplied(p) ==
  /\ server[p].phase = "check"
  /\ \/ AllLookedAt(p) /\ Goes(p, "purge")
     \/ ~AllLookedAt(p) /\ Name(p) \in file.recorded /\ Further(p)
     \/ ~AllLookedAt(p) /\ Name(p) \notin file.recorded /\ Goes(p, "begin")
  /\ UNCHANGED <<file, disk, writer, call, bearer, faults>>

\* BEGIN IMMEDIATE takes the write lock or waits for it.
BeginMigration(p) ==
  /\ server[p].phase = "begin" /\ writer = None
  /\ writer' = p
  /\ Goes(p, "body")
  /\ UNCHANGED <<file, disk, call, bearer, faults>>

\* The transaction is rolled back, New returns the error, the process ends.
AfterFailure_Again(process) == [process EXCEPT !.phase = "begin"]
AfterFailure(process) == Down

\* The deferred rollback, or the end of the process.
Unlocked_NoRollback(p) == writer
Unlocked(p) == IF writer = p THEN None ELSE writer

Fails(p) ==
  /\ server' = [server EXCEPT ![p] = AfterFailure(@)]
  /\ writer' = Unlocked(p)

\* CREATE TABLE without IF NOT EXISTS fails where its table is.
Runs(name) == name \in Repeatable \/ file.effects[name] = 0

ApplyMigration(p) ==
  /\ server[p].phase = "body"
  /\ \/ Runs(Name(p)) /\ Goes(p, "record") /\ UNCHANGED writer
     \/ ~Runs(Name(p)) /\ Fails(p)
  /\ UNCHANGED <<file, disk, call, bearer, faults>>

\* name is the primary key of schema_migrations.
Recordable_OrIgnore(name) == TRUE
Recordable(name) == name \notin file.recorded

RecordMigration(p) ==
  /\ server[p].phase = "record"
  /\ \/ Recordable(Name(p)) /\ Goes(p, "commit") /\ UNCHANGED writer
     \/ ~Recordable(Name(p)) /\ Fails(p)
  /\ UNCHANGED <<file, disk, call, bearer, faults>>

\* Tables and record become visible together.
Committed(database, name) ==
  [recorded |-> database.recorded \cup {name},
   effects |-> [database.effects EXCEPT ![name] = @ + 1]]

CommitMigration(p) ==
  /\ server[p].phase = "commit"
  /\ file' = Committed(file, Name(p))
  /\ writer' = None
  /\ Further(p)
  /\ UNCHANGED <<disk, call, bearer, faults>>

\* PurgeExpired needs the write lock as well; then the listener is opened.
PurgeAtStart(p) ==
  /\ server[p].phase = "purge" /\ writer = None
  /\ Goes(p, "serving")
  /\ UNCHANGED <<file, disk, writer, call, bearer, faults>>

\* busy_timeout has passed: the process gives up.
MigrationBusy(p) ==
  /\ server[p].phase = "begin" /\ writer # None
  /\ Fails(p)
  /\ UNCHANGED <<file, disk, call, bearer, faults>>

PurgeBusy(p) ==
  /\ server[p].phase = "purge" /\ writer # None
  /\ server' = [server EXCEPT ![p] = Down]
  /\ UNCHANGED <<file, disk, writer, call, bearer, faults>>

-----------------------------------------------------------------------------
(* Requests.  A tool call asks LinkedIn, may be told to wait and ask again *)
(* (Client.do), and writes down what was done.                             *)

Begin(k, p) ==
  /\ server[p].phase = "serving" /\ call[k] = Idle
  /\ call' = [call EXCEPT ![k] = [pc |-> "send", at |-> p, left |-> Timeout]]
  /\ UNCHANGED <<file, disk, writer, server, bearer, faults>>

Moves(k, pc, left) == call' = [call EXCEPT ![k].pc = pc, ![k].left = left]

LinkedInAnswers(k) ==
  /\ call[k].pc \in {"send", "resend"}
  /\ Moves(k, "record", 0)
  /\ UNCHANGED <<file, disk, writer, server, bearer, faults>>

\* No answer in time, a refusal, or the second 429: the tool fails.
LinkedInRefuses(k) ==
  /\ call[k].pc \in {"send", "resend"}
  /\ call' = [call EXCEPT ![k] = Idle]
  /\ UNCHANGED <<file, disk, writer, server, bearer, faults>>

\* Retry-After is taken as it is.
LinkedInThrottles(k, delay) ==
  /\ call[k].pc = "send"
  /\ Moves(k, "wait", delay)
  /\ UNCHANGED <<file, disk, writer, server, bearer, faults>>

Resend(k) ==
  /\ call[k].pc = "wait" /\ call[k].left = 0
  /\ Moves(k, "resend", Timeout)
  /\ UNCHANGED <<file, disk, writer, server, bearer, faults>>

Record(k) ==
  /\ call[k].pc = "record" /\ writer = None
  /\ call' = [call EXCEPT ![k] = Idle]
  /\ UNCHANGED <<file, disk, writer, server, bearer, faults>>

-----------------------------------------------------------------------------
(* Bearer tokens are signed and kept by nobody.                            *)

MintAccessToken(p) ==
  /\ server[p].phase = "serving" /\ bearer = None
  /\ bearer' = TokenOf(server[p].env)
  /\ UNCHANGED <<file, disk, writer, server, call, faults>>

Expires ==
  /\ bearer # None
  /\ bearer' = None
  /\ UNCHANGED <<file, disk, writer, server, call, faults>>

\* Signature, issuer and audience, against the configuration of the process.
VerifyAccessToken(p, token) ==
  LET cfg == Load(server[p].env) IN
  /\ token.key = cfg.signingKey
  /\ token.iss = cfg.publicURL
  /\ token.aud = MCPResourceURL(cfg)

-----------------------------------------------------------------------------
(* The end of a process.                                                   *)

Fault == faults < MaxFaults /\ faults' = faults + 1

\* The calls of the servers in S are gone, with what they had not written.
Cut(S) == call' = [k \in Calls |-> IF call[k] # Idle /\ call[k].at \in S THEN Idle ELSE call[k]]

\* A statement fails, or the process is told to stop before it serves: the
\* context of the statement is cancelled.
StartFails(p) ==
  /\ server[p].phase \in Starting
  /\ Fault
  /\ server' = [server EXCEPT ![p] = Down]
  /\ writer' = Unlocked(p)
  /\ UNCHANGED <<file, disk, call, bearer>>

\* SIGTERM: no new requests; those that run may go on until the grace is over.
Terminate(p) ==
  /\ server[p].phase = "serving"
  /\ Fault
  /\ Goes(p, "draining")
  /\ UNCHANGED <<file, disk, writer, call, bearer>>

Busy(p) == \E k \in Calls : call[k] # Idle /\ call[k].at = p

\* Shutdown works under a context of its own, not under the cancelled one.
GraceOver(process) == process.drained = Grace

Shutdown(p) ==
  /\ server[p].phase = "draining"
  /\ ~Busy(p) \/ GraceOver(server[p])
  /\ server' = [server EXCEPT ![p] = Down]
  /\ Cut({p})
  /\ UNCHANGED <<file, disk, writer, bearer, faults>>

Crash(p) ==
  /\ Up(p)
  /\ Fault
  /\ server' = [server EXCEPT ![p] = Down]
  /\ writer' = Unlocked(p)
  /\ Cut({p})
  /\ UNCHANGED <<file, disk, bearer>>

\* The write-ahead log reaches the disk up to some commit.
Checkpoint ==
  /\ disk # file
  /\ disk' = file
  /\ UNCHANGED <<file, writer, server, call, bearer, faults>>

PowerLoss ==
  /\ Fault
  /\ file' = disk
  /\ server' = [p \in Servers |-> Down]
  /\ writer' = None
  /\ Cut(Servers)
  /\ UNCHANGED <<disk, bearer>>

-----------------------------------------------------------------------------
(* Time passes for those who wait, and never past a deadline.              *)

Timed == {k \in Calls : call[k].pc \in {"send", "wait", "resend"}}
Draining == {p \in Servers : server[p].phase = "draining"}

Tick ==
  /\ Timed # {}
  /\ \A k \in Timed : call[k].left > 0
  /\ \A p \in Draining : Busy(p) /\ server[p].drained < Grace
  /\ call' = [k \in Calls |-> IF k \in Timed THEN [call[k] EXCEPT !.left = @ - 1] ELSE call[k]]
  /\ server' = [p \in Servers |->
       IF p \in Draining THEN [server[p] EXCEPT !.drained = @ + 1] ELSE server[p]]
  /\ UNCHANGED <<file, disk, writer, bearer, faults>>

-----------------------------------------------------------------------------
Start(p) ==
  \/ MigrationApplied(p) \/ BeginMigration(p) \/ ApplyMigration(p)
  \/ RecordMigration(p) \/ CommitMigration(p) \/ MigrationBusy(p)
  \/ PurgeAtStart(p) \/ PurgeBusy(p)

Serve(k) ==
  \/ LinkedInAnswers(k) \/ LinkedInRefuses(k)
  \/ \E delay \in 0 .. MaxWait : LinkedInThrottles(k, delay)
  \/ Resend(k) \/ Record(k)

Stop(p) == StartFails(p) \/ Terminate(p) \/ Shutdown(p) \/ Crash(p)

Next ==
  \/ \E p \in Servers :
       \/ \E env \in Environments, build \in Builds : Launch(p, env, build)
       \/ Start(p) \/ Stop(p) \/ MintAccessToken(p)
       \/ \E k \in Calls : Begin(k, p)
  \/ \E k \in Calls : Serve(k)
  \/ Expires \/ Checkpoint \/ PowerLoss \/ Tick

Spec == Init /\ [][Next]_vars

\* A process proceeds, and is started again when it has ended; time passes, and
\* a call waits no longer than its timers.  Nothing is assumed about what
\* LinkedIn answers.
Fairness ==
  /\ \A p \in Servers :
       /\ WF_vars(\E env \in Environments, build \in Builds : Launch(p, env, build))
       /\ WF_vars(Start(p)) /\ WF_vars(Shutdown(p))
  /\ \A k \in Calls : WF_vars(Serve(k))
  /\ WF_vars(Tick)

FairSpec == Spec /\ Fairness

-----------------------------------------------------------------------------
(* Properties.                                                             *)

\* A migration is recorded if and only if its tables are there, once: whatever
\* the races between starting processes, the crash or power loss in the middle.
SchemaMatchesRecord ==
  \A database \in {file, disk} : \A n \in Names :
    database.effects[n] = (IF n \in database.recorded THEN 1 ELSE 0)

\* A process that accepts requests finds every migration it embeds applied,
\* also when another one was starting or dying at the same time.
ServesOnFullSchema ==
  \A p \in Servers : server[p].phase \in {"serving", "draining"} =>
    \A i \in DOMAIN server[p].build : server[p].build[i] \in file.recorded

\* "A restart of the container never invalidates a token that has not expired":
\* a process takes the token of another one that was given the same URL, with
\* or without a trailing slash, and the same key, in whatever alphabet.  With
\* capitals in scheme or host, or a path, it is another URL.
SameMeaning(e, f) ==
  /\ [e.publicURL EXCEPT !.slash = FALSE] = [f.publicURL EXCEPT !.slash = FALSE]
  /\ e.signingKey.bytes = f.signingKey.bytes
TokensSurviveRestarts ==
  bearer # None =>
    \A p \in Servers : server[p].phase = "serving" /\ SameMeaning(server[p].env, bearer.env) =>
      VerifyAccessToken(p, bearer)

\* "PUBLIC_URL: public HTTPS origin ... the base of every URL the server hands
\* out".  When it is an origin, every address the program hands out is answered
\* by the handler it is meant for, also by another process than the one that
\* handed it out: a client keeps what it discovered as long as its token, across
\* restarts.
Leads == {pair \in {e \in Environments : Accepted(e)} \X {e \in Environments : Accepted(e)} :
            \A use \in HandedOut(Load(pair[1])) :
              Answers(Load(pair[2]), use.method, use.address, use.handler)}
DiscoveryLeadsHome ==
  \A p \in Servers : server[p].phase = "serving" /\ ~server[p].env.publicURL.path =>
    /\ <<server[p].env, server[p].env>> \in Leads
    /\ bearer # None /\ SameMeaning(server[p].env, bearer.env) =>
         <<bearer.env, server[p].env>> \in Leads

\* Once faults have ceased every process comes up and stays up: a start that
\* lost a race or found a half done one does not get stuck.
EverybodyComesUp == <>[](\A p \in Servers : server[p].phase = "serving")
=============================================================================
