--------------------------- MODULE LifecycleProofs ---------------------------
(***************************************************************************)
(* Theorems about Lifecycle for any number of processes, calls, migrations *)
(* and builds, any environments, and any number of faults.                 *)
(***************************************************************************)
EXTENDS Lifecycle, SequenceTheorems, TLAPS

-----------------------------------------------------------------------------
(* The inductive invariant.                                                *)

Locked == {"body", "record", "commit"}
Open == {"serving", "draining"}
Phases == Starting \cup Open

\* How far a process is with its migrations agrees with the record: what it has
\* looked at is applied, and what it is about to commit is not.
Sound(process, database) ==
  process # Down =>
    /\ Accepted(process.env)
    /\ process.next \in 1 .. Len(process.build) + 1
    /\ process.phase \in {"begin"} \cup Locked => process.next <= Len(process.build)
    /\ process.phase = "commit" => process.build[process.next] \notin database.recorded
    /\ process.phase \in {"purge"} \cup Open => process.next > Len(process.build)
    /\ \A i \in 1 .. process.next - 1 : process.build[i] \in database.recorded

SchemaInv == SchemaMatchesRecord /\ \A p \in Servers : Sound(server[p], file)

-----------------------------------------------------------------------------
(* Shapes.                                                                 *)

\* A process that moves on to another phase is the same process.
LEMMA Moved ==
  ASSUME NEW s \in Process, NEW phase \in Phases
  PROVE  /\ [s EXCEPT !.phase = phase] \in Process
         /\ [s EXCEPT !.phase = phase].phase = phase
         /\ [s EXCEPT !.phase = phase].next = s.next
         /\ [s EXCEPT !.phase = phase].build = s.build
         /\ [s EXCEPT !.phase = phase].env = s.env
         /\ [s EXCEPT !.phase = phase].drained = s.drained
         /\ [s EXCEPT !.phase = phase] # Down
  BY DEF Process, Phases, Open, Down, Starting

LEMMA MovedFurther ==
  ASSUME NEW s \in Process, NEW t, t = [s EXCEPT !.phase = "check", !.next = @ + 1]
  PROVE  /\ t \in Process /\ t # Down
         /\ t.phase = "check" /\ t.next = s.next + 1 /\ t.build = s.build /\ t.env = s.env
<1>1. /\ t.phase = "check" /\ t.next = s.next + 1 /\ t.build = s.build /\ t.env = s.env
      /\ t.drained = s.drained
  BY DEF Process
<1>2. s.next + 1 \in Nat
  BY DEF Process
<1>3. t \in Process
  BY <1>2 DEF Process, Starting
<1> QED BY <1>1, <1>3 DEF Down

\* What TypeOK says of one process.
LEMMA Shapes ==
  ASSUME TypeOK, NEW p \in Servers
  PROVE  /\ server[p] \in Process \cup {Down}
         /\ server[p].phase \in Phases \cup {"down"}
         /\ server[p] = Down <=> server[p].phase = "down"
         /\ server[p] # Down => server[p].build \in Seq(Names)
  BY LifecycleAssumption DEF TypeOK, Process, Down, Phases, Open, Starting

-----------------------------------------------------------------------------
(* Type correctness and the schema, together.                              *)

\* One process moves and the database stays.
LEMMA OneProcessMoves ==
  ASSUME TypeOK, SchemaInv, UNCHANGED <<file, disk, bearer>>,
         NEW p \in Servers, NEW s \in Process \cup {Down},
         server' = [server EXCEPT ![p] = s], Sound(s, file),
         faults' \in 0 .. MaxFaults,
         \/ UNCHANGED writer /\ (s.phase \in Locked <=> server[p].phase \in Locked)
         \/ writer' = Unlocked(p) /\ s.phase \notin Locked
         \/ writer = None /\ writer' = p /\ s.phase \in Locked,
         \/ UNCHANGED call /\ (server[p].phase \in Open => s.phase \in Open)
         \/ Cut({p})
  PROVE  TypeOK' /\ SchemaInv'
<1> USE LifecycleAssumption
<1>1. /\ file' \in Database /\ disk' \in Database
      /\ bearer' # None => bearer'.env \in Environments /\ Accepted(bearer'.env)
                           /\ bearer' = TokenOf(bearer'.env)
      /\ faults' \in 0 .. MaxFaults
  BY DEF TypeOK
<1>2. server' \in [Servers -> Process \cup {Down}]
  BY DEF TypeOK
<1>3. writer' \in Servers \cup {None} /\ \A q \in Servers : writer' = q <=> server'[q].phase \in Locked
  BY DEF TypeOK, Unlocked, Locked
<1>4. /\ call' \in [Calls -> Call \cup {Idle}]
      /\ \A k \in Calls : call'[k] # Idle => server'[call'[k].at].phase \in Open
  <2>1. CASE UNCHANGED call /\ (server[p].phase \in Open => s.phase \in Open)
    BY <2>1 DEF TypeOK, Open, Call
  <2>2. CASE Cut({p})
    BY <2>2 DEF TypeOK, Open, Call, Cut
  <2> QED BY <2>1, <2>2
<1>5. \A q \in Servers : Sound(server'[q], file')
  BY DEF SchemaInv, TypeOK
<1>6. SchemaMatchesRecord'
  BY DEF SchemaInv, SchemaMatchesRecord
<1>7. \A q \in Servers : server'[q] # Down =>
         Accepted(server'[q].env) /\ server'[q].next \in 1 .. Len(server'[q].build) + 1
  BY <1>5 DEF Sound
<1> QED BY <1>1, <1>2, <1>3, <1>4, <1>5, <1>6, <1>7 DEF TypeOK, SchemaInv, Up, Locked, Open

\* A process takes a step of its start and the database stays.
LEMMA GoesOn ==
  ASSUME TypeOK, SchemaInv, NEW p \in Servers, NEW phase \in Phases, Up(p), Goes(p, phase)
  PROVE  /\ server[p] \in Process
         /\ [server[p] EXCEPT !.phase = phase] \in Process
         /\ server' = [server EXCEPT ![p] = [server[p] EXCEPT !.phase = phase]]
         /\ LET s == [server[p] EXCEPT !.phase = phase] IN
              /\ s.phase = phase /\ s.next = server[p].next /\ s.build = server[p].build
              /\ s.env = server[p].env
<1>1. server[p] \in Process
  BY Shapes DEF Up
<1> QED BY <1>1, Moved DEF Goes, TypeOK

LEMMA SoundGoesOn ==
  ASSUME NEW s, NEW t, NEW database, s # Down, t # Down, Sound(s, database),
         t.next = s.next, t.build = s.build, t.env = s.env,
         t.phase \in {"begin"} \cup Locked => s.next <= Len(s.build),
         t.phase = "commit" => s.build[s.next] \notin database.recorded,
         t.phase \in {"purge"} \cup Open => s.next > Len(s.build)
  PROVE  Sound(t, database)
  BY DEF Sound

LEMMA StartsKeep ==
  ASSUME TypeOK, SchemaInv, NEW p \in Servers, Start(p), ~CommitMigration(p)
  PROVE  TypeOK' /\ SchemaInv'
<1> USE LifecycleAssumption
<1>0. /\ server[p] \in Process /\ server[p] # Down /\ Sound(server[p], file) /\ Up(p)
      /\ server[p].phase \in Starting /\ faults' \in 0 .. MaxFaults
  BY Shapes DEF Start, MigrationApplied, BeginMigration, ApplyMigration, RecordMigration, MigrationBusy,
                PurgeAtStart, PurgeBusy, Starting, Down, Up, SchemaInv, TypeOK
<1>1. ASSUME NEW phase \in Phases, Goes(p, phase), UNCHANGED <<file, disk, bearer, call>>,
             phase \in {"begin"} \cup Locked => server[p].next <= Len(server[p].build),
             phase = "commit" => server[p].build[server[p].next] \notin file.recorded,
             phase \in {"purge"} \cup Open => server[p].next > Len(server[p].build),
             \/ UNCHANGED writer /\ (phase \in Locked <=> server[p].phase \in Locked)
             \/ writer = None /\ writer' = p /\ phase \in Locked
      PROVE  TypeOK' /\ SchemaInv'
  <2> DEFINE s == [server[p] EXCEPT !.phase = phase]
  <2>1. /\ s \in Process /\ s # Down /\ s.phase = phase /\ s.next = server[p].next
        /\ s.build = server[p].build /\ s.env = server[p].env
        /\ server' = [server EXCEPT ![p] = s]
    BY <1>0, <1>1, GoesOn, Moved
  <2>2. Sound(s, file)
    BY <1>0, <1>1, <2>1, SoundGoesOn
  <2>3. server[p].phase \notin Open
    BY <1>0 DEF Starting, Open
  <2> QED BY <1>0, <1>1, <2>1, <2>2, <2>3, OneProcessMoves
<1>2. ASSUME server' = [server EXCEPT ![p] = Down], writer' = Unlocked(p),
             UNCHANGED <<file, disk, bearer, call>>
      PROVE  TypeOK' /\ SchemaInv'
  <2>1. Sound(Down, file) /\ Down.phase \notin Locked /\ server[p].phase \notin Open
    BY <1>0 DEF Sound, Down, Locked, Starting, Open
  <2> QED BY <1>0, <1>2, <2>1, OneProcessMoves
<1>3. CASE MigrationApplied(p)
  <2>1. CASE AllLookedAt(p) /\ Goes(p, "purge")
    BY <1>1, <1>3, <2>1 DEF MigrationApplied, AllLookedAt, Phases, Starting, Locked, Open
  <2>2. CASE ~AllLookedAt(p) /\ Goes(p, "begin")
    BY <1>0, <1>1, <1>3, <2>2 DEF MigrationApplied, AllLookedAt, Phases, Starting, Locked, Open, Sound, Process
  <2>3. CASE ~AllLookedAt(p) /\ Name(p) \in file.recorded /\ Further(p)
    <3> DEFINE s == [server[p] EXCEPT !.phase = "check", !.next = @ + 1]
    <3>1. server' = [server EXCEPT ![p] = s]
      BY <1>0, <2>3 DEF Further, TypeOK
    <3>2. /\ s \in Process /\ s # Down /\ s.phase = "check" /\ s.next = server[p].next + 1
          /\ s.build = server[p].build /\ s.env = server[p].env
      BY <1>0, MovedFurther
    <3>3. Sound(s, file)
      <4>1. /\ server[p].next \in Nat /\ Len(server[p].build) \in Nat
            /\ server[p].next <= Len(server[p].build)
        BY <1>0, <2>3, LenProperties DEF Process, AllLookedAt
      <4>2. s.next \in 1 .. Len(s.build) + 1
        BY <3>2, <4>1
      <4>3. ASSUME NEW i \in 1 .. s.next - 1 PROVE s.build[i] \in file.recorded
        <5>1. i = server[p].next \/ i \in 1 .. server[p].next - 1
          BY <3>2, <4>1
        <5> QED BY <1>0, <2>3, <3>2, <5>1 DEF Sound, Name
      <4>4. Accepted(s.env)
        BY <1>0, <3>2 DEF Sound
      <4> HIDE DEF s
      <4> QED BY <3>2, <4>2, <4>3, <4>4 DEF Sound, Locked, Open
    <3>4. s.phase \notin Locked /\ server[p].phase \notin Locked \cup Open
      BY <1>3, <3>2 DEF MigrationApplied, Locked, Open
    <3> QED BY <1>0, <1>3, <3>1, <3>2, <3>3, <3>4, OneProcessMoves DEF MigrationApplied
  <2> QED BY <1>3, <2>1, <2>2, <2>3 DEF MigrationApplied
<1>4. CASE BeginMigration(p)
  BY <1>0, <1>1, <1>4 DEF BeginMigration, Phases, Starting, Locked, Open, Sound
<1>5. CASE ApplyMigration(p)
  <2>1. CASE Goes(p, "record") /\ UNCHANGED writer
    BY <1>0, <1>1, <1>5, <2>1 DEF ApplyMigration, Phases, Starting, Locked, Open, Sound
  <2> QED BY <1>2, <1>5, <2>1 DEF ApplyMigration, Fails, AfterFailure
<1>6. CASE RecordMigration(p)
  <2>1. CASE Recordable(Name(p)) /\ Goes(p, "commit") /\ UNCHANGED writer
    BY <1>0, <1>1, <1>6, <2>1 DEF RecordMigration, Recordable, Name, Phases, Starting, Locked, Open, Sound
  <2> QED BY <1>2, <1>6, <2>1 DEF RecordMigration, Fails, AfterFailure
<1>7. CASE MigrationBusy(p)
  BY <1>2, <1>7 DEF MigrationBusy, Fails, AfterFailure
<1>8. CASE PurgeAtStart(p)
  BY <1>0, <1>1, <1>8 DEF PurgeAtStart, Phases, Starting, Locked, Open, Sound
<1>9. CASE PurgeBusy(p)
  <2>1. Unlocked(p) = writer
    BY <1>9 DEF PurgeBusy, Unlocked, TypeOK
  <2> QED BY <1>2, <1>9, <2>1 DEF PurgeBusy
<1> QED BY <1>3, <1>4, <1>5, <1>6, <1>7, <1>8, <1>9 DEF Start

\* Committing a migration that was not recorded applies it once.
LEMMA CommittedOnce ==
  ASSUME NEW database \in Database, NEW name \in Names, name \notin database.recorded,
         \A n \in Names : database.effects[n] = (IF n \in database.recorded THEN 1 ELSE 0)
  PROVE  LET after == Committed(database, name) IN
         /\ after \in Database
         /\ after.recorded = database.recorded \cup {name}
         /\ \A n \in Names : after.effects[n] = (IF n \in after.recorded THEN 1 ELSE 0)
  BY DEF Committed, Database

LEMMA CommitKeeps ==
  ASSUME TypeOK, SchemaInv, NEW p \in Servers, CommitMigration(p)
  PROVE  TypeOK' /\ SchemaInv'
<1> USE LifecycleAssumption
<1>0. /\ server[p] \in Process /\ Sound(server[p], file) /\ server[p] # Down
      /\ server[p].phase = "commit" /\ writer = p
  BY Shapes DEF CommitMigration, Down, SchemaInv, TypeOK
<1>1. /\ server[p].next \in Nat /\ server[p].build \in Seq(Names)
      /\ server[p].next \in 1 .. Len(server[p].build) /\ Len(server[p].build) \in Nat
  BY <1>0, LenProperties DEF Process, Sound, Locked
<1>2. Name(p) \in Names /\ Name(p) \notin file.recorded
  BY <1>0, <1>1, ElementOfSeq DEF Name, Sound
<1>3. /\ file' \in Database /\ file'.recorded = file.recorded \cup {Name(p)}
      /\ \A n \in Names : file'.effects[n] = (IF n \in file'.recorded THEN 1 ELSE 0)
  BY <1>2, CommittedOnce DEF CommitMigration, TypeOK, SchemaInv, SchemaMatchesRecord
<1> DEFINE s == [server[p] EXCEPT !.phase = "check", !.next = @ + 1]
<1>4. server' = [server EXCEPT ![p] = s]
  BY <1>0 DEF CommitMigration, Further, TypeOK
<1>5. /\ s \in Process /\ s # Down /\ s.phase = "check" /\ s.next = server[p].next + 1
      /\ s.build = server[p].build /\ s.env = server[p].env
  BY <1>0, MovedFurther
<1> HIDE DEF s
<1>6. Sound(s, file')
  <2>1. s.next \in 1 .. Len(s.build) + 1
    BY <1>1, <1>5
  <2>2. ASSUME NEW i \in 1 .. s.next - 1 PROVE s.build[i] \in file'.recorded
    <3>1. i = server[p].next \/ i \in 1 .. server[p].next - 1
      BY <1>1, <1>5
    <3> QED BY <1>0, <1>3, <1>5, <3>1 DEF Sound, Name
  <2> QED BY <1>0, <1>5, <2>1, <2>2 DEF Sound, Locked, Open
<1>7. ASSUME NEW q \in Servers, q # p PROVE Sound(server[q], file') /\ server[q].phase \notin Locked
  <2>1. server[q].phase \notin Locked
    BY <1>0, <1>7 DEF TypeOK, Locked
  <2>2. Sound(server[q], file)
    BY DEF SchemaInv
  <2> QED BY <1>3, <2>1, <2>2 DEF Sound, Locked
<1>8. \A q \in Servers : Sound(server'[q], file')
  BY <1>4, <1>6, <1>7 DEF TypeOK
<1>9. SchemaMatchesRecord'
  BY <1>3 DEF CommitMigration, SchemaInv, SchemaMatchesRecord
<1>10. server' \in [Servers -> Process \cup {Down}]
  BY <1>4, <1>5 DEF TypeOK
<1>11. writer' \in Servers \cup {None} /\ \A q \in Servers : writer' = q <=> server'[q].phase \in Locked
  BY <1>4, <1>5, <1>7 DEF CommitMigration, TypeOK, Locked
<1>12. \A k \in Calls : call'[k] # Idle => server'[call'[k].at].phase \in Open
  BY <1>0, <1>4 DEF CommitMigration, TypeOK, Call, Open
<1>13. \A q \in Servers : server'[q] # Down =>
         Accepted(server'[q].env) /\ server'[q].next \in 1 .. Len(server'[q].build) + 1
  BY <1>8 DEF Sound
<1> QED BY <1>3, <1>8, <1>9, <1>10, <1>11, <1>12, <1>13
        DEF CommitMigration, TypeOK, SchemaInv, Up, Locked, Open

\* A process ends, other than in the middle of its start.
LEMMA EndKeeps ==
  ASSUME TypeOK, SchemaInv, NEW p \in Servers, Stop(p)
  PROVE  TypeOK' /\ SchemaInv'
<1> USE LifecycleAssumption
<1>0. /\ server[p] \in Process /\ Sound(server[p], file) /\ server[p] # Down /\ Up(p)
      /\ faults' \in 0 .. MaxFaults
  BY Shapes DEF Stop, StartFails, Terminate, Shutdown, Crash, Fault, Up, Down, Starting, SchemaInv, TypeOK
<1>1. Sound(Down, file) /\ Down.phase \notin Locked
  BY DEF Sound, Down, Locked
<1>2. CASE StartFails(p)
  <2>1. server[p].phase \notin Open
    BY <1>2 DEF StartFails, Starting, Open
  <2> QED BY <1>0, <1>1, <1>2, <2>1, OneProcessMoves DEF StartFails
<1>3. CASE Terminate(p)
  <2> DEFINE s == [server[p] EXCEPT !.phase = "draining"]
  <2>0. server[p].phase = "serving" /\ Goes(p, "draining") /\ "draining" \in Phases
    BY <1>3 DEF Terminate, Phases, Open
  <2>1. /\ s \in Process /\ s # Down /\ s.phase = "draining" /\ s.next = server[p].next
        /\ s.build = server[p].build /\ s.env = server[p].env
        /\ server' = [server EXCEPT ![p] = s]
    BY <1>0, <2>0, GoesOn, Moved
  <2>2. Sound(s, file)
    BY <1>0, <2>0, <2>1, SoundGoesOn DEF Locked, Open, Sound
  <2>3. s.phase \in Open /\ s.phase \notin Locked /\ server[p].phase \notin Locked
    BY <2>0, <2>1 DEF Locked, Open
  <2> HIDE DEF s
  <2> QED BY <1>0, <1>3, <2>1, <2>2, <2>3, OneProcessMoves DEF Terminate
<1>4. CASE Shutdown(p)
  <2>1. Unlocked(p) = writer
    BY <1>4 DEF Shutdown, Unlocked, TypeOK
  <2> QED BY <1>0, <1>1, <1>4, <2>1, OneProcessMoves DEF Shutdown
<1>5. CASE Crash(p)
  BY <1>0, <1>1, <1>5, OneProcessMoves DEF Crash
<1> QED BY <1>2, <1>3, <1>4, <1>5 DEF Stop

LEMMA LaunchKeeps ==
  ASSUME TypeOK, SchemaInv, NEW p \in Servers, NEW env \in Environments, NEW build \in Builds,
         Launch(p, env, build)
  PROVE  TypeOK' /\ SchemaInv'
<1> USE LifecycleAssumption
<1> DEFINE s == [phase |-> "check", env |-> env, build |-> build, next |-> 1, drained |-> 0]
<1>1. Len(build) \in Nat
  BY LenProperties
<1>2. s \in Process
  BY DEF Process, Starting
<1>3. s # Down /\ s.phase \notin Locked /\ server[p].phase \notin Locked \cup Open
  BY DEF Launch, Up, Down, Locked, Open
<1>4. Sound(s, file)
  BY <1>1 DEF Sound, Launch, Locked, Open
<1>5. faults' \in 0 .. MaxFaults /\ server' = [server EXCEPT ![p] = s]
  BY DEF Launch, TypeOK
<1> HIDE DEF s
<1> QED BY <1>2, <1>3, <1>4, <1>5, OneProcessMoves DEF Launch

\* Calls come, wait and go at processes that run.
LEMMA CallsKeep ==
  ASSUME TypeOK, SchemaInv, NEW k \in Calls,
         Serve(k) \/ \E p \in Servers : Begin(k, p)
  PROVE  TypeOK' /\ SchemaInv'
<1> USE LifecycleAssumption DEF TypeOK
<1>1. UNCHANGED <<file, disk, writer, server, bearer, faults>>
  BY DEF Serve, Begin, LinkedInAnswers, LinkedInRefuses, LinkedInThrottles, Resend, Record
<1>2. ASSUME NEW c \in Call \cup {Idle}, call' = [call EXCEPT ![k] = c],
             c # Idle => server[c.at].phase \in Open
      PROVE  TypeOK' /\ SchemaInv'
  <2>1. SchemaInv'
    BY <1>1 DEF SchemaInv, SchemaMatchesRecord
  <2>2. /\ call' \in [Calls -> Call \cup {Idle}]
        /\ \A j \in Calls : call'[j] # Idle => server'[call'[j].at].phase \in {"serving", "draining"}
    BY <1>1, <1>2 DEF Open
  <2>3. \A p \in Servers : Up(p)' <=> Up(p)
    BY <1>1 DEF Up
  <2> QED BY <1>1, <2>1, <2>2, <2>3
<1>3. ASSUME NEW pc \in {"send", "wait", "resend", "record"}, NEW left \in 0 .. Timeout + MaxWait,
             Moves(k, pc, left), call[k].pc # "idle"
      PROVE  TypeOK' /\ SchemaInv'
  <2> DEFINE c == [call[k] EXCEPT !.pc = pc, !.left = left]
  <2>0. call[k] \in Call /\ call[k] # Idle /\ server[call[k].at].phase \in Open
    BY <1>3 DEF Idle, Open
  <2>1. call' = [call EXCEPT ![k] = c]
    BY <1>3, <2>0 DEF Moves
  <2>2. c \in Call /\ c.at = call[k].at
    BY <2>0 DEF Call
  <2> HIDE DEF c
  <2> QED BY <1>2, <2>0, <2>1, <2>2
<1>4. ASSUME call' = [call EXCEPT ![k] = Idle] PROVE TypeOK' /\ SchemaInv'
  BY <1>2, <1>4
<1>5. CASE LinkedInAnswers(k) \/ Resend(k)
  BY <1>3, <1>5 DEF LinkedInAnswers, Resend
<1>6. CASE LinkedInRefuses(k) \/ Record(k)
  BY <1>4, <1>6 DEF LinkedInRefuses, Record
<1>7. ASSUME NEW delay \in 0 .. MaxWait, LinkedInThrottles(k, delay) PROVE TypeOK' /\ SchemaInv'
  BY <1>3, <1>7 DEF LinkedInThrottles
<1>8. ASSUME NEW p \in Servers, Begin(k, p) PROVE TypeOK' /\ SchemaInv'
  <2>1. [pc |-> "send", at |-> p, left |-> Timeout] \in Call
    BY DEF Call
  <2> QED BY <1>2, <1>8, <2>1 DEF Begin, Open
<1> QED BY <1>5, <1>6, <1>7, <1>8 DEF Serve

LEMMA PowerLossKeeps ==
  ASSUME TypeOK, SchemaInv, Checkpoint \/ PowerLoss
  PROVE  TypeOK' /\ SchemaInv'
<1> USE LifecycleAssumption
<1>1. CASE Checkpoint
  <2>1. SchemaInv'
    BY <1>1 DEF Checkpoint, SchemaInv, SchemaMatchesRecord
  <2>2. \A p \in Servers : Up(p)' <=> Up(p)
    BY <1>1 DEF Checkpoint, Up
  <2> QED BY <1>1, <2>1, <2>2 DEF Checkpoint, TypeOK
<1>2. CASE PowerLoss
  <2>1. \A p \in Servers : server'[p] = Down
    BY <1>2 DEF PowerLoss
  <2>2. SchemaInv'
    BY <1>2, <2>1 DEF PowerLoss, SchemaInv, SchemaMatchesRecord, Sound
  <2>3. call' = [k \in Calls |-> Idle]
    BY <1>2 DEF PowerLoss, Cut, TypeOK, Call
  <2>4. \A p \in Servers : ~Up(p)' /\ writer' # p /\ server'[p].phase \notin Locked
    BY <1>2, <2>1 DEF PowerLoss, Up, Down, Locked
  <2>5. server' \in [Servers -> Process \cup {Down}]
    BY <1>2 DEF PowerLoss
  <2> QED BY <1>2, <2>2, <2>3, <2>4, <2>5 DEF PowerLoss, TypeOK, Fault, Locked
<1> QED BY <1>1, <1>2

\* Tokens come and go, and time passes.
LEMMA TimeKeeps ==
  ASSUME TypeOK, SchemaInv,
         Expires \/ Tick \/ UNCHANGED vars \/ \E p \in Servers : MintAccessToken(p)
  PROVE  TypeOK' /\ SchemaInv'
<1> USE LifecycleAssumption
<1>1. ASSUME UNCHANGED <<file, disk, writer, server, call, faults>>,
             bearer' # None => /\ bearer'.env \in Environments /\ Accepted(bearer'.env)
                               /\ bearer' = TokenOf(bearer'.env)
      PROVE  TypeOK' /\ SchemaInv'
  <2>1. SchemaInv'
    BY <1>1 DEF SchemaInv, SchemaMatchesRecord
  <2>2. \A p \in Servers : Up(p)' <=> Up(p)
    BY <1>1 DEF Up
  <2> QED BY <1>1, <2>1, <2>2 DEF TypeOK
<1>2. CASE Expires
  BY <1>1, <1>2 DEF Expires
<1>3. CASE UNCHANGED vars
  BY <1>1, <1>3 DEF vars, TypeOK
<1>4. ASSUME NEW p \in Servers, MintAccessToken(p) PROVE TypeOK' /\ SchemaInv'
  <2>1. server[p] \in Process /\ Accepted(server[p].env) /\ server[p].env \in Environments
    BY <1>4, Shapes DEF MintAccessToken, TypeOK, Up, Down, Process
  <2>2. TokenOf(server[p].env).env = server[p].env
    BY DEF TokenOf
  <2> QED BY <1>1, <1>4, <2>1, <2>2 DEF MintAccessToken
<1>5. CASE Tick
  <2>1. ASSUME NEW p \in Servers
        PROVE  /\ server'[p] \in Process \cup {Down}
               /\ server'[p] = Down <=> server[p] = Down
               /\ server'[p].phase = server[p].phase
               /\ server[p] # Down => /\ server'[p].next = server[p].next
                                      /\ server'[p].build = server[p].build
                                      /\ server'[p].env = server[p].env
    <3>1. CASE p \in Draining
      <4> DEFINE s == [server[p] EXCEPT !.drained = @ + 1]
      <4>1. server[p] \in Process /\ server[p].drained \in 0 .. Grace - 1 /\ server[p] # Down
        BY <1>5, <3>1, Shapes DEF Tick, Draining, Process, Down
      <4>2. /\ s.phase = server[p].phase /\ s.next = server[p].next /\ s.build = server[p].build
            /\ s.env = server[p].env /\ s.drained = server[p].drained + 1
        BY <4>1 DEF Process
      <4>3. server[p].drained + 1 \in 0 .. Grace
        BY <4>1
      <4>4. s \in Process
        BY <4>1, <4>3 DEF Process
      <4>5. s # Down
        BY <3>1, <4>2 DEF Draining, Down
      <4>6. server'[p] = s
        BY <1>5, <3>1 DEF Tick
      <4> HIDE DEF s
      <4> QED BY <4>1, <4>2, <4>4, <4>5, <4>6
    <3>2. CASE p \notin Draining
      BY <1>5, <3>2, Shapes DEF Tick
    <3> QED BY <3>1, <3>2
  <2>2. server' \in [Servers -> Process \cup {Down}]
    BY <1>5, <2>1 DEF Tick
  <2>3. ASSUME NEW k \in Calls
        PROVE  /\ call'[k] \in Call \cup {Idle}
               /\ call'[k] # Idle => call[k] # Idle /\ call'[k].at = call[k].at
    <3>1. CASE k \in Timed
      <4>1. call[k] \in Call /\ call[k].left \in 0 .. Timeout + MaxWait /\ call[k].left > 0 /\ call[k] # Idle
        BY <1>5, <3>1 DEF Tick, Timed, TypeOK, Idle, Call
      <4>2. call[k].left - 1 \in 0 .. Timeout + MaxWait
        BY <4>1
      <4>3. call'[k] = [call[k] EXCEPT !.left = @ - 1]
        BY <1>5, <3>1 DEF Tick
      <4> QED BY <4>1, <4>2, <4>3 DEF Call
    <3>2. CASE k \notin Timed
      BY <1>5, <3>2 DEF Tick, TypeOK
    <3> QED BY <3>1, <3>2
  <2>4. call' \in [Calls -> Call \cup {Idle}]
    BY <1>5, <2>3 DEF Tick
  <2>5. \A k \in Calls : call'[k] # Idle => server'[call'[k].at].phase \in {"serving", "draining"}
    BY <2>1, <2>3 DEF TypeOK, Call
  <2>6. \A p \in Servers : Sound(server'[p], file')
    BY <1>5, <2>1 DEF Tick, SchemaInv, Sound
  <2>7. SchemaMatchesRecord'
    BY <1>5 DEF Tick, SchemaInv, SchemaMatchesRecord
  <2>8. \A p \in Servers : Up(p)' =>
          Accepted(server'[p].env) /\ server'[p].next \in 1 .. Len(server'[p].build) + 1
    BY <2>6 DEF Sound, Up
  <2> QED BY <1>5, <2>1, <2>2, <2>4, <2>5, <2>6, <2>7, <2>8 DEF Tick, TypeOK, SchemaInv
<1> QED BY <1>2, <1>3, <1>4, <1>5

LEMMA InvInit == Init => TypeOK /\ SchemaInv
<1> SUFFICES ASSUME Init PROVE TypeOK /\ SchemaInv
  OBVIOUS
<1> USE LifecycleAssumption DEF Init
<1>1. \A p \in Servers : ~Up(p) /\ writer # p /\ server[p].phase \notin Locked /\ Sound(server[p], file)
  BY DEF Up, Down, Locked, Sound
<1>2. Empty \in Database /\ \A n \in Names : Empty.effects[n] = 0 /\ n \notin Empty.recorded
  BY DEF Empty, Database
<1>3. SchemaMatchesRecord
  BY <1>2 DEF SchemaMatchesRecord
<1> QED BY <1>1, <1>2, <1>3 DEF TypeOK, SchemaInv, Locked

LEMMA InvStep == TypeOK /\ SchemaInv /\ [Next]_vars => TypeOK' /\ SchemaInv'
<1> SUFFICES ASSUME TypeOK, SchemaInv, [Next]_vars PROVE TypeOK' /\ SchemaInv'
  OBVIOUS
<1>1. ASSUME NEW p \in Servers, NEW env \in Environments, NEW build \in Builds, Launch(p, env, build)
      PROVE  TypeOK' /\ SchemaInv'
  BY <1>1, LaunchKeeps
<1>2. ASSUME NEW p \in Servers, Start(p) PROVE TypeOK' /\ SchemaInv'
  BY <1>2, StartsKeep, CommitKeeps
<1>3. ASSUME NEW p \in Servers, Stop(p) PROVE TypeOK' /\ SchemaInv'
  BY <1>3, EndKeeps
<1>4. ASSUME NEW p \in Servers, NEW k \in Calls, Begin(k, p) PROVE TypeOK' /\ SchemaInv'
  BY <1>4, CallsKeep
<1>5. ASSUME NEW k \in Calls, Serve(k) PROVE TypeOK' /\ SchemaInv'
  BY <1>5, CallsKeep
<1>6. CASE Checkpoint \/ PowerLoss
  BY <1>6, PowerLossKeeps
<1>7. CASE Expires \/ Tick \/ UNCHANGED vars \/ \E p \in Servers : MintAccessToken(p)
  BY <1>7, TimeKeeps
<1> QED BY <1>1, <1>2, <1>3, <1>4, <1>5, <1>6, <1>7 DEF Next

\* Processes, locks, calls and tokens keep their shapes, and only configurations
\* that Load accepts ever run.
THEOREM TypeCorrect == Spec => []TypeOK
<1> QED BY InvInit, InvStep, PTL DEF Spec

\* A migration's tables are there exactly when it is recorded, and once, in the
\* file and on the disk: for any number of processes that migrate it at a time.
THEOREM SchemaIsRecorded == Spec => []SchemaMatchesRecord
<1>1. SchemaInv => SchemaMatchesRecord
  BY DEF SchemaInv
<1> QED BY <1>1, InvInit, InvStep, PTL DEF Spec

\* Nobody serves on a schema that lacks a migration of its build.
THEOREM FullSchema == Spec => []ServesOnFullSchema
<1>1. ASSUME TypeOK, SchemaInv PROVE ServesOnFullSchema
  <2> SUFFICES ASSUME NEW p \in Servers, server[p].phase \in {"serving", "draining"},
                      NEW i \in DOMAIN server[p].build
               PROVE  server[p].build[i] \in file.recorded
    BY DEF ServesOnFullSchema
  <2>1. server[p] \in Process /\ server[p] # Down /\ server[p].build \in Seq(Names) /\ server[p].next \in Nat
    BY <1>1, Shapes DEF Down, Process
  <2>2. Sound(server[p], file)
    BY <1>1 DEF SchemaInv
  <2>3. server[p].next > Len(server[p].build)
    BY <2>1, <2>2 DEF Sound, Open
  <2>4. i \in 1 .. server[p].next - 1
    BY <2>1, <2>3, LenProperties
  <2> QED BY <2>1, <2>2, <2>4 DEF Sound
<1> QED BY <1>1, InvInit, InvStep, PTL DEF Spec

-----------------------------------------------------------------------------
(* Configurations: what is spelled differently and means the same, loads   *)
(* as the same.                                                            *)

LEMMA PublicURLIsCanonical ==
  ASSUME NEW env \in Environments, Accepted(env)
  PROVE  Load(env).publicURL =
           [scheme |-> "https", host |-> env.publicURL.host,
            capitals |-> env.publicURL.capitals, path |-> env.publicURL.path,
            query |-> FALSE, slash |-> FALSE]
<1>1. /\ env.publicURL # Unset /\ env.publicURL.scheme = "https" /\ ~env.publicURL.query
      /\ Load(env).publicURL = [env.publicURL EXCEPT !.slash = FALSE]
  BY DEF Accepted, parsePublicURL, Load
<1>2. env.publicURL \in URL
  BY <1>1, EnvironmentAssumption
<1> QED BY <1>1, <1>2 DEF URL

LEMMA PathIsKept ==
  ASSUME NEW env \in Environments, Accepted(env)
  PROVE  ~Load(env).publicURL.slash /\ Load(env).publicURL.path = env.publicURL.path
<1> DEFINE url == [scheme |-> "https", host |-> env.publicURL.host,
                   capitals |-> env.publicURL.capitals, path |-> env.publicURL.path,
                   query |-> FALSE, slash |-> FALSE]
<1>1. url.slash = FALSE /\ url.path = env.publicURL.path
  OBVIOUS
<1> HIDE DEF url
<1>2. Load(env).publicURL = url
  BY PublicURLIsCanonical DEF url
<1> QED BY <1>1, <1>2, Zenon

LEMMA SigningKeyIsItsBytes ==
  ASSUME NEW env \in Environments, Accepted(env)
  PROVE  Load(env).signingKey = env.signingKey.bytes
  BY DEF Accepted, decodeKey, decodeBase64, Load

LEMMA SameMeaningLoadsTheSame ==
  ASSUME NEW e \in Environments, NEW f \in Environments, Accepted(e), Accepted(f), SameMeaning(e, f)
  PROVE  Load(e).publicURL = Load(f).publicURL /\ Load(e).signingKey = Load(f).signingKey
<1> DEFINE Bare(env) == [env.publicURL EXCEPT !.slash = FALSE]
<1>1. Load(e).publicURL = Bare(e) /\ Load(f).publicURL = Bare(f)
  BY DEF Accepted, parsePublicURL, Load
<1> QED BY <1>1, SigningKeyIsItsBytes DEF SameMeaning

\* A token is good at every process whose configuration means the same as the
\* one of the process that signed it.
THEOREM TokensSurvive == Spec => []TokensSurviveRestarts
<1>1. ASSUME TypeOK PROVE TokensSurviveRestarts
  <2> SUFFICES ASSUME bearer # None, NEW p \in Servers, server[p].phase = "serving",
                      SameMeaning(server[p].env, bearer.env)
               PROVE  VerifyAccessToken(p, bearer)
    BY DEF TokensSurviveRestarts
  <2>1. /\ bearer.env \in Environments /\ Accepted(bearer.env) /\ bearer = TokenOf(bearer.env)
        /\ server[p].env \in Environments /\ Accepted(server[p].env)
    BY <1>1 DEF TypeOK, Process, Down, Up
  <2>2. /\ Load(server[p].env).publicURL = Load(bearer.env).publicURL
        /\ Load(server[p].env).signingKey = Load(bearer.env).signingKey
    BY <2>1, SameMeaningLoadsTheSame
  <2>3. /\ bearer.iss = Load(bearer.env).publicURL /\ bearer.key = Load(bearer.env).signingKey
        /\ bearer.aud = MCPResourceURL(Load(bearer.env))
    BY <2>1 DEF TokenOf
  <2> QED BY <2>2, <2>3 DEF VerifyAccessToken, MCPResourceURL
<1> QED BY <1>1, InvInit, InvStep, PTL DEF Spec

\* Where the routes are mounted at the root of the host that the addresses name.
LEMMA EveryAddressIsServed ==
  ASSUME NEW cfg, NEW other, cfg.publicURL = other.publicURL,
         ~cfg.publicURL.slash, ~cfg.publicURL.path, NEW use \in HandedOut(cfg)
  PROVE  Answers(other, use.method, use.address, use.handler)
<1> DEFINE Served(method, path, handler) ==
      \E route \in Mounts(other) :
        route.path = path /\ route.handler = handler /\ Matches(route, method)
<1>1. ASSUME NEW method, NEW path, NEW handler, Served(method, path, handler),
             use = Use(method, <<cfg.publicURL, path>>, handler)
      PROVE  Answers(other, use.method, use.address, use.handler)
  <2>1. use.method = method /\ use.address = <<cfg.publicURL, path>> /\ use.handler = handler
    BY <1>1 DEF Use
  <2>2. use.address[1] = cfg.publicURL /\ use.address[2] = path
    BY <2>1
  <2> QED BY <1>1, <2>1, <2>2 DEF Answers, Reaches
<1>2. ASSUME NEW path, NEW handler, Get(path, handler) \in Mounts(other)
      PROVE  Served("GET", path, handler)
  <2> WITNESS Get(path, handler) \in Mounts(other)
  <2> QED BY DEF Get, Matches
<1>3. ASSUME NEW path, NEW handler, Post(path, handler) \in Mounts(other)
      PROVE  Served("POST", path, handler)
  <2> WITNESS Post(path, handler) \in Mounts(other)
  <2> QED BY DEF Post, Matches
<1>4. Served("POST", "/mcp", "MCP")
  <2> DEFINE mcp == [method |-> "any", path |-> "/mcp", handler |-> "MCP"]
  <2>1. mcp \in Mounts(other)
    BY DEF Mounts
  <2> WITNESS mcp \in Mounts(other)
  <2> QED BY DEF Matches
<1>5. /\ Served("GET", "/.well-known/oauth-protected-resource", "ProtectedResourceMetadata")
      /\ Served("GET", "/.well-known/oauth-authorization-server", "AuthServerMetadata")
      /\ Served("GET", "/oauth/authorize", "Authorize")
      /\ Served("POST", "/oauth/token", "Token")
      /\ Served("POST", "/oauth/register", "Register")
      /\ Served("GET", "/linkedin/login", "LinkedInLogin")
      /\ Served("GET", "/linkedin/callback", "LinkedInCallback")
      /\ Served("GET", "/icon.png", "Icon")
  <2> HIDE DEF Served
  <2>1. /\ Get("/.well-known/oauth-protected-resource", "ProtectedResourceMetadata") \in Mounts(other)
        /\ Get("/.well-known/oauth-authorization-server", "AuthServerMetadata") \in Mounts(other)
        /\ Get("/oauth/authorize", "Authorize") \in Mounts(other)
        /\ Post("/oauth/token", "Token") \in Mounts(other)
        /\ Post("/oauth/register", "Register") \in Mounts(other)
        /\ Get("/linkedin/login", "LinkedInLogin") \in Mounts(other)
        /\ Get("/linkedin/callback", "LinkedInCallback") \in Mounts(other)
        /\ Get("/icon.png", "Icon") \in Mounts(other)
    BY DEF Mounts
  <2> QED BY <1>2, <1>3, <2>1
<1> HIDE DEF Served
<1>6. CASE use \in ProtectedResource(cfg)
  BY <1>1, <1>4, <1>5, <1>6 DEF ProtectedResource, ResourceMetadataURL, MCPResourceURL
<1>7. CASE use \in AuthServer(cfg)
  BY <1>1, <1>5, <1>7 DEF AuthServer
<1>8. CASE use \in SignInLinks(cfg)
  BY <1>1, <1>5, <1>8 DEF SignInLinks, LoginPath, RedirectURI
<1>9. CASE use = Icon(cfg)
  BY <1>1, <1>5, <1>9 DEF Icon
<1> QED BY <1>6, <1>7, <1>8, <1>9 DEF HandedOut

\* What a client discovered at one process is served by it, and by every later
\* one that means the same address, when that address is an origin.
THEOREM DiscoveryHome == Spec => []DiscoveryLeadsHome
<1>1. ASSUME NEW e \in Environments, NEW f \in Environments, Accepted(e), Accepted(f),
             Load(e).publicURL = Load(f).publicURL, ~e.publicURL.path
      PROVE  <<e, f>> \in Leads
  <2>1. ~Load(e).publicURL.slash /\ ~Load(e).publicURL.path
    BY <1>1, PathIsKept
  <2>2. \A use \in HandedOut(Load(e)) : Answers(Load(f), use.method, use.address, use.handler)
    BY <1>1, <2>1, EveryAddressIsServed
  <2> QED BY <1>1, <2>2 DEF Leads
<1>2. ASSUME TypeOK PROVE DiscoveryLeadsHome
  <2> SUFFICES ASSUME NEW p \in Servers, server[p].phase = "serving",
                      ~server[p].env.publicURL.path
               PROVE  /\ <<server[p].env, server[p].env>> \in Leads
                      /\ bearer # None /\ SameMeaning(server[p].env, bearer.env) =>
                           <<bearer.env, server[p].env>> \in Leads
    BY DEF DiscoveryLeadsHome
  <2>1. server[p].env \in Environments /\ Accepted(server[p].env)
    BY <1>2 DEF TypeOK, Process, Down, Up
  <2>2. bearer # None => bearer.env \in Environments /\ Accepted(bearer.env)
    BY <1>2 DEF TypeOK
  <2>3. ASSUME bearer # None, SameMeaning(server[p].env, bearer.env)
        PROVE  ~bearer.env.publicURL.path
    <3>1. /\ Load(server[p].env).publicURL.path = server[p].env.publicURL.path
          /\ Load(bearer.env).publicURL.path = bearer.env.publicURL.path
      BY <2>1, <2>2, <2>3, PathIsKept
    <3> QED BY <2>1, <2>2, <2>3, <3>1, SameMeaningLoadsTheSame
  <2> QED BY <1>1, <2>1, <2>2, <2>3, SameMeaningLoadsTheSame
<1> QED BY <1>2, InvInit, InvStep, PTL DEF Spec

\* Under no configuration does a handler that calls allowCORS see an OPTIONS
\* request: the branch it has for one is never taken.
LEMMA PreflightsUnrouted ==
  ASSUME NEW cfg, NEW address, NEW handler \in CrossOrigin
  PROVE  ~Answers(cfg, "OPTIONS", address, handler)
<1>1. ASSUME NEW route \in Mounts(cfg), route.handler = handler
      PROVE  route.method \in {"GET", "POST"}
  BY <1>1 DEF Mounts, relayHandler, Get, Post, CrossOrigin
<1>2. ASSUME NEW route, route.method \in {"GET", "POST"}
      PROVE  ~Matches(route, "OPTIONS")
  BY <1>2 DEF Matches
<1> QED BY <1>1, <1>2 DEF Answers
==============================================================================
