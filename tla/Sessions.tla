------------------------------ MODULE Sessions ------------------------------
(***************************************************************************)
(* What the authorization server promises an MCP client, whatever the      *)
(* interleaving: a sign-in opens one session; the session has one key at a *)
(* time, first the authorization code, then one refresh token after the    *)
(* other; spending a key either yields the next one or ends the session;   *)
(* no key ever opens a session twice.                                      *)
(***************************************************************************)
CONSTANTS SignIns,   \* the sign-ins; each is named by its authorization code
          Keys,      \* every key a session can have
          Owners,    \* who a session belongs to
          NoOwner    \* nobody yet

VARIABLES session,   \* the phase of each sign-in, and its key while it has one
          owner,     \* whom a session was opened for
          usedKeys   \* the keys handed out so far

vars == <<session, owner, usedKeys>>

Unopened == [phase |-> "unopened"]
Held(k)  == [phase |-> "held", key |-> k]
Spending == [phase |-> "spending"]
Closed   == [phase |-> "closed"]

Init ==
  /\ session = [s \in SignIns |-> Unopened]
  /\ owner = [s \in SignIns |-> NoOwner]
  /\ usedKeys = {}

HandOut(s, k) ==
  /\ k \notin usedKeys
  /\ usedKeys' = usedKeys \cup {k}
  /\ session' = [session EXCEPT ![s] = Held(k)]

Open(s, k, o) ==
  /\ session[s] = Unopened
  /\ HandOut(s, k)
  /\ owner' = [owner EXCEPT ![s] = o]

\* The key is presented and found good.
Spend(s) ==
  /\ session[s].phase = "held"
  /\ session' = [session EXCEPT ![s] = Spending]
  /\ UNCHANGED <<owner, usedKeys>>

Renew(s, k) ==
  /\ session[s] = Spending
  /\ HandOut(s, k)
  /\ UNCHANGED owner

\* The key is burnt by a bad request, a failure loses it, or keys expire: one
\* purge may end several sessions.
Close(S) ==
  /\ \A s \in S : session[s].phase \in {"held", "spending"}
  /\ session' = [s \in SignIns |-> IF s \in S THEN Closed ELSE session[s]]
  /\ UNCHANGED <<owner, usedKeys>>

Next ==
  \/ \E s \in SignIns, k \in Keys, o \in Owners : Open(s, k, o)
  \/ \E s \in SignIns : Spend(s)
  \/ \E s \in SignIns, k \in Keys : Renew(s, k)
  \/ \E S \in SUBSET SignIns : Close(S)

Spec == Init /\ [][Next]_vars
=============================================================================
