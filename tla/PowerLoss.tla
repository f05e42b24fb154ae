------------------------------ MODULE PowerLoss ------------------------------
(***************************************************************************)
(* SignIn on a machine that may lose power.  The database runs with        *)
(* journal_mode = WAL and synchronous = NORMAL (internal/adapters/sqlite/  *)
(* db.go): a commit survives the end of the process, but the newest ones   *)
(* are only sure to be on the disk after a checkpoint.  A power loss ends  *)
(* every request and takes the tables back to an earlier commit, while     *)
(* what clients hold (access tokens, spent and unspent secrets) stays with *)
(* them.                                                                   *)
(***************************************************************************)
EXTENDS SignIn

CONSTANT MaxLosses   \* bound: how often the power is lost

ASSUME PowerLossAssumption == MaxLosses \in Nat

VARIABLES
  disk,    \* the tables a power loss spares
  losses,  \* how many there have been
  gone     \* the client ids whose registration was lost

durability == <<disk, losses, gone>>

\* What database/sql has committed so far.
Committed ==
  [clients |-> clients, loginStates |-> loginStates, codes |-> codes,
   refreshTokens |-> refreshTokens, tenants |-> tenants]

LossInit == Init /\ disk = Committed /\ losses = 0 /\ gone = {}

\* A client id is random: one that was lost is not drawn again.
Step ==
  /\ Next
  /\ \A c \in gone : clients'[c] = {}
  /\ UNCHANGED durability

\* The log reaches the disk, with everything committed up to here.
Checkpoint ==
  /\ losses < MaxLosses /\ disk # Committed
  /\ disk' = Committed
  /\ UNCHANGED <<vars, losses, gone>>

Lose ==
  /\ losses < MaxLosses
  /\ losses' = losses + 1
  /\ clients' = disk.clients /\ loginStates' = disk.loginStates
  /\ codes' = disk.codes /\ refreshTokens' = disk.refreshTokens
  /\ tenants' = disk.tenants
  /\ gone' = gone \cup {c \in Clients : clients[c] # disk.clients[c]}
  /\ callback' = [k \in Callbacks |-> Idle]
  /\ grant' = [g \in Grants |-> IdleGrant]
  /\ purge' = Idle
  /\ UNCHANGED <<now, accessTokens, history, disk>>

LossNext == Step \/ Checkpoint \/ Lose

LossSpec == LossInit /\ [][LossNext]_<<vars, durability>>
=============================================================================
