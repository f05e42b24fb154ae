---------------------------- MODULE PowerLossProofs ----------------------------
(***************************************************************************)
(* Theorems about PowerLoss for any sets of members, clients, secrets and  *)
(* requests, any lifetimes and any number of power losses.                 *)
(*                                                                         *)
(* What holds of SignIn still holds after a loss because it held when the  *)
(* tables on the disk were committed, and because what clients keep (the   *)
(* secrets drawn so far, where each comes from, and the access tokens)     *)
(* only grows.  AfterLoss is SignIn in the state a loss would leave.       *)
(***************************************************************************)
EXTENDS PowerLoss, SignInProofs

AfterLoss == INSTANCE SignInProofs WITH
  clients <- disk.clients, loginStates <- disk.loginStates, codes <- disk.codes,
  refreshTokens <- disk.refreshTokens, tenants <- disk.tenants,
  callback <- [k \in Callbacks |-> Idle], grant <- [g \in Grants |-> IdleGrant],
  purge <- Idle

-----------------------------------------------------------------------------
(* The inductive invariant.                                                *)

IsDisk ==
  disk = [clients |-> disk.clients, loginStates |-> disk.loginStates, codes |-> disk.codes,
          refreshTokens |-> disk.refreshTokens, tenants |-> disk.tenants]

\* The owners a tenant id was drawn for are the same on the disk: Isolation
\* of the disk by itself would let two members have one id.
OwnersInv ==
  \E own \in [TenantIDs -> Members \cup {None}] : OwnedBy(own) /\ AfterLoss!OwnedBy(own)

LossInv ==
  /\ IsDisk
  /\ TypeOK /\ AfterLoss!TypeOK
  /\ DrawnInv /\ AfterLoss!DrawnInv
  /\ OwnersInv
  /\ RequestInv /\ AfterLoss!RequestInv
  /\ RedirectInv /\ AfterLoss!RedirectInv
  /\ OneInv /\ AfterLoss!OneInv

\* The rows and locals have one shape, before and after.
LEMMA SameShapes ==
  /\ AfterLoss!LoginRow = LoginRow /\ AfterLoss!CodeRow = CodeRow
  /\ AfterLoss!RefreshRow = RefreshRow /\ AfterLoss!Claims = Claims
  /\ AfterLoss!CallbackLocal = CallbackLocal /\ AfterLoss!GrantLocal = GrantLocal
  /\ AfterLoss!PurgeLocal = PurgeLocal /\ AfterLoss!Origin = Origin
  /\ AfterLoss!Idle = Idle /\ AfterLoss!IdleGrant = IdleGrant
  /\ AfterLoss!NoRequest = NoRequest
<1>1. AfterLoss!Challenges = Challenges
  BY DEF AfterLoss!Challenges, AfterLoss!S256, Challenges, S256
<1>2. AfterLoss!Request = Request /\ AfterLoss!NoRequest = NoRequest
  BY <1>1 DEF AfterLoss!Request, Request, AfterLoss!NoRequest, NoRequest
<1> QED BY <1>1, <1>2
        DEF AfterLoss!LoginRow, AfterLoss!CodeRow, AfterLoss!RefreshRow, AfterLoss!Claims,
            AfterLoss!CallbackLocal, AfterLoss!GrantLocal, AfterLoss!PurgeLocal,
            AfterLoss!Origin, AfterLoss!Idle, AfterLoss!IdleGrant,
            LoginRow, CodeRow, RefreshRow, Claims, CallbackLocal, GrantLocal, PurgeLocal,
            Origin, Idle, IdleGrant

-----------------------------------------------------------------------------
(* A step of the server leaves the disk alone, and what clients keep grows. *)

\* Where a secret comes from is settled when it is drawn, and access tokens are
\* only answered together with a fresh refresh token.
LEMMA KeptGrows ==
  ASSUME TypeOK, DrawnInv, [Next]_vars
  PROVE  /\ drawn \subseteq drawn'
         /\ \A x \in Codes \cup RefreshTokens : lineage[x] # None => lineage'[x] = lineage[x]
<1> USE SignInAssumption, NoneIsNoRecord
<1>1. CASE Open
  BY <1>1 DEF Open, RegisterClient, Authorize, ReconnectURL, ParkLogin, Draw, history
<1>2. ASSUME NEW k \in Callbacks, Callback(k)
      PROVE  /\ drawn \subseteq drawn'
             /\ \A x \in Codes \cup RefreshTokens : lineage[x] # None => lineage'[x] = lineage[x]
  <2>1. ASSUME NEW c \in Codes, IssueAuthCode(k, c)
        PROVE  /\ drawn \subseteq drawn'
               /\ \A x \in Codes \cup RefreshTokens : lineage[x] # None => lineage'[x] = lineage[x]
    <3>1. IssueAuthCodeEffect(k, c)
      BY <2>1, IssueAuthCodeHasEffect
    <3> QED BY <3>1 DEF IssueAuthCodeEffect, DrawnInv
  <2>2. CASE ~\E c \in Codes : IssueAuthCode(k, c)
    BY <1>2, <2>2 DEF Callback, ConsumeState, LookupTenant, UpsertTenant, AbortCallback, Draw,
                      history
  <2> QED BY <2>1, <2>2
<1>3. ASSUME NEW g \in Grants, Token(g)
      PROVE  /\ drawn \subseteq drawn'
             /\ \A x \in Codes \cup RefreshTokens : lineage[x] # None => lineage'[x] = lineage[x]
  <2>1. ASSUME NEW r \in RefreshTokens, IssueTokens(g, r)
        PROVE  /\ drawn \subseteq drawn'
               /\ \A x \in Codes \cup RefreshTokens : lineage[x] # None => lineage'[x] = lineage[x]
    <3>1. IssueTokensEffect(g, r)
      BY <2>1, IssueTokensHasEffect
    <3> QED BY <3>1 DEF IssueTokensEffect, DrawnInv
  <2>2. CASE ~\E r \in RefreshTokens : IssueTokens(g, r)
    BY <1>3, <2>2 DEF Token, ConsumeAuthCode, RotateRefreshToken, AbortGrant, history
  <2> QED BY <2>1, <2>2
<1>4. CASE Purge
  BY <1>4, PurgeEffect
<1>5. CASE Tick \/ UNCHANGED vars
  BY <1>5 DEF Tick, vars, history
<1> QED BY <1>1, <1>2, <1>3, <1>4, <1>5 DEF Next

\* So what the disk holds keeps its origins and its owners.
LEMMA DiskStep ==
  ASSUME LossInv, [Next]_vars, disk' = disk, TypeOK', DrawnInv', RequestInv'
  PROVE  /\ AfterLoss!TypeOK' /\ AfterLoss!DrawnInv' /\ AfterLoss!RequestInv'
         /\ AfterLoss!RedirectInv' /\ AfterLoss!OneInv'
<1>1. /\ drawn \subseteq drawn'
      /\ \A x \in Codes \cup RefreshTokens : lineage[x] # None => lineage'[x] = lineage[x]
  BY KeptGrows DEF LossInv
<1>2. AfterLoss!TypeOK'
  BY SameShapes DEF LossInv, TypeOK, AfterLoss!TypeOK
<1>3. AfterLoss!DrawnInv'
  BY <1>1 DEF LossInv, DrawnInv, HasOrigin, AfterLoss!DrawnInv, AfterLoss!HasOrigin,
              AfterLoss!IdleGrant
<1>4. AfterLoss!RequestInv'
  BY <1>1 DEF LossInv, RequestInv, BoundToTheRequest, AfterLoss!RequestInv,
              AfterLoss!BoundToTheRequest, AfterLoss!DrawnInv, AfterLoss!HasOrigin,
              AfterLoss!IdleGrant
<1>5. AfterLoss!RedirectInv'
  BY DEF LossInv, AfterLoss!RedirectInv, AfterLoss!OnlyRegisteredRedirects, AfterLoss!Idle,
         AfterLoss!NoRequest
<1>6. AfterLoss!OneInv'
  BY <1>1 DEF LossInv, AfterLoss!OneInv, AfterLoss!Live, AfterLoss!InFlight,
              AfterLoss!DrawnInv, AfterLoss!HasOrigin, AfterLoss!IdleGrant
<1> QED BY <1>2, <1>3, <1>4, <1>5, <1>6

LEMMA ServerStep == LossInv /\ [Next]_vars /\ UNCHANGED durability => LossInv'
<1> SUFFICES ASSUME LossInv, [Next]_vars, UNCHANGED durability PROVE LossInv'
  OBVIOUS
<1> USE DEF LossInv
<1>1. disk' = disk /\ IsDisk'
  BY DEF durability, IsDisk
<1>2. TypeOK' /\ DrawnInv'
  BY TypeStep, DrawnStep
<1>3. RequestInv' /\ RedirectInv' /\ OneInv'
  BY RequestStep, RedirectStep, OneStep
<1>4. /\ AfterLoss!TypeOK' /\ AfterLoss!DrawnInv' /\ AfterLoss!RequestInv'
      /\ AfterLoss!RedirectInv' /\ AfterLoss!OneInv'
  BY <1>1, <1>2, <1>3, DiskStep
<1>5. OwnersInv'
  <2> PICK own \in [TenantIDs -> Members \cup {None}] : OwnedBy(own) /\ AfterLoss!OwnedBy(own)
    BY DEF OwnersInv
  <2>1. PICK owner \in [TenantIDs -> Members \cup {None}] :
          OwnedBy(owner)' /\ \A t \in drawn \cap TenantIDs : owner[t] = own[t]
    BY OwnersGrow
  <2>2. /\ drawn \subseteq drawn'
        /\ \A x \in Codes \cup RefreshTokens : lineage[x] # None => lineage'[x] = lineage[x]
    BY KeptGrows
  <2>3. /\ \A m \in Members : disk.tenants[m] # None => disk.tenants[m] \in TenantIDs
        /\ \A c \in Codes : disk.codes[c] # None =>
             disk.codes[c].tenant \in TenantIDs /\ lineage[c] # None
        /\ \A r \in RefreshTokens : disk.refreshTokens[r] # None =>
             disk.refreshTokens[r].tenant \in TenantIDs /\ lineage[r] # None
    BY SameShapes DEF AfterLoss!TypeOK, AfterLoss!DrawnInv, AfterLoss!HasOrigin, CodeRow, RefreshRow
  <2>4. AfterLoss!OwnedBy(owner)'
    BY <1>1, <2>1, <2>2, <2>3 DEF OwnedBy, AfterLoss!OwnedBy, AfterLoss!IdleGrant, Idle, IdleGrant
  <2> QED BY <2>1, <2>4 DEF OwnersInv
<1> QED BY <1>1, <1>2, <1>3, <1>4, <1>5

-----------------------------------------------------------------------------
(* What is committed reaches the disk as it is, and comes back as it was.  *)

LEMMA CheckpointStep == LossInv /\ Checkpoint => LossInv'
<1> SUFFICES ASSUME LossInv, Checkpoint PROVE LossInv'
  OBVIOUS
<1> USE DEF LossInv
<1>1. /\ UNCHANGED vars
      /\ disk' = [clients |-> clients, loginStates |-> loginStates, codes |-> codes,
                  refreshTokens |-> refreshTokens, tenants |-> tenants]
  BY DEF Checkpoint, Committed
<1>2. /\ disk'.clients = clients' /\ disk'.loginStates = loginStates' /\ disk'.codes = codes'
      /\ disk'.refreshTokens = refreshTokens' /\ disk'.tenants = tenants' /\ IsDisk'
  BY <1>1 DEF IsDisk, vars, tables
<1>3. TypeOK' /\ DrawnInv' /\ RequestInv' /\ RedirectInv' /\ OneInv'
  BY <1>1, TypeStep, DrawnStep, RequestStep, RedirectStep, OneStep
<1>4. AfterLoss!TypeOK'
  BY <1>2, <1>3, SameShapes DEF TypeOK, AfterLoss!TypeOK
<1>5. AfterLoss!DrawnInv'
  BY <1>2, <1>3 DEF DrawnInv, HasOrigin, AfterLoss!DrawnInv, AfterLoss!HasOrigin,
                    AfterLoss!IdleGrant, IdleGrant
<1>6. AfterLoss!RequestInv'
  BY <1>2, <1>3 DEF RequestInv, BoundToTheRequest, AfterLoss!RequestInv,
                    AfterLoss!BoundToTheRequest, AfterLoss!IdleGrant, IdleGrant
<1>7. AfterLoss!RedirectInv'
  BY <1>2, <1>3, SameShapes DEF RedirectInv, OnlyRegisteredRedirects, AfterLoss!RedirectInv,
                    AfterLoss!OnlyRegisteredRedirects
<1>8. AfterLoss!OneInv'
  BY <1>2, <1>3 DEF OneInv, Live, InFlight, AfterLoss!OneInv, AfterLoss!Live,
                    AfterLoss!InFlight, AfterLoss!IdleGrant, IdleGrant
<1>9. OwnersInv'
  <2> PICK own \in [TenantIDs -> Members \cup {None}] : OwnedBy(own)
    BY DEF OwnersInv
  <2>1. OwnedBy(own)'
    BY <1>1 DEF OwnedBy, vars, tables, history
  <2>2. AfterLoss!OwnedBy(own)'
    BY <1>2, <2>1 DEF OwnedBy, AfterLoss!OwnedBy, AfterLoss!IdleGrant, Idle, IdleGrant
  <2> QED BY <2>1, <2>2 DEF OwnersInv
<1> QED BY <1>2, <1>3, <1>4, <1>5, <1>6, <1>7, <1>8, <1>9

LEMMA LoseStep == LossInv /\ Lose => LossInv'
<1> SUFFICES ASSUME LossInv, Lose PROVE LossInv'
  OBVIOUS
<1> USE DEF LossInv
<1>1. /\ clients' = disk.clients /\ loginStates' = disk.loginStates /\ codes' = disk.codes
      /\ refreshTokens' = disk.refreshTokens /\ tenants' = disk.tenants
      /\ callback' = [k \in Callbacks |-> Idle] /\ grant' = [g \in Grants |-> IdleGrant]
      /\ purge' = Idle /\ UNCHANGED <<now, accessTokens, drawn, lineage, disk>> /\ IsDisk'
  BY DEF Lose, history, IsDisk
<1>2. TypeOK' /\ AfterLoss!TypeOK'
  BY <1>1, SameShapes DEF TypeOK, AfterLoss!TypeOK
<1>3. DrawnInv' /\ AfterLoss!DrawnInv'
  BY <1>1, SameShapes DEF DrawnInv, HasOrigin, AfterLoss!DrawnInv, AfterLoss!HasOrigin
<1>4. RequestInv' /\ AfterLoss!RequestInv'
  BY <1>1, SameShapes DEF RequestInv, BoundToTheRequest, AfterLoss!RequestInv,
                          AfterLoss!BoundToTheRequest
<1>5. RedirectInv' /\ AfterLoss!RedirectInv'
  BY <1>1, SameShapes DEF RedirectInv, OnlyRegisteredRedirects, AfterLoss!RedirectInv,
                          AfterLoss!OnlyRegisteredRedirects
<1>6. OneInv' /\ AfterLoss!OneInv'
  BY <1>1, SameShapes DEF OneInv, Live, InFlight, AfterLoss!OneInv, AfterLoss!Live,
                          AfterLoss!InFlight
<1>7. OwnersInv'
  <2> PICK own \in [TenantIDs -> Members \cup {None}] : AfterLoss!OwnedBy(own)
    BY DEF OwnersInv
  <2>1. OwnedBy(own)' /\ AfterLoss!OwnedBy(own)'
    BY <1>1, SameShapes DEF OwnedBy, AfterLoss!OwnedBy
  <2> QED BY <2>1 DEF OwnersInv
<1> QED BY <1>1, <1>2, <1>3, <1>4, <1>5, <1>6, <1>7
-----------------------------------------------------------------------------
(* The theorems.                                                           *)

LEMMA LossInvInit == LossInit => LossInv
<1> SUFFICES ASSUME LossInit PROVE LossInv
  OBVIOUS
<1> USE SignInAssumption
<1>1. /\ Init
      /\ disk = [clients |-> clients, loginStates |-> loginStates, codes |-> codes,
                 refreshTokens |-> refreshTokens, tenants |-> tenants]
  BY DEF LossInit, Committed
<1>2. TypeOK /\ DrawnInv /\ OwnerInv /\ RequestInv /\ OneInv
  BY <1>1, TypeInit, InitialInvariants
<1>3. RedirectInv
  BY <1>1 DEF Init, RedirectInv, OnlyRegisteredRedirects, Idle
<1>4. /\ disk.clients = clients /\ disk.loginStates = loginStates /\ disk.codes = codes
      /\ disk.refreshTokens = refreshTokens /\ disk.tenants = tenants /\ IsDisk
      /\ callback = [k \in Callbacks |-> Idle] /\ grant = [g \in Grants |-> IdleGrant]
      /\ purge = Idle
  BY <1>1 DEF IsDisk, Init
<1>5. AfterLoss!TypeOK
  BY <1>2, <1>4, SameShapes DEF TypeOK, AfterLoss!TypeOK
<1>6. AfterLoss!DrawnInv
  BY <1>2, <1>4, SameShapes DEF DrawnInv, HasOrigin, AfterLoss!DrawnInv, AfterLoss!HasOrigin
<1>7. AfterLoss!RequestInv
  BY <1>2, <1>4, SameShapes DEF RequestInv, BoundToTheRequest, AfterLoss!RequestInv,
                                AfterLoss!BoundToTheRequest
<1>8. AfterLoss!RedirectInv
  BY <1>3, <1>4, SameShapes DEF RedirectInv, OnlyRegisteredRedirects, AfterLoss!RedirectInv,
                                AfterLoss!OnlyRegisteredRedirects
<1>9. AfterLoss!OneInv
  BY <1>2, <1>4, SameShapes DEF OneInv, Live, InFlight, AfterLoss!OneInv, AfterLoss!Live,
                                AfterLoss!InFlight
<1>10. OwnersInv
  <2> PICK own \in [TenantIDs -> Members \cup {None}] : OwnedBy(own)
    BY <1>2 DEF OwnerInv
  <2>1. AfterLoss!OwnedBy(own)
    BY <1>4, SameShapes DEF OwnedBy, AfterLoss!OwnedBy
  <2> QED BY <2>1 DEF OwnersInv
<1> QED BY <1>2, <1>3, <1>4, <1>5, <1>6, <1>7, <1>8, <1>9, <1>10 DEF LossInv

LEMMA LossInvariant == LossSpec => []LossInv
<1>1. LossInv /\ [LossNext]_<<vars, durability>> => LossInv'
  <2> SUFFICES ASSUME LossInv, [LossNext]_<<vars, durability>> PROVE LossInv'
    OBVIOUS
  <2>1. CASE Step \/ UNCHANGED <<vars, durability>>
    BY <2>1, ServerStep DEF Step
  <2>2. CASE Checkpoint \/ Lose
    BY <2>2, CheckpointStep, LoseStep
  <2> QED BY <2>1, <2>2 DEF LossNext
<1> QED BY <1>1, LossInvInit, PTL DEF LossSpec

\* Rows and locals keep their shape, whatever a power loss brings back.
THEOREM LossTypeCorrect == LossSpec => []TypeOK
<1>1. LossInv => TypeOK
  BY DEF LossInv
<1> QED BY <1>1, LossInvariant, PTL

\* Losing the newest commits never makes a credential that a client kept name
\* another member's row: an id that was lost is not drawn again.
THEOREM LossIsolates == LossSpec => []Isolation
<1>1. LossInv => Isolation
  BY OwnersIsolate DEF LossInv, OwnersInv, OwnerInv
<1> QED BY <1>1, LossInvariant, PTL

\* A power loss may bring a spent code or refresh token back, but takes back
\* everything that came of it with it: a sign-in never has two live credentials.
THEOREM LossLeavesOneCredential == LossSpec => []OneLiveCredentialPerSignIn
<1>1. LossInv => OneLiveCredentialPerSignIn
  BY OneAtATime DEF LossInv
<1> QED BY <1>1, LossInvariant, PTL

\* A sign-in that goes on after a loss ends at a URI whose registration was not
\* lost.
THEOREM LossKeepsRedirects == LossSpec => []OnlyRegisteredRedirects
<1>1. LossInv => OnlyRegisteredRedirects
  BY DEF LossInv, RedirectInv
<1> QED BY <1>1, LossInvariant, PTL

\* Tokens still go to the client that asked for the sign-in: a code brought
\* back by a loss is bound to the request it was bound to.
THEOREM LossKeepsTheRequest == LossSpec => []BoundToTheRequest
<1>1. LossInv => BoundToTheRequest
  BY DEF LossInv, RequestInv
<1> QED BY <1>1, LossInvariant, PTL
================================================================================
