---------------------------- MODULE SignInProofs ----------------------------
(***************************************************************************)
(* Theorems about SignIn for any sets of members, clients, secrets and     *)
(* requests, and any lifetimes.                                            *)
(***************************************************************************)
EXTENDS SignIn, TLAPS

-----------------------------------------------------------------------------
(* Rows.                                                                   *)

\* Revoking a refresh token row moves the revoked column and nothing else.
LEMMA RevokedRow ==
  ASSUME NEW row \in RefreshRow
  PROVE  /\ Revoked(row) \in RefreshRow
         /\ Revoked(row).client = row.client /\ Revoked(row).tenant = row.tenant
         /\ Revoked(row).exp = row.exp /\ Revoked(row).revoked = TRUE
  BY DEF RefreshRow, Revoked

-----------------------------------------------------------------------------
(* Type correctness.                                                       *)

LEMMA TypeInit == Init => TypeOK
  BY SignInAssumption DEF Init, TypeOK, Idle, IdleGrant

LEMMA TypeStep == TypeOK /\ [Next]_vars => TypeOK'
<1> SUFFICES ASSUME TypeOK, [Next]_vars PROVE TypeOK'
  OBVIOUS
<1> USE SignInAssumption DEF TypeOK
<1>1. CASE Open
  <2>1. ASSUME NEW c \in Clients, NEW uris \in SUBSET RedirectURIs, RegisterClient(c, uris)
        PROVE TypeOK'
    BY <2>1 DEF RegisterClient, history
  <2>2. ASSUME NEW s \in States, NEW req \in Request \cup {NoRequest}, ParkLogin(s, req)
        PROVE TypeOK'
    <3>1. [req |-> req, exp |-> now + LoginStateTTL] \in LoginRow
      BY DEF LoginRow
    <3> QED BY <2>2, <3>1 DEF ParkLogin, Draw
  <2> QED BY <1>1, <2>1, <2>2 DEF Open, Authorize, ReconnectURL
<1>2. ASSUME NEW k \in Callbacks, Callback(k) PROVE TypeOK'
  <2>1. ASSUME NEW s \in States, NEW denied \in BOOLEAN, ConsumeState(k, s, denied)
        PROVE TypeOK'
    BY <2>1 DEF ConsumeState, history, CallbackLocal, LoginRow
  <2>2. ASSUME NEW m \in Members, NEW t \in TenantIDs, LookupTenant(k, m, t)
        PROVE TypeOK'
    BY <2>2 DEF LookupTenant, TenantByMemberID, tables, CallbackLocal, Idle, Draw
  <2>3. CASE UpsertTenant(k)
    BY <2>3 DEF UpsertTenant, OnConflict, IsReconnect, history, CallbackLocal, Idle
  <2>4. ASSUME NEW c \in Codes, IssueAuthCode(k, c) PROVE TypeOK'
    BY <2>4 DEF IssueAuthCode, AuthCode, CodeFor, CallbackLocal, Idle, Draw, CodeRow, Origin, Request
  <2>5. CASE AbortCallback(k)
    BY <2>5 DEF AbortCallback, tables, history, Idle
  <2> QED BY <1>2, <2>1, <2>2, <2>3, <2>4, <2>5 DEF Callback
<1>3. ASSUME NEW g \in Grants, Token(g) PROVE TypeOK'
  <2>1. ASSUME NEW c \in Codes, NEW client \in Clients, NEW uri \in RedirectURIs,
               NEW v \in Verifiers, ConsumeAuthCode(g, c, client, uri, v)
        PROVE TypeOK'
    BY <2>1 DEF ConsumeAuthCode, SameClient, history, GrantLocal, CodeRow, IdleGrant, Challenges
  <2>2. ASSUME NEW r \in RefreshTokens, NEW client \in Clients, NEW at \in 0..now,
               RotateRefreshToken(g, r, client, at)
        PROVE TypeOK'
    <3>1. refreshTokens[r] \in RefreshRow
      BY <2>2 DEF RotateRefreshToken
    <3>2. Revoked(refreshTokens[r]) \in RefreshRow
      BY <3>1, RevokedRow
    <3>3. refreshTokens' \in [RefreshTokens -> RefreshRow \cup {None}]
      BY <2>2, <3>2 DEF RotateRefreshToken
    <3>4. grant' \in [Grants -> GrantLocal \cup {IdleGrant}]
      BY <2>2, <3>1 DEF RotateRefreshToken, SameClient, GrantLocal, RefreshRow, IdleGrant
    <3> QED BY <2>2, <3>3, <3>4 DEF RotateRefreshToken, history
  <2>3. ASSUME NEW r \in RefreshTokens, IssueTokens(g, r) PROVE TypeOK'
    BY <2>3 DEF IssueTokens, Draw, GrantLocal, RefreshRow, Claims, IdleGrant
  <2>4. CASE AbortGrant(g)
    BY <2>4 DEF AbortGrant, tables, history
  <2> QED BY <1>3, <2>1, <2>2, <2>3, <2>4 DEF Token
<1>4. CASE Purge
  <2>1. CASE PurgeStart
    BY <2>1 DEF PurgeStart, tables, history, PurgeLocal
  <2>2. CASE PurgeCodes
    BY <2>2 DEF PurgeCodes, history, PurgeLocal, Purged, Idle
  <2>3. CASE PurgeStates
    BY <2>3 DEF PurgeStates, history, PurgeLocal, Purged, Idle
  <2>4. CASE PurgeTokens
    BY <2>4 DEF PurgeTokens, history, Purged
  <2>5. CASE PurgeFail
    BY <2>5 DEF PurgeFail, tables, history
  <2> QED BY <1>4, <2>1, <2>2, <2>3, <2>4, <2>5 DEF Purge
<1>5. CASE Tick
  BY <1>5 DEF Tick, tables, history
<1>6. CASE UNCHANGED vars
  BY <1>6 DEF vars, tables, history
<1> QED BY <1>1, <1>2, <1>3, <1>4, <1>5, <1>6 DEF Next

\* Every row and every handler's locals keep their shape: in particular a code
\* is only ever issued for a parked request that came from a client.
THEOREM TypeCorrect == Spec => []TypeOK
  BY TypeInit, TypeStep, PTL DEF Spec

-----------------------------------------------------------------------------
(* The inductive invariants.                                               *)

\* Whatever a row or a request in flight goes by has been drawn, and comes
\* from a sign-in whose own code has been drawn.
HasOrigin(x) == /\ x \in Codes \cup RefreshTokens
                /\ x \in drawn /\ lineage[x] # None
DrawnInv ==
  /\ \A x \in Codes \cup RefreshTokens : lineage[x] # None =>
       x \in drawn /\ lineage[x].code \in drawn /\ lineage[lineage[x].code] # None
  /\ \A c \in Codes : lineage[c] # None => lineage[c].code = c
  /\ \A c \in Codes : codes[c] # None => HasOrigin(c)
  /\ \A g \in Grants : grant[g] # IdleGrant => HasOrigin(grant[g].from)
  /\ \A r \in RefreshTokens : refreshTokens[r] # None => HasOrigin(r)
  /\ \A r \in RefreshTokens : accessTokens[r] # None => HasOrigin(r)

\* Every tenant id in circulation was drawn for one member: "own" says whom.
\* Isolation alone is not inductive, because it says nothing of an id that
\* names no row yet, nor of the callbacks that carry it.
OwnedBy(own) ==
  /\ \A m \in Members : tenants[m] # None =>
       tenants[m] \in drawn /\ own[tenants[m]] = m
  /\ \A k \in Callbacks : callback[k].pc \in {"upsert", "issue"} =>
       callback[k].tenant \in drawn /\ own[callback[k].tenant] = callback[k].member
  /\ \A c \in Codes : codes[c] # None =>
       codes[c].tenant \in drawn /\ own[codes[c].tenant] = lineage[c].member
  /\ \A g \in Grants : grant[g] # IdleGrant =>
       grant[g].tenant \in drawn /\ own[grant[g].tenant] = lineage[grant[g].from].member
  /\ \A r \in RefreshTokens : refreshTokens[r] # None =>
       refreshTokens[r].tenant \in drawn /\ own[refreshTokens[r].tenant] = lineage[r].member
  /\ \A r \in RefreshTokens : accessTokens[r] # None =>
       accessTokens[r].sub \in drawn /\ own[accessTokens[r].sub] = lineage[r].member
OwnerInv == \E own \in [TenantIDs -> Members \cup {None}] : OwnedBy(own)

\* BoundToTheRequest, and what it needs of the codes still to be spent.
RequestInv ==
  /\ BoundToTheRequest
  /\ \A c \in Codes : codes[c] # None =>
       /\ codes[c].client = lineage[c].req.client
       /\ codes[c].challenge = lineage[c].req.challenge

\* OnlyRegisteredRedirects, from the moment the request is parked.
RedirectInv ==
  /\ OnlyRegisteredRedirects
  /\ \A s \in States : loginStates[s] # None /\ loginStates[s].req # NoRequest
       => loginStates[s].req.uri \in clients[loginStates[s].req.client]

\* The clock reading the purge works with is never ahead of the clock.
PurgeInv == purge # Idle => purge.at <= now

\* OneLiveCredentialPerSignIn, case by case.
OneInv ==
  /\ \A c \in Codes : codes[c] # None =>
       /\ \A r \in RefreshTokens : ~Live(r, c)
       /\ \A g \in Grants : ~InFlight(g, c)
  /\ \A c \in Codes, r \in RefreshTokens, g \in Grants : ~(Live(r, c) /\ InFlight(g, c))
  /\ \A c \in Codes, r1, r2 \in RefreshTokens : Live(r1, c) /\ Live(r2, c) => r1 = r2
  /\ \A c \in Codes, g1, g2 \in Grants : InFlight(g1, c) /\ InFlight(g2, c) => g1 = g2

-----------------------------------------------------------------------------
(* What the steps that move credentials do, row by row.                    *)

IssueAuthCodeEffect(k, c) ==
  /\ callback[k].pc = "issue" /\ callback[k].req \in Request
  /\ c \notin drawn /\ drawn' = drawn \cup {c}
  /\ codes'[c].client = callback[k].req.client
  /\ codes'[c].challenge = callback[k].req.challenge
  /\ codes'[c].tenant = callback[k].tenant
  /\ codes'[c] # None /\ lineage'[c] # None
  /\ lineage'[c] \in Origin /\ lineage'[c].code = c
  /\ lineage'[c].req = callback[k].req /\ lineage'[c].member = callback[k].member
  /\ \A x \in Codes : x # c => codes'[x] = codes[x]
  /\ \A x \in Codes \cup RefreshTokens : x # c => lineage'[x] = lineage[x]
  /\ \A j \in Callbacks : j # k => callback'[j] = callback[j]
  /\ callback'[k] = Idle
  /\ UNCHANGED <<refreshTokens, accessTokens, grant, tenants>>
LEMMA IssueAuthCodeHasEffect ==
  ASSUME TypeOK, NEW k \in Callbacks, NEW c \in Codes, IssueAuthCode(k, c)
  PROVE  IssueAuthCodeEffect(k, c)
<1>1. callback[k] \in [pc: {"issue"}, req: Request, member: AllowedMembers, tenant: TenantIDs]
  BY DEF IssueAuthCode, AuthCode, CodeFor, TypeOK, CallbackLocal, Idle
<1>2. /\ c \notin drawn /\ drawn' = drawn \cup {c}
      /\ UNCHANGED <<refreshTokens, accessTokens, grant, tenants>>
  BY DEF IssueAuthCode, AuthCode, CodeFor, Draw, Fresh
<1>3. /\ callback' = [callback EXCEPT ![k] = Idle]
      /\ lineage' = [lineage EXCEPT ![c] = [code |-> c, req |-> callback[k].req,
                                            member |-> callback[k].member]]
      /\ codes' = [codes EXCEPT ![c] = CodeFor(callback[k].req, callback[k].tenant)]
  BY DEF IssueAuthCode, AuthCode
<1>4. /\ [code |-> c, req |-> callback[k].req, member |-> callback[k].member] \in Origin
      /\ CodeFor(callback[k].req, callback[k].tenant) \in CodeRow
  BY <1>1, SignInAssumption DEF Origin, CodeRow, CodeFor, Request, TypeOK
<1> QED BY <1>1, <1>2, <1>3, <1>4, NoneIsNoRecord DEF TypeOK, IssueAuthCodeEffect, CodeFor

ConsumeAuthCodeEffect(g, c) ==
  /\ codes[c] \in CodeRow /\ codes[c] # None /\ codes'[c] = None
  /\ \A x \in Codes : x # c => codes'[x] = codes[x]
  /\ grant[g] = IdleGrant
  /\ \A h \in Grants : h # g => grant'[h] = grant[h]
  /\ grant'[g] # IdleGrant =>
       /\ grant'[g].from = c /\ grant'[g].tenant = codes[c].tenant
       /\ grant'[g].client = codes[c].client /\ grant'[g].caller = codes[c].client
       /\ grant'[g].shown = codes[c].challenge
  /\ UNCHANGED <<refreshTokens, accessTokens, callback, tenants, drawn, lineage>>
LEMMA ConsumeAuthCodeHasEffect ==
  ASSUME TypeOK, NEW g \in Grants, NEW c \in Codes, NEW client \in Clients,
         NEW uri \in RedirectURIs, NEW v \in Verifiers,
         ConsumeAuthCode(g, c, client, uri, v)
  PROVE  ConsumeAuthCodeEffect(g, c)
  BY DEF ConsumeAuthCode, SameClient, TypeOK, history, IdleGrant, ConsumeAuthCodeEffect

RotateRefreshTokenEffect(g, r) ==
  /\ refreshTokens[r] \in RefreshRow /\ refreshTokens[r] # None
  /\ ~refreshTokens[r].revoked
  /\ refreshTokens'[r] = Revoked(refreshTokens[r])
  /\ refreshTokens'[r].client = refreshTokens[r].client
  /\ refreshTokens'[r].tenant = refreshTokens[r].tenant
  /\ refreshTokens'[r].revoked = TRUE
  /\ \A x \in RefreshTokens : x # r => refreshTokens'[x] = refreshTokens[x]
  /\ grant[g] = IdleGrant
  /\ \A h \in Grants : h # g => grant'[h] = grant[h]
  /\ grant'[g] # IdleGrant =>
       /\ grant'[g].from = r /\ grant'[g].tenant = refreshTokens[r].tenant
       /\ grant'[g].client = refreshTokens[r].client
       /\ grant'[g].caller = refreshTokens[r].client
  /\ UNCHANGED <<codes, accessTokens, callback, tenants, drawn, lineage>>
LEMMA RotateRefreshTokenHasEffect ==
  ASSUME TypeOK, NEW g \in Grants, NEW r \in RefreshTokens, NEW client \in Clients,
         NEW at \in 0..now, RotateRefreshToken(g, r, client, at)
  PROVE  RotateRefreshTokenEffect(g, r)
<1>1. refreshTokens[r] \in RefreshRow /\ refreshTokens[r] # None
  BY DEF RotateRefreshToken, SameClient, TypeOK
<1>2. /\ ~refreshTokens[r].revoked
      /\ refreshTokens' = [refreshTokens EXCEPT ![r] = Revoked(refreshTokens[r])]
      /\ UNCHANGED <<codes, accessTokens, callback, tenants, drawn, lineage>>
  BY DEF RotateRefreshToken, history
<1>3. /\ grant[g] = IdleGrant
      /\ \A h \in Grants : h # g => grant'[h] = grant[h]
      /\ grant'[g] # IdleGrant =>
           /\ grant'[g].from = r /\ grant'[g].tenant = refreshTokens[r].tenant
           /\ grant'[g].client = refreshTokens[r].client
           /\ grant'[g].caller = refreshTokens[r].client
  BY DEF RotateRefreshToken, SameClient, TypeOK, IdleGrant
<1>4. Revoked(refreshTokens[r]).revoked = TRUE
  BY <1>1, RevokedRow
<1> QED BY <1>1, <1>2, <1>3, <1>4, RevokedRow DEF TypeOK, RotateRefreshTokenEffect

IssueTokensEffect(g, r) ==
  /\ r \notin drawn /\ drawn' = drawn \cup {r} /\ r \notin Codes
  /\ grant[g] \in GrantLocal /\ grant[g] # IdleGrant /\ grant'[g] = IdleGrant
  /\ \A h \in Grants : h # g => grant'[h] = grant[h]
  /\ refreshTokens'[r] # None /\ ~refreshTokens'[r].revoked
  /\ refreshTokens'[r].client = grant[g].client
  /\ refreshTokens'[r].tenant = grant[g].tenant
  /\ accessTokens'[r].client = grant[g].client
  /\ accessTokens'[r].sub = grant[g].tenant
  /\ \A x \in RefreshTokens : x # r =>
       refreshTokens'[x] = refreshTokens[x] /\ accessTokens'[x] = accessTokens[x]
  /\ lineage'[r] = lineage[grant[g].from]
  /\ \A x \in Codes \cup RefreshTokens : x # r => lineage'[x] = lineage[x]
  /\ UNCHANGED <<codes, callback, tenants>>
LEMMA IssueTokensHasEffect ==
  ASSUME TypeOK, NEW g \in Grants, NEW r \in RefreshTokens, IssueTokens(g, r)
  PROVE  IssueTokensEffect(g, r)
<1>1. r \notin Codes
  BY SignInAssumption
<1>2. r \notin drawn /\ drawn' = drawn \cup {r} /\ UNCHANGED <<codes, callback, tenants>>
  BY DEF IssueTokens, Draw, Fresh
<1>3. grant[g] \in GrantLocal /\ grant[g] # IdleGrant /\ grant' = [grant EXCEPT ![g] = IdleGrant]
  BY DEF IssueTokens, TypeOK
<1>4. /\ lineage' = [lineage EXCEPT ![r] = lineage[grant[g].from]]
      /\ refreshTokens' = [refreshTokens EXCEPT ![r] =
           [client |-> grant[g].client, tenant |-> grant[g].tenant,
            exp |-> now + RefreshTokenTTL, revoked |-> FALSE]]
      /\ accessTokens' = [accessTokens EXCEPT ![r] =
           [sub |-> grant[g].tenant, client |-> grant[g].client,
            exp |-> now + AccessTokenTTL]]
  BY DEF IssueTokens
<1>5. [client |-> grant[g].client, tenant |-> grant[g].tenant,
       exp |-> now + RefreshTokenTTL, revoked |-> FALSE] \in RefreshRow
  BY <1>3, SignInAssumption DEF RefreshRow, GrantLocal, TypeOK
<1> QED BY <1>1, <1>2, <1>3, <1>4, <1>5, NoneIsNoRecord DEF TypeOK, IssueTokensEffect

\* The purge only ever removes rows.
LEMMA PurgeEffect ==
  ASSUME TypeOK, Purge
  PROVE  /\ \A c \in Codes : codes'[c] \in {codes[c], None}
         /\ \A r \in RefreshTokens : refreshTokens'[r] \in {refreshTokens[r], None}
         /\ UNCHANGED <<accessTokens, callback, grant, tenants, drawn, lineage>>
<1> USE DEF TypeOK, tables, history
<1>1. CASE PurgeStart
  BY <1>1 DEF PurgeStart
<1>2. CASE PurgeCodes
  BY <1>2 DEF PurgeCodes, Purged
<1>3. CASE PurgeStates
  BY <1>3 DEF PurgeStates
<1>4. CASE PurgeTokens
  BY <1>4 DEF PurgeTokens, Purged
<1>5. CASE PurgeFail
  BY <1>5 DEF PurgeFail
<1> QED BY <1>1, <1>2, <1>3, <1>4, <1>5 DEF Purge

-----------------------------------------------------------------------------
(* The steps of the invariants, one case per action.                       *)

LEMMA DrawnStep == TypeOK /\ DrawnInv /\ [Next]_vars => DrawnInv'
<1> SUFFICES ASSUME TypeOK, DrawnInv, [Next]_vars PROVE DrawnInv'
  OBVIOUS
<1> USE SignInAssumption, NoneIsNoRecord
<1>1. CASE Open
  <2>1. ASSUME NEW c \in Clients, NEW uris \in SUBSET RedirectURIs, RegisterClient(c, uris)
        PROVE DrawnInv'
    BY <2>1 DEF RegisterClient, history, DrawnInv, HasOrigin
  <2>2. ASSUME NEW s \in States, NEW req \in Request \cup {NoRequest}, ParkLogin(s, req)
        PROVE DrawnInv'
    BY <2>2 DEF ParkLogin, Draw, DrawnInv, HasOrigin
  <2> QED BY <1>1, <2>1, <2>2 DEF Open, Authorize, ReconnectURL
<1>2. ASSUME NEW k \in Callbacks, Callback(k) PROVE DrawnInv'
  <2>1. ASSUME NEW s \in States, NEW denied \in BOOLEAN, ConsumeState(k, s, denied)
        PROVE DrawnInv'
    BY <2>1 DEF ConsumeState, tables, history, DrawnInv, HasOrigin
  <2>2. ASSUME NEW m \in Members, NEW t \in TenantIDs, LookupTenant(k, m, t)
        PROVE DrawnInv'
    BY <2>2 DEF LookupTenant, TenantByMemberID, Draw, tables, DrawnInv, HasOrigin
  <2>3. CASE UpsertTenant(k)
    BY <2>3 DEF UpsertTenant, tables, history, DrawnInv, HasOrigin
  <2>4. ASSUME NEW c \in Codes, IssueAuthCode(k, c) PROVE DrawnInv'
    <3>1. IssueAuthCodeEffect(k, c)
      BY <2>4, IssueAuthCodeHasEffect
    <3>2. \A x \in Codes \cup RefreshTokens : lineage[x] # None => lineage[x].code \in Codes
      BY DEF TypeOK, Origin
    <3> QED BY <3>1, <3>2 DEF IssueAuthCodeEffect, DrawnInv, HasOrigin, GrantLocal
  <2>5. CASE AbortCallback(k)
    BY <2>5 DEF AbortCallback, tables, history, TypeOK, Idle, DrawnInv, HasOrigin
  <2> QED BY <1>2, <2>1, <2>2, <2>3, <2>4, <2>5 DEF Callback
<1>3. ASSUME NEW g \in Grants, Token(g) PROVE DrawnInv'
  <2>1. ASSUME NEW c \in Codes, NEW client \in Clients, NEW uri \in RedirectURIs,
               NEW v \in Verifiers, ConsumeAuthCode(g, c, client, uri, v)
        PROVE DrawnInv'
    <3>1. ConsumeAuthCodeEffect(g, c)
      BY <2>1, ConsumeAuthCodeHasEffect
    <3> QED BY <3>1 DEF ConsumeAuthCodeEffect, DrawnInv, HasOrigin, GrantLocal
  <2>2. ASSUME NEW r \in RefreshTokens, NEW client \in Clients, NEW at \in 0..now,
               RotateRefreshToken(g, r, client, at)
        PROVE DrawnInv'
    <3>1. RotateRefreshTokenEffect(g, r)
      BY <2>2, RotateRefreshTokenHasEffect
    <3> QED BY <3>1 DEF RotateRefreshTokenEffect, DrawnInv, HasOrigin, GrantLocal
  <2>3. ASSUME NEW r \in RefreshTokens, IssueTokens(g, r) PROVE DrawnInv'
    <3>1. IssueTokensEffect(g, r)
      BY <2>3, IssueTokensHasEffect
    <3>2. \A x \in Codes \cup RefreshTokens : lineage[x] # None => lineage[x].code \in Codes
      BY DEF TypeOK, Origin
    <3> QED BY <3>1, <3>2 DEF IssueTokensEffect, DrawnInv, HasOrigin, GrantLocal
  <2>4. CASE AbortGrant(g)
    BY <2>4 DEF AbortGrant, tables, history, TypeOK, DrawnInv, HasOrigin
  <2> QED BY <1>3, <2>1, <2>2, <2>3, <2>4 DEF Token
<1>4. CASE Purge
  BY <1>4, PurgeEffect DEF DrawnInv, HasOrigin
<1>5. CASE Tick
  BY <1>5 DEF Tick, tables, history, DrawnInv, HasOrigin
<1>6. CASE UNCHANGED vars
  BY <1>6 DEF vars, tables, history, DrawnInv, HasOrigin
<1> QED BY <1>1, <1>2, <1>3, <1>4, <1>5, <1>6 DEF Next

LEMMA RequestStep == TypeOK /\ DrawnInv /\ RequestInv /\ [Next]_vars => RequestInv'
<1> SUFFICES ASSUME TypeOK, DrawnInv, RequestInv, [Next]_vars PROVE RequestInv'
  OBVIOUS
<1> USE SignInAssumption, NoneIsNoRecord
<1>1. CASE Open
  <2>1. ASSUME NEW c \in Clients, NEW uris \in SUBSET RedirectURIs, RegisterClient(c, uris)
        PROVE RequestInv'
    BY <2>1 DEF RegisterClient, history, RequestInv, BoundToTheRequest
  <2>2. ASSUME NEW s \in States, NEW req \in Request \cup {NoRequest}, ParkLogin(s, req)
        PROVE RequestInv'
    BY <2>2 DEF ParkLogin, Draw, RequestInv, BoundToTheRequest
  <2> QED BY <1>1, <2>1, <2>2 DEF Open, Authorize, ReconnectURL
<1>2. ASSUME NEW k \in Callbacks, Callback(k) PROVE RequestInv'
  <2>1. ASSUME NEW s \in States, NEW denied \in BOOLEAN, ConsumeState(k, s, denied)
        PROVE RequestInv'
    BY <2>1 DEF ConsumeState, tables, history, RequestInv, BoundToTheRequest
  <2>2. ASSUME NEW m \in Members, NEW t \in TenantIDs, LookupTenant(k, m, t)
        PROVE RequestInv'
    BY <2>2 DEF LookupTenant, TenantByMemberID, Draw, tables, RequestInv, BoundToTheRequest
  <2>3. CASE UpsertTenant(k)
    BY <2>3 DEF UpsertTenant, tables, history, RequestInv, BoundToTheRequest
  <2>4. ASSUME NEW c \in Codes, IssueAuthCode(k, c) PROVE RequestInv'
    <3>1. IssueAuthCodeEffect(k, c)
      BY <2>4, IssueAuthCodeHasEffect
    <3> QED BY <3>1 DEF IssueAuthCodeEffect, RequestInv, BoundToTheRequest, DrawnInv, HasOrigin
  <2>5. CASE AbortCallback(k)
    BY <2>5 DEF AbortCallback, tables, history, TypeOK, Idle, RequestInv, BoundToTheRequest
  <2> QED BY <1>2, <2>1, <2>2, <2>3, <2>4, <2>5 DEF Callback
<1>3. ASSUME NEW g \in Grants, Token(g) PROVE RequestInv'
  <2>1. ASSUME NEW c \in Codes, NEW client \in Clients, NEW uri \in RedirectURIs,
               NEW v \in Verifiers, ConsumeAuthCode(g, c, client, uri, v)
        PROVE RequestInv'
    <3>1. ConsumeAuthCodeEffect(g, c)
      BY <2>1, ConsumeAuthCodeHasEffect
    <3> QED BY <3>1 DEF ConsumeAuthCodeEffect, RequestInv, BoundToTheRequest, DrawnInv, HasOrigin
  <2>2. ASSUME NEW r \in RefreshTokens, NEW client \in Clients, NEW at \in 0..now,
               RotateRefreshToken(g, r, client, at)
        PROVE RequestInv'
    <3>1. RotateRefreshTokenEffect(g, r)
      BY <2>2, RotateRefreshTokenHasEffect
    <3> QED BY <3>1 DEF RotateRefreshTokenEffect, RequestInv, BoundToTheRequest, DrawnInv, HasOrigin
  <2>3. ASSUME NEW r \in RefreshTokens, IssueTokens(g, r) PROVE RequestInv'
    <3>1. IssueTokensEffect(g, r)
      BY <2>3, IssueTokensHasEffect
    <3> QED BY <3>1 DEF IssueTokensEffect, RequestInv, BoundToTheRequest, DrawnInv, HasOrigin
  <2>4. CASE AbortGrant(g)
    BY <2>4 DEF AbortGrant, tables, history, TypeOK, RequestInv, BoundToTheRequest
  <2> QED BY <1>3, <2>1, <2>2, <2>3, <2>4 DEF Token
<1>4. CASE Purge
  BY <1>4, PurgeEffect DEF RequestInv, BoundToTheRequest
<1>5. CASE Tick
  BY <1>5 DEF Tick, tables, history, RequestInv, BoundToTheRequest
<1>6. CASE UNCHANGED vars
  BY <1>6 DEF vars, tables, history, RequestInv, BoundToTheRequest
<1> QED BY <1>1, <1>2, <1>3, <1>4, <1>5, <1>6 DEF Next

LEMMA OneStep == TypeOK /\ DrawnInv /\ OneInv /\ [Next]_vars => OneInv'
<1> SUFFICES ASSUME TypeOK, DrawnInv, OneInv, [Next]_vars PROVE OneInv'
  OBVIOUS
<1> USE SignInAssumption, NoneIsNoRecord
<1>1. CASE Open
  <2>1. ASSUME NEW c \in Clients, NEW uris \in SUBSET RedirectURIs, RegisterClient(c, uris)
        PROVE OneInv'
    BY <2>1 DEF RegisterClient, history, OneInv, Live, InFlight
  <2>2. ASSUME NEW s \in States, NEW req \in Request \cup {NoRequest}, ParkLogin(s, req)
        PROVE OneInv'
    BY <2>2 DEF ParkLogin, Draw, OneInv, Live, InFlight
  <2> QED BY <1>1, <2>1, <2>2 DEF Open, Authorize, ReconnectURL
<1>2. ASSUME NEW k \in Callbacks, Callback(k) PROVE OneInv'
  <2>1. ASSUME NEW s \in States, NEW denied \in BOOLEAN, ConsumeState(k, s, denied)
        PROVE OneInv'
    BY <2>1 DEF ConsumeState, tables, history, OneInv, Live, InFlight
  <2>2. ASSUME NEW m \in Members, NEW t \in TenantIDs, LookupTenant(k, m, t)
        PROVE OneInv'
    BY <2>2 DEF LookupTenant, TenantByMemberID, Draw, tables, OneInv, Live, InFlight
  <2>3. CASE UpsertTenant(k)
    BY <2>3 DEF UpsertTenant, tables, history, OneInv, Live, InFlight
  <2>4. ASSUME NEW c \in Codes, IssueAuthCode(k, c) PROVE OneInv'
    <3>1. IssueAuthCodeEffect(k, c)
      BY <2>4, IssueAuthCodeHasEffect
    <3> QED BY <3>1 DEF IssueAuthCodeEffect, OneInv, Live, InFlight, DrawnInv, HasOrigin
  <2>5. CASE AbortCallback(k)
    BY <2>5 DEF AbortCallback, tables, history, TypeOK, Idle, OneInv, Live, InFlight
  <2> QED BY <1>2, <2>1, <2>2, <2>3, <2>4, <2>5 DEF Callback
<1>3. ASSUME NEW g \in Grants, Token(g) PROVE OneInv'
  <2>1. ASSUME NEW c \in Codes, NEW client \in Clients, NEW uri \in RedirectURIs,
               NEW v \in Verifiers, ConsumeAuthCode(g, c, client, uri, v)
        PROVE OneInv'
    <3>1. ConsumeAuthCodeEffect(g, c)
      BY <2>1, ConsumeAuthCodeHasEffect
    <3> QED BY <3>1 DEF ConsumeAuthCodeEffect, OneInv, Live, InFlight, DrawnInv, HasOrigin
  <2>2. ASSUME NEW r \in RefreshTokens, NEW client \in Clients, NEW at \in 0..now,
               RotateRefreshToken(g, r, client, at)
        PROVE OneInv'
    <3>1. RotateRefreshTokenEffect(g, r)
      BY <2>2, RotateRefreshTokenHasEffect
    <3> QED BY <3>1 DEF RotateRefreshTokenEffect, OneInv, Live, InFlight, DrawnInv, HasOrigin
  <2>3. ASSUME NEW r \in RefreshTokens, IssueTokens(g, r) PROVE OneInv'
    <3>1. IssueTokensEffect(g, r)
      BY <2>3, IssueTokensHasEffect
    <3> QED BY <3>1 DEF IssueTokensEffect, OneInv, Live, InFlight, DrawnInv, HasOrigin
  <2>4. CASE AbortGrant(g)
    BY <2>4 DEF AbortGrant, tables, history, TypeOK, OneInv, Live, InFlight
  <2> QED BY <1>3, <2>1, <2>2, <2>3, <2>4 DEF Token
<1>4. CASE Purge
  BY <1>4, PurgeEffect DEF OneInv, Live, InFlight
<1>5. CASE Tick
  BY <1>5 DEF Tick, tables, history, OneInv, Live, InFlight
<1>6. CASE UNCHANGED vars
  BY <1>6 DEF vars, tables, history, OneInv, Live, InFlight
<1> QED BY <1>1, <1>2, <1>3, <1>4, <1>5, <1>6 DEF Next

\* Who a tenant id was drawn for does not change once it is drawn.
LEMMA OwnersGrow ==
  ASSUME TypeOK, DrawnInv, [Next]_vars,
         NEW own \in [TenantIDs -> Members \cup {None}], OwnedBy(own)
  PROVE  \E owner \in [TenantIDs -> Members \cup {None}] :
           OwnedBy(owner)' /\ \A t \in drawn \cap TenantIDs : owner[t] = own[t]
<1> DEFINE Grown == \E owner \in [TenantIDs -> Members \cup {None}] :
             OwnedBy(owner)' /\ \A t \in drawn \cap TenantIDs : owner[t] = own[t]
<1> SUFFICES Grown
  OBVIOUS
<1> USE SignInAssumption, NoneIsNoRecord
<1>0. OwnedBy(own)' => Grown
  OBVIOUS
<1> HIDE DEF Grown
<1>1. CASE Open
  <2>1. ASSUME NEW c \in Clients, NEW uris \in SUBSET RedirectURIs, RegisterClient(c, uris)
        PROVE Grown
    <3>1. OwnedBy(own)'
      BY <2>1 DEF RegisterClient, history, OwnedBy
    <3> QED BY <1>0, <3>1
  <2>2. ASSUME NEW s \in States, NEW req \in Request \cup {NoRequest}, ParkLogin(s, req)
        PROVE Grown
    <3>1. OwnedBy(own)'
      BY <2>2 DEF ParkLogin, Draw, OwnedBy
    <3> QED BY <1>0, <3>1
  <2> QED BY <1>1, <2>1, <2>2 DEF Open, Authorize, ReconnectURL
<1>2. ASSUME NEW k \in Callbacks, Callback(k) PROVE Grown
  <2>1. ASSUME NEW s \in States, NEW denied \in BOOLEAN, ConsumeState(k, s, denied)
        PROVE Grown
    <3>1. OwnedBy(own)'
      BY <2>1 DEF ConsumeState, TypeOK, history, OwnedBy
    <3> QED BY <1>0, <3>1
  <2>2. ASSUME NEW m \in Members, NEW t \in TenantIDs, LookupTenant(k, m, t)
        PROVE Grown
    <3> DEFINE owner == [own EXCEPT ![t] = m]
    <3>1. CASE tenants[m] # None
      <4>1. OwnedBy(own)'
        BY <2>2, <3>1 DEF LookupTenant, TenantByMemberID, tables, TypeOK, CallbackLocal, Idle, OwnedBy
      <4> QED BY <1>0, <4>1
    <3>2. CASE tenants[m] = None
      <4>1. /\ t \notin drawn /\ drawn' = drawn \cup {t} /\ owner[t] = m
            /\ callback'[k].member = m /\ callback'[k].tenant = t
            /\ \A j \in Callbacks : j # k => callback'[j] = callback[j]
            /\ UNCHANGED <<tables, grant, accessTokens, lineage>>
        BY <2>2, <3>2 DEF LookupTenant, TenantByMemberID, Draw, Fresh, TypeOK
      <4>2. \A x \in TenantIDs : x # t => owner[x] = own[x]
        OBVIOUS
      <4>3. /\ \A j \in Callbacks : callback[j].pc \in {"upsert", "issue"} =>
                 callback[j].tenant \in TenantIDs
            /\ \A c \in Codes : codes[c] # None => codes[c].tenant \in TenantIDs
            /\ \A g \in Grants : grant[g] # IdleGrant => grant[g].tenant \in TenantIDs
            /\ \A r \in RefreshTokens : refreshTokens[r] # None =>
                 refreshTokens[r].tenant \in TenantIDs
            /\ \A r \in RefreshTokens : accessTokens[r] # None => accessTokens[r].sub \in TenantIDs
            /\ \A n \in Members : tenants[n] # None => tenants[n] \in TenantIDs
        BY DEF TypeOK, CallbackLocal, Idle, CodeRow, GrantLocal, RefreshRow, Claims
      <4> HIDE DEF owner
      <4>4. OwnedBy(owner)'
        BY <4>1, <4>2, <4>3 DEF OwnedBy, tables
      <4>5. owner \in [TenantIDs -> Members \cup {None}]
        BY DEF owner
      <4> QED BY <4>1, <4>2, <4>4, <4>5 DEF Grown
    <3> QED BY <3>1, <3>2
  <2>3. CASE UpsertTenant(k)
    <3>1. OwnedBy(own)'
      BY <2>3 DEF UpsertTenant, OnConflict, IsReconnect, TypeOK, history, CallbackLocal, Idle, OwnedBy
    <3> QED BY <1>0, <3>1
  <2>4. ASSUME NEW c \in Codes, IssueAuthCode(k, c) PROVE Grown
    <3>1. IssueAuthCodeEffect(k, c)
      BY <2>4, IssueAuthCodeHasEffect
    <3>2. OwnedBy(own)'
      BY <3>1 DEF IssueAuthCodeEffect, OwnedBy, DrawnInv, HasOrigin, Idle
    <3> QED BY <1>0, <3>2
  <2>5. CASE AbortCallback(k)
    <3>1. OwnedBy(own)'
      BY <2>5 DEF AbortCallback, tables, history, TypeOK, Idle, OwnedBy
    <3> QED BY <1>0, <3>1
  <2> QED BY <1>2, <2>1, <2>2, <2>3, <2>4, <2>5 DEF Callback
<1>3. ASSUME NEW g \in Grants, Token(g) PROVE Grown
  <2>1. ASSUME NEW c \in Codes, NEW client \in Clients, NEW uri \in RedirectURIs,
               NEW v \in Verifiers, ConsumeAuthCode(g, c, client, uri, v)
        PROVE Grown
    <3>1. ConsumeAuthCodeEffect(g, c)
      BY <2>1, ConsumeAuthCodeHasEffect
    <3>2. OwnedBy(own)'
      BY <3>1 DEF ConsumeAuthCodeEffect, OwnedBy, DrawnInv, HasOrigin
    <3> QED BY <1>0, <3>2
  <2>2. ASSUME NEW r \in RefreshTokens, NEW client \in Clients, NEW at \in 0..now,
               RotateRefreshToken(g, r, client, at)
        PROVE Grown
    <3>1. RotateRefreshTokenEffect(g, r)
      BY <2>2, RotateRefreshTokenHasEffect
    <3>2. OwnedBy(own)'
      BY <3>1 DEF RotateRefreshTokenEffect, OwnedBy, DrawnInv, HasOrigin
    <3> QED BY <1>0, <3>2
  <2>3. ASSUME NEW r \in RefreshTokens, IssueTokens(g, r) PROVE Grown
    <3>1. IssueTokensEffect(g, r)
      BY <2>3, IssueTokensHasEffect
    <3>2. OwnedBy(own)'
      BY <3>1 DEF IssueTokensEffect, OwnedBy, DrawnInv, HasOrigin
    <3> QED BY <1>0, <3>2
  <2>4. CASE AbortGrant(g)
    <3>1. OwnedBy(own)'
      BY <2>4 DEF AbortGrant, tables, history, TypeOK, OwnedBy
    <3> QED BY <1>0, <3>1
  <2> QED BY <1>3, <2>1, <2>2, <2>3, <2>4 DEF Token
<1>4. CASE Purge
  <2>1. OwnedBy(own)'
    BY <1>4, PurgeEffect DEF OwnedBy
  <2> QED BY <1>0, <2>1
<1>5. CASE Tick
  <2>1. OwnedBy(own)'
    BY <1>5 DEF Tick, tables, history, OwnedBy
  <2> QED BY <1>0, <2>1
<1>6. CASE UNCHANGED vars
  <2>1. OwnedBy(own)'
    BY <1>6 DEF vars, tables, history, OwnedBy
  <2> QED BY <1>0, <2>1
<1> QED BY <1>1, <1>2, <1>3, <1>4, <1>5, <1>6 DEF Next

LEMMA OwnerStep == TypeOK /\ DrawnInv /\ OwnerInv /\ [Next]_vars => OwnerInv'
  BY OwnersGrow DEF OwnerInv

LEMMA PurgeStep == TypeOK /\ PurgeInv /\ [Next]_vars => PurgeInv'
<1> SUFFICES ASSUME TypeOK, PurgeInv, [Next]_vars PROVE PurgeInv'
  OBVIOUS
<1> USE SignInAssumption, NoneIsNoRecord
<1>1. CASE Open
  <2>1. ASSUME NEW c \in Clients, NEW uris \in SUBSET RedirectURIs, RegisterClient(c, uris)
        PROVE PurgeInv'
    BY <2>1 DEF RegisterClient, tables, history, PurgeInv
  <2>2. ASSUME NEW s \in States, NEW req \in Request \cup {NoRequest}, ParkLogin(s, req)
        PROVE PurgeInv'
    BY <2>2 DEF ParkLogin, Draw, PurgeInv
  <2> QED BY <1>1, <2>1, <2>2 DEF Open, Authorize, ReconnectURL
<1>2. ASSUME NEW k \in Callbacks, Callback(k) PROVE PurgeInv'
  <2>1. ASSUME NEW s \in States, NEW denied \in BOOLEAN, ConsumeState(k, s, denied)
        PROVE PurgeInv'
    BY <2>1 DEF ConsumeState, tables, history, PurgeInv
  <2>2. ASSUME NEW m \in Members, NEW t \in TenantIDs, LookupTenant(k, m, t)
        PROVE PurgeInv'
    BY <2>2 DEF LookupTenant, tables, history, PurgeInv
  <2>3. CASE UpsertTenant(k)
    BY <2>3 DEF UpsertTenant, tables, history, PurgeInv
  <2>4. ASSUME NEW c \in Codes, IssueAuthCode(k, c) PROVE PurgeInv'
    BY <2>4 DEF IssueAuthCode, tables, history, PurgeInv
  <2>5. CASE AbortCallback(k)
    BY <2>5 DEF AbortCallback, tables, history, PurgeInv
  <2> QED BY <1>2, <2>1, <2>2, <2>3, <2>4, <2>5 DEF Callback
<1>3. ASSUME NEW g \in Grants, Token(g) PROVE PurgeInv'
  <2>1. ASSUME NEW c \in Codes, NEW client \in Clients, NEW uri \in RedirectURIs,
               NEW v \in Verifiers, ConsumeAuthCode(g, c, client, uri, v)
        PROVE PurgeInv'
    BY <2>1 DEF ConsumeAuthCode, tables, history, PurgeInv
  <2>2. ASSUME NEW r \in RefreshTokens, NEW client \in Clients, NEW at \in 0..now,
               RotateRefreshToken(g, r, client, at)
        PROVE PurgeInv'
    BY <2>2 DEF RotateRefreshToken, history, PurgeInv
  <2>3. ASSUME NEW r \in RefreshTokens, IssueTokens(g, r) PROVE PurgeInv'
    BY <2>3 DEF IssueTokens, tables, history, PurgeInv
  <2>4. CASE AbortGrant(g)
    BY <2>4 DEF AbortGrant, tables, history, PurgeInv
  <2> QED BY <1>3, <2>1, <2>2, <2>3, <2>4 DEF Token
<1>4. CASE Purge
  <2> USE DEF PurgeInv, TypeOK, PurgeLocal, Idle
  <2>1. CASE PurgeStart
    BY <2>1 DEF PurgeStart
  <2>2. CASE PurgeCodes
    BY <2>2 DEF PurgeCodes, history
  <2>3. CASE PurgeStates
    BY <2>3 DEF PurgeStates, history
  <2>4. CASE PurgeTokens
    BY <2>4 DEF PurgeTokens
  <2>5. CASE PurgeFail
    BY <2>5 DEF PurgeFail
  <2> QED BY <1>4, <2>1, <2>2, <2>3, <2>4, <2>5 DEF Purge
<1>5. CASE Tick
  BY <1>5 DEF Tick, TypeOK, PurgeLocal, PurgeInv
<1>6. CASE UNCHANGED vars
  BY <1>6 DEF vars, tables, history, PurgeInv
<1> QED BY <1>1, <1>2, <1>3, <1>4, <1>5, <1>6 DEF Next

LEMMA RedirectStep == TypeOK /\ RedirectInv /\ [Next]_vars => RedirectInv'
<1> SUFFICES ASSUME TypeOK, RedirectInv, [Next]_vars PROVE RedirectInv'
  OBVIOUS
<1> USE SignInAssumption, NoneIsNoRecord
<1>1. CASE Open
  <2>1. ASSUME NEW c \in Clients, NEW uris \in SUBSET RedirectURIs, RegisterClient(c, uris)
        PROVE RedirectInv'
    <3>1. /\ clients[c] = {} /\ \A d \in Clients : clients'[d] = clients[d] \/ d = c
          /\ UNCHANGED <<loginStates, codes, callback>>
      BY <2>1 DEF RegisterClient, TypeOK
    <3>2. /\ \A j \in Callbacks : callback[j] # Idle /\ callback[j].req # NoRequest
               => callback[j].req.client \in Clients
          /\ \A x \in Codes : codes[x] # None => codes[x].client \in Clients
          /\ \A s \in States : loginStates[s] # None /\ loginStates[s].req # NoRequest
               => loginStates[s].req.client \in Clients
      BY DEF TypeOK, CallbackLocal, CodeRow, LoginRow, Request
    <3> QED BY <3>1, <3>2 DEF RedirectInv, OnlyRegisteredRedirects
  <2>2. ASSUME NEW s \in States, NEW req \in Request \cup {NoRequest}, ParkLogin(s, req),
               req # NoRequest => req.uri \in clients[req.client]
        PROVE RedirectInv'
    <3>1. req # NoRequest => req.uri \in clients[req.client]
      BY <2>2
    <3>2. ParkLogin(s, req)
      BY <2>2
    <3> QED BY <3>1, <3>2 DEF ParkLogin, TypeOK, RedirectInv, OnlyRegisteredRedirects
  <2> QED BY <1>1, <2>1, <2>2 DEF Open, Authorize, ReconnectURL
<1>2. ASSUME NEW k \in Callbacks, Callback(k) PROVE RedirectInv'
  <2>1. ASSUME NEW s \in States, NEW denied \in BOOLEAN, ConsumeState(k, s, denied)
        PROVE RedirectInv'
    BY <2>1 DEF ConsumeState, history, Idle, TypeOK, RedirectInv, OnlyRegisteredRedirects
  <2>2. ASSUME NEW m \in Members, NEW t \in TenantIDs, LookupTenant(k, m, t)
        PROVE RedirectInv'
    BY <2>2 DEF LookupTenant, TenantByMemberID, tables, Idle, TypeOK, RedirectInv, OnlyRegisteredRedirects
  <2>3. CASE UpsertTenant(k)
    BY <2>3 DEF UpsertTenant, OnConflict, IsReconnect, history, Idle, TypeOK, RedirectInv, OnlyRegisteredRedirects
  <2>4. ASSUME NEW c \in Codes, IssueAuthCode(k, c) PROVE RedirectInv'
    <3>1. callback[k] # Idle /\ callback[k].req \in Request /\ callback[k].req # NoRequest
      BY <2>4, SignInAssumption DEF IssueAuthCode, AuthCode, CodeFor, TypeOK, RedirectInv, OnlyRegisteredRedirects, CallbackLocal, Idle, Request, NoRequest
    <3> QED BY <2>4, <3>1 DEF IssueAuthCode, AuthCode, CodeFor, TypeOK, RedirectInv, OnlyRegisteredRedirects
  <2>5. CASE AbortCallback(k)
    BY <2>5 DEF AbortCallback, tables, history, Idle, TypeOK, RedirectInv, OnlyRegisteredRedirects
  <2> QED BY <1>2, <2>1, <2>2, <2>3, <2>4, <2>5 DEF Callback
<1>3. ASSUME NEW g \in Grants, Token(g) PROVE RedirectInv'
  <2>1. ASSUME NEW c \in Codes, NEW client \in Clients, NEW uri \in RedirectURIs,
               NEW v \in Verifiers, ConsumeAuthCode(g, c, client, uri, v)
        PROVE RedirectInv'
    BY <2>1 DEF ConsumeAuthCode, history, TypeOK, RedirectInv, OnlyRegisteredRedirects
  <2>2. ASSUME NEW r \in RefreshTokens, NEW client \in Clients, NEW at \in 0..now,
               RotateRefreshToken(g, r, client, at)
        PROVE RedirectInv'
    BY <2>2 DEF RotateRefreshToken, history, RedirectInv, OnlyRegisteredRedirects
  <2>3. ASSUME NEW r \in RefreshTokens, IssueTokens(g, r) PROVE RedirectInv'
    BY <2>3 DEF IssueTokens, tables, history, RedirectInv, OnlyRegisteredRedirects
  <2>4. CASE AbortGrant(g)
    BY <2>4 DEF AbortGrant, tables, history, RedirectInv, OnlyRegisteredRedirects
  <2> QED BY <1>3, <2>1, <2>2, <2>3, <2>4 DEF Token
<1>4. CASE Purge
  <2> USE DEF TypeOK, RedirectInv, OnlyRegisteredRedirects, history, tables
  <2>1. CASE PurgeStart
    BY <2>1 DEF PurgeStart
  <2>2. CASE PurgeCodes
    BY <2>2 DEF PurgeCodes, Purged
  <2>3. CASE PurgeStates
    BY <2>3 DEF PurgeStates, Purged
  <2>4. CASE PurgeTokens
    BY <2>4 DEF PurgeTokens
  <2>5. CASE PurgeFail
    BY <2>5 DEF PurgeFail
  <2> QED BY <1>4, <2>1, <2>2, <2>3, <2>4, <2>5 DEF Purge
<1>5. CASE Tick
  BY <1>5 DEF Tick, tables, history, RedirectInv, OnlyRegisteredRedirects
<1>6. CASE UNCHANGED vars
  BY <1>6 DEF vars, tables, history, RedirectInv, OnlyRegisteredRedirects
<1> QED BY <1>1, <1>2, <1>3, <1>4, <1>5, <1>6 DEF Next

-----------------------------------------------------------------------------
(* The theorems.                                                           *)

LEMMA InitialInvariants == Init => DrawnInv /\ OwnerInv /\ RequestInv /\ OneInv /\ PurgeInv
<1> SUFFICES ASSUME Init PROVE DrawnInv /\ OwnerInv /\ RequestInv /\ OneInv /\ PurgeInv
  OBVIOUS
<1>1. DrawnInv
  BY DEF Init, DrawnInv, IdleGrant
<1>2. OwnerInv
  <2> DEFINE nobody == [t \in TenantIDs |-> None]
  <2>1. nobody \in [TenantIDs -> Members \cup {None}]
    OBVIOUS
  <2>2. OwnedBy(nobody)
    BY DEF Init, OwnedBy, IdleGrant, Idle
  <2> QED BY <2>1, <2>2 DEF OwnerInv
<1>3. RequestInv
  BY DEF Init, RequestInv, BoundToTheRequest, IdleGrant
<1>4. OneInv
  BY DEF Init, OneInv, Live, InFlight, IdleGrant
<1>5. PurgeInv
  BY DEF Init, PurgeInv
<1> QED BY <1>1, <1>2, <1>3, <1>4, <1>5

LEMMA Drawn == Spec => []DrawnInv
  BY InitialInvariants, DrawnStep, TypeCorrect, PTL DEF Spec

LEMMA OwnersIsolate == TypeOK /\ OwnerInv => Isolation
<1> SUFFICES ASSUME TypeOK, NEW own \in [TenantIDs -> Members \cup {None}], OwnedBy(own)
             PROVE  Isolation
  BY DEF OwnerInv
<1>1. \A m \in Members, t \in TenantIDs : tenants[m] = t => own[t] = m
  BY SignInAssumption DEF OwnedBy
<1>2. \A c \in Codes : codes[c] # None =>
        codes[c].tenant \in TenantIDs /\ own[codes[c].tenant] = lineage[c].member
  BY DEF OwnedBy, TypeOK, CodeRow
<1>3. \A g \in Grants : grant[g] # IdleGrant =>
        /\ grant[g].tenant \in TenantIDs
        /\ own[grant[g].tenant] = lineage[grant[g].from].member
  BY DEF OwnedBy, TypeOK, GrantLocal
<1>4. \A r \in RefreshTokens : refreshTokens[r] # None =>
        /\ refreshTokens[r].tenant \in TenantIDs
        /\ own[refreshTokens[r].tenant] = lineage[r].member
  BY DEF OwnedBy, TypeOK, RefreshRow
<1>5. \A r \in RefreshTokens : accessTokens[r] # None =>
        accessTokens[r].sub \in TenantIDs /\ own[accessTokens[r].sub] = lineage[r].member
  BY DEF OwnedBy, TypeOK, Claims
<1> SUFFICES ASSUME NEW m \in Members PROVE Isolation!(m)
  BY DEF Isolation
<1>6. \A t \in TenantIDs : tenants[m] = t => own[t] = m
  BY <1>1
<1> QED BY <1>2, <1>3, <1>4, <1>5, <1>6

\* No credential ever resolves to the tenant of a member other than the one who
\* signed in, for any number of members, concurrent callbacks and sessions.
THEOREM IsolationHolds == Spec => []Isolation
<1>1. Spec => []OwnerInv
  BY InitialInvariants, OwnerStep, TypeCorrect, Drawn, PTL DEF Spec
<1> QED BY <1>1, OwnersIsolate, TypeCorrect, PTL

\* Tokens go to the client that asked for the sign-in, on the verifier of that
\* request.
THEOREM BoundToTheRequestHolds == Spec => []BoundToTheRequest
<1>1. Spec => []RequestInv
  BY InitialInvariants, RequestStep, TypeCorrect, Drawn, PTL DEF Spec
<1>2. RequestInv => BoundToTheRequest
  BY DEF RequestInv
<1> QED BY <1>1, <1>2, PTL

LEMMA OneAtATime == OneInv => OneLiveCredentialPerSignIn
<1> SUFFICES ASSUME OneInv, NEW c \in Codes,
                    NEW x \in Credentials(c), NEW y \in Credentials(c)
             PROVE  x = y
  BY DEF OneLiveCredentialPerSignIn
<1> DEFINE IsCode(z)    == codes[c] # None /\ z = <<"code", c>>
           IsToken(z)   == \E r \in RefreshTokens : Live(r, c) /\ z = <<"token", r>>
           IsRequest(z) == \E g \in Grants : InFlight(g, c) /\ z = <<"request", g>>
<1>1. \A z \in Credentials(c) : IsCode(z) \/ IsToken(z) \/ IsRequest(z)
  BY DEF Credentials
<1> QED BY <1>1 DEF OneInv

\* However many redemptions and rotations race, a sign-in never has two
\* credentials that can still produce tokens.
THEOREM OneLiveCredential == Spec => []OneLiveCredentialPerSignIn
<1>1. Spec => []OneInv
  BY InitialInvariants, OneStep, TypeCorrect, Drawn, PTL DEF Spec
<1> QED BY <1>1, OneAtATime, PTL

\* A stored tenant id never changes, whatever sign-ins race.
THEOREM TenantIdNeverChanges == Spec => TenantIdStable
<1> DEFINE A == \A m \in Members : tenants[m] # None => tenants'[m] = tenants[m]
<1>1. TypeOK /\ [Next]_vars => [A]_vars
  <2> SUFFICES ASSUME TypeOK, Next PROVE A
    OBVIOUS
  <2> USE DEF TypeOK, tables, history
  <2>1. CASE Open
    BY <2>1 DEF Open, RegisterClient, Authorize, ReconnectURL, ParkLogin
  <2>2. ASSUME NEW k \in Callbacks, Callback(k) PROVE A
    <3>1. CASE UpsertTenant(k)
      BY <3>1 DEF UpsertTenant, OnConflict, IsReconnect
    <3>2. CASE ~UpsertTenant(k)
      BY <2>2, <3>2 DEF Callback, ConsumeState, LookupTenant, IssueAuthCode, AbortCallback
    <3> QED BY <3>1, <3>2
  <2>3. ASSUME NEW g \in Grants, Token(g) PROVE A
    BY <2>3 DEF Token, ConsumeAuthCode, RotateRefreshToken, IssueTokens, AbortGrant
  <2>4. CASE Purge
    BY <2>4, PurgeEffect
  <2>5. CASE Tick
    BY <2>5 DEF Tick
  <2> QED BY <2>1, <2>2, <2>3, <2>4, <2>5 DEF Next
<1> QED BY <1>1, TypeCorrect, PTL DEF Spec, TenantIdStable

\* A refresh token row only goes after its deadline and is only ever revoked.
THEOREM RefreshRowsAge == Spec => RefreshRowsOnlyAge
<1> DEFINE A == \A r \in RefreshTokens : r \in drawn =>
       \/ refreshTokens'[r] = refreshTokens[r]
       \/ refreshTokens'[r] = None /\ Expired(refreshTokens[r], now)
       \/ /\ ~refreshTokens[r].revoked
          /\ refreshTokens'[r] = Revoked(refreshTokens[r])
<1>1. TypeOK /\ PurgeInv /\ [Next]_vars => [A]_vars
  <2> SUFFICES ASSUME TypeOK, PurgeInv, Next PROVE A
    OBVIOUS
  <2>1. CASE Open
    BY <2>1 DEF Open, RegisterClient, Authorize, ReconnectURL, ParkLogin
  <2>2. ASSUME NEW k \in Callbacks, Callback(k) PROVE A
    BY <2>2 DEF Callback, ConsumeState, LookupTenant, UpsertTenant, IssueAuthCode,
                AbortCallback, tables
  <2>3. ASSUME NEW g \in Grants, Token(g) PROVE A
    <3>1. ASSUME NEW c \in Codes, NEW client \in Clients, NEW uri \in RedirectURIs,
                 NEW v \in Verifiers, ConsumeAuthCode(g, c, client, uri, v)
          PROVE A
      BY <3>1 DEF ConsumeAuthCode
    <3>2. ASSUME NEW r \in RefreshTokens, NEW client \in Clients, NEW at \in 0..now,
                 RotateRefreshToken(g, r, client, at)
          PROVE A
      <4>1. RotateRefreshTokenEffect(g, r)
        BY <3>2, RotateRefreshTokenHasEffect
      <4> QED BY <4>1 DEF RotateRefreshTokenEffect
    <3>3. ASSUME NEW r \in RefreshTokens, IssueTokens(g, r) PROVE A
      <4>1. IssueTokensEffect(g, r)
        BY <3>3, IssueTokensHasEffect
      <4> QED BY <4>1 DEF IssueTokensEffect
    <3>4. CASE AbortGrant(g)
      BY <3>4 DEF AbortGrant, tables
    <3> QED BY <2>3, <3>1, <3>2, <3>3, <3>4 DEF Token
  <2>4. CASE Purge
    <3>1. CASE PurgeTokens
      BY <3>1 DEF PurgeTokens, Purged, Expired, PurgeInv, TypeOK, PurgeLocal, RefreshRow, Idle
    <3>2. CASE ~PurgeTokens
      BY <2>4, <3>2 DEF Purge, PurgeStart, PurgeCodes, PurgeStates, PurgeFail, tables
    <3> QED BY <3>1, <3>2
  <2>5. CASE Tick
    BY <2>5 DEF Tick, tables
  <2> QED BY <2>1, <2>2, <2>3, <2>4, <2>5 DEF Next
<1>2. Spec => []PurgeInv
  BY InitialInvariants, PurgeStep, TypeCorrect, PTL DEF Spec
<1> QED BY <1>1, <1>2, TypeCorrect, PTL DEF Spec, RefreshRowsOnlyAge

\* A sign-in only ever ends at a URI its client registered.
THEOREM RedirectsAreRegistered == Spec => []OnlyRegisteredRedirects
<1>1. Init => RedirectInv
  BY DEF Init, RedirectInv, OnlyRegisteredRedirects, Idle
<1>2. RedirectInv => OnlyRegisteredRedirects
  BY DEF RedirectInv
<1> QED BY <1>1, <1>2, RedirectStep, TypeCorrect, PTL DEF Spec
-----------------------------------------------------------------------------
(* Where no two sign-ins overlap.                                          *)

\* The id a callback carries is the one its member's row has, or will have:
\* true as long as no other callback stores a row in between.
LoneCallback == \A j, k \in Callbacks : j = k
NamedInv ==
  /\ \A k \in Callbacks :
       /\ callback[k].pc = "upsert" => tenants[callback[k].member] \in {None, callback[k].tenant}
       /\ callback[k].pc = "issue" => tenants[callback[k].member] = callback[k].tenant
  /\ CodesNameATenant

LEMMA NamedStep == LoneCallback /\ TypeOK /\ NamedInv /\ [Next]_vars => NamedInv'
<1> SUFFICES ASSUME LoneCallback, TypeOK, NamedInv, [Next]_vars PROVE NamedInv'
  OBVIOUS
<1> USE SignInAssumption, NoneIsNoRecord
<1>1. CASE Open
  BY <1>1 DEF Open, RegisterClient, Authorize, ReconnectURL, ParkLogin, NamedInv, CodesNameATenant
<1>2. ASSUME NEW k \in Callbacks, Callback(k) PROVE NamedInv'
  <2>1. ASSUME NEW s \in States, NEW denied \in BOOLEAN, ConsumeState(k, s, denied)
        PROVE NamedInv'
    BY <2>1 DEF ConsumeState, TypeOK, NamedInv, CodesNameATenant
  <2>2. ASSUME NEW m \in Members, NEW t \in TenantIDs, LookupTenant(k, m, t)
        PROVE NamedInv'
    BY <2>2 DEF LookupTenant, TenantByMemberID, tables, TypeOK, NamedInv, CodesNameATenant
  <2>3. CASE UpsertTenant(k)
    <3>1. /\ callback[k].pc = "upsert" /\ callback[k].member \in Members
          /\ callback[k].tenant \in TenantIDs
      BY <2>3 DEF UpsertTenant, TypeOK, CallbackLocal, Idle
    <3>2. /\ tenants'[callback[k].member] = callback[k].tenant
          /\ \A m \in Members : m # callback[k].member => tenants'[m] = tenants[m]
      BY <2>3, <3>1 DEF UpsertTenant, OnConflict, TypeOK, NamedInv
    <3>3. \A m \in Members : tenants[m] # None => tenants'[m] = tenants[m]
      BY <3>1, <3>2 DEF NamedInv
    <3>4. \A c \in Codes : codes'[c] = codes[c] /\ (codes[c] # None => codes[c].tenant \in TenantIDs)
      BY <2>3 DEF UpsertTenant, TypeOK, CodeRow
    <3>5. CodesNameATenant'
      BY <3>3, <3>4 DEF NamedInv, CodesNameATenant
    <3>6. CASE IsReconnect(callback[k].req)
      <4>1. callback'[k] = Idle
        BY <2>3, <3>6 DEF UpsertTenant, TypeOK
      <4> QED BY <3>5, <4>1 DEF NamedInv, LoneCallback, Idle
    <3>7. CASE ~IsReconnect(callback[k].req)
      <4>1. callback'[k] = [callback[k] EXCEPT !.pc = "issue"]
        BY <2>3, <3>7 DEF UpsertTenant, TypeOK
      <4>2. /\ callback'[k].pc = "issue" /\ callback'[k].member = callback[k].member
            /\ callback'[k].tenant = callback[k].tenant
        BY <3>1, <4>1 DEF TypeOK, CallbackLocal, Idle
      <4> QED BY <3>2, <3>5, <4>2 DEF NamedInv, LoneCallback
    <3> QED BY <3>6, <3>7
  <2>4. ASSUME NEW c \in Codes, IssueAuthCode(k, c) PROVE NamedInv'
    <3>1. IssueAuthCodeEffect(k, c)
      BY <2>4, IssueAuthCodeHasEffect
    <3>2. callback[k].member \in Members
      BY <2>4 DEF IssueAuthCode, TypeOK, CallbackLocal, Idle
    <3> QED BY <3>1, <3>2 DEF IssueAuthCodeEffect, NamedInv, CodesNameATenant, Idle
  <2>5. CASE AbortCallback(k)
    BY <2>5 DEF AbortCallback, tables, TypeOK, Idle, NamedInv, CodesNameATenant
  <2> QED BY <1>2, <2>1, <2>2, <2>3, <2>4, <2>5 DEF Callback
<1>3. ASSUME NEW g \in Grants, Token(g) PROVE NamedInv'
  <2>1. UNCHANGED <<callback, tenants>> /\ \A c \in Codes : codes'[c] \in {codes[c], None}
    BY <1>3 DEF Token, ConsumeAuthCode, RotateRefreshToken, IssueTokens, AbortGrant, tables, TypeOK
  <2> QED BY <2>1 DEF NamedInv, CodesNameATenant
<1>4. CASE Purge
  BY <1>4, PurgeEffect DEF NamedInv, CodesNameATenant
<1>5. CASE Tick \/ UNCHANGED vars
  BY <1>5 DEF Tick, vars, tables, NamedInv, CodesNameATenant
<1> QED BY <1>1, <1>2, <1>3, <1>4, <1>5 DEF Next

\* An authorization code names a stored tenant as long as sign-ins do not
\* overlap, whatever the purge, the refreshes and failures do: it takes two
\* racing first sign-ins of one member to issue one that does not.
THEOREM CodesAreNamed == LoneCallback => (Spec => []CodesNameATenant)
<1>1. Init => NamedInv
  BY DEF Init, NamedInv, CodesNameATenant, Idle
<1>2. NamedInv => CodesNameATenant
  BY DEF NamedInv
<1>3. LoneCallback => (Spec => []NamedInv)
  <2> SUFFICES ASSUME LoneCallback PROVE Spec => []NamedInv
    OBVIOUS
  <2>1. TypeOK /\ NamedInv /\ [Next]_vars => NamedInv'
    BY NamedStep
  <2> QED BY <1>1, <2>1, TypeCorrect, PTL DEF Spec
<1> QED BY <1>2, <1>3, PTL
=============================================================================
