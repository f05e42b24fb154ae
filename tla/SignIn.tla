------------------------------- MODULE SignIn -------------------------------
(***************************************************************************)
(* The OAuth surface of linkedin-mcp: the authorization server MCP clients *)
(* talk to (internal/adapters/authserver), the LinkedIn callback that ends *)
(* a sign-in (internal/adapters/linkedin/handlers.go and                   *)
(* internal/app/login.go), and the SQLite tables both work on              *)
(* (internal/adapters/sqlite/store.go).                                    *)
(*                                                                         *)
(* Every HTTP request runs in a goroutine of its own.  The store has one   *)
(* connection (db.SetMaxOpenConns(1)), so one SQL statement is one atomic  *)
(* step, and handlers interleave between their statements.  An in-flight   *)
(* GET /linkedin/callback is an element of Callbacks, an in-flight         *)
(* POST /oauth/token an element of Grants.  Requests the code refuses      *)
(* without touching the store change nothing and are not steps.            *)
(*                                                                         *)
(* A definition X_... next to X is X with a plausible bug; no other        *)
(* definition uses it.                                                     *)
(***************************************************************************)
EXTENDS Naturals

CONSTANTS
  Members,         \* LinkedIn person ids, what userinfo answers
  AllowedMembers,  \* the members cfg.IsMemberAllowed lets in
  Clients,         \* the client ids dynamic registration can mint
  RedirectURIs,    \* redirect URIs that pass validateRedirectURI
  Verifiers,       \* PKCE code verifiers
  States, Codes, RefreshTokens,  \* the secrets randomSecret can draw
  TenantIDs,       \* the ids newTenantID can draw
  Callbacks,       \* concurrent GET /linkedin/callback requests
  Grants,          \* concurrent POST /oauth/token requests
  None,            \* no row, no tenant, no client
  LoginStateTTL, AuthCodeTTL, AccessTokenTTL, RefreshTokenTTL,
  MaxTime          \* bound: the clock stops here

\* A secret has 32 random bytes and a tenant id is a random UUID: neither is
\* ever drawn twice, and the four kinds are never mistaken for one another.
ASSUME SignInAssumption ==
  /\ AllowedMembers \subseteq Members
  /\ {LoginStateTTL, AuthCodeTTL, AccessTokenTTL, RefreshTokenTTL} \subseteq Nat
  /\ MaxTime \in Nat
  /\ None \notin Members \cup Clients \cup TenantIDs \cup Codes \cup RefreshTokens
  /\ Codes \cap RefreshTokens = {}
  /\ (States \cup TenantIDs) \cap (Codes \cup RefreshTokens) = {}

VARIABLES
  now,            \* clock.Now(), in whole seconds as the store keeps it
  clients,        \* oauth_clients: client id -> its redirect URIs
  loginStates,    \* login_states: state -> the parked request
  codes,          \* oauth_codes
  refreshTokens,  \* oauth_refresh_tokens, keyed by the token it hashes
  tenants,        \* tenants: member id -> tenant id
  accessTokens,   \* the JWT answered together with each refresh token
  callback,       \* locals of each in-flight callback
  grant,          \* locals of each in-flight token request
  purge,          \* locals of the running PurgeExpired, or the idle record
  drawn,          \* the secrets and tenant ids drawn so far
  lineage         \* history: the sign-in a code or refresh token comes from

tables  == <<clients, loginStates, codes, refreshTokens, tenants>>
history == <<drawn, lineage>>
vars == <<now, tables, accessTokens, callback, grant, purge, history>>

-----------------------------------------------------------------------------
(* The rows and the locals.                                                *)

\* verifyPKCE compares the stored challenge with the SHA-256 of the verifier.
S256(v) == <<"S256", v>>

\* domain.OAuthRequest; a reconnection link parks the empty one.
Challenges == {S256(v) : v \in Verifiers}
Request == [client: Clients, uri: RedirectURIs, challenge: Challenges]
NoRequest == [client |-> None, uri |-> None, challenge |-> None]

LoginRow   == [req: Request \cup {NoRequest}, exp: Nat]
CodeRow    == [client: Clients, tenant: TenantIDs, uri: RedirectURIs,
               challenge: Challenges, exp: Nat]
RefreshRow == [client: Clients, tenant: TenantIDs, exp: Nat, revoked: BOOLEAN]
Claims     == [sub: TenantIDs, client: Clients, exp: Nat]

Idle == [pc |-> "idle"]
CallbackLocal ==
       [pc: {"complete"}, req: Request \cup {NoRequest}]
  \cup [pc: {"upsert"}, req: Request \cup {NoRequest}, member: AllowedMembers, tenant: TenantIDs]
  \cup [pc: {"issue"}, req: Request, member: AllowedMembers, tenant: TenantIDs]

\* "from" is the credential the request spent, "caller" the client_id and
\* "shown" the verifier (hashed) it came with; a refresh shows no verifier.
GrantLocal == [from: Codes \cup RefreshTokens, client: Clients, tenant: TenantIDs,
               caller: Clients, shown: Challenges \cup {None}]
IdleGrant == None
PurgeLocal == [pc: {"codes", "states", "tokens"}, at: Nat]

\* Where a credential comes from: the code that opened the session, the
\* request that was parked for it, the member who signed in at LinkedIn.
Origin == [code: Codes, req: Request, member: AllowedMembers]

ASSUME NoneIsNoRecord ==
  None \notin LoginRow \cup CodeRow \cup RefreshRow \cup Claims \cup GrantLocal \cup Origin

TypeOK ==
  /\ now \in Nat
  /\ clients \in [Clients -> SUBSET RedirectURIs]
  /\ loginStates \in [States -> LoginRow \cup {None}]
  /\ codes \in [Codes -> CodeRow \cup {None}]
  /\ refreshTokens \in [RefreshTokens -> RefreshRow \cup {None}]
  /\ tenants \in [Members -> TenantIDs \cup {None}]
  /\ accessTokens \in [RefreshTokens -> Claims \cup {None}]
  /\ callback \in [Callbacks -> CallbackLocal \cup {Idle}]
  /\ grant \in [Grants -> GrantLocal \cup {IdleGrant}]
  /\ purge \in PurgeLocal \cup {Idle}
  /\ drawn \subseteq States \cup Codes \cup RefreshTokens \cup TenantIDs
  /\ lineage \in [Codes \cup RefreshTokens -> Origin \cup {None}]

Init ==
  /\ now = 0
  /\ clients = [c \in Clients |-> {}]
  /\ loginStates = [s \in States |-> None]
  /\ codes = [c \in Codes |-> None]
  /\ refreshTokens = [r \in RefreshTokens |-> None]
  /\ tenants = [m \in Members |-> None]
  /\ accessTokens = [r \in RefreshTokens |-> None]
  /\ callback = [k \in Callbacks |-> Idle]
  /\ grant = [g \in Grants |-> IdleGrant]
  /\ purge = Idle
  /\ drawn = {}
  /\ lineage = [x \in Codes \cup RefreshTokens |-> None]

Fresh(x) == x \notin drawn
Draw_Predictable(x) == drawn' = drawn \cup {x}
Draw(x)  == Fresh(x) /\ drawn' = drawn \cup {x}

\* The deadline a row carries, against a clock reading: clock.Now().Before(exp).
Expired(row, t) == row.exp <= t

-----------------------------------------------------------------------------
(* Opening a sign-in: registration, authorization, reconnection link.      *)

\* POST /oauth/register: a fresh client id with the URIs it may be sent to.
RegisterClient(c, uris) ==
  /\ clients[c] = {}
  /\ uris # {}
  /\ clients' = [clients EXCEPT ![c] = uris]
  /\ UNCHANGED <<now, loginStates, codes, refreshTokens, tenants, accessTokens,
                 callback, grant, purge, history>>

ParkLogin(s, req) ==
  /\ Draw(s)
  /\ loginStates' = [loginStates EXCEPT ![s] = [req |-> req, exp |-> now + LoginStateTTL]]
  /\ UNCHANGED <<now, clients, codes, refreshTokens, tenants, accessTokens,
                 callback, grant, purge, lineage>>

Authorize_AnyURI(s, req) ==
  /\ clients[req.client] # {}
  /\ ParkLogin(s, req)

\* GET /oauth/authorize: the request is parked under a fresh state, once the
\* client is known and the URI is one it registered.
Authorize(s, req) ==
  /\ req.uri \in clients[req.client]
  /\ ParkLogin(s, req)

\* A bearer token of ours that is still alive.
VerifyAccessToken(r) == accessTokens[r] # None /\ ~Expired(accessTokens[r], now)

\* The reconnection link a tool hands to whoever bears a token: no tenant row
\* is read.
ReconnectURL(s, r) ==
  /\ VerifyAccessToken(r)
  /\ ParkLogin(s, NoRequest)

-----------------------------------------------------------------------------
(* GET /linkedin/callback.                                                 *)

\* The state is deleted whatever follows; an expired one, a refusal at
\* LinkedIn ("denied") and a missing code end the request there.
ConsumeState(k, s, denied) ==
  /\ callback[k] = Idle
  /\ loginStates[s] # None
  /\ loginStates' = [loginStates EXCEPT ![s] = None]
  /\ callback' = IF Expired(loginStates[s], now) \/ denied THEN callback
                 ELSE [callback EXCEPT ![k] = [pc |-> "complete", req |-> loginStates[s].req]]
  /\ UNCHANGED <<now, clients, codes, refreshTokens, tenants, accessTokens,
                 grant, purge, history>>

TenantByMemberID_NeverFound(m) == None
TenantByMemberID(m) == tenants[m]

\* Complete, up to its first statement: LinkedIn names member m, whom the
\* allowlist lets in, and the tenant row of m is read.  A member without one
\* gets the id drawn by newTenantID.
LookupTenant(k, m, t) ==
  /\ callback[k].pc = "complete"
  /\ m \in AllowedMembers
  /\ IF TenantByMemberID(m) = None THEN Draw(t)
                                   ELSE t = TenantByMemberID(m) /\ UNCHANGED drawn
  /\ callback' = [callback EXCEPT ![k] =
       [pc |-> "upsert", req |-> callback[k].req, member |-> m, tenant |-> t]]
  /\ UNCHANGED <<now, tables, accessTokens, grant, purge, lineage>>

\* A reconnection link waits for no client: it ends on a page.
IsReconnect_Never(req) == FALSE
IsReconnect(req) == req = NoRequest

OnConflict_TakeNewId(stored, id) == id
OnConflict(stored, id) == IF stored = None THEN id ELSE stored

\* INSERT ... ON CONFLICT(member_id) DO UPDATE: an existing row keeps its id.
UpsertTenant(k) ==
  /\ callback[k].pc = "upsert"
  /\ tenants' = [tenants EXCEPT ![callback[k].member] = OnConflict(@, callback[k].tenant)]
  /\ callback' = [callback EXCEPT ![k] =
                   IF IsReconnect(@.req) THEN Idle ELSE [@ EXCEPT !.pc = "issue"]]
  /\ UNCHANGED <<now, clients, loginStates, codes, refreshTokens, accessTokens,
                 grant, purge, history>>

CodeFor(req, tenant) ==
  [client |-> req.client, tenant |-> tenant, uri |-> req.uri,
   challenge |-> req.challenge, exp |-> now + AuthCodeTTL]

AuthCode_SharedResult(k) ==
  LET others == {j \in Callbacks \ {k} : callback[j].pc = "issue"}
      latest == IF others = {} THEN k ELSE CHOOSE j \in others : TRUE IN
  CodeFor(callback[k].req, callback[latest].tenant)
AuthCode(k) == CodeFor(callback[k].req, callback[k].tenant)

\* The waiting MCP client gets a code for the tenant id Complete returned.
IssueAuthCode(k, c) ==
  /\ callback[k].pc = "issue"
  /\ Draw(c)
  /\ codes' = [codes EXCEPT ![c] = AuthCode(k)]
  /\ lineage' = [lineage EXCEPT ![c] =
       [code |-> c, req |-> callback[k].req, member |-> callback[k].member]]
  /\ callback' = [callback EXCEPT ![k] = Idle]
  /\ UNCHANGED <<now, clients, loginStates, refreshTokens, tenants, accessTokens,
                 grant, purge>>

\* LinkedIn or the store answers with an error, the browser hangs up, the
\* member is not on the allowlist, or the process dies: the handler returns.
AbortCallback(k) ==
  /\ callback[k] # Idle
  /\ callback' = [callback EXCEPT ![k] = Idle]
  /\ UNCHANGED <<now, tables, accessTokens, grant, purge, history>>

-----------------------------------------------------------------------------
(* POST /oauth/token.                                                      *)

SameClient_Unchecked(row, client) == TRUE
SameClient(row, client) == row.client = client

\* DELETE ... RETURNING, then the checks: a code is gone even when the
\* request that presented it fails one of them.
ConsumeAuthCode(g, c, client, uri, verifier) ==
  LET row == codes[c] IN
  /\ grant[g] = IdleGrant
  /\ row # None
  /\ codes' = [codes EXCEPT ![c] = None]
  /\ grant' = IF /\ ~Expired(row, now)
                 /\ SameClient(row, client)
                 /\ row.uri = uri
                 /\ row.challenge = S256(verifier)
              THEN [grant EXCEPT ![g] =
                     [from |-> c, client |-> row.client, tenant |-> row.tenant,
                      caller |-> client, shown |-> S256(verifier)]]
              ELSE grant
  /\ UNCHANGED <<now, clients, loginStates, refreshTokens, tenants, accessTokens,
                 callback, purge, history>>

Revoked_ReadOnly(row) == row
Revoked(row) == [row EXCEPT !.revoked = TRUE]

\* UPDATE ... WHERE revoked = 0 AND expires_at > at RETURNING.  The handler
\* reads the clock ("at") before it waits for the store's only connection, and
\* compares the client afterwards: the wrong one still revokes the token.
RotateRefreshToken(g, r, client, at) ==
  LET row == refreshTokens[r] IN
  /\ grant[g] = IdleGrant
  /\ row # None /\ ~row.revoked
  /\ ~Expired(row, at)
  /\ refreshTokens' = [refreshTokens EXCEPT ![r] = Revoked(@)]
  /\ grant' = IF SameClient(row, client)
              THEN [grant EXCEPT ![g] =
                     [from |-> r, client |-> row.client, tenant |-> row.tenant,
                      caller |-> client, shown |-> None]]
              ELSE grant
  /\ UNCHANGED <<now, clients, loginStates, codes, tenants, accessTokens,
                 callback, purge, history>>

\* Mint the JWT, store the next refresh token, answer with both.
IssueTokens(g, r) ==
  /\ grant[g] # IdleGrant
  /\ Draw(r)
  /\ refreshTokens' = [refreshTokens EXCEPT ![r] =
       [client |-> grant[g].client, tenant |-> grant[g].tenant,
        exp |-> now + RefreshTokenTTL, revoked |-> FALSE]]
  /\ accessTokens' = [accessTokens EXCEPT ![r] =
       [sub |-> grant[g].tenant, client |-> grant[g].client, exp |-> now + AccessTokenTTL]]
  /\ lineage' = [lineage EXCEPT ![r] = lineage[grant[g].from]]
  /\ grant' = [grant EXCEPT ![g] = IdleGrant]
  /\ UNCHANGED <<now, clients, loginStates, codes, tenants, callback, purge>>

\* The store fails, the caller hangs up or the process dies in between.
AbortGrant(g) ==
  /\ grant[g] # IdleGrant
  /\ grant' = [grant EXCEPT ![g] = IdleGrant]
  /\ UNCHANGED <<now, tables, accessTokens, callback, purge, history>>

-----------------------------------------------------------------------------
(* PurgeExpired: three statements against one clock reading.               *)

Purged_Early(table, at) ==
  [x \in DOMAIN table |-> IF table[x] # None /\ table[x].exp <= at + 1 THEN None ELSE table[x]]
Purged(table, at) ==
  [x \in DOMAIN table |-> IF table[x] # None /\ Expired(table[x], at) THEN None ELSE table[x]]

PurgeStart ==
  /\ purge = Idle
  /\ purge' = [pc |-> "codes", at |-> now]
  /\ UNCHANGED <<now, tables, accessTokens, callback, grant, history>>

PurgeCodes ==
  /\ purge.pc = "codes"
  /\ codes' = Purged(codes, purge.at)
  /\ purge' = [purge EXCEPT !.pc = "states"]
  /\ UNCHANGED <<now, clients, loginStates, refreshTokens, tenants, accessTokens,
                 callback, grant, history>>

PurgeStates_CodesAgain ==
  /\ purge.pc = "states"
  /\ codes' = Purged(codes, purge.at)
  /\ purge' = [purge EXCEPT !.pc = "tokens"]
  /\ UNCHANGED <<now, clients, loginStates, refreshTokens, tenants, accessTokens,
                 callback, grant, history>>

PurgeStates ==
  /\ purge.pc = "states"
  /\ loginStates' = Purged(loginStates, purge.at)
  /\ purge' = [purge EXCEPT !.pc = "tokens"]
  /\ UNCHANGED <<now, clients, codes, refreshTokens, tenants, accessTokens,
                 callback, grant, history>>

PurgeTokens ==
  /\ purge.pc = "tokens"
  /\ refreshTokens' = Purged(refreshTokens, purge.at)
  /\ purge' = Idle
  /\ UNCHANGED <<now, clients, loginStates, codes, tenants, accessTokens,
                 callback, grant, history>>

\* A statement fails and the remaining ones are not run.
PurgeFail ==
  /\ purge # Idle
  /\ purge' = Idle
  /\ UNCHANGED <<now, tables, accessTokens, callback, grant, history>>

Tick ==
  /\ now < MaxTime
  /\ now' = now + 1
  /\ UNCHANGED <<tables, accessTokens, callback, grant, purge, history>>

-----------------------------------------------------------------------------
Open ==
  \/ \E c \in Clients, uris \in SUBSET RedirectURIs : RegisterClient(c, uris)
  \/ \E s \in States, req \in Request : Authorize(s, req)
  \/ \E s \in States, r \in RefreshTokens : ReconnectURL(s, r)

Callback(k) ==
  \/ \E s \in States, denied \in BOOLEAN : ConsumeState(k, s, denied)
  \/ \E m \in Members, t \in TenantIDs : LookupTenant(k, m, t)
  \/ UpsertTenant(k)
  \/ \E c \in Codes : IssueAuthCode(k, c)
  \/ AbortCallback(k)

Token(g) ==
  \/ \E c \in Codes, client \in Clients, uri \in RedirectURIs, v \in Verifiers :
       ConsumeAuthCode(g, c, client, uri, v)
  \/ \E r \in RefreshTokens, client \in Clients, at \in 0..now :
       RotateRefreshToken(g, r, client, at)
  \/ \E r \in RefreshTokens : IssueTokens(g, r)
  \/ AbortGrant(g)

Purge == PurgeStart \/ PurgeCodes \/ PurgeStates \/ PurgeTokens \/ PurgeFail

Next ==
  \/ Open
  \/ \E k \in Callbacks : Callback(k)
  \/ \E g \in Grants : Token(g)
  \/ Purge
  \/ Tick

Spec == Init /\ [][Next]_vars

\* The purge loop fires on a ticker for as long as the process lives; a
\* statement may fail any number of times, but not every time it is reached.
Fairness ==
  /\ WF_vars(PurgeStart)
  /\ SF_vars(PurgeCodes) /\ SF_vars(PurgeStates) /\ SF_vars(PurgeTokens)

FairSpec == Spec /\ Fairness

-----------------------------------------------------------------------------
(* Properties.                                                             *)

\* A member's requests are scoped by the tenant id in their access token.
\* Whenever that id, or the one in a code or refresh token still to be spent,
\* names a row of tenants, the row is the one of the member who signed in at
\* LinkedIn when the session was opened: never another member's.
Isolation ==
  \A m \in Members :
    /\ \A c \in Codes : codes[c] # None /\ tenants[m] = codes[c].tenant
                          => m = lineage[c].member
    /\ \A g \in Grants : grant[g] # IdleGrant /\ tenants[m] = grant[g].tenant
                           => m = lineage[grant[g].from].member
    /\ \A r \in RefreshTokens :
         /\ refreshTokens[r] # None /\ tenants[m] = refreshTokens[r].tenant
              => m = lineage[r].member
         /\ accessTokens[r] # None /\ tenants[m] = accessTokens[r].sub
              => m = lineage[r].member

\* Tokens are only ever answered to the client that opened the sign-in with
\* GET /oauth/authorize, on the verifier of that very request, however long the
\* chain of refreshes behind them.
BoundToTheRequest ==
  /\ \A g \in Grants : grant[g] # IdleGrant =>
       LET req == lineage[grant[g].from].req IN
       /\ grant[g].caller = req.client /\ grant[g].client = req.client
       /\ grant[g].from \in Codes => grant[g].shown = req.challenge
  /\ \A r \in RefreshTokens :
       /\ refreshTokens[r] # None => refreshTokens[r].client = lineage[r].req.client
       /\ accessTokens[r] # None => accessTokens[r].client = lineage[r].req.client

\* The browser that ends a sign-in, and the code with it, is sent only to a URI
\* its client registered: the callback trusts the URI that was parked.
OnlyRegisteredRedirects ==
  /\ \A k \in Callbacks : callback[k] # Idle /\ callback[k].req # NoRequest
       => callback[k].req.uri \in clients[callback[k].req.client]
  /\ \A c \in Codes : codes[c] # None => codes[c].uri \in clients[codes[c].client]

\* At any moment a sign-in has at most one credential that can still produce
\* tokens: its code, one unrevoked refresh token, or one request that spent the
\* former and has not stored the latter.  Two racing or repeated redemptions
\* never both succeed.
Live(r, c) == /\ refreshTokens[r] # None /\ ~refreshTokens[r].revoked
              /\ lineage[r].code = c
InFlight(g, c) == grant[g] # IdleGrant /\ lineage[grant[g].from].code = c
Credentials(c) ==
       {<<"code", x>> : x \in {y \in {c} : codes[y] # None}}
  \cup {<<"token", r>> : r \in {x \in RefreshTokens : Live(x, c)}}
  \cup {<<"request", g>> : g \in {h \in Grants : InFlight(h, c)}}
OneLiveCredentialPerSignIn ==
  \A c \in Codes : \A x, y \in Credentials(c) : x = y

\* A member's tenant id never changes once stored, even when several of their
\* first sign-ins race: MCP clients stay authorized against the same subject.
TenantIdStable ==
  [][\A m \in Members : tenants[m] # None => tenants'[m] = tenants[m]]_vars

\* A refresh token row leaves the table only after its deadline, and until
\* then only its revoked column moves, once: no interleaving of rotation and
\* purge loses a live session or brings a spent token back.
RefreshRowsOnlyAge ==
  [][\A r \in RefreshTokens : r \in drawn =>
       \/ refreshTokens'[r] = refreshTokens[r]
       \/ refreshTokens'[r] = None /\ Expired(refreshTokens[r], now)
       \/ /\ ~refreshTokens[r].revoked
          /\ refreshTokens'[r] = Revoked(refreshTokens[r])]_vars

\* Every short-lived row past its deadline is eventually dropped, although
\* PurgeExpired gives up at its first failing statement.
ExpiredRowsGo ==
  /\ \A c \in Codes :
       (codes[c] # None /\ Expired(codes[c], now)) ~> (codes[c] = None)
  /\ \A s \in States :
       (loginStates[s] # None /\ Expired(loginStates[s], now)) ~> (loginStates[s] = None)
  /\ \A r \in RefreshTokens :
       (refreshTokens[r] # None /\ Expired(refreshTokens[r], now))
         ~> (refreshTokens[r] = None)

\* An authorization code is issued "for a tenant that just proved its
\* identity": its tenant id names a row.
CodesNameATenant ==
  \A c \in Codes : codes[c] # None => \E m \in Members : tenants[m] = codes[c].tenant

-----------------------------------------------------------------------------
(* SignIn implements Sessions: the session of a sign-in is read off the    *)
(* tables and the requests in flight.                                      *)

Session(c) ==
  IF lineage[c] = None THEN [phase |-> "unopened"]
  ELSE IF codes[c] # None THEN [phase |-> "held", key |-> c]
  ELSE IF \E r \in RefreshTokens : Live(r, c)
       THEN [phase |-> "held", key |-> CHOOSE r \in RefreshTokens : Live(r, c)]
  ELSE IF \E g \in Grants : InFlight(g, c) THEN [phase |-> "spending"]
  ELSE [phase |-> "closed"]

Abstract == INSTANCE Sessions WITH
  SignIns <- Codes, Keys <- Codes \cup RefreshTokens, Owners <- Origin, NoOwner <- None,
  session  <- [c \in Codes |-> Session(c)],
  owner    <- [c \in Codes |-> lineage[c]],
  usedKeys <- drawn \cap (Codes \cup RefreshTokens)

\* Codes and tokens are the keys of Sessions: one at a time per sign-in, never
\* handed out twice, and none once the session is closed.
ImplementsSessions == Abstract!Spec
=============================================================================
