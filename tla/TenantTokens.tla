---------------------------- MODULE TenantTokens ----------------------------
(***************************************************************************)
(* The LinkedIn tokens in the tenants table.  Two actors write a whole row *)
(* with UpsertTenant: a sign-in (LoginService.Complete), and the renewal   *)
(* sweep (RefreshExpiringTokens, run by tokenLoop at start and then twice  *)
(* a day), which lists the rows that are due, calls LinkedIn for each and  *)
(* stores what it listed with the new token.  The tokens are sealed under  *)
(* the key the server was started with.                                    *)
(*                                                                         *)
(* Time is counted in periods of the sweep.  A sign-in or one renewal takes *)
(* seconds, so the clock stands still while LinkedIn is being asked.       *)
(* A row is found by member_id; SignIn models its id column.               *)
(*                                                                         *)
(* A definition X_... next to X is X with a plausible bug; no other        *)
(* definition uses it.                                                     *)
(***************************************************************************)
EXTENDS Naturals, Sequences

CONSTANTS
  Members,    \* LinkedIn members, one tenant row each
  Logins,     \* sign-ins that can be in flight together
  Scopes,     \* non-empty scope lists a member can grant
  NoScopes,   \* an answer of LinkedIn without scopes
  Keys,       \* values of TOKEN_CIPHER_KEY
  Unlucky,    \* the members whose renewals may be refused and whose writes may fail
  Faults,     \* what may go wrong, see AllFaults
  None,       \* no row
  Window,     \* DefaultRefreshWindow
  Recheck,    \* recheckInterval
  Lifetime,   \* of a LinkedIn access token
  MaxGap,     \* two sweeps that end start at most this far apart
  MaxClock,   \* bound: the clock stops here
  MaxGrants   \* bound: consents per member

AllFaults ==
  {"keyloss",  \* the server is restarted with a new cipher key, the old one is gone
   "overlap"}  \* a member signs in while a sweep or another sign-in runs

ASSUME TenantTokensAssumption ==
  /\ {Window, Recheck, Lifetime, MaxGap, MaxClock, MaxGrants} \subseteq Nat
  /\ Lifetime > 0 /\ MaxClock > 0
  /\ Unlucky \subseteq Members /\ Faults \subseteq AllFaults
  /\ NoScopes \notin Scopes

VARIABLES
  clock,
  server,    \* "down", "starting" (the first sweep is still to come) or "running"
  key,       \* the cipher key of this process
  tenants,   \* tenants table: member -> sealed row or None
  login,     \* locals of each sign-in after LinkedIn answered it
  sweep,     \* locals of the sweep
  swept,     \* when the last sweep that ended began
  consents,  \* external: what each member granted, in order
  warned     \* history: the last consent of each member the log reported, or 0

vars == <<clock, server, key, tenants, login, sweep, swept, consents, warned>>

\* A token belongs to a consent, and LinkedIn lets it die at a time the server
\* need not be told.  expires = 0 is an unknown deadline.
Time == 0 .. MaxClock + Lifetime
Grants == 1 .. MaxGrants
Token == [grant: Grants, dies: Time]
Tenant == [token: Token, refresh: BOOLEAN, scopes: Scopes,
           expires: Time, updated: Time]
TenantRow(token, refresh, scopes, expires, updated) ==
  [token |-> token, refresh |-> refresh, scopes |-> scopes,
   expires |-> expires, updated |-> updated]
Sealed(tenant) == [key |-> key, tenant |-> tenant]

ASSUME NoneIsNoRow == None \notin [key: Keys, tenant: Tenant]

Idle == [pc |-> "idle"]
SweepIdle == [pc |-> "idle"]

TypeOK ==
  /\ clock \in 1 .. MaxClock /\ swept \in 1 .. MaxClock
  /\ server \in {"down", "starting", "running"} /\ key \in Keys
  /\ tenants \in [Members -> [key: Keys, tenant: Tenant] \cup {None}]
  /\ login \in [Logins ->
       [pc: {"lookup", "upsert"}, member: Members, tenant: Tenant] \cup {Idle}]
  /\ \/ sweep = SweepIdle
     \/ /\ sweep.pc \in {"next", "store"}
        /\ sweep.began \in 1 .. MaxClock
        /\ DOMAIN sweep.listed \subseteq Members
        /\ \A m \in DOMAIN sweep.listed : sweep.listed[m] \in Tenant
        /\ DOMAIN sweep.needsReconnect \subseteq Members
        /\ \A m \in DOMAIN sweep.needsReconnect : sweep.needsReconnect[m] \in Grants
        /\ sweep.pc = "store" =>
             sweep.member \in DOMAIN sweep.listed /\ sweep.updated \in Tenant
  /\ \A m \in Members :
       /\ Len(consents[m]) <= MaxGrants
       /\ \A g \in DOMAIN consents[m] :
            consents[m][g] \in [scopes: Scopes, refresh: BOOLEAN]
  /\ warned \in [Members -> 0 .. MaxGrants]

Init ==
  /\ clock = 1 /\ swept = 1
  /\ server = "starting"
  /\ key \in Keys
  /\ tenants = [m \in Members |-> None]
  /\ login = [l \in Logins |-> Idle]
  /\ sweep = SweepIdle
  /\ consents = [m \in Members |-> <<>>]
  /\ warned = [m \in Members |-> 0]

Readable(row) == row.key = key

\* LinkedIn lets a token live Lifetime and says so or not (expires_in).
NewToken(g) == [grant |-> g, dies |-> clock + Lifetime]
expiryFrom(dated) == IF dated THEN clock + Lifetime ELSE 0

-----------------------------------------------------------------------------
(* A sign-in: exchange the code, look the member up, store the row.        *)

Quiet(m) == sweep.pc = "idle" /\ \A l \in Logins : login[l] = Idle

ExchangeCode(l, m, scopes, refresh, dated) ==
  LET g == Len(consents[m]) + 1 IN
  /\ server # "down" /\ login[l] = Idle
  /\ "overlap" \in Faults \/ Quiet(m)
  /\ g <= MaxGrants
  /\ consents' = [consents EXCEPT ![m] = Append(@, [scopes |-> scopes, refresh |-> refresh])]
  /\ login' = [login EXCEPT ![l] =
       [pc |-> "lookup", member |-> m,
        tenant |-> TenantRow(NewToken(g), refresh, scopes, expiryFrom(dated), clock)]]
  /\ UNCHANGED <<clock, server, key, tenants, sweep, swept, warned>>

\* The row is only read for its id, but reading opens its tokens: a row sealed
\* under another key is an error that ends the sign-in.
LookupTenant(l) ==
  LET row == tenants[login[l].member] IN
  /\ login[l].pc = "lookup"
  /\ login' = [login EXCEPT ![l] =
       IF row = None \/ Readable(row) THEN [@ EXCEPT !.pc = "upsert"] ELSE Idle]
  /\ UNCHANGED <<clock, server, key, tenants, sweep, swept, consents, warned>>

\* INSERT ... ON CONFLICT(member_id) DO UPDATE takes every column but the id.
OnConflict_KeepTokens(old, new) == IF old = None THEN new ELSE old
OnConflict(old, new) == new

UpsertTenant(l) ==
  LET m == login[l].member IN
  /\ login[l].pc = "upsert"
  /\ tenants' = [tenants EXCEPT ![m] = OnConflict(@, Sealed(login[l].tenant))]
  /\ login' = [login EXCEPT ![l] = Idle]
  /\ UNCHANGED <<clock, server, key, sweep, swept, consents, warned>>

UpsertFails(l) ==
  /\ login[l].pc = "upsert" /\ login[l].member \in Unlucky
  /\ login' = [login EXCEPT ![l] = Idle]
  /\ UNCHANGED <<clock, server, key, tenants, sweep, swept, consents, warned>>

-----------------------------------------------------------------------------
(* The sweep.                                                              *)

\* TenantsDueForTokenRefresh(now + window, now - recheckInterval)
Due_Expired(tenant) ==
  \/ tenant.expires > 0 /\ tenant.expires < clock
  \/ tenant.expires = 0 /\ tenant.updated + Recheck < clock
Due(tenant) ==
  \/ tenant.expires > 0 /\ tenant.expires < clock + Window
  \/ tenant.expires = 0 /\ tenant.updated + Recheck < clock

DueMembers == {m \in Members : tenants[m] # None /\ Due(tenants[m].tenant)}

\* One unreadable row fails the whole list, and the sweep is over.
RefreshExpiringTokens ==
  /\ sweep = SweepIdle
  /\ server = "starting" \/ (server = "running" /\ clock > swept)
  /\ server' = "running"
  /\ IF \A m \in DueMembers : Readable(tenants[m])
       THEN /\ sweep' = [pc |-> "next", began |-> clock, needsReconnect |-> <<>>,
                         listed |-> [m \in DueMembers |-> tenants[m].tenant]]
            /\ UNCHANGED swept
       ELSE swept' = clock /\ UNCHANGED sweep
  /\ UNCHANGED <<clock, key, tenants, login, consents, warned>>

Without(listed, m) == [n \in DOMAIN listed \ {m} |-> listed[n]]
With(needs, m, g) == [n \in DOMAIN needs \cup {m} |-> IF n = m THEN g ELSE needs[n]]

\* refreshOne failed: the tenant is reported and the loop goes on.
NeedsReconnect_GiveUp(s, m) ==
  [pc |-> "next", began |-> s.began, listed |-> <<>>,
   needsReconnect |-> With(s.needsReconnect, m, s.listed[m].token.grant)]
NeedsReconnect(s, m) ==
  [pc |-> "next", began |-> s.began, listed |-> Without(s.listed, m),
   needsReconnect |-> With(s.needsReconnect, m, s.listed[m].token.grant)]

\* ORDER BY token_expires_at
FirstListed(m) ==
  /\ sweep.pc = "next" /\ m \in DOMAIN sweep.listed
  /\ \A n \in DOMAIN sweep.listed : sweep.listed[m].expires <= sweep.listed[n].expires

\* The listed row with the new token; an answer may leave the refresh token or
\* the scopes out, and then the old ones stay.
Renewed_NoRefreshToken(tenant, scopes, refresh, dated) ==
  TenantRow(NewToken(tenant.token.grant), refresh,
            IF scopes = NoScopes THEN tenant.scopes ELSE scopes, expiryFrom(dated), clock)
Renewed_NoScopes(tenant, scopes, refresh, dated) ==
  TenantRow(NewToken(tenant.token.grant), refresh \/ tenant.refresh,
            scopes, expiryFrom(dated), clock)
Renewed(tenant, scopes, refresh, dated) ==
  TenantRow(NewToken(tenant.token.grant), refresh \/ tenant.refresh,
            IF scopes = NoScopes THEN tenant.scopes ELSE scopes, expiryFrom(dated), clock)

RefreshAccessToken(m, scopes, refresh, dated) ==
  /\ FirstListed(m) /\ sweep.listed[m].refresh
  /\ scopes \in {NoScopes, consents[m][sweep.listed[m].token.grant].scopes}
  /\ sweep' = [pc |-> "store", began |-> sweep.began, listed |-> sweep.listed,
               needsReconnect |-> sweep.needsReconnect, member |-> m,
               updated |-> Renewed(sweep.listed[m], scopes, refresh, dated)]
  /\ UNCHANGED <<clock, server, key, tenants, login, swept, consents, warned>>

\* No refresh token, or LinkedIn does not accept it.
RefreshUnavailable(m) ==
  /\ FirstListed(m)
  /\ ~sweep.listed[m].refresh \/ m \in Unlucky
  /\ sweep' = NeedsReconnect(sweep, m)
  /\ UNCHANGED <<clock, server, key, tenants, login, swept, consents, warned>>

StoreRenewed ==
  /\ sweep.pc = "store"
  /\ tenants' = [tenants EXCEPT ![sweep.member] = OnConflict(@, Sealed(sweep.updated))]
  /\ sweep' = [pc |-> "next", began |-> sweep.began,
               listed |-> Without(sweep.listed, sweep.member),
               needsReconnect |-> sweep.needsReconnect]
  /\ UNCHANGED <<clock, server, key, login, swept, consents, warned>>

StoreFails ==
  /\ sweep.pc = "store" /\ sweep.member \in Unlucky
  /\ sweep' = NeedsReconnect(sweep, sweep.member)
  /\ UNCHANGED <<clock, server, key, tenants, login, swept, consents, warned>>

\* The report of a sweep that got through its list is logged.
Report ==
  /\ sweep.pc = "next" /\ DOMAIN sweep.listed = {}
  /\ warned' = [m \in Members |->
       IF m \in DOMAIN sweep.needsReconnect
         THEN sweep.needsReconnect[m] ELSE warned[m]]
  /\ swept' = sweep.began
  /\ sweep' = SweepIdle
  /\ UNCHANGED <<clock, server, key, tenants, login, consents>>

-----------------------------------------------------------------------------
(* The process and the clock.                                              *)

\* A shutdown or a crash; a sweep that is cut logs nothing.
Stop ==
  /\ server # "down"
  /\ server' = "down"
  /\ login' = [l \in Logins |-> Idle]
  /\ sweep' = SweepIdle
  /\ UNCHANGED <<clock, key, tenants, swept, consents, warned>>

Start(k) ==
  /\ server = "down"
  /\ server' = "starting"
  /\ k # key => "keyloss" \in Faults /\ \A m \in Members : tenants[m] # None => tenants[m].key # k
  /\ key' = k
  /\ UNCHANGED <<clock, tenants, login, sweep, swept, consents, warned>>

NoRequestInFlight == sweep.pc # "store" /\ \A l \in Logins : login[l] = Idle

\* The server is not down, or kept from ending a sweep, for longer than MaxGap.
Tick ==
  /\ clock < MaxClock /\ clock < swept + MaxGap
  /\ NoRequestInFlight
  /\ clock' = clock + 1
  /\ UNCHANGED <<server, key, tenants, login, sweep, swept, consents, warned>>

-----------------------------------------------------------------------------
Complete(l) ==
  \/ \E m \in Members, scopes \in Scopes, refresh \in BOOLEAN, dated \in BOOLEAN :
       ExchangeCode(l, m, scopes, refresh, dated)
  \/ LookupTenant(l)
  \/ UpsertTenant(l)
  \/ UpsertFails(l)

RefreshOne ==
  \/ \E m \in Members, scopes \in Scopes \cup {NoScopes},
        refresh \in BOOLEAN, dated \in BOOLEAN :
       RefreshAccessToken(m, scopes, refresh, dated)
  \/ \E m \in Members : RefreshUnavailable(m)
  \/ StoreRenewed
  \/ StoreFails

Process == Stop \/ (\E k \in Keys : Start(k)) \/ Tick

Next ==
  \/ \E l \in Logins : Complete(l)
  \/ RefreshExpiringTokens \/ RefreshOne \/ Report
  \/ Process

Spec == Init /\ [][Next]_vars

-----------------------------------------------------------------------------
(* Properties.                                                             *)

Row(m) == tenants[m].tenant
Stored(m) == tenants[m] # None

\* Whatever mixture of sign-ins and partial renewal answers wrote it, a row is
\* of one piece: its scopes and refresh token are those of the consent its
\* access token comes from, and a deadline it states is LinkedIn's.
RowIsOfOnePiece ==
  \A m \in Members : Stored(m) =>
    LET consent == consents[m][Row(m).token.grant] IN
    /\ Row(m).scopes = consent.scopes
    /\ Row(m).refresh = consent.refresh
    /\ Row(m).expires \in {0, Row(m).token.dies}

\* "without letting anyone drop off": a token the sweep can open and has a
\* refresh token for does not run out while LinkedIn accepts its renewals,
\* whatever becomes of the others in the list.
NobodyDropsOff ==
  \A m \in Members \ Unlucky :
    Stored(m) /\ Readable(tenants[m]) /\ Row(m).refresh => clock < Row(m).token.dies

\* The sweep "tells the operator which members must reconnect before their 60
\* days run out": a token it could not renew was reported before it died.
WarnedInTime ==
  \A m \in Members :
    Stored(m) /\ clock >= Row(m).token.dies => warned[m] = Row(m).token.grant

\* A sign-in LinkedIn accepted, and no write failed, ends with its tokens stored.
SignInRestores ==
  [][\A l \in Logins :
       login[l] # Idle /\ login'[l] = Idle /\ server' # "down"
         /\ login[l].member \notin Unlucky =>
         tenants'[login[l].member] # None
         /\ tenants'[login[l].member].tenant = login[l].tenant]_vars

\* A member who reconnects gets what they just granted: a row never goes back
\* to an older consent.
GrantsOnlyAdvance ==
  [][\A m \in Members :
       Stored(m) => tenants'[m] # None
                    /\ Row(m).token.grant <= tenants'[m].tenant.token.grant]_vars
=============================================================================
