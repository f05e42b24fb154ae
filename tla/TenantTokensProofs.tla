-------------------------- MODULE TenantTokensProofs --------------------------
(***************************************************************************)
(* Theorems about TenantTokens for any number of members, sign-ins and     *)
(* consents, and any length of time.                                       *)
(***************************************************************************)
EXTENDS TenantTokens, SequenceTheorems, TLAPS

-----------------------------------------------------------------------------
(* Shapes: TypeOK, with the records spelled out that TypeOK describes by   *)
(* their fields.                                                           *)

Consent == [scopes: Scopes, refresh: BOOLEAN]
SigningIn == [pc: {"lookup", "upsert"}, member: Members, tenant: Tenant]
PerMember(S) == UNION {[listed -> S] : listed \in SUBSET Members}
Looping == [pc: {"next"}, began: 1 .. MaxClock, needsReconnect: PerMember(Grants),
            listed: PerMember(Tenant)]
Storing == [pc: {"store"}, began: 1 .. MaxClock, needsReconnect: PerMember(Grants),
            listed: PerMember(Tenant), member: Members, updated: Tenant]

Shapes ==
  /\ clock \in 1 .. MaxClock /\ swept \in 1 .. MaxClock
  /\ server \in {"down", "starting", "running"} /\ key \in Keys
  /\ tenants \in [Members -> [key: Keys, tenant: Tenant] \cup {None}]
  /\ login \in [Logins -> SigningIn \cup {Idle}]
  /\ sweep \in Looping \cup Storing \cup {SweepIdle}
  /\ sweep.pc = "store" => sweep.member \in DOMAIN sweep.listed
  /\ consents \in [Members -> Seq(Consent)]
  /\ \A m \in Members : Len(consents[m]) <= MaxGrants
  /\ warned \in [Members -> 0 .. MaxGrants]

-----------------------------------------------------------------------------
(* The inductive invariants.                                               *)

\* A row that was written, or is about to be, is of one piece.
OfOnePiece(granted, tenant) ==
  /\ tenant.token.grant \in 1 .. Len(granted)
  /\ tenant.scopes = granted[tenant.token.grant].scopes
  /\ tenant.refresh = granted[tenant.token.grant].refresh
  /\ tenant.expires \in {0, tenant.token.dies}

Piece(m, tenant) == OfOnePiece(consents[m], tenant)

PieceInv ==
  /\ \A m \in Members : Stored(m) => Piece(m, Row(m))
  /\ \A l \in Logins : login[l] # Idle => Piece(login[l].member, login[l].tenant)
  /\ sweep.pc \in {"next", "store"} => \A m \in DOMAIN sweep.listed : Piece(m, sweep.listed[m])
  /\ sweep.pc = "store" => Piece(sweep.member, sweep.updated)

\* Under one cipher key every row can be opened.
Legible == \A m \in Members : Stored(m) => Readable(tenants[m])

\* A sweep that began at now has no reason to come back to the row.
Settled(tenant, now) ==
  \/ tenant.updated >= now
  \/ tenant.expires > 0 /\ tenant.expires >= now + Window
  \/ tenant.expires = 0 /\ tenant.updated + Recheck >= now

\* The sweep can do nothing about the row but report it.
Unrenewable(m) == m \in Unlucky \/ ~Row(m).refresh

Dated(tenant) ==
  /\ tenant.token.dies = tenant.updated + Lifetime
  /\ tenant.expires \in {0, tenant.token.dies}

\* The last sweep left the row settled or reported it; so does the present one
\* once the member is no longer in its list, and until then the row is the one
\* listed or a newer one.
Attended(m) ==
  /\ \/ Settled(Row(m), swept)
     \/ Unrenewable(m) /\ warned[m] = Row(m).token.grant
  /\ sweep.pc \in {"next", "store"} =>
       \/ Settled(Row(m), sweep.began)
       \/ m \in DOMAIN sweep.listed /\ Row(m) = sweep.listed[m]
       \/ /\ Unrenewable(m) /\ m \notin DOMAIN sweep.listed
          /\ m \in DOMAIN sweep.needsReconnect
          /\ sweep.needsReconnect[m] = Row(m).token.grant

TimeInv ==
  /\ swept <= clock /\ clock <= swept + MaxGap
  /\ sweep.pc \in {"next", "store"} => swept <= sweep.began /\ sweep.began <= clock
  /\ sweep.pc = "store" => sweep.updated.updated = clock /\ Dated(sweep.updated)
  /\ \A l \in Logins : login[l] # Idle => login[l].tenant.updated = clock /\ Dated(login[l].tenant)
  /\ \A m \in Members : Stored(m) => Dated(Row(m)) /\ Attended(m)

-----------------------------------------------------------------------------
(* What the helpers return.                                                *)

LEMMA FreshToken ==
  ASSUME Shapes, NEW g \in Grants, NEW dated \in BOOLEAN
  PROVE  /\ NewToken(g) \in Token
         /\ NewToken(g).grant = g /\ NewToken(g).dies = clock + Lifetime
         /\ expiryFrom(dated) \in {0, clock + Lifetime}
         /\ clock \in Time /\ expiryFrom(dated) \in Time
<1> USE TenantTokensAssumption
<1>1. /\ clock \in Nat /\ clock \in Time /\ clock + Lifetime \in Time
      /\ expiryFrom(dated) \in {0, clock + Lifetime} /\ 0 \in Time
  BY DEF Shapes, Time, expiryFrom
<1> QED BY <1>1 DEF NewToken, Token

\* A renewal keeps the consent, its scopes and its refresh token.
LEMMA RenewedRow ==
  ASSUME Shapes, NEW m \in Members, NEW tenant \in Tenant, Piece(m, tenant), tenant.refresh,
         NEW scopes, scopes \in {NoScopes, consents[m][tenant.token.grant].scopes},
         scopes \in Scopes \cup {NoScopes},
         NEW refresh \in BOOLEAN, NEW dated \in BOOLEAN,
         NEW new, new = Renewed(tenant, scopes, refresh, dated)
  PROVE  /\ new \in Tenant /\ Dated(new) /\ new.updated = clock /\ Piece(m, new)
<1> DEFINE kept == IF scopes = NoScopes THEN tenant.scopes ELSE scopes
<1>1. tenant.token.grant \in Grants /\ kept \in Scopes /\ kept = tenant.scopes
  BY DEF Tenant, Token, Piece, OfOnePiece
<1>2. tenant.refresh \in BOOLEAN
  BY DEF Tenant
<1>3. (refresh \/ tenant.refresh) = tenant.refresh
  BY <1>2
<1>4. new = TenantRow(NewToken(tenant.token.grant), tenant.refresh, kept, expiryFrom(dated), clock)
  BY <1>3 DEF Renewed
<1> HIDE DEF kept
<1>5. /\ new.token = NewToken(tenant.token.grant) /\ new.refresh = tenant.refresh /\ new.scopes = kept
      /\ new.expires = expiryFrom(dated) /\ new.updated = clock
  BY <1>4 DEF TenantRow
<1>6. new \in Tenant
  BY <1>1, <1>2, <1>4, FreshToken DEF TenantRow, Tenant
<1>7. PICK token : token = NewToken(tenant.token.grant)
  OBVIOUS
<1>8. /\ token.grant = tenant.token.grant /\ token.dies = clock + Lifetime
      /\ expiryFrom(dated) \in {0, token.dies}
  BY <1>1, <1>7, FreshToken
<1>9. Dated(new) /\ new.expires \in {0, new.token.dies}
  BY <1>5, <1>7, <1>8 DEF Dated
<1>10. Piece(m, new)
  BY <1>1, <1>5, <1>7, <1>8, <1>9 DEF Piece, OfOnePiece
<1> QED BY <1>5, <1>6, <1>9, <1>10

LEMMA ListsShrink ==
  ASSUME NEW S, NEW listed \in PerMember(S), NEW m
  PROVE  Without(listed, m) \in PerMember(S)
<1>1. PICK D \in SUBSET Members : listed \in [D -> S]
  BY DEF PerMember
<1>2. Without(listed, m) \in [D \ {m} -> S]
  BY <1>1 DEF Without
<1> QED BY <1>1, <1>2 DEF PerMember, Without

LEMMA ReportsGrow ==
  ASSUME NEW S, NEW needs \in PerMember(S), NEW m \in Members, NEW g \in S
  PROVE  With(needs, m, g) \in PerMember(S)
<1>1. PICK D \in SUBSET Members : needs \in [D -> S]
  BY DEF PerMember
<1>2. With(needs, m, g) \in [D \cup {m} -> S]
  BY <1>1 DEF With
<1> QED BY <1>1, <1>2 DEF PerMember, With

\* The sweep is between two rows, is storing one, or does not run.
LEMMA SweepShapes ==
  ASSUME Shapes
  PROVE  /\ sweep.pc \in {"idle", "next", "store"}
         /\ sweep.pc = "idle" => sweep = SweepIdle
         /\ sweep.pc = "next" => sweep \in Looping
         /\ sweep.pc = "store" => sweep \in Storing
         /\ sweep.pc \in {"next", "store"} =>
              /\ sweep.began \in 1 .. MaxClock /\ sweep.needsReconnect \in PerMember(Grants)
              /\ sweep.listed \in PerMember(Tenant)
              /\ \A m \in DOMAIN sweep.listed : m \in Members /\ sweep.listed[m] \in Tenant
              /\ \A m \in DOMAIN sweep.needsReconnect :
                   m \in Members /\ sweep.needsReconnect[m] \in Grants
<1>1. /\ sweep.pc \in {"idle", "next", "store"}
      /\ sweep.pc = "idle" => sweep = SweepIdle
      /\ sweep.pc = "next" => sweep \in Looping
      /\ sweep.pc = "store" => sweep \in Storing
  BY DEF Shapes, SweepIdle, Looping, Storing
<1>2. \A S : \A listed \in PerMember(S) : \A m \in DOMAIN listed : m \in Members /\ listed[m] \in S
  BY DEF PerMember
<1>3. sweep.pc \in {"next", "store"} =>
        /\ sweep.began \in 1 .. MaxClock /\ sweep.needsReconnect \in PerMember(Grants)
        /\ sweep.listed \in PerMember(Tenant)
  BY <1>1 DEF Looping, Storing
<1> QED BY <1>1, <1>2, <1>3

\* The sweep after a renewal that failed.
LEMMA AfterNeedsReconnect ==
  ASSUME Shapes, sweep.pc \in {"next", "store"}, NEW m \in DOMAIN sweep.listed,
         NEW s, s = NeedsReconnect(sweep, m)
  PROVE  /\ s \in Looping /\ s.pc = "next" /\ s.began = sweep.began
         /\ DOMAIN s.listed = DOMAIN sweep.listed \ {m}
         /\ \A n \in DOMAIN sweep.listed \ {m} : s.listed[n] = sweep.listed[n]
         /\ DOMAIN s.needsReconnect = DOMAIN sweep.needsReconnect \cup {m}
         /\ s.needsReconnect[m] = sweep.listed[m].token.grant
         /\ \A n \in DOMAIN sweep.needsReconnect \ {m} : s.needsReconnect[n] = sweep.needsReconnect[n]
<1> DEFINE listed == Without(sweep.listed, m)
           needs == With(sweep.needsReconnect, m, sweep.listed[m].token.grant)
<1>1. /\ m \in Members /\ sweep.listed[m].token.grant \in Grants
      /\ sweep.listed \in PerMember(Tenant) /\ sweep.needsReconnect \in PerMember(Grants)
  BY SweepShapes DEF Tenant, Token
<1>2. /\ listed \in PerMember(Tenant) /\ DOMAIN listed = DOMAIN sweep.listed \ {m}
      /\ \A n \in DOMAIN sweep.listed \ {m} : listed[n] = sweep.listed[n]
  <2>1. listed \in PerMember(Tenant)
    BY <1>1, ListsShrink
  <2>2. DOMAIN listed = DOMAIN sweep.listed \ {m}
    BY DEF Without
  <2>3. \A n \in DOMAIN sweep.listed \ {m} : listed[n] = sweep.listed[n]
    BY DEF Without
  <2> QED BY <2>1, <2>2, <2>3
<1>3. /\ needs \in PerMember(Grants) /\ DOMAIN needs = DOMAIN sweep.needsReconnect \cup {m}
      /\ needs[m] = sweep.listed[m].token.grant
      /\ \A n \in DOMAIN sweep.needsReconnect \ {m} : needs[n] = sweep.needsReconnect[n]
  <2>1. needs \in PerMember(Grants)
    BY <1>1, ReportsGrow
  <2>2. DOMAIN needs = DOMAIN sweep.needsReconnect \cup {m}
    BY DEF With
  <2>3. needs[m] = sweep.listed[m].token.grant
    BY DEF With
  <2>4. \A n \in DOMAIN sweep.needsReconnect \ {m} : needs[n] = sweep.needsReconnect[n]
    BY DEF With
  <2> QED BY <2>1, <2>2, <2>3, <2>4
<1>4. s = [pc |-> "next", began |-> sweep.began, listed |-> listed, needsReconnect |-> needs]
  BY DEF NeedsReconnect
<1>5. sweep.began \in 1 .. MaxClock
  BY SweepShapes
<1> HIDE DEF listed, needs
<1>6. s \in Looping
  BY <1>2, <1>3, <1>4, <1>5 DEF Looping
<1>7. s.pc = "next" /\ s.began = sweep.began /\ s.listed = listed /\ s.needsReconnect = needs
  BY <1>4
<1> QED BY <1>2, <1>3, <1>6, <1>7

\* The sweep after a row was stored.
LEMMA AfterStore ==
  ASSUME Shapes, StoreRenewed
  PROVE  /\ sweep' \in Looping /\ sweep'.pc = "next" /\ sweep'.began = sweep.began
         /\ DOMAIN sweep'.listed = DOMAIN sweep.listed \ {sweep.member}
         /\ \A n \in DOMAIN sweep.listed \ {sweep.member} : sweep'.listed[n] = sweep.listed[n]
         /\ sweep'.needsReconnect = sweep.needsReconnect
<1> DEFINE listed == Without(sweep.listed, sweep.member)
<1>0. sweep.listed \in PerMember(Tenant)
  BY SweepShapes DEF StoreRenewed
<1>1. /\ listed \in PerMember(Tenant) /\ DOMAIN listed = DOMAIN sweep.listed \ {sweep.member}
      /\ \A n \in DOMAIN sweep.listed \ {sweep.member} : listed[n] = sweep.listed[n]
  <2>1. listed \in PerMember(Tenant)
    BY <1>0, ListsShrink
  <2>2. DOMAIN listed = DOMAIN sweep.listed \ {sweep.member}
    BY DEF Without
  <2>3. \A n \in DOMAIN sweep.listed \ {sweep.member} : listed[n] = sweep.listed[n]
    BY DEF Without
  <2> QED BY <2>1, <2>2, <2>3
<1>2. sweep' = [pc |-> "next", began |-> sweep.began, listed |-> listed,
                needsReconnect |-> sweep.needsReconnect]
  BY DEF StoreRenewed
<1>3. sweep.began \in 1 .. MaxClock /\ sweep.needsReconnect \in PerMember(Grants)
  BY SweepShapes DEF StoreRenewed
<1> HIDE DEF listed
<1> QED BY <1>1, <1>2, <1>3 DEF Looping

-----------------------------------------------------------------------------
(* Every step keeps the shapes.                                            *)

\* The row of a sign-in that LinkedIn accepted.
LEMMA GrantedRow ==
  ASSUME Shapes, NEW l \in Logins, NEW m \in Members, NEW scopes \in Scopes,
         NEW refresh \in BOOLEAN, NEW dated \in BOOLEAN, ExchangeCode(l, m, scopes, refresh, dated)
  PROVE  /\ login' = [login EXCEPT ![l] = login'[l]]
         /\ login'[l] \in SigningIn /\ login'[l] # Idle /\ login'[l].member = m
         /\ Dated(login'[l].tenant) /\ login'[l].tenant.updated = clock
         /\ consents' \in [Members -> Seq(Consent)]
         /\ \A n \in Members : n # m => consents'[n] = consents[n]
         /\ Len(consents'[m]) = Len(consents[m]) + 1 /\ Len(consents'[m]) <= MaxGrants
         /\ \A i \in 1 .. Len(consents[m]) : consents'[m][i] = consents[m][i]
         /\ LET g == login'[l].tenant.token.grant IN
              /\ g = Len(consents'[m])
              /\ consents'[m][g].scopes = login'[l].tenant.scopes
              /\ consents'[m][g].refresh = login'[l].tenant.refresh
<1> USE TenantTokensAssumption
<1> DEFINE g == Len(consents[m]) + 1
           consent == [scopes |-> scopes, refresh |-> refresh]
           tenant == TenantRow(NewToken(g), refresh, scopes, expiryFrom(dated), clock)
           signIn == [pc |-> "lookup", member |-> m, tenant |-> tenant]
<1>1. consents[m] \in Seq(Consent) /\ Len(consents[m]) \in Nat /\ g <= MaxGrants
  BY LenProperties DEF Shapes, ExchangeCode
<1>2. g \in Grants
  BY <1>1 DEF Grants
<1>3. tenant \in Tenant
  BY <1>2, FreshToken DEF TenantRow, Tenant
<1>4. /\ tenant.token = NewToken(g) /\ tenant.refresh = refresh /\ tenant.scopes = scopes
      /\ tenant.expires = expiryFrom(dated) /\ tenant.updated = clock
  BY DEF TenantRow
<1>5. login' = [login EXCEPT ![l] = signIn]
  BY DEF ExchangeCode
<1>6. consents' = [consents EXCEPT ![m] = Append(consents[m], consent)]
  BY DEF ExchangeCode
<1>7. consent \in Consent /\ consent.scopes = scopes /\ consent.refresh = refresh
  BY DEF Consent
<1> HIDE DEF tenant, consent
<1>8. /\ login' = [login EXCEPT ![l] = login'[l]] /\ login'[l] = signIn
  BY <1>5 DEF Shapes
<1>9. signIn \in SigningIn /\ signIn # Idle /\ signIn.member = m /\ signIn.tenant = tenant
  BY <1>3 DEF SigningIn, Idle
<1>10. Dated(tenant)
  BY <1>2, <1>4, FreshToken DEF Dated
<1>11. /\ Append(consents[m], consent) \in Seq(Consent)
       /\ Len(Append(consents[m], consent)) = g
       /\ \A i \in 1 .. Len(consents[m]) : Append(consents[m], consent)[i] = consents[m][i]
       /\ Append(consents[m], consent)[g] = consent
  BY <1>1, <1>7, AppendProperties
<1>12. consents'[m] = Append(consents[m], consent) /\ consents' \in [Members -> Seq(Consent)]
       /\ \A n \in Members : n # m => consents'[n] = consents[n]
  BY <1>6, <1>11 DEF Shapes
<1>13. tenant.token.grant = g
  BY <1>2, <1>4, FreshToken
<1> HIDE DEF signIn
<1> QED BY <1>1, <1>4, <1>7, <1>8, <1>9, <1>10, <1>11, <1>12, <1>13

LEMMA SignInsKeepShapes ==
  ASSUME Shapes, NEW l \in Logins, Complete(l)
  PROVE  Shapes'
<1> USE TenantTokensAssumption
<1>1. ASSUME NEW m \in Members, NEW scopes \in Scopes, NEW refresh \in BOOLEAN, NEW dated \in BOOLEAN,
             ExchangeCode(l, m, scopes, refresh, dated)
      PROVE  Shapes'
  <2>1. UNCHANGED <<clock, server, key, tenants, sweep, swept, warned>>
    BY <1>1 DEF ExchangeCode
  <2>2. login' \in [Logins -> SigningIn \cup {Idle}]
    <3>1. login' = [login EXCEPT ![l] = login'[l]] /\ login'[l] \in SigningIn
      BY <1>1, GrantedRow
    <3> QED BY <3>1 DEF Shapes
  <2>3. /\ consents' \in [Members -> Seq(Consent)]
        /\ \A n \in Members : Len(consents'[n]) <= MaxGrants
    <3>1. /\ consents' \in [Members -> Seq(Consent)]
          /\ \A n \in Members : n # m => consents'[n] = consents[n]
          /\ Len(consents'[m]) <= MaxGrants
      BY <1>1, GrantedRow
    <3>2. \A n \in Members : Len(consents[n]) <= MaxGrants
      BY DEF Shapes
    <3> QED BY <3>1, <3>2
  <2> QED BY <2>1, <2>2, <2>3 DEF Shapes
<1>2. CASE LookupTenant(l)
  <2>1. [login[l] EXCEPT !.pc = "upsert"] \in SigningIn
    <3>1. login[l] \in SigningIn
      BY <1>2 DEF LookupTenant, Shapes, Idle
    <3> QED BY <3>1 DEF SigningIn
  <2> QED BY <1>2, <2>1 DEF LookupTenant, Shapes
<1>3. CASE UpsertTenant(l)
  <2>1. login[l].member \in Members /\ Sealed(login[l].tenant) \in [key: Keys, tenant: Tenant]
    BY <1>3 DEF UpsertTenant, Shapes, SigningIn, Idle, Sealed
  <2> QED BY <1>3, <2>1 DEF UpsertTenant, Shapes, OnConflict
<1>4. CASE UpsertFails(l)
  BY <1>4 DEF UpsertFails, Shapes
<1> QED BY <1>1, <1>2, <1>3, <1>4 DEF Complete

\* The sweep that a listing starts.
LEMMA Listing ==
  ASSUME Shapes, RefreshExpiringTokens
  PROVE  \/ /\ sweep' \in Looping /\ sweep'.pc = "next" /\ sweep'.began = clock
            /\ DOMAIN sweep'.listed = DueMembers
            /\ \A m \in DueMembers : sweep'.listed[m] = Row(m)
            /\ DOMAIN sweep'.needsReconnect = {}
            /\ UNCHANGED swept
         \/ /\ \E m \in DueMembers : ~Readable(tenants[m])
            /\ swept' = clock /\ UNCHANGED sweep
<1> DEFINE listed == [m \in DueMembers |-> tenants[m].tenant]
           s == [pc |-> "next", began |-> clock, needsReconnect |-> <<>>, listed |-> listed]
<1>1. listed \in [DueMembers -> Tenant] /\ DueMembers \in SUBSET Members
  BY DEF Shapes, DueMembers
<1>2. listed \in PerMember(Tenant) /\ DOMAIN listed = DueMembers /\ \A m \in DueMembers : listed[m] = Row(m)
  BY <1>1 DEF PerMember, Row
<1>3. <<>> \in [{} -> Grants] /\ {} \in SUBSET Members
  OBVIOUS
<1>4. <<>> \in PerMember(Grants) /\ DOMAIN <<>> = {}
  BY <1>3 DEF PerMember
<1>5. clock \in 1 .. MaxClock
  BY DEF Shapes
<1> HIDE DEF listed
<1>6. /\ s \in Looping /\ s.pc = "next" /\ s.began = clock /\ s.listed = listed
      /\ s.needsReconnect = <<>>
  BY <1>2, <1>4, <1>5 DEF Looping
<1>7. (sweep' = s /\ UNCHANGED swept) \/
      ((\E m \in DueMembers : ~Readable(tenants[m])) /\ swept' = clock /\ UNCHANGED sweep)
  BY DEF RefreshExpiringTokens, listed
<1> HIDE DEF s
<1> QED BY <1>2, <1>4, <1>6, <1>7

LEMMA SweepsKeepShapes ==
  ASSUME Shapes, PieceInv, RefreshExpiringTokens \/ RefreshOne \/ Report
  PROVE  Shapes'
<1> USE TenantTokensAssumption
<1>1. CASE RefreshExpiringTokens
  <2>1. /\ UNCHANGED <<clock, key, tenants, login, consents, warned>> /\ server' = "running"
    BY <1>1 DEF RefreshExpiringTokens
  <2>2. sweep' \in Looping \cup Storing \cup {SweepIdle} /\ sweep'.pc # "store"
    BY <1>1, Listing DEF RefreshExpiringTokens, SweepIdle
  <2>3. swept' \in 1 .. MaxClock
    BY <1>1, Listing DEF Shapes
  <2> QED BY <2>1, <2>2, <2>3 DEF Shapes
<1>2. ASSUME NEW m \in Members, NEW scopes \in Scopes \cup {NoScopes}, NEW refresh \in BOOLEAN,
             NEW dated \in BOOLEAN, RefreshAccessToken(m, scopes, refresh, dated)
      PROVE  Shapes'
  <2> DEFINE updated == Renewed(sweep.listed[m], scopes, refresh, dated)
             s == [pc |-> "store", began |-> sweep.began, listed |-> sweep.listed,
                   needsReconnect |-> sweep.needsReconnect, member |-> m, updated |-> updated]
  <2>1. sweep.pc = "next" /\ m \in DOMAIN sweep.listed
    BY <1>2 DEF RefreshAccessToken, FirstListed
  <2>2. /\ sweep.began \in 1 .. MaxClock /\ sweep.needsReconnect \in PerMember(Grants)
        /\ sweep.listed \in PerMember(Tenant) /\ sweep.listed[m] \in Tenant
    BY <2>1, SweepShapes
  <2>3. updated \in Tenant
    BY <1>2, <2>1, <2>2, RenewedRow DEF RefreshAccessToken, PieceInv
  <2>4. sweep' = s
    BY <1>2 DEF RefreshAccessToken
  <2> HIDE DEF updated
  <2>5. s \in Storing /\ s.member = m /\ s.listed = sweep.listed
    BY <2>2, <2>3 DEF Storing
  <2> HIDE DEF s
  <2> QED BY <1>2, <2>1, <2>4, <2>5 DEF RefreshAccessToken, Shapes
<1>3. ASSUME NEW m \in DOMAIN sweep.listed, sweep.pc \in {"next", "store"}, sweep' = NeedsReconnect(sweep, m),
             UNCHANGED <<clock, server, key, tenants, login, swept, consents, warned>>
      PROVE  Shapes'
  <2>1. sweep' \in Looping /\ sweep'.pc = "next"
    BY <1>3, AfterNeedsReconnect
  <2> QED BY <1>3, <2>1 DEF Shapes
<1>4. ASSUME NEW m \in Members, RefreshUnavailable(m) PROVE Shapes'
  BY <1>3, <1>4 DEF RefreshUnavailable, FirstListed
<1>5. CASE StoreRenewed
  <2>1. sweep' \in Looping /\ sweep'.pc = "next"
    BY <1>5, AfterStore
  <2>2. sweep.member \in Members /\ Sealed(sweep.updated) \in [key: Keys, tenant: Tenant]
    BY <1>5, SweepShapes DEF StoreRenewed, Storing, Sealed, Shapes
  <2> QED BY <1>5, <2>1, <2>2 DEF StoreRenewed, OnConflict, Shapes
<1>6. CASE StoreFails
  BY <1>3, <1>6 DEF StoreFails, Shapes
<1>7. CASE Report
  <2>1. warned' \in [Members -> 0 .. MaxGrants]
    BY <1>7, SweepShapes DEF Report, Shapes, Grants
  <2>2. swept' \in 1 .. MaxClock
    BY <1>7, SweepShapes DEF Report
  <2> QED BY <1>7, <2>1, <2>2 DEF Report, Shapes, SweepIdle
<1> QED BY <1>1, <1>2, <1>4, <1>5, <1>6, <1>7 DEF RefreshOne

LEMMA ProcessKeepsShapes ==
  ASSUME Shapes, Process \/ UNCHANGED vars
  PROVE  Shapes'
<1> USE TenantTokensAssumption DEF Shapes
<1>1. CASE Stop
  BY <1>1 DEF Stop, SweepIdle
<1>2. ASSUME NEW k \in Keys, Start(k) PROVE Shapes'
  BY <1>2 DEF Start
<1>3. CASE Tick
  BY <1>3 DEF Tick
<1>4. CASE UNCHANGED vars
  BY <1>4 DEF vars
<1> QED BY <1>1, <1>2, <1>3, <1>4 DEF Process

LEMMA ShapesInit == Init => Shapes
<1> SUFFICES ASSUME Init PROVE Shapes
  OBVIOUS
<1>1. 1 \in 1 .. MaxClock
  BY TenantTokensAssumption
<1> QED BY <1>1, TenantTokensAssumption DEF Init, Shapes, SweepIdle

-----------------------------------------------------------------------------
(* Every row is of one piece.                                              *)

LEMMA SignInsKeepPieces ==
  ASSUME Shapes, PieceInv, NEW l \in Logins, Complete(l)
  PROVE  PieceInv'
<1>1. ASSUME NEW m \in Members, NEW scopes \in Scopes, NEW refresh \in BOOLEAN, NEW dated \in BOOLEAN,
             ExchangeCode(l, m, scopes, refresh, dated)
      PROVE  PieceInv'
  <2>1. UNCHANGED <<tenants, sweep>>
    BY <1>1 DEF ExchangeCode
  <2>2. ASSUME NEW n \in Members, NEW tenant, OfOnePiece(consents[n], tenant)
        PROVE  OfOnePiece(consents'[n], tenant)
    <3>1. CASE n # m
      <4>1. consents'[n] = consents[n]
        BY <1>1, <3>1, GrantedRow
      <4> QED BY <2>2, <4>1
    <3>2. CASE n = m
      <4>1. /\ Len(consents'[m]) = Len(consents[m]) + 1
            /\ \A i \in 1 .. Len(consents[m]) : consents'[m][i] = consents[m][i]
        BY <1>1, GrantedRow
      <4>2. Len(consents[m]) \in Nat
        BY LenProperties DEF Shapes
      <4> QED BY <2>2, <3>2, <4>1, <4>2 DEF OfOnePiece
    <3> QED BY <3>1, <3>2
  <2>3. /\ login' = [login EXCEPT ![l] = login'[l]] /\ login'[l].member = m
        /\ OfOnePiece(consents'[m], login'[l].tenant)
    <3>1. /\ login' = [login EXCEPT ![l] = login'[l]] /\ login'[l].member = m
          /\ Dated(login'[l].tenant) /\ Len(consents'[m]) = Len(consents[m]) + 1
          /\ login'[l].tenant.token.grant = Len(consents'[m])
      BY <1>1, GrantedRow
    <3>2. /\ consents'[m][login'[l].tenant.token.grant].scopes = login'[l].tenant.scopes
          /\ consents'[m][login'[l].tenant.token.grant].refresh = login'[l].tenant.refresh
      BY <1>1, GrantedRow
    <3>3. Len(consents[m]) \in Nat
      BY LenProperties DEF Shapes
    <3> QED BY <3>1, <3>2, <3>3 DEF OfOnePiece, Dated
  <2>4. \A n \in Members : Stored(n)' => Piece(n, Row(n))'
    BY <2>1, <2>2 DEF PieceInv, Piece, Stored, Row
  <2>5. ASSUME NEW k \in Logins, login'[k] # Idle
        PROVE  OfOnePiece(consents'[login'[k].member], login'[k].tenant)
    <3>1. CASE k = l
      BY <2>3, <3>1
    <3>2. CASE k # l
      <4>1. login'[k] = login[k]
        BY <2>3, <3>2 DEF Shapes
      <4>2. login[k].member \in Members
        BY <2>5, <4>1 DEF Shapes, SigningIn
      <4> QED BY <2>2, <2>5, <4>1, <4>2 DEF PieceInv, Piece
    <3> QED BY <3>1, <3>2
  <2>6. sweep'.pc \in {"next", "store"} =>
          \A n \in DOMAIN sweep'.listed : OfOnePiece(consents'[n], sweep'.listed[n])
    BY <2>1, <2>2, SweepShapes DEF PieceInv, Piece
  <2>7. sweep'.pc = "store" => OfOnePiece(consents'[sweep'.member], sweep'.updated)
    <3>1. sweep.pc = "store" => sweep.member \in Members
      BY SweepShapes DEF Storing
    <3> QED BY <2>1, <2>2, <3>1 DEF PieceInv, Piece
  <2> QED BY <2>4, <2>5, <2>6, <2>7 DEF PieceInv, Piece
<1>2. CASE LookupTenant(l)
  <2>1. UNCHANGED <<tenants, sweep, consents>>
    BY <1>2 DEF LookupTenant
  <2>2. ASSUME NEW k \in Logins, login'[k] # Idle PROVE Piece(login'[k].member, login'[k].tenant)
    <3>1. CASE k = l
      <4>1. login[l] \in SigningIn /\ login[l] # Idle
        BY <1>2 DEF LookupTenant, Shapes, Idle
      <4>2. login'[l] = [login[l] EXCEPT !.pc = "upsert"]
        BY <1>2, <2>2, <3>1 DEF LookupTenant, Shapes
      <4>3. login'[l].member = login[l].member /\ login'[l].tenant = login[l].tenant
        BY <4>1, <4>2 DEF SigningIn
      <4> QED BY <3>1, <4>1, <4>3 DEF PieceInv
    <3>2. CASE k # l
      BY <1>2, <2>2, <3>2 DEF LookupTenant, PieceInv, Shapes
    <3> QED BY <3>1, <3>2
  <2> QED BY <2>1, <2>2 DEF PieceInv, Piece, Stored, Row
<1>3. CASE UpsertTenant(l)
  <2>1. UNCHANGED <<sweep, consents>>
    BY <1>3 DEF UpsertTenant
  <2>2. login[l] \in SigningIn /\ login[l] # Idle
    BY <1>3 DEF UpsertTenant, Shapes, Idle
  <2>3. ASSUME NEW m \in Members, Stored(m)' PROVE Piece(m, tenants'[m].tenant)
    <3>1. CASE m = login[l].member
      <4>1. tenants'[m].tenant = login[l].tenant
        BY <1>3, <3>1 DEF UpsertTenant, OnConflict, Sealed, Shapes
      <4> QED BY <2>2, <3>1, <4>1 DEF PieceInv
    <3>2. CASE m # login[l].member
      BY <1>3, <2>3, <3>2 DEF UpsertTenant, Shapes, PieceInv, Stored, Row
    <3> QED BY <3>1, <3>2
  <2>4. \A k \in Logins : login'[k] # Idle => Piece(login'[k].member, login'[k].tenant)
    BY <1>3 DEF UpsertTenant, PieceInv, Shapes
  <2> QED BY <2>1, <2>3, <2>4 DEF PieceInv, Piece, Row
<1>4. CASE UpsertFails(l)
  <2>1. UNCHANGED <<tenants, sweep, consents>>
    BY <1>4 DEF UpsertFails
  <2>2. \A k \in Logins : login'[k] # Idle => Piece(login'[k].member, login'[k].tenant)
    BY <1>4 DEF UpsertFails, PieceInv, Shapes
  <2> QED BY <2>1, <2>2 DEF PieceInv, Piece, Stored, Row
<1> QED BY <1>1, <1>2, <1>3, <1>4 DEF Complete

LEMMA SweepsKeepPieces ==
  ASSUME Shapes, PieceInv, RefreshExpiringTokens \/ RefreshOne \/ Report
  PROVE  PieceInv'
<1>0. UNCHANGED <<login, consents>>
  BY DEF RefreshExpiringTokens, RefreshOne, RefreshAccessToken, RefreshUnavailable, StoreRenewed, StoreFails, Report
<1>1. ASSUME UNCHANGED tenants,
             sweep'.pc \in {"next", "store"} => \A m \in DOMAIN sweep'.listed : Piece(m, sweep'.listed[m]),
             sweep'.pc = "store" => Piece(sweep'.member, sweep'.updated)
      PROVE  PieceInv'
  BY <1>0, <1>1 DEF PieceInv, Piece, Stored, Row
<1>2. CASE RefreshExpiringTokens
  <2>0. UNCHANGED tenants
    BY <1>2 DEF RefreshExpiringTokens
  <2>1. CASE sweep'.pc = "next" /\ DOMAIN sweep'.listed = DueMembers
             /\ \A m \in DueMembers : sweep'.listed[m] = Row(m)
    <3>1. \A m \in DueMembers : Piece(m, Row(m))
      BY DEF DueMembers, PieceInv, Stored
    <3> QED BY <1>1, <2>0, <2>1, <3>1
  <2>2. CASE UNCHANGED sweep
    BY <1>1, <2>0, <2>2 DEF PieceInv
  <2> QED BY <1>2, <2>1, <2>2, Listing
<1>3. ASSUME NEW m \in Members, NEW scopes \in Scopes \cup {NoScopes}, NEW refresh \in BOOLEAN,
             NEW dated \in BOOLEAN, RefreshAccessToken(m, scopes, refresh, dated)
      PROVE  PieceInv'
  <2>1. sweep.pc = "next" /\ m \in DOMAIN sweep.listed
    BY <1>3 DEF RefreshAccessToken, FirstListed
  <2>2. sweep.listed[m] \in Tenant
    BY <2>1, SweepShapes
  <2>3. Piece(m, Renewed(sweep.listed[m], scopes, refresh, dated))
    BY <1>3, <2>1, <2>2, RenewedRow DEF RefreshAccessToken, PieceInv
  <2>4. /\ sweep'.pc = "store" /\ sweep'.listed = sweep.listed /\ sweep'.member = m
        /\ sweep'.updated = Renewed(sweep.listed[m], scopes, refresh, dated) /\ UNCHANGED tenants
    BY <1>3 DEF RefreshAccessToken
  <2> QED BY <1>1, <2>1, <2>3, <2>4 DEF PieceInv
<1>4. ASSUME NEW m \in DOMAIN sweep.listed, sweep.pc \in {"next", "store"}, sweep' = NeedsReconnect(sweep, m),
             UNCHANGED tenants
      PROVE  PieceInv'
  <2>1. /\ sweep'.pc = "next" /\ DOMAIN sweep'.listed = DOMAIN sweep.listed \ {m}
        /\ \A n \in DOMAIN sweep.listed \ {m} : sweep'.listed[n] = sweep.listed[n]
    BY <1>4, AfterNeedsReconnect
  <2> QED BY <1>1, <1>4, <2>1 DEF PieceInv
<1>5. ASSUME NEW m \in Members, RefreshUnavailable(m) PROVE PieceInv'
  BY <1>4, <1>5 DEF RefreshUnavailable, FirstListed
<1>6. CASE StoreRenewed
  <2>1. /\ sweep'.pc = "next" /\ DOMAIN sweep'.listed = DOMAIN sweep.listed \ {sweep.member}
        /\ \A n \in DOMAIN sweep.listed \ {sweep.member} : sweep'.listed[n] = sweep.listed[n]
    BY <1>6, AfterStore
  <2>2. sweep.pc = "store" /\ tenants' = [tenants EXCEPT ![sweep.member] = Sealed(sweep.updated)]
    BY <1>6 DEF StoreRenewed, OnConflict
  <2>3. ASSUME NEW m \in Members, Stored(m)' PROVE Piece(m, tenants'[m].tenant)
    <3>1. CASE m = sweep.member
      <4>1. tenants'[m].tenant = sweep.updated
        BY <2>2, <3>1 DEF Sealed, Shapes
      <4> QED BY <2>2, <3>1, <4>1 DEF PieceInv
    <3>2. CASE m # sweep.member
      BY <2>2, <2>3, <3>2 DEF Shapes, PieceInv, Stored, Row
    <3> QED BY <3>1, <3>2
  <2> QED BY <1>0, <2>1, <2>2, <2>3 DEF PieceInv, Piece, Row
<1>7. CASE StoreFails
  BY <1>4, <1>7 DEF StoreFails, Shapes
<1>8. CASE Report
  BY <1>1, <1>8 DEF Report, SweepIdle
<1> QED BY <1>2, <1>3, <1>5, <1>6, <1>7, <1>8 DEF RefreshOne

LEMMA ProcessKeepsPieces ==
  ASSUME Shapes, PieceInv, Process \/ UNCHANGED vars
  PROVE  PieceInv'
<1>1. CASE Stop
  <2>1. \A l \in Logins : login'[l] = Idle
    BY <1>1 DEF Stop
  <2> QED BY <1>1, <2>1 DEF Stop, SweepIdle, PieceInv, Piece, Stored, Row
<1>2. ASSUME NEW k \in Keys, Start(k) PROVE PieceInv'
  BY <1>2 DEF Start, PieceInv, Piece, Stored, Row
<1>3. CASE Tick
  BY <1>3 DEF Tick, PieceInv, Piece, Stored, Row
<1>4. CASE UNCHANGED vars
  BY <1>4 DEF vars, PieceInv, Piece, Stored, Row
<1> QED BY <1>1, <1>2, <1>3, <1>4 DEF Process

LEMMA PieceInit == Init => PieceInv
BY DEF Init, PieceInv, Stored, SweepIdle

LEMMA Step == Shapes /\ PieceInv /\ [Next]_vars => Shapes' /\ PieceInv'
<1> SUFFICES ASSUME Shapes, PieceInv, [Next]_vars PROVE Shapes' /\ PieceInv'
  OBVIOUS
<1>1. ASSUME NEW l \in Logins, Complete(l) PROVE Shapes' /\ PieceInv'
  BY <1>1, SignInsKeepShapes, SignInsKeepPieces
<1>2. CASE RefreshExpiringTokens \/ RefreshOne \/ Report
  BY <1>2, SweepsKeepShapes, SweepsKeepPieces
<1>3. CASE Process \/ UNCHANGED vars
  BY <1>3, ProcessKeepsShapes, ProcessKeepsPieces
<1> QED BY <1>1, <1>2, <1>3 DEF Next

\* Rows, sign-ins and the sweep keep their shapes, and consents their order.
THEOREM TypeCorrect == Spec => []TypeOK
<1>1. ASSUME Shapes PROVE TypeOK
  <2>1. \/ sweep = SweepIdle
        \/ /\ sweep.pc \in {"next", "store"} /\ sweep.began \in 1 .. MaxClock
           /\ DOMAIN sweep.listed \subseteq Members
           /\ \A m \in DOMAIN sweep.listed : sweep.listed[m] \in Tenant
           /\ DOMAIN sweep.needsReconnect \subseteq Members
           /\ \A m \in DOMAIN sweep.needsReconnect : sweep.needsReconnect[m] \in Grants
           /\ sweep.pc = "store" => sweep.member \in DOMAIN sweep.listed /\ sweep.updated \in Tenant
    <3>1. sweep.pc = "store" => sweep.updated \in Tenant
      BY <1>1, SweepShapes DEF Storing
    <3>2. sweep.pc = "store" => sweep.member \in DOMAIN sweep.listed
      BY <1>1 DEF Shapes
    <3> QED BY <1>1, <3>1, <3>2, SweepShapes
  <2>2. ASSUME NEW m \in Members
        PROVE  /\ Len(consents[m]) <= MaxGrants
               /\ \A g \in DOMAIN consents[m] : consents[m][g] \in [scopes: Scopes, refresh: BOOLEAN]
    <3>1. consents[m] \in Seq(Consent) /\ Len(consents[m]) <= MaxGrants
      BY <1>1 DEF Shapes
    <3> QED BY <3>1, ElementOfSeq, LenProperties DEF Consent
  <2>3. \A l \in Logins :
          login[l] \in [pc: {"lookup", "upsert"}, member: Members, tenant: Tenant] \cup {Idle}
    BY <1>1 DEF Shapes, SigningIn
  <2> QED BY <1>1, <2>1, <2>2, <2>3 DEF Shapes, TypeOK, SigningIn
<1> QED BY <1>1, ShapesInit, PieceInit, Step, PTL DEF Spec

\* Sign-ins and partial answers of LinkedIn, in any order, leave no row with the
\* scopes, the refresh token or the deadline of another consent.
THEOREM OnePiece == Spec => []RowIsOfOnePiece
<1>1. PieceInv => RowIsOfOnePiece
  BY DEF PieceInv, Piece, OfOnePiece, RowIsOfOnePiece
<1> QED BY <1>1, ShapesInit, PieceInit, Step, PTL DEF Spec

-----------------------------------------------------------------------------
(* The sweep keeps its promises as long as the operator keeps the key.     *)

KeyKept == "keyloss" \notin Faults

LEMMA RowsStayLegible ==
  ASSUME KeyKept, Shapes, Legible, [Next]_vars
  PROVE  Legible' /\ key' = key
<1>1. key' = key
  BY DEF KeyKept, Next, vars, Complete, ExchangeCode, LookupTenant, UpsertTenant, UpsertFails,
         RefreshExpiringTokens, RefreshOne, RefreshAccessToken, RefreshUnavailable, StoreRenewed, StoreFails,
         Report, Process, Stop, Start, Tick
<1>2. ASSUME NEW m \in Members, NEW tenant, tenants' = [tenants EXCEPT ![m] = Sealed(tenant)]
      PROVE  Legible'
  BY <1>1, <1>2 DEF Legible, Stored, Readable, Sealed, Shapes
<1>3. ASSUME UNCHANGED tenants PROVE Legible'
  BY <1>1, <1>3 DEF Legible, Stored, Readable
<1>4. ASSUME NEW l \in Logins, UpsertTenant(l) PROVE Legible'
  <2>1. login[l].member \in Members
    BY <1>4 DEF UpsertTenant, Shapes, SigningIn, Idle
  <2> QED BY <1>2, <1>4, <2>1 DEF UpsertTenant, OnConflict
<1>5. CASE StoreRenewed
  <2>1. sweep.member \in Members
    BY <1>5, SweepShapes DEF StoreRenewed, Storing
  <2> QED BY <1>2, <1>5, <2>1 DEF StoreRenewed, OnConflict
<1>6. UNCHANGED tenants \/ StoreRenewed \/ \E l \in Logins : UpsertTenant(l)
  BY DEF Next, vars, Complete, ExchangeCode, LookupTenant, UpsertFails,
         RefreshExpiringTokens, RefreshOne, RefreshAccessToken, RefreshUnavailable, StoreFails,
         Report, Process, Stop, Start, Tick
<1> QED BY <1>1, <1>3, <1>4, <1>5, <1>6

\* The numbers in rows and sweeps are numbers.
LEMMA Numbers ==
  ASSUME Shapes
  PROVE  /\ clock \in Nat /\ swept \in Nat
         /\ Window \in Nat /\ Recheck \in Nat /\ Lifetime \in Nat /\ MaxGap \in Nat
         /\ sweep.pc \in {"next", "store"} => sweep.began \in Nat
         /\ \A tenant \in Tenant :
              tenant.updated \in Nat /\ tenant.expires \in Nat /\ tenant.token.dies \in Nat
         /\ \A m \in Members : Stored(m) => Row(m) \in Tenant
<1>1. \A t \in Time : t \in Nat
  BY TenantTokensAssumption DEF Time
<1>2. \A m \in Members : Stored(m) => Row(m) \in Tenant
  BY DEF Shapes, Stored, Row
<1>3. sweep.pc \in {"next", "store"} => sweep.began \in Nat
  BY SweepShapes, TenantTokensAssumption
<1>4. \A tenant \in Tenant :
        tenant.updated \in Nat /\ tenant.expires \in Nat /\ tenant.token.dies \in Nat
  BY <1>1 DEF Tenant, Token
<1> QED BY <1>2, <1>3, <1>4, TenantTokensAssumption DEF Shapes

\* A row that is written now is settled.
LEMMA WritingAttends ==
  ASSUME Shapes, TimeInv, NEW m \in Members, NEW tenant, tenant.updated = clock,
         tenants'[m] = Sealed(tenant), UNCHANGED <<swept, warned>>,
         sweep'.pc \in {"next", "store"} => sweep.pc \in {"next", "store"} /\ sweep'.began = sweep.began
  PROVE  Attended(m)'
<1>1. tenants'[m].tenant = tenant
  BY DEF Sealed
<1>2. Settled(tenant, swept)
  BY DEF TimeInv, Settled
<1>3. sweep'.pc \in {"next", "store"} => Settled(tenant, sweep.began)
  BY DEF TimeInv, Settled
<1> QED BY <1>1, <1>2, <1>3 DEF Attended, Row, Settled

LEMMA SignInsKeepTime ==
  ASSUME Shapes, TimeInv, NEW l \in Logins, Complete(l)
  PROVE  TimeInv'
<1>0. UNCHANGED <<clock, swept, sweep, warned>>
  BY DEF Complete, ExchangeCode, LookupTenant, UpsertTenant, UpsertFails
<1>1. ASSUME UNCHANGED tenants,
             \A k \in Logins : login'[k] # Idle => login'[k].tenant.updated = clock /\ Dated(login'[k].tenant)
      PROVE  TimeInv'
  <2>1. \A m \in Members : Stored(m)' => (Dated(Row(m)) /\ Attended(m))'
    BY <1>0, <1>1 DEF TimeInv, Stored, Row, Attended, Unrenewable, Settled, Dated
  <2> QED BY <1>0, <1>1, <2>1 DEF TimeInv, Dated
<1>2. ASSUME NEW m \in Members, NEW scopes \in Scopes, NEW refresh \in BOOLEAN, NEW dated \in BOOLEAN,
             ExchangeCode(l, m, scopes, refresh, dated)
      PROVE  TimeInv'
  <2>1. login' = [login EXCEPT ![l] = login'[l]]
    BY <1>2, GrantedRow
  <2>2. Dated(login'[l].tenant) /\ login'[l].tenant.updated = clock
    BY <1>2, GrantedRow
  <2>3. UNCHANGED tenants
    BY <1>2 DEF ExchangeCode
  <2>4. \A k \in Logins : k # l => login'[k] = login[k]
    BY <2>1 DEF Shapes
  <2> QED BY <1>1, <2>2, <2>3, <2>4 DEF TimeInv
<1>3. CASE LookupTenant(l)
  <2>1. login[l] \in SigningIn /\ login[l] # Idle
    BY <1>3 DEF LookupTenant, Shapes, Idle
  <2>2. login'[l] = Idle \/ login'[l] = [login[l] EXCEPT !.pc = "upsert"]
    BY <1>3 DEF LookupTenant, Shapes
  <2>3. login'[l] # Idle => login'[l].tenant = login[l].tenant
    BY <2>1, <2>2 DEF SigningIn
  <2>4. \A k \in Logins : k # l => login'[k] = login[k]
    BY <1>3 DEF LookupTenant, Shapes
  <2>5. UNCHANGED tenants
    BY <1>3 DEF LookupTenant
  <2> QED BY <1>1, <2>1, <2>3, <2>4, <2>5 DEF TimeInv
<1>4. CASE UpsertTenant(l)
  <2>0. login[l] \in SigningIn /\ login[l] # Idle
    BY <1>4 DEF UpsertTenant, Shapes, Idle
  <2>m. PICK m \in Members : m = login[l].member
    BY <2>0 DEF SigningIn
  <2>t. PICK tenant \in Tenant : tenant = login[l].tenant
    BY <2>0 DEF SigningIn
  <2>1. tenant.updated = clock /\ Dated(tenant)
    BY <2>0, <2>t DEF TimeInv
  <2>2. tenants' = [tenants EXCEPT ![m] = Sealed(tenant)] /\ login' = [login EXCEPT ![l] = Idle]
    BY <1>4, <2>m, <2>t DEF UpsertTenant, OnConflict
  <2>3. \A k \in Logins : login'[k] # Idle => login'[k] = login[k]
    BY <2>2 DEF Shapes
  <2>4. tenants'[m] = Sealed(tenant) /\ \A n \in Members : n # m => tenants'[n] = tenants[n]
    BY <2>2 DEF Shapes
  <2>5. Attended(m)' /\ Dated(tenants'[m].tenant)
    <3>1. Attended(m)'
      BY <1>0, <2>1, <2>4, WritingAttends
    <3>2. tenants'[m].tenant = tenant
      BY <2>4 DEF Sealed
    <3> QED BY <2>1, <3>1, <3>2
  <2>6. \A n \in Members : n # m /\ Stored(n)' => (Dated(Row(n)) /\ Attended(n))'
    BY <1>0, <2>4 DEF TimeInv, Stored, Row, Attended, Unrenewable, Settled, Dated
  <2>7. \A n \in Members : Stored(n)' => (Dated(Row(n)) /\ Attended(n))'
    BY <2>5, <2>6 DEF Row, Dated
  <2> QED BY <1>0, <2>3, <2>7 DEF TimeInv, Dated
<1>5. CASE UpsertFails(l)
  <2>1. UNCHANGED tenants /\ \A k \in Logins : login'[k] # Idle => login'[k] = login[k]
    BY <1>5 DEF UpsertFails, Shapes
  <2> QED BY <1>1, <2>1 DEF TimeInv
<1> QED BY <1>2, <1>3, <1>4, <1>5 DEF Complete

LEMMA SweepsKeepTime ==
  ASSUME Shapes, PieceInv, Legible, TimeInv, RefreshExpiringTokens \/ RefreshOne \/ Report
  PROVE  TimeInv'
<1>0. UNCHANGED <<clock, login>>
  BY DEF RefreshExpiringTokens, RefreshOne, RefreshAccessToken, RefreshUnavailable, StoreRenewed, StoreFails, Report
<1>1. ASSUME UNCHANGED <<swept, warned, tenants>>,
             sweep'.pc \in {"next", "store"} => swept <= sweep'.began /\ sweep'.began <= clock,
             sweep'.pc = "store" => sweep'.updated.updated = clock /\ Dated(sweep'.updated),
             \A m \in Members : Stored(m) => Attended(m)'
      PROVE  TimeInv'
  BY <1>0, <1>1 DEF TimeInv, Stored, Row, Dated
<1>2. CASE RefreshExpiringTokens
  <2>1. /\ sweep'.pc = "next" /\ sweep'.began = clock /\ DOMAIN sweep'.listed = DueMembers
        /\ \A m \in DueMembers : sweep'.listed[m] = Row(m)
        /\ UNCHANGED <<swept, warned, tenants>>
    BY <1>2, Listing DEF Legible, DueMembers, Stored, RefreshExpiringTokens
  <2>2. ASSUME NEW m \in Members, Stored(m) PROVE Attended(m)'
    <3>1. m \in DueMembers \/ Settled(Row(m), clock)
      <4>1. Row(m).expires \in Nat /\ Row(m).updated \in Nat /\ clock \in Nat /\ Window \in Nat /\ Recheck \in Nat
        BY <2>2, Numbers
      <4>2. m \in DueMembers \/ ~Due(Row(m))
        BY <2>2 DEF DueMembers, Stored, Row
      <4> QED BY <4>1, <4>2 DEF Due, Settled
    <3>2. Settled(Row(m), swept) \/ (Unrenewable(m) /\ warned[m] = Row(m).token.grant)
      BY <2>2 DEF TimeInv, Attended
    <3> QED BY <2>1, <2>2, <3>1, <3>2 DEF Attended, Row, Unrenewable, Settled
  <2>3. swept <= clock
    BY DEF TimeInv
  <2> QED BY <1>1, <2>1, <2>2, <2>3, Numbers
<1>3. ASSUME NEW m \in Members, NEW scopes \in Scopes \cup {NoScopes}, NEW refresh \in BOOLEAN,
             NEW dated \in BOOLEAN, RefreshAccessToken(m, scopes, refresh, dated)
      PROVE  TimeInv'
  <2>1. sweep.pc = "next" /\ m \in DOMAIN sweep.listed
    BY <1>3 DEF RefreshAccessToken, FirstListed
  <2>2. sweep.listed[m] \in Tenant
    BY <2>1, SweepShapes
  <2>3. /\ Dated(Renewed(sweep.listed[m], scopes, refresh, dated))
        /\ Renewed(sweep.listed[m], scopes, refresh, dated).updated = clock
    BY <1>3, <2>1, <2>2, RenewedRow DEF RefreshAccessToken, PieceInv
  <2>4. /\ sweep'.pc = "store" /\ sweep'.listed = sweep.listed /\ sweep'.began = sweep.began
        /\ sweep'.needsReconnect = sweep.needsReconnect
        /\ sweep'.updated = Renewed(sweep.listed[m], scopes, refresh, dated)
        /\ UNCHANGED <<swept, warned, tenants>>
    BY <1>3 DEF RefreshAccessToken
  <2>5. \A n \in Members : Stored(n) => Attended(n)'
    BY <2>1, <2>4 DEF TimeInv, Attended, Row, Unrenewable, Settled
  <2>6. swept <= sweep'.began /\ sweep'.began <= clock
    BY <2>1, <2>4 DEF TimeInv
  <2> QED BY <1>1, <2>3, <2>4, <2>5, <2>6
<1>4. ASSUME NEW m \in DOMAIN sweep.listed, sweep.pc \in {"next", "store"}, sweep' = NeedsReconnect(sweep, m),
             m \in Unlucky \/ ~sweep.listed[m].refresh,
             UNCHANGED <<swept, warned, tenants>>
      PROVE  TimeInv'
  <2>1. /\ sweep'.pc = "next" /\ sweep'.began = sweep.began
        /\ DOMAIN sweep'.listed = DOMAIN sweep.listed \ {m}
        /\ \A n \in DOMAIN sweep.listed \ {m} : sweep'.listed[n] = sweep.listed[n]
        /\ DOMAIN sweep'.needsReconnect = DOMAIN sweep.needsReconnect \cup {m}
        /\ sweep'.needsReconnect[m] = sweep.listed[m].token.grant
        /\ \A n \in DOMAIN sweep.needsReconnect \ {m} : sweep'.needsReconnect[n] = sweep.needsReconnect[n]
    BY <1>4, AfterNeedsReconnect
  <2>2. ASSUME NEW n \in Members, Stored(n) PROVE Attended(n)'
    <3>1. Settled(Row(n), swept) \/ (Unrenewable(n) /\ warned[n] = Row(n).token.grant)
      BY <2>2 DEF TimeInv, Attended
    <3>2. \/ Settled(Row(n), sweep.began)
          \/ n \in DOMAIN sweep.listed /\ Row(n) = sweep.listed[n]
          \/ /\ Unrenewable(n) /\ n \notin DOMAIN sweep.listed
             /\ n \in DOMAIN sweep.needsReconnect /\ sweep.needsReconnect[n] = Row(n).token.grant
      BY <1>4, <2>2 DEF TimeInv, Attended
    <3>3. CASE n = m
      <4>1. Settled(Row(n), sweep.began) \/ (Unrenewable(n) /\ Row(n) = sweep.listed[n])
        BY <1>4, <3>2, <3>3 DEF Unrenewable
      <4> QED BY <1>4, <2>1, <3>1, <3>3, <4>1 DEF Attended, Row, Unrenewable, Settled
    <3>4. CASE n # m
      <4>1. \/ Settled(Row(n), sweep'.began)
            \/ n \in DOMAIN sweep'.listed /\ Row(n) = sweep'.listed[n]
            \/ /\ Unrenewable(n) /\ n \notin DOMAIN sweep'.listed
               /\ n \in DOMAIN sweep'.needsReconnect /\ sweep'.needsReconnect[n] = Row(n).token.grant
        BY <2>1, <3>2, <3>4
      <4> QED BY <1>4, <3>1, <4>1 DEF Attended, Row, Unrenewable, Settled
    <3> QED BY <3>3, <3>4
  <2>3. swept <= sweep'.began /\ sweep'.began <= clock
    BY <1>4, <2>1 DEF TimeInv
  <2> QED BY <1>1, <1>4, <2>1, <2>2, <2>3
<1>5. ASSUME NEW m \in Members, RefreshUnavailable(m) PROVE TimeInv'
  BY <1>4, <1>5 DEF RefreshUnavailable, FirstListed
<1>6. CASE StoreRenewed
  <2>m. PICK m \in Members : m = sweep.member
    BY <1>6, SweepShapes DEF StoreRenewed, Storing
  <2>t. PICK tenant \in Tenant : tenant = sweep.updated
    BY <1>6, SweepShapes DEF StoreRenewed, Storing
  <2>1. /\ sweep'.pc = "next" /\ sweep'.began = sweep.began
        /\ DOMAIN sweep'.listed = DOMAIN sweep.listed \ {m}
        /\ \A n \in DOMAIN sweep.listed \ {m} : sweep'.listed[n] = sweep.listed[n]
        /\ sweep'.needsReconnect = sweep.needsReconnect
    BY <1>6, <2>m, AfterStore
  <2>2. /\ sweep.pc = "store" /\ UNCHANGED <<swept, warned>>
        /\ tenants' = [tenants EXCEPT ![m] = Sealed(tenant)]
    BY <1>6, <2>m, <2>t DEF StoreRenewed, OnConflict
  <2>3. tenant.updated = clock /\ Dated(tenant)
    BY <2>2, <2>t DEF TimeInv
  <2>4. tenants'[m] = Sealed(tenant) /\ \A n \in Members : n # m => tenants'[n] = tenants[n]
    BY <2>2 DEF Shapes
  <2>5. Attended(m)' /\ Dated(tenants'[m].tenant)
    <3>1. Attended(m)'
      BY <2>1, <2>2, <2>3, <2>4, WritingAttends
    <3>2. tenants'[m].tenant = tenant
      BY <2>4 DEF Sealed
    <3> QED BY <2>3, <3>1, <3>2
  <2>6. ASSUME NEW n \in Members, n # m, Stored(n)' PROVE Dated(tenants'[n].tenant) /\ Attended(n)'
    <3>1. Stored(n) /\ tenants'[n].tenant = Row(n)
      BY <2>4, <2>6 DEF Stored, Row
    <3>2. /\ Dated(Row(n))
          /\ Settled(Row(n), swept) \/ (Unrenewable(n) /\ warned[n] = Row(n).token.grant)
      BY <3>1 DEF TimeInv, Attended
    <3>3. \/ Settled(Row(n), sweep'.began)
          \/ n \in DOMAIN sweep'.listed /\ Row(n) = sweep'.listed[n]
          \/ /\ Unrenewable(n) /\ n \notin DOMAIN sweep'.listed
             /\ n \in DOMAIN sweep'.needsReconnect /\ sweep'.needsReconnect[n] = Row(n).token.grant
      BY <2>1, <2>2, <2>6, <3>1 DEF TimeInv, Attended
    <3> QED BY <2>2, <3>1, <3>2, <3>3 DEF Attended, Row, Unrenewable, Settled
  <2>7. \A n \in Members : Stored(n)' => (Dated(Row(n)) /\ Attended(n))'
    BY <2>5, <2>6 DEF Row, Dated
  <2> QED BY <1>0, <2>1, <2>2, <2>7 DEF TimeInv, Dated
<1>7. CASE StoreFails
  BY <1>4, <1>7 DEF StoreFails, Shapes
<1>8. CASE Report
  <2>1. /\ sweep.pc = "next" /\ DOMAIN sweep.listed = {} /\ swept' = sweep.began /\ sweep' = SweepIdle
        /\ UNCHANGED tenants
        /\ \A m \in Members : warned'[m] =
             IF m \in DOMAIN sweep.needsReconnect THEN sweep.needsReconnect[m] ELSE warned[m]
    BY <1>8 DEF Report
  <2>2. swept' <= clock /\ clock <= swept' + MaxGap
    <3>1. /\ swept \in Nat /\ MaxGap \in Nat /\ clock \in Nat /\ sweep.began \in Nat
      BY <2>1, Numbers
    <3>2. swept <= sweep.began /\ sweep.began <= clock /\ clock <= swept + MaxGap
      BY <2>1 DEF TimeInv
    <3> QED BY <2>1, <3>1, <3>2
  <2>3. ASSUME NEW m \in Members, Stored(m)' PROVE Dated(tenants'[m].tenant) /\ Attended(m)'
    <3>1. Stored(m)
      BY <2>1, <2>3 DEF Stored
    <3>2. \/ Settled(Row(m), sweep.began)
          \/ Unrenewable(m) /\ warned'[m] = Row(m).token.grant
      BY <2>1, <3>1 DEF TimeInv, Attended
    <3> QED BY <2>1, <3>1, <3>2 DEF TimeInv, Attended, Row, Unrenewable, Settled, SweepIdle
  <2>4. \A m \in Members : Stored(m)' => (Dated(Row(m)) /\ Attended(m))'
    BY <2>3 DEF Row, Dated
  <2> QED BY <1>0, <2>1, <2>2, <2>4 DEF TimeInv, Dated, SweepIdle
<1> QED BY <1>2, <1>3, <1>5, <1>6, <1>7, <1>8 DEF RefreshOne

LEMMA ProcessKeepsTime ==
  ASSUME Shapes, TimeInv, Process \/ UNCHANGED vars
  PROVE  TimeInv'
<1>0. UNCHANGED <<swept, warned, tenants>>
  BY DEF Process, Stop, Start, Tick, vars
<1>1. CASE Stop
  <2>1. sweep' = SweepIdle /\ UNCHANGED clock /\ \A l \in Logins : login'[l] = Idle
    BY <1>1 DEF Stop
  <2>2. \A m \in Members : Stored(m)' => (Dated(Row(m)) /\ Attended(m))'
    BY <1>0, <2>1 DEF TimeInv, Stored, Row, Attended, Unrenewable, Settled, Dated, SweepIdle
  <2> QED BY <1>0, <2>1, <2>2 DEF TimeInv, SweepIdle
<1>2. ASSUME UNCHANGED <<sweep, login>>,
             swept <= clock' /\ clock' <= swept + MaxGap,
             sweep.pc \in {"next", "store"} => sweep.began <= clock',
             clock' = clock \/ NoRequestInFlight
      PROVE  TimeInv'
  <2>1. \A m \in Members : Stored(m)' => (Dated(Row(m)) /\ Attended(m))'
    BY <1>0, <1>2 DEF TimeInv, Stored, Row, Attended, Unrenewable, Settled, Dated
  <2>2. \A l \in Logins : login'[l] # Idle => login'[l].tenant.updated = clock' /\ Dated(login'[l].tenant)
    BY <1>2 DEF TimeInv, NoRequestInFlight
  <2>3. sweep'.pc = "store" => sweep'.updated.updated = clock' /\ Dated(sweep'.updated)
    BY <1>2 DEF TimeInv, NoRequestInFlight
  <2> QED BY <1>0, <1>2, <2>1, <2>2, <2>3 DEF TimeInv, Dated
<1>3. CASE UNCHANGED vars \/ \E k \in Keys : Start(k)
  BY <1>2, <1>3 DEF vars, Start, TimeInv
<1>4. CASE Tick
  <2>1. /\ clock \in Nat /\ swept \in Nat /\ MaxGap \in Nat
        /\ sweep.pc \in {"next", "store"} => sweep.began \in Nat
    BY Numbers
  <2>2. /\ clock < swept + MaxGap /\ clock' = clock + 1 /\ NoRequestInFlight /\ UNCHANGED <<sweep, login>>
    BY <1>4 DEF Tick
  <2>3. swept <= clock /\ (sweep.pc \in {"next", "store"} => sweep.began <= clock)
    BY DEF TimeInv
  <2>4. swept <= clock' /\ clock' <= swept + MaxGap
    BY <2>1, <2>2, <2>3
  <2>5. sweep.pc \in {"next", "store"} => sweep.began <= clock'
    BY <2>1, <2>2, <2>3
  <2> QED BY <1>2, <2>2, <2>4, <2>5
<1> QED BY <1>1, <1>3, <1>4 DEF Process


LEMMA TimeInit == Init => Legible /\ TimeInv
<1> SUFFICES ASSUME Init PROVE Legible /\ TimeInv
  OBVIOUS
<1>1. \A m \in Members : ~Stored(m)
  BY DEF Init, Stored
<1>2. clock <= swept + MaxGap /\ swept <= clock
  BY TenantTokensAssumption DEF Init
<1> QED BY <1>1, <1>2 DEF Init, Legible, TimeInv, SweepIdle

LEMMA TimeStep ==
  ASSUME KeyKept
  PROVE  Shapes /\ PieceInv /\ Legible /\ TimeInv /\ [Next]_vars => Legible' /\ TimeInv'
<1> SUFFICES ASSUME Shapes, PieceInv, Legible, TimeInv, [Next]_vars PROVE Legible' /\ TimeInv'
  OBVIOUS
<1>1. Legible'
  BY RowsStayLegible
<1>2. ASSUME NEW l \in Logins, Complete(l) PROVE TimeInv'
  BY <1>2, SignInsKeepTime
<1>3. CASE RefreshExpiringTokens \/ RefreshOne \/ Report
  BY <1>1, <1>3, SweepsKeepTime
<1>4. CASE Process \/ UNCHANGED vars
  BY <1>1, <1>4, ProcessKeepsTime
<1> QED BY <1>1, <1>2, <1>3, <1>4 DEF Next

\* What the sweep's period, its window and LinkedIn's lifetimes have to be: twelve
\* hours and the longest outage are shorter than the fourteen days of the window,
\* and with the seven days of the recheck shorter than sixty.
Timely == MaxGap < Window /\ Recheck + MaxGap < Lifetime

\* A token that a sweep left alone outlives the next one.
LEMMA SettledLives ==
  ASSUME Timely, Shapes, TimeInv, NEW m \in Members, Stored(m), Settled(Row(m), swept)
  PROVE  clock < Row(m).token.dies
<1>1. /\ clock \in Nat /\ swept \in Nat
      /\ Window \in Nat /\ Recheck \in Nat /\ Lifetime \in Nat /\ MaxGap \in Nat
      /\ Row(m).updated \in Nat /\ Row(m).expires \in Nat /\ Row(m).token.dies \in Nat
  BY Numbers
<1>2. clock <= swept + MaxGap /\ Dated(Row(m))
  BY DEF TimeInv
<1>3. Row(m).token.dies = Row(m).updated + Lifetime /\ Row(m).expires \in {0, Row(m).token.dies}
  BY <1>2 DEF Dated
<1>4. \/ Row(m).updated >= swept
      \/ Row(m).expires > 0 /\ Row(m).expires >= swept + Window
      \/ Row(m).expires = 0 /\ Row(m).updated + Recheck >= swept
  BY DEF Settled
<1> QED BY <1>1, <1>2, <1>3, <1>4 DEF Timely

\* While the key is kept, nobody whose renewals LinkedIn accepts drops off,
\* whatever fails for the others in the list, however sign-ins overlap the
\* sweep, and wherever a restart cuts it.
THEOREM NobodyIsDropped == KeyKept /\ Timely => (Spec => []NobodyDropsOff)
<1> SUFFICES ASSUME KeyKept, Timely PROVE Spec => []NobodyDropsOff
  OBVIOUS
<1>1. ASSUME Shapes, TimeInv PROVE NobodyDropsOff
  <2> SUFFICES ASSUME NEW m \in Members \ Unlucky, Stored(m), Row(m).refresh
               PROVE  clock < Row(m).token.dies
    BY DEF NobodyDropsOff
  <2>1. Settled(Row(m), swept)
    BY <1>1 DEF TimeInv, Attended, Unrenewable
  <2> QED BY <1>1, <2>1, SettledLives
<1> QED BY <1>1, ShapesInit, PieceInit, Step, TimeInit, TimeStep, PTL DEF Spec

\* While the key is kept, a token that dies was reported first, as the consent
\* it belongs to.
THEOREM EverybodyIsWarned == KeyKept /\ Timely => (Spec => []WarnedInTime)
<1> SUFFICES ASSUME KeyKept, Timely PROVE Spec => []WarnedInTime
  OBVIOUS
<1>1. ASSUME Shapes, TimeInv PROVE WarnedInTime
  <2> SUFFICES ASSUME NEW m \in Members, Stored(m), clock >= Row(m).token.dies
               PROVE  warned[m] = Row(m).token.grant
    BY DEF WarnedInTime
  <2>1. Settled(Row(m), swept) \/ warned[m] = Row(m).token.grant
    BY <1>1 DEF TimeInv, Attended
  <2>2. ~(clock < Row(m).token.dies)
    BY <1>1, Numbers
  <2> QED BY <1>1, <2>1, <2>2, SettledLives
<1> QED BY <1>1, ShapesInit, PieceInit, Step, TimeInit, TimeStep, PTL DEF Spec

\* While the key is kept, a sign-in that ends without an error has stored the
\* tokens LinkedIn gave it.
THEOREM SignInsRestore == KeyKept => (Spec => SignInRestores)
<1> SUFFICES ASSUME KeyKept PROVE Spec => SignInRestores
  OBVIOUS
<1> DEFINE Restores == \A l \in Logins :
       login[l] # Idle /\ login'[l] = Idle /\ server' # "down"
         /\ login[l].member \notin Unlucky =>
         tenants'[login[l].member] # None
         /\ tenants'[login[l].member].tenant = login[l].tenant
<1>1. ASSUME Shapes, Legible, [Next]_vars PROVE Restores
  <2> SUFFICES ASSUME NEW l \in Logins, login[l] # Idle, login'[l] = Idle, server' # "down",
                      login[l].member \notin Unlucky
               PROVE  /\ tenants'[login[l].member] # None
                      /\ tenants'[login[l].member].tenant = login[l].tenant
    OBVIOUS
  <2>1. login[l] \in SigningIn
    BY <1>1 DEF Shapes
  <2>2. CASE UpsertTenant(l)
    <3>1. tenants'[login[l].member] = Sealed(login[l].tenant)
      BY <1>1, <2>1, <2>2 DEF UpsertTenant, OnConflict, Shapes, SigningIn
    <3>2. Sealed(login[l].tenant) \in [key: Keys, tenant: Tenant]
      BY <1>1, <2>1 DEF Sealed, Shapes, SigningIn
    <3> QED BY <3>1, <3>2, NoneIsNoRow DEF Sealed
  <2>3. ~LookupTenant(l)
    <3>1. ASSUME LookupTenant(l)
          PROVE  login'[l] = [login[l] EXCEPT !.pc = "upsert"]
      BY <1>1, <2>1, <3>1 DEF LookupTenant, Legible, Stored, Shapes, SigningIn
    <3>2. [login[l] EXCEPT !.pc = "upsert"] # Idle
      BY <2>1 DEF SigningIn, Idle
    <3> QED BY <3>1, <3>2
  <2>4. ASSUME NEW k \in Logins, k # l, Complete(k) PROVE FALSE
    <3>1. \A i \in Logins : i # k => login'[i] = login[i]
      BY <1>1, <2>4 DEF Complete, ExchangeCode, LookupTenant, UpsertTenant, UpsertFails, Shapes
    <3> QED BY <2>4, <3>1
  <2>5. ASSUME NEW m \in Members, NEW scopes \in Scopes, NEW refresh \in BOOLEAN, NEW dated \in BOOLEAN,
               ExchangeCode(l, m, scopes, refresh, dated)
        PROVE  FALSE
    BY <2>5 DEF ExchangeCode
  <2>6. ~UpsertFails(l) /\ ~Stop
    BY DEF UpsertFails, Stop
  <2>7. ~UNCHANGED login
    OBVIOUS
  <2>8. /\ ~RefreshExpiringTokens /\ ~RefreshOne /\ ~Report /\ ~Tick /\ ~UNCHANGED vars
        /\ \A k \in Keys : ~Start(k)
    BY <2>7 DEF RefreshExpiringTokens, RefreshOne, RefreshAccessToken, RefreshUnavailable, StoreRenewed,
                StoreFails, Report, Tick, Start, vars
  <2>9. Complete(l)
    BY <1>1, <2>4, <2>6, <2>8 DEF Next, Process
  <2> QED BY <2>2, <2>3, <2>5, <2>6, <2>9 DEF Complete
<1>2. ASSUME Shapes, Legible, [Next]_vars PROVE Legible'
  BY <1>2, RowsStayLegible
<1>3. Init => Legible
  BY TimeInit
<1> QED BY <1>1, <1>2, <1>3, ShapesInit, PieceInit, Step, PTL DEF Spec, SignInRestores

===============================================================================
