-------------------------- MODULE SignInRefinement --------------------------
(***************************************************************************)
(* SignIn implements Sessions, for any values of the constants: the steps  *)
(* of the requests and of the purge, one lemma for each kind, are mapped   *)
(* to moves of the sessions through the session map of SignIn.             *)
(***************************************************************************)
EXTENDS SignInProofs


\* What Session(c) is when a sign-in has at most one live credential: the
\* CHOOSE in it then has one candidate.
ShapeOf(c) ==
  /\ lineage[c] = None => Session(c) = Abstract!Unopened
  /\ codes[c] # None => Session(c) = Abstract!Held(c)
  /\ \A r \in RefreshTokens : Live(r, c) => Session(c) = Abstract!Held(r)
  /\ \A g \in Grants : InFlight(g, c) => Session(c) = Abstract!Spending
  /\ \/ lineage[c] = None \/ codes[c] # None
     \/ \E r \in RefreshTokens : Live(r, c)
     \/ \E g \in Grants : InFlight(g, c)
     \/ Session(c) = Abstract!Closed

\* A sign-in that is not open has no credentials.
Opened(c) ==
  (\/ codes[c] # None \/ \E r \in RefreshTokens : Live(r, c)
   \/ \E g \in Grants : InFlight(g, c)) => lineage[c] # None

Inv == TypeOK /\ DrawnInv /\ OneInv

LEMMA Shape == Inv => \A c \in Codes : ShapeOf(c) /\ Opened(c)
<1> SUFFICES ASSUME Inv, NEW c \in Codes PROVE ShapeOf(c) /\ Opened(c)
  OBVIOUS
<1> USE DEF Inv
<1>1. \A x \in Codes \cup RefreshTokens : HasOrigin(x) /\ lineage[x].code = c => lineage[c] # None
  BY DEF DrawnInv, HasOrigin
<1>2. Opened(c)
  BY <1>1 DEF Opened, DrawnInv, HasOrigin, Live, InFlight
<1>3. ASSUME NEW r \in RefreshTokens, Live(r, c) PROVE Session(c) = Abstract!Held(r)
  <2>1. \A x \in RefreshTokens : Live(x, c) => x = r
    BY <1>3 DEF OneInv
  <2>2. (CHOOSE x \in RefreshTokens : Live(x, c)) = r
    BY <1>3, <2>1
  <2>3. codes[c] = None /\ lineage[c] # None
    BY <1>2, <1>3 DEF Opened, OneInv
  <2> QED BY <1>3, <2>2, <2>3 DEF Session, Abstract!Held
<1>4. ASSUME NEW g \in Grants, InFlight(g, c) PROVE Session(c) = Abstract!Spending
  <2>1. codes[c] = None /\ lineage[c] # None /\ \A r \in RefreshTokens : ~Live(r, c)
    BY <1>2, <1>4 DEF Opened, OneInv
  <2> QED BY <1>4, <2>1 DEF Session, Abstract!Spending
<1>5. /\ lineage[c] = None => Session(c) = Abstract!Unopened
      /\ codes[c] # None => Session(c) = Abstract!Held(c)
      /\ \/ lineage[c] = None \/ codes[c] # None
         \/ \E r \in RefreshTokens : Live(r, c)
         \/ \E g \in Grants : InFlight(g, c)
         \/ Session(c) = Abstract!Closed
  BY <1>2 DEF Session, Opened, Abstract!Unopened, Abstract!Held, Abstract!Closed
<1> QED BY <1>2, <1>3, <1>4, <1>5 DEF ShapeOf

Shapes == \A c \in Codes : ShapeOf(c) /\ Opened(c)

\* A sign-in none of whose credentials moves keeps its session.
Untouched(c) ==
  /\ lineage'[c] = None <=> lineage[c] = None
  /\ codes'[c] = None <=> codes[c] = None
  /\ \A r \in RefreshTokens : Live(r, c)' <=> Live(r, c)
  /\ \A g \in Grants : InFlight(g, c)' <=> InFlight(g, c)

LEMMA UntouchedKeepsSession ==
  ASSUME NEW c \in Codes, ShapeOf(c), Opened(c), ShapeOf(c)', Opened(c)', Untouched(c)
  PROVE  Session(c)' = Session(c)
<1>1. CASE lineage[c] = None
  BY <1>1 DEF ShapeOf, Untouched, Abstract!Unopened
<1>2. CASE codes[c] # None
  BY <1>2 DEF ShapeOf, Untouched, Abstract!Held
<1>3. ASSUME NEW r \in RefreshTokens, Live(r, c) PROVE Session(c)' = Session(c)
  BY <1>3 DEF ShapeOf, Untouched, Abstract!Held
<1>4. ASSUME NEW g \in Grants, InFlight(g, c) PROVE Session(c)' = Session(c)
  BY <1>4 DEF ShapeOf, Untouched, Abstract!Spending
<1>5. CASE /\ lineage[c] # None /\ codes[c] = None
           /\ \A r \in RefreshTokens : ~Live(r, c)
           /\ \A g \in Grants : ~InFlight(g, c)
  BY <1>5 DEF ShapeOf, Untouched, Abstract!Closed
<1> QED BY <1>1, <1>2, <1>3, <1>4, <1>5

\* What the five kinds of steps do to Sessions: nothing, or the move named.
Stutter == UNCHANGED Abstract!vars

LEMMA StutterStep ==
  ASSUME Shapes, Shapes', \A c \in Codes : Untouched(c),
         UNCHANGED <<drawn \cap (Codes \cup RefreshTokens), [c \in Codes |-> lineage[c]]>>
  PROVE  Stutter
<1>1. \A c \in Codes : Session(c)' = Session(c)
  BY UntouchedKeepsSession DEF Shapes
<1> QED BY <1>1 DEF Stutter, Abstract!vars

LEMMA QuietStep ==
  ASSUME Shapes, Shapes',
         UNCHANGED <<codes, refreshTokens, grant, lineage, drawn \cap (Codes \cup RefreshTokens)>>
  PROVE  Stutter
<1>1. \A c \in Codes : Untouched(c)
  BY DEF Untouched, Live, InFlight
<1> QED BY <1>1, StutterStep

\* A step that moves one session only.
LEMMA OneSession ==
  ASSUME Shapes, Shapes', NEW s \in Codes, \A c \in Codes \ {s} : Untouched(c)
  PROVE  [c \in Codes |-> Session(c)]' = [[c \in Codes |-> Session(c)] EXCEPT ![s] = Session(s)']
<1>1. \A c \in Codes \ {s} : Session(c)' = Session(c)
  BY UntouchedKeepsSession DEF Shapes
<1> QED BY <1>1

\* A step that ends the sessions in S.
LEMMA ClosingStep ==
  ASSUME NEW S \in SUBSET Codes,
         \A c \in S : Session(c).phase \in {"held", "spending"} /\ Session(c)' = Abstract!Closed,
         \A c \in Codes \ S : Session(c)' = Session(c),
         UNCHANGED <<[c \in Codes |-> lineage[c]], drawn \cap (Codes \cup RefreshTokens)>>
  PROVE  Abstract!Close(S)
<1>1. \A c \in S : [d \in Codes |-> Session(d)][c].phase \in {"held", "spending"}
  OBVIOUS
<1>2. [c \in Codes |-> Session(c)]' =
        [c \in Codes |-> IF c \in S THEN Abstract!Closed ELSE [d \in Codes |-> Session(d)][c]]
  OBVIOUS
<1> QED BY <1>1, <1>2 DEF Abstract!Close

LEMMA OpenStep ==
  ASSUME Inv, Shapes, Shapes', NEW k \in Callbacks, NEW c \in Codes, IssueAuthCodeEffect(k, c)
  PROVE  Abstract!Next
<1> USE DEF IssueAuthCodeEffect, Inv
<1>1. c \notin RefreshTokens
  BY SignInAssumption
<1>2. \A x \in Codes \ {c} : Untouched(x)
  BY <1>1 DEF Untouched, Live, InFlight, DrawnInv, HasOrigin
<1>3. lineage[c] = None
  BY DEF DrawnInv
<1>4. Session(c) = Abstract!Unopened /\ Session(c)' = Abstract!Held(c)
  BY <1>3 DEF Shapes, ShapeOf, Abstract!Held
<1>5. PICK o \in Origin : lineage'[c] = o
  OBVIOUS
<1>6. [x \in Codes |-> lineage[x]]' = [[x \in Codes |-> lineage[x]] EXCEPT ![c] = o]
  BY <1>5
<1>7. [x \in Codes |-> Session(x)]' = [[x \in Codes |-> Session(x)] EXCEPT ![c] = Session(c)']
  BY <1>2, OneSession
<1>8. Abstract!Open(c, c, o)
  BY <1>4, <1>6, <1>7 DEF Abstract!Open, Abstract!HandOut
<1> QED BY <1>5, <1>8 DEF Abstract!Next

LEMMA ConsumeStep ==
  ASSUME Inv, Shapes, Shapes', NEW g \in Grants, NEW c \in Codes, ConsumeAuthCodeEffect(g, c)
  PROVE  Abstract!Next
<1> USE DEF ConsumeAuthCodeEffect, Inv
<1>1. lineage[c] # None /\ lineage[c].code = c /\ Session(c) = Abstract!Held(c)
  BY DEF Shapes, ShapeOf, Opened, DrawnInv
<1>2. \A x \in Codes \ {c} : Untouched(x)
  BY <1>1 DEF Untouched, Live, InFlight
<1>3. /\ [x \in Codes |-> Session(x)]' = [[x \in Codes |-> Session(x)] EXCEPT ![c] = Session(c)']
      /\ UNCHANGED <<[x \in Codes |-> lineage[x]], drawn \cap (Codes \cup RefreshTokens)>>
  BY <1>2, OneSession
<1>4. (\A r \in RefreshTokens : ~Live(r, c)') /\ \A h \in Grants \ {g} : ~InFlight(h, c)'
  BY DEF OneInv, Live, InFlight
<1>5. CASE grant'[g] = IdleGrant
  <2>1. Session(c)' = Abstract!Closed
    BY <1>1, <1>4, <1>5 DEF Shapes, ShapeOf, InFlight, Abstract!Closed
  <2>2. \A x \in Codes \ {c} : Session(x)' = Session(x)
    BY <1>2, UntouchedKeepsSession DEF Shapes
  <2>3. Abstract!Close({c})
    BY <1>1, <1>3, <2>1, <2>2, ClosingStep DEF Abstract!Held
  <2> QED BY <2>3 DEF Abstract!Next
<1>6. CASE grant'[g] # IdleGrant
  <2>1. Session(c)' = Abstract!Spending
    BY <1>1, <1>6 DEF Shapes, ShapeOf, InFlight, Abstract!Spending
  <2>2. Abstract!Spend(c)
    BY <1>1, <1>3, <2>1 DEF Abstract!Spend, Abstract!Held
  <2> QED BY <2>2 DEF Abstract!Next
<1> QED BY <1>5, <1>6

LEMMA RotateStep ==
  ASSUME Inv, Shapes, Shapes', NEW g \in Grants, NEW r \in RefreshTokens,
         RotateRefreshTokenEffect(g, r)
  PROVE  Abstract!Next
<1> USE DEF RotateRefreshTokenEffect, Inv
<1> DEFINE c == lineage[r].code
<1>1. c \in Codes /\ lineage[c] # None /\ Live(r, c)
  BY DEF DrawnInv, HasOrigin, TypeOK, Origin, Live
<1>2. \A x \in Codes \ {c} : Untouched(x)
  BY DEF Untouched, Live, InFlight
<1>3. c' = c
  OBVIOUS
<1> HIDE DEF c
<1>4. Session(c) = Abstract!Held(r)
  BY <1>1 DEF Shapes, ShapeOf
<1>5. PICK d \in Codes : d = c
  BY <1>1
<1>6. /\ [x \in Codes |-> Session(x)]' = [[x \in Codes |-> Session(x)] EXCEPT ![d] = Session(d)']
      /\ UNCHANGED <<[x \in Codes |-> lineage[x]], drawn \cap (Codes \cup RefreshTokens)>>
  BY <1>2, <1>5, OneSession
<1>7. /\ Live(r, d) /\ lineage[d] # None /\ Session(d) = Abstract!Held(r)
      /\ lineage[r].code = d
  BY <1>1, <1>4, <1>5 DEF c
<1>8. /\ codes'[d] = None /\ (\A x \in RefreshTokens : ~Live(x, d)')
      /\ \A h \in Grants \ {g} : ~InFlight(h, d)'
  BY <1>7 DEF OneInv, Live, InFlight
<1>9. CASE grant'[g] = IdleGrant
  <2>1. Session(d)' = Abstract!Closed
    BY <1>7, <1>8, <1>9 DEF Shapes, ShapeOf, InFlight, Abstract!Closed
  <2>2. \A x \in Codes \ {d} : Session(x)' = Session(x)
    BY <1>2, <1>5, UntouchedKeepsSession DEF Shapes
  <2>3. Abstract!Close({d})
    BY <1>6, <1>7, <2>1, <2>2, ClosingStep DEF Abstract!Held
  <2> QED BY <2>3 DEF Abstract!Next
<1>10. CASE grant'[g] # IdleGrant
  <2>1. InFlight(g, d)'
    BY <1>7, <1>10 DEF InFlight
  <2>2. Session(d)' = Abstract!Spending
    BY <2>1 DEF Shapes, ShapeOf, Abstract!Spending
  <2>3. Abstract!Spend(d)
    BY <1>6, <1>7, <2>2 DEF Abstract!Spend, Abstract!Held
  <2> QED BY <2>3 DEF Abstract!Next
<1> QED BY <1>9, <1>10

LEMMA RenewStep ==
  ASSUME Inv, Shapes, Shapes', NEW g \in Grants, NEW r \in RefreshTokens,
         IssueTokensEffect(g, r)
  PROVE  Abstract!Next
<1> USE DEF IssueTokensEffect, Inv
<1>1. /\ HasOrigin(grant[g].from) /\ lineage[grant[g].from] \in Origin
      /\ grant[g].from # r
  BY DEF DrawnInv, HasOrigin, TypeOK
<1>2. PICK d \in Codes : d = lineage[grant[g].from].code
  BY <1>1 DEF Origin
<1>3. InFlight(g, d) /\ lineage'[r].code = d
  BY <1>2 DEF InFlight
<1>4. /\ codes[d] = None /\ \A x \in RefreshTokens : ~Live(x, d)
      /\ \A h \in Grants \ {g} : ~InFlight(h, d)
  BY <1>3 DEF OneInv
<1>5. Session(d) = Abstract!Spending
  BY <1>3 DEF Shapes, ShapeOf
<1>6. Live(r, d)'
  BY <1>3 DEF Live
<1>7. Session(d)' = Abstract!Held(r)
  BY <1>6 DEF Shapes, ShapeOf
<1>8. \A x \in Codes \ {d} : Untouched(x)
  <2> SUFFICES ASSUME NEW x \in Codes \ {d} PROVE Untouched(x)
    OBVIOUS
  <2>1. \A y \in RefreshTokens : Live(y, x)' <=> Live(y, x)
    BY <1>3 DEF Live, DrawnInv, HasOrigin
  <2>2. \A h \in Grants : InFlight(h, x)' <=> InFlight(h, x)
    BY <1>2, <1>3 DEF InFlight, DrawnInv, HasOrigin
  <2> QED BY <2>1, <2>2 DEF Untouched
<1>9. [x \in Codes |-> Session(x)]' = [[x \in Codes |-> Session(x)] EXCEPT ![d] = Session(d)']
  BY <1>8, OneSession
<1>10. Abstract!Renew(d, r)
  BY <1>5, <1>7, <1>9 DEF Abstract!Renew, Abstract!HandOut
<1> QED BY <1>10 DEF Abstract!Next

LEMMA AbortStep ==
  ASSUME Inv, Shapes, Shapes', NEW g \in Grants, AbortGrant(g)
  PROVE  Abstract!Next
<1>1. /\ grant[g] # IdleGrant /\ grant'[g] = IdleGrant
      /\ \A h \in Grants \ {g} : grant'[h] = grant[h]
      /\ UNCHANGED <<codes, refreshTokens, lineage, drawn>>
  BY DEF AbortGrant, tables, history, Inv, TypeOK
<1>2. PICK d \in Codes : InFlight(g, d)
  BY <1>1 DEF Inv, DrawnInv, HasOrigin, TypeOK, Origin, InFlight
<1>3. /\ codes[d] = None /\ lineage[d] # None
      /\ \A x \in RefreshTokens : ~Live(x, d)
      /\ \A h \in Grants \ {g} : ~InFlight(h, d)
  BY <1>2 DEF Inv, OneInv, Shapes, Opened
<1>4. Session(d) = Abstract!Spending
  BY <1>2 DEF Shapes, ShapeOf
<1>5. Session(d)' = Abstract!Closed
  BY <1>1, <1>3 DEF Shapes, ShapeOf, Live, InFlight, Abstract!Closed
<1>6. \A x \in Codes \ {d} : Untouched(x)
  BY <1>1, <1>2 DEF Untouched, Live, InFlight
<1>7. \A x \in Codes \ {d} : Session(x)' = Session(x)
  BY <1>6, UntouchedKeepsSession DEF Shapes
<1>8. Abstract!Close({d})
  BY <1>1, <1>4, <1>5, <1>7, ClosingStep DEF Abstract!Spending
<1> QED BY <1>8 DEF Abstract!Next

LEMMA PurgingStep ==
  ASSUME Inv, Shapes, Shapes', Purge
  PROVE  Abstract!Next
<1>1. /\ \A c \in Codes : codes'[c] \in {codes[c], None}
      /\ \A r \in RefreshTokens : refreshTokens'[r] \in {refreshTokens[r], None}
      /\ UNCHANGED <<grant, drawn, lineage>>
  BY PurgeEffect DEF Inv
<1> DEFINE S == {c \in Codes : Session(c)' # Session(c)}
<1>2. ASSUME NEW c \in S
      PROVE  Session(c).phase \in {"held", "spending"} /\ Session(c)' = Abstract!Closed
  <2>1. ~Untouched(c)
    BY UntouchedKeepsSession DEF Shapes
  <2>2. (\A r \in RefreshTokens : Live(r, c)' => Live(r, c))
        /\ \A g \in Grants : InFlight(g, c)' <=> InFlight(g, c)
    BY <1>1 DEF Live, InFlight
  <2>3. CASE codes[c] # None
    <3>1. codes'[c] = None /\ lineage'[c] # None
      BY <1>1, <2>1, <2>2, <2>3 DEF Untouched, Inv, OneInv, Shapes, Opened
    <3>2. Session(c)' = Abstract!Closed
      BY <2>2, <2>3, <3>1 DEF Shapes, ShapeOf, Inv, OneInv
    <3> QED BY <2>3, <3>2 DEF Shapes, ShapeOf, Abstract!Held
  <2>4. ASSUME codes[c] = None, NEW r \in RefreshTokens, Live(r, c)
        PROVE  Session(c).phase \in {"held", "spending"} /\ Session(c)' = Abstract!Closed
    <3>1. \A x \in RefreshTokens : Live(x, c) => x = r
      BY <2>4 DEF Inv, OneInv
    <3>2. codes'[c] = None
      BY <1>1, <2>4
    <3>3. ~Live(r, c)'
      BY <1>1, <2>1, <2>2, <2>4, <3>1, <3>2 DEF Untouched
    <3>4. lineage'[c] # None /\ \A g \in Grants : ~InFlight(g, c)'
      BY <1>1, <2>2, <2>4 DEF Inv, OneInv, Shapes, Opened
    <3>5. Session(c)' = Abstract!Closed
      BY <2>2, <3>1, <3>2, <3>3, <3>4 DEF Shapes, ShapeOf
    <3> QED BY <2>4, <3>5 DEF Shapes, ShapeOf, Abstract!Held
  <2>5. CASE codes[c] = None /\ \A r \in RefreshTokens : ~Live(r, c)
    BY <1>1, <2>1, <2>2, <2>5 DEF Untouched
  <2> QED BY <2>3, <2>4, <2>5
<1>3. \A c \in Codes \ S : Session(c)' = Session(c)
  OBVIOUS
<1>4. S \in SUBSET Codes
  OBVIOUS
<1>5. UNCHANGED <<[c \in Codes |-> lineage[c]], drawn \cap (Codes \cup RefreshTokens)>>
  BY <1>1
<1>6. PICK T \in SUBSET Codes : T = S
  BY <1>4
<1> HIDE DEF S
<1>7. Abstract!Close(T)
  BY <1>2, <1>3, <1>5, <1>6, ClosingStep
<1> QED BY <1>6, <1>7 DEF Abstract!Next

\* SignIn implements Sessions: every step of the handlers and of the purge is a
\* step of the abstract session life cycle or leaves it alone.
THEOREM SignInImplementsSessions == Spec => ImplementsSessions
<1>1. Init => Abstract!Init
  BY DEF Init, Abstract!Init, Session, Abstract!Unopened
<1>2. Inv /\ Shapes /\ Shapes' /\ [Next]_vars => [Abstract!Next]_(Abstract!vars)
  <2> SUFFICES ASSUME Inv, Shapes, Shapes', [Next]_vars PROVE Abstract!Next \/ Stutter
    BY DEF Stutter
  <2>1. CASE Open
    <3>1. UNCHANGED <<codes, refreshTokens, grant, lineage, drawn \cap (Codes \cup RefreshTokens)>>
      BY <2>1, SignInAssumption DEF Open, RegisterClient, Authorize, ReconnectURL, ParkLogin,
         Draw, history
    <3> QED BY <3>1, QuietStep
  <2>2. ASSUME NEW k \in Callbacks, Callback(k) PROVE Abstract!Next \/ Stutter
    <3>1. ASSUME NEW c \in Codes, IssueAuthCode(k, c) PROVE Abstract!Next
      <4>1. IssueAuthCodeEffect(k, c)
        BY <3>1, IssueAuthCodeHasEffect DEF Inv
      <4> QED BY <4>1, OpenStep
    <3>2. CASE ~\E c \in Codes : IssueAuthCode(k, c)
      <4>1. UNCHANGED <<codes, refreshTokens, grant, lineage,
                        drawn \cap (Codes \cup RefreshTokens)>>
        BY <2>2, <3>2, SignInAssumption DEF Callback, ConsumeState, LookupTenant, UpsertTenant,
           AbortCallback, Draw, history, tables
      <4> QED BY <4>1, QuietStep
    <3> QED BY <3>1, <3>2
  <2>3. ASSUME NEW g \in Grants, Token(g) PROVE Abstract!Next
    <3>1. ASSUME NEW c \in Codes, NEW client \in Clients, NEW uri \in RedirectURIs,
                 NEW v \in Verifiers, ConsumeAuthCode(g, c, client, uri, v)
          PROVE Abstract!Next
      <4>1. ConsumeAuthCodeEffect(g, c)
        BY <3>1, ConsumeAuthCodeHasEffect DEF Inv
      <4> QED BY <4>1, ConsumeStep
    <3>2. ASSUME NEW r \in RefreshTokens, NEW client \in Clients, NEW at \in 0..now,
                 RotateRefreshToken(g, r, client, at)
          PROVE Abstract!Next
      <4>1. RotateRefreshTokenEffect(g, r)
        BY <3>2, RotateRefreshTokenHasEffect DEF Inv
      <4> QED BY <4>1, RotateStep
    <3>3. ASSUME NEW r \in RefreshTokens, IssueTokens(g, r) PROVE Abstract!Next
      <4>1. IssueTokensEffect(g, r)
        BY <3>3, IssueTokensHasEffect DEF Inv
      <4> QED BY <4>1, RenewStep
    <3>4. CASE AbortGrant(g)
      BY <3>4, AbortStep
    <3> QED BY <2>3, <3>1, <3>2, <3>3, <3>4 DEF Token
  <2>4. CASE Purge
    BY <2>4, PurgingStep
  <2>5. CASE Tick
    BY <2>5, QuietStep DEF Tick, tables, history
  <2>6. CASE UNCHANGED vars
    BY <2>6, QuietStep DEF vars, tables, history
  <2> QED BY <2>1, <2>2, <2>3, <2>4, <2>5, <2>6 DEF Next
<1>3. Spec => []OneInv
  BY InitialInvariants, OneStep, TypeCorrect, Drawn, PTL DEF Spec
<1>4. TypeOK /\ DrawnInv /\ OneInv => Inv
  BY DEF Inv
<1>5. Inv => Shapes
  BY Shape DEF Shapes
<1> QED BY <1>1, <1>2, <1>3, <1>4, <1>5, TypeCorrect, Drawn, PTL
     DEF Spec, ImplementsSessions, Abstract!Spec
=============================================================================
