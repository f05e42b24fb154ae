--------------------------- MODULE ToolListsProofs ---------------------------
(***************************************************************************)
(* Theorems about what the lists of a tool call hold: the metrics of an    *)
(* analytics call, the posts of the ledger and their counters; and with    *)
(* them the types of ToolCalls.                                            *)
(***************************************************************************)
EXTENDS ToolCallsProofs, FiniteSetTheorems, FunctionTheorems, WellFoundedInduction

-----------------------------------------------------------------------------
(* The inductive invariant.                                                *)

\* The types of the fields that IsLocal leaves open.
IsData(c) ==
  /\ c.todo \subseteq Nat /\ c.got \subseteq Nat /\ c.rejected \subseteq Nat
  /\ c.range \in Seq(Int)
  /\ c.posts \in Seq(LedgerRow) /\ c.table \in Ledgers \cup {{}}
  /\ c.last \in Refusals \cup {200, 429}
  /\ c.answer \in Answer \cup {None}

\* A call that has passed the checks has sound arguments.
Fitting(c) == c.pc \in Under \ {"read"} => WellFormed(c.ask)

\* Each metric that was kept is still to be asked for, read or rejected.
Parted(c) ==
  /\ c.todo \cup c.got \cup c.rejected = Kept(c.ask)
  /\ c.todo \cap (c.got \cup c.rejected) = {} /\ c.got \cap c.rejected = {}
Accounted(c) ==
  /\ c.pc = "read" => c.got = {} /\ c.rejected = {}
  /\ c.ask.op \in Measures => c.pc \notin {"ledger", "record"}
  /\ c.ask.op \in Measures /\ c.pc \in {"send", "resend"} => c.todo # {} /\ Parted(c)
  /\ c.pc = "done" /\ c.answer.kind = "measured" =>
       Parted(c) /\ c.todo = {} /\ c.answer.dropped = Dropped(c.ask)

\* A list out of the ledger is one the statement may answer with, and the
\* counters are those of such a list.
Latest(c) ==
  /\ c.ask.op = "connection_status" /\ c.pc \in {"send", "resend"} =>
       c.posts \in LedgerPosts(c.table, TRUE, MaxPostLimit)
  /\ c.pc = "done" /\ c.answer.kind = "status" =>
       /\ c.posts \in LedgerPosts(c.table, TRUE, MaxPostLimit)
       /\ c.answer.recorded = countLive(c.posts)
       /\ c.answer.deleted = Len(c.posts) - countLive(c.posts)
  /\ c.pc = "done" /\ c.answer.kind = "listed" /\ c.answer.source = "ledger" =>
       /\ c.ask.op = "list_posts"
       /\ c.answer.posts \in LedgerPosts(c.table, c.ask.includeDeleted, clampLimit(c.ask.limit))

Whole(c) == IsData(c) /\ Fitting(c) /\ Accounted(c) /\ Latest(c)

ListInv ==
  /\ marks \subseteq Mark
  /\ \A k \in Calls : call[k] # Idle => Whole(call[k])
-----------------------------------------------------------------------------
(* The operators the lists are built with.                                 *)

\* The smallest place in a list is one of its places.
LEMMA Least ==
  ASSUME NEW T, T \subseteq Nat, T # {}
  PROVE  Min(T) \in T /\ \A y \in T : Min(T) <= y
<1> DEFINE Below(n) == 1 .. n
           U == {Below(n) : n \in T}
<1>1. U \subseteq FiniteSubsetsOf(Nat) /\ U # {}
  <2>1. \A n \in T : IsFiniteSet(Below(n)) /\ Below(n) \in SUBSET Nat
    BY FS_Interval
  <2> QED BY <2>1 DEF FiniteSubsetsOf
<1>2. PICK B \in U : \A C \in U : ~ (<<C, B>> \in StrictSubsetOrdering(Nat))
  BY <1>1, FS_StrictSubsetOrderingWellFounded, WFMin
<1>3. PICK x \in T : B = Below(x)
  OBVIOUS
<1>4. ASSUME NEW y \in T PROVE x <= y
  <2> SUFFICES ASSUME y < x PROVE FALSE
    OBVIOUS
  <2>1. Below(y) \subseteq Below(x) /\ x \in Below(x) /\ x \notin Below(y)
    OBVIOUS
  <2>2. Below(y) \in SUBSET Nat /\ Below(x) \in SUBSET Nat /\ Below(y) \in U
    OBVIOUS
  <2>3. <<Below(y), Below(x)>> \in StrictSubsetOrdering(Nat)
    BY <2>1, <2>2 DEF StrictSubsetOrdering
  <2> QED BY <1>2, <1>3, <2>2, <2>3
<1> QED BY <1>4 DEF Min

\* The metrics that are kept and those that are left out are all that were
\* asked for, each by its place.
LEMMA KeptOrDropped ==
  ASSUME NEW ask \in Asks, ask.op \in Measures
  PROVE  /\ Places(ask) \subseteq Nat /\ Kept(ask) \cup Dropped(ask) = Places(ask)
         /\ Kept(ask) \cap Dropped(ask) = {}
<1>1. ask \in Ask
  BY ToolCallsAssumption
<1>2. ask.metrics \in Seq(STRING)
  BY <1>1 DEF Ask, PostTools, Writes, Reads, Measures
<1>3. DOMAIN ask.metrics \subseteq Nat /\ DOMAIN DefaultMetrics \subseteq Nat
  BY <1>2, ToolCallsAssumption
<1>4. Places(ask) \subseteq Nat
  BY <1>3 DEF Places, MetricsOrDefault
<1> QED BY <1>4 DEF Kept, Dropped

LEMMA LimitIsNat ==
  ASSUME NEW limit \in Int
  PROVE  clampLimit(limit) \in Nat /\ MaxPostLimit \in Nat
  BY ToolCallsAssumption DEF clampLimit

\* What ORDER BY and LIMIT leave: as many rows as fit, no row twice, and none
\* left out that is newer than one of them.
LEMMA NewestRows ==
  ASSUME NEW posts, posts \subseteq LedgerRow, IsFiniteSet(posts), NEW limit \in Nat,
         NEW list \in Newest(posts, limit)
  PROVE  /\ list \in Seq(posts) /\ ToSet(list) \subseteq posts
         /\ Len(list) = IF limit < Cardinality(posts) THEN limit ELSE Cardinality(posts)
         /\ \A i, j \in DOMAIN list : list[i] = list[j] => i = j
         /\ \A i, j \in DOMAIN list : i < j => list[i].created >= list[j].created
         /\ \A p \in posts \ ToSet(list) :
              Len(list) = limit /\ \A q \in ToSet(list) : q.created >= p.created
         /\ Cardinality(posts) <= limit => ToSet(list) = posts
<1> DEFINE size == IF limit < Cardinality(posts) THEN limit ELSE Cardinality(posts)
<1>1. Cardinality(posts) \in Nat /\ size \in Nat
  BY FS_CardinalityType
<1>2. /\ list \in Injection(1 .. size, posts)
      /\ \A i \in 1 .. size :
           /\ \A j \in i .. size : list[i].created >= list[j].created
           /\ \A p \in posts \ Range(list) : list[i].created >= p.created
  BY DEF Newest
<1> HIDE DEF size
<1>3. /\ list \in [1 .. size -> posts]
      /\ \A i, j \in 1 .. size : list[i] = list[j] => i = j
  BY <1>2, Fun_InjectionProperties
<1>4. list \in Seq(posts) /\ Len(list) = size /\ DOMAIN list = 1 .. size
  BY <1>1, <1>3
<1>5. Range(list) = ToSet(list) /\ ToSet(list) \subseteq posts
  BY <1>3 DEF Range, ToSet
<1>6. \A i, j \in DOMAIN list : i < j => list[i].created >= list[j].created
  BY <1>1, <1>2, <1>4
<1>7. size = Cardinality(posts) => ToSet(list) = posts
  <2> SUFFICES ASSUME size = Cardinality(posts) PROVE ToSet(list) = posts
    OBVIOUS
  <2>1. Cardinality(1 .. size) = size
    BY <1>1, FS_Interval
  <2>2. list \in Surjection(1 .. size, posts)
    BY <1>2, <2>1, FS_Injection
  <2>3. Range(list) = posts
    BY <2>2, Fun_SurjectionProperties
  <2> QED BY <1>5, <2>3
<1>8. \A p \in posts \ ToSet(list) : size = limit
  BY <1>1, <1>7 DEF size
<1>9. \A p \in posts \ ToSet(list) : \A q \in ToSet(list) : q.created >= p.created
  BY <1>2, <1>4, <1>5 DEF ToSet
<1>10. Cardinality(posts) <= limit => size = Cardinality(posts)
  BY <1>1 DEF size
<1> QED BY <1>3, <1>4, <1>5, <1>6, <1>7, <1>8, <1>9, <1>10 DEF size

\* A list counts as many live posts as there are among its rows.
LEMMA LiveCounted ==
  ASSUME NEW S, NEW list \in Seq(S), \A i, j \in DOMAIN list : list[i] = list[j] => i = j
  PROVE  /\ IsFiniteSet(ToSet(list)) /\ Cardinality(ToSet(list)) = Len(list)
         /\ countLive(list) = Cardinality({p \in ToSet(list) : ~p.deleted})
         /\ countLive(list) \in Nat /\ Len(list) - countLive(list) \in Nat
<1> DEFINE at == {i \in DOMAIN list : ~list[i].deleted}
           live == {p \in ToSet(list) : ~p.deleted}
<1>1. /\ DOMAIN list = 1 .. Len(list) /\ Len(list) \in Nat
      /\ IsFiniteSet(DOMAIN list) /\ Cardinality(DOMAIN list) = Len(list)
  <2>1. DOMAIN list = 1 .. Len(list) /\ Len(list) \in Nat
    OBVIOUS
  <2> QED BY <2>1, FS_Interval
<1>2. list \in Bijection(DOMAIN list, ToSet(list))
  <2>1. list \in [DOMAIN list -> ToSet(list)] /\ \A p \in ToSet(list) : \E i \in DOMAIN list : list[i] = p
    BY DEF ToSet
  <2> QED BY <2>1, Fun_IsBij
<1>3. IsFiniteSet(ToSet(list)) /\ Cardinality(ToSet(list)) = Len(list)
  BY <1>1, <1>2, FS_Bijection DEF ExistsBijection
<1>4. [i \in at |-> list[i]] \in Bijection(at, live)
  <2>1. PICK f : f = [i \in at |-> list[i]]
    OBVIOUS
  <2>2. f \in [at -> live] /\ \A p \in live : \E i \in at : f[i] = p
    BY <2>1 DEF ToSet
  <2>3. \A i, j \in at : f[i] = f[j] => i = j
    BY <2>1
  <2> QED BY <2>1, <2>2, <2>3, Fun_IsBij
<1>5. /\ IsFiniteSet(at) /\ Cardinality(at) \in Nat /\ Cardinality(at) <= Cardinality(DOMAIN list)
      /\ Cardinality(live) = Cardinality(at)
  <2>1. at \in SUBSET (DOMAIN list)
    OBVIOUS
  <2>2. IsFiniteSet(at) /\ Cardinality(at) <= Cardinality(DOMAIN list)
    BY <1>1, <2>1, FS_Subset
  <2>3. ExistsBijection(at, live)
    BY <1>4 DEF ExistsBijection
  <2> HIDE DEF at, live
  <2> QED BY <2>2, <2>3, FS_Bijection, FS_CardinalityType
<1>6. countLive(list) = Cardinality(at)
  BY DEF countLive
<1> QED BY <1>1, <1>3, <1>5, <1>6
-----------------------------------------------------------------------------
(* The locals a step leaves.                                               *)

LEMMA EndingIsWhole ==
  ASSUME NEW c, IsLocal(c), IsData(c), NEW a \in Answer, a.kind \notin {"measured", "status"},
         a.kind = "listed" => a.source # "ledger"
  PROVE  Whole(Ending(c, a))
<1>1. PICK d : d = Ending(c, a)
  OBVIOUS
<1>2. d = [pc |-> "done", tenant |-> c.tenant, ask |-> c.ask, row |-> c.row,
           todo |-> c.todo, got |-> c.got, rejected |-> c.rejected, range |-> c.range,
           posts |-> c.posts, table |-> c.table, last |-> c.last, answer |-> a]
  BY <1>1, EndingIsLocal
<1>3. IsData(d) /\ d.pc = "done" /\ d.answer = a
  BY <1>2 DEF IsData
<1>4. Fitting(d) /\ Accounted(d) /\ Latest(d)
  BY <1>3 DEF Fitting, Accounted, Latest, Under
<1> QED BY <1>1, <1>3, <1>4 DEF Whole

LEMMA FailingIsWhole ==
  ASSUME NEW c, IsLocal(c), IsData(c), NEW m \in Message
  PROVE  Whole(Failing(c, m))
<1>1. PICK a : a = [kind |-> "error", message |-> m]
  OBVIOUS
<1>2. a \in Answer /\ a.kind = "error"
  BY <1>1 DEF Answer
<1> QED BY <1>1, <1>2, EndingIsWhole DEF Failing

LEMMA PlainAnswers ==
  /\ \A kind \in {"preview", "done", "read"} : [kind |-> kind] \in Answer
  /\ [kind |-> "listed", source |-> "linkedin"] \in Answer
  BY DEF Answer

LEMMA PlainEndingIsWhole ==
  ASSUME NEW c, IsLocal(c), IsData(c), NEW kind \in {"preview", "done", "read"}
  PROVE  Whole(Ending(c, [kind |-> kind]))
<1>1. PICK a : a = [kind |-> kind]
  OBVIOUS
<1>2. a \in Answer /\ a.kind = kind
  BY <1>1, PlainAnswers
<1> QED BY <1>1, <1>2, EndingIsWhole

LEMMA NotingKeepsData ==
  ASSUME NEW c, IsLocal(c), IsData(c), NEW s \in Refusals \cup {200, 429},
         NEW d, d = [c EXCEPT !.last = s]
  PROVE  /\ IsLocal(d) /\ IsData(d) /\ d.pc = c.pc /\ d.ask = c.ask /\ d.todo = c.todo
         /\ d.got = c.got /\ d.rejected = c.rejected /\ d.table = c.table /\ d.posts = c.posts
         /\ \A a : [Ending(c, a) EXCEPT !.last = s] = Ending(d, a)
<1>1. d = [pc |-> c.pc, tenant |-> c.tenant, ask |-> c.ask, row |-> c.row, todo |-> c.todo,
           got |-> c.got, rejected |-> c.rejected, range |-> c.range, posts |-> c.posts,
           table |-> c.table, last |-> s, answer |-> c.answer]
  BY DEF IsLocal
<1>2. \A a : [Ending(c, a) EXCEPT !.last = s] = Ending(d, a)
  BY DEF Ending, IsLocal
<1>3. IsLocal(d)
  BY <1>1 DEF IsLocal
<1>4. IsData(d)
  BY <1>1 DEF IsData
<1> QED BY <1>1, <1>2, <1>3, <1>4

LEMMA TurningKeepsData ==
  ASSUME NEW c, IsLocal(c), IsData(c), NEW pc \in Under \cup {"done"},
         NEW d, d = [c EXCEPT !.pc = pc]
  PROVE  /\ IsLocal(d) /\ IsData(d) /\ d.pc = pc /\ d.ask = c.ask /\ d.todo = c.todo
         /\ d.got = c.got /\ d.rejected = c.rejected /\ d.table = c.table /\ d.posts = c.posts
<1>1. d = [pc |-> pc, tenant |-> c.tenant, ask |-> c.ask, row |-> c.row, todo |-> c.todo,
           got |-> c.got, rejected |-> c.rejected, range |-> c.range, posts |-> c.posts,
           table |-> c.table, last |-> c.last, answer |-> c.answer]
  BY DEF IsLocal
<1>2. IsLocal(d)
  BY <1>1 DEF IsLocal
<1>3. IsData(d)
  BY <1>1 DEF IsData
<1> QED BY <1>1, <1>2, <1>3

\* One call moves.
LEMMA OneListMoves ==
  ASSUME CallInv, ListInv, NEW k \in Calls, NEW d, Become(k, d), marks' \subseteq Mark,
         d # Idle => Whole(d)
  PROVE  ListInv'
<1>1. call'[k] = d /\ \A j \in Calls : j # k => call'[j] = call[j]
  BY DEF CallInv, CallsInv, Become
<1> QED BY <1>1 DEF ListInv

\* What the two invariants say of a call that is under way.
LEMMA WholeUnderWay ==
  ASSUME CallInv, ListInv, NEW k \in Calls, call[k].pc \in Under \cup {"done"}
  PROVE  /\ Good(call[k], effects[k]) /\ IsLocal(call[k]) /\ RowRead(call[k])
         /\ Whole(call[k]) /\ IsData(call[k])
<1>1. Good(call[k], effects[k])
  BY GoodOnceUnderWay
<1>2. call[k] # Idle
  BY DEF Idle, Under
<1> QED BY <1>1, <1>2 DEF Good, ListInv, Whole

-----------------------------------------------------------------------------
(* The handler, up to the first request.                                   *)

LEMMA BeginKeepsLists ==
  ASSUME CallInv, ListInv, NEW k \in Calls, NEW t \in Tenants, NEW ask \in Asks,
         Begin(k, t, ask)
  PROVE  ListInv'
<1>1. PICK d : d = [pc |-> "read", tenant |-> t, ask |-> ask, row |-> None, todo |-> {},
                    got |-> {}, rejected |-> {}, range |-> <<>>, posts |-> <<>>,
                    table |-> {}, last |-> 200, answer |-> None]
  OBVIOUS
<1>2. IsData(d) /\ d.pc = "read" /\ d.got = {} /\ d.rejected = {}
  BY <1>1 DEF IsData
<1>3. Whole(d)
  BY <1>2 DEF Whole, Fitting, Accounted, Latest, Under
<1>4. Become(k, d) /\ marks' \subseteq Mark
  BY <1>1 DEF Begin, ListInv
<1> QED BY <1>3, <1>4, OneListMoves

\* The period is made of days, and the metrics to ask for are those kept.
LEMMA AdmittedIsWhole ==
  ASSUME NEW c, IsLocal(c), IsData(c), WellFormed(c.ask), c.got = {}, c.rejected = {}
  PROVE  Whole(Admitted(c))
<1>1. CASE c.ask.op \in Measures
  <2>1. PICK range : range = dateRange(Since(c.ask), c.ask.until)
    OBVIOUS
  <2>2. PICK d : d = [c EXCEPT !.pc = "send", !.todo = Kept(c.ask), !.range = range]
    OBVIOUS
  <2>3. d = [pc |-> "send", tenant |-> c.tenant, ask |-> c.ask, row |-> c.row,
             todo |-> Kept(c.ask), got |-> c.got, rejected |-> c.rejected, range |-> range,
             posts |-> c.posts, table |-> c.table, last |-> c.last, answer |-> c.answer]
    BY <2>2 DEF IsLocal
  <2>4. range \in Seq(Int)
    <3>1. /\ c.ask.since \in Day \cup {None} /\ c.ask.until \in Day \cup {None}
          /\ Day \subseteq Int
      BY <1>1, PeriodFits, AskShapes, ToolCallsAssumption DEF DatesFit, Date, IsLocal, Day
    <3>2. PICK since, until : since = Since(c.ask) /\ until = c.ask.until
      OBVIOUS
    <3>3. c.ask.since \in Int \cup {None} /\ until \in Int \cup {None}
      BY <3>1, <3>2
    <3>4. since \in Int \cup {None}
      <4>1. until \in Int => until - 28 \in Int
        OBVIOUS
      <4> QED BY <3>2, <3>3, <4>1 DEF Since, DefaultPeriod
    <3>5. CASE since \notin Int
      BY <2>1, <3>2, <3>4, <3>5 DEF dateRange
    <3>6. CASE since \in Int /\ until \notin Int
      <4>1. range = <<since>> \/ range = <<>>
        BY <2>1, <3>2, <3>3, <3>6 DEF dateRange
      <4>2. <<>> \in Seq(Int) /\ <<since>> \in Seq(Int)
        BY <3>6
      <4> QED BY <4>1, <4>2
    <3>7. CASE since \in Int /\ until \in Int
      <4>1. range \in {<<>>, <<since>>, <<since, until>>}
        BY <2>1, <3>2 DEF dateRange
      <4>2. <<>> \in Seq(Int) /\ <<since>> \in Seq(Int) /\ <<since, until>> \in Seq(Int)
        BY <3>7
      <4> QED BY <4>1, <4>2
    <3> QED BY <3>5, <3>6, <3>7
  <2>5. Kept(c.ask) # {} /\ Kept(c.ask) \subseteq Nat
    <3>1. c.ask.op # "publish_post"
      BY <1>1 DEF Measures
    <3> QED BY <1>1, <3>1, KeptOrDropped DEF WellFormed, IsLocal
  <2>6. IsData(d)
    BY <2>3, <2>4, <2>5 DEF IsData
  <2>7. Fitting(d) /\ Accounted(d) /\ Latest(d)
    BY <1>1, <2>3, <2>5 DEF Fitting, Accounted, Parted, Latest, Under, Measures
  <2>8. Admitted(c) = d
    BY <1>1, <2>1, <2>2 DEF Admitted
  <2> QED BY <2>6, <2>7, <2>8 DEF Whole
<1>2. CASE c.ask.op \notin Measures
  <2>1. PICK pc \in {"ledger", "send"} :
          /\ Admitted(c) = [c EXCEPT !.pc = pc]
          /\ pc = "ledger" <=> LedgerFirst(c.ask, c.row)
    BY <1>2 DEF Admitted
  <2>2. PICK d : d = [c EXCEPT !.pc = pc]
    OBVIOUS
  <2>3. IsLocal(d) /\ IsData(d) /\ d.pc = pc /\ d.ask = c.ask
    BY <2>2, TurningKeepsData DEF Under
  <2>4. c.ask.op = "connection_status" => pc = "ledger"
    BY <2>1 DEF LedgerFirst
  <2>5. Fitting(d) /\ Accounted(d) /\ Latest(d)
    BY <1>2, <2>1, <2>3, <2>4 DEF Fitting, Accounted, Latest, Under
  <2> QED BY <2>1, <2>2, <2>3, <2>5 DEF Whole
<1> QED BY <1>1, <1>2

LEMMA CheckedIsWhole ==
  ASSUME NEW c, IsLocal(c), IsData(c), c.got = {}, c.rejected = {}, NEW row
  PROVE  Whole(Checked(c, row))
<1>1. PICK loaded : loaded = [c EXCEPT !.row = row]
  OBVIOUS
<1>2. loaded = [pc |-> c.pc, tenant |-> c.tenant, ask |-> c.ask, row |-> row,
                todo |-> c.todo, got |-> c.got, rejected |-> c.rejected, range |-> c.range,
                posts |-> c.posts, table |-> c.table, last |-> c.last, answer |-> c.answer]
  BY <1>1 DEF IsLocal
<1>3. IsLocal(loaded) /\ loaded.ask = c.ask /\ loaded.got = {} /\ loaded.rejected = {}
  BY <1>2 DEF IsLocal
<1>4. IsData(loaded)
  BY <1>2 DEF IsData
<1>5. \A m \in {"input", "absent", "scope"} : Whole(Failing(c, m)) /\ Whole(Failing(loaded, m))
  BY <1>3, <1>4, FailingIsWhole DEF Message
<1>6. Whole(Ending(loaded, [kind |-> "preview"]))
  BY <1>3, <1>4, PlainEndingIsWhole
<1>7. WellFormed(c.ask) => Whole(Admitted(loaded))
  BY <1>3, <1>4, AdmittedIsWhole
<1> QED BY <1>1, <1>5, <1>6, <1>7 DEF Checked

LEMMA UseCaseKeepsLists ==
  ASSUME CallInv, ListInv, NEW k \in Calls, NEW ops, UseCase(k, ops)
  PROVE  ListInv'
<1>1. call[k].pc = "read" /\ marks' \subseteq Mark
  BY DEF UseCase, ListInv
<1>2. IsLocal(call[k]) /\ IsData(call[k]) /\ call[k].got = {} /\ call[k].rejected = {}
  BY <1>1, WholeUnderWay DEF Under, Whole, Accounted
<1>3. Whole(Checked(call[k], rows[call[k].tenant])) /\ Whole(Failing(call[k], "other"))
  BY <1>2, CheckedIsWhole, FailingIsWhole DEF Message
<1> QED BY <1>1, <1>3, OneListMoves DEF UseCase

LEMMA ReconnectURLKeepsLists ==
  ASSUME CallInv, ListInv, NEW k \in Calls, ReconnectURL(k)
  PROVE  ListInv'
<1>1. call[k].pc = "read" /\ marks' \subseteq Mark
  BY DEF ReconnectURL, ListInv
<1>2. IsLocal(call[k]) /\ IsData(call[k])
  BY <1>1, WholeUnderWay DEF Under
<1>3. Whole(Ending(call[k], [kind |-> "read"])) /\ Whole(Failing(call[k], "other"))
  BY <1>2, PlainEndingIsWhole, FailingIsWhole DEF Message
<1> QED BY <1>1, <1>3, OneListMoves DEF ReconnectURL
-----------------------------------------------------------------------------
(* The ledger.                                                             *)

LEMMA TableIsFinite ==
  ASSUME NEW table \in Ledgers \cup {{}}
  PROVE  table \subseteq LedgerRow /\ IsFiniteSet(table)
  BY ToolCallsAssumption, FS_EmptySet

\* What the posts table answers with: rows of it, and the newest.
LEMMA LedgerRows ==
  ASSUME NEW table \in Ledgers, NEW includeDeleted, NEW limit \in Nat,
         NEW posts \in LedgerPosts(table, includeDeleted, limit)
  PROVE  posts \in Seq(LedgerRow)
<1> DEFINE may == {p \in table : includeDeleted \/ ~p.deleted}
<1>1. table \subseteq LedgerRow /\ IsFiniteSet(table)
  BY ToolCallsAssumption
<1>2. may \subseteq LedgerRow /\ IsFiniteSet(may)
  BY <1>1, FS_Subset
<1>3. posts \in Newest(may, limit)
  BY DEF LedgerPosts
<1> HIDE DEF may
<1>4. posts \in Seq(may)
  BY <1>2, <1>3, NewestRows
<1> QED BY <1>2, <1>4

LEMMA OwnedPostKeepsLists ==
  ASSUME CallInv, ListInv, NEW k \in Calls, OwnedPost(k)
  PROVE  ListInv'
<1>1. /\ call[k].pc = "ledger" /\ call[k].ask.op \in Owned /\ marks' \subseteq Mark
  BY DEF OwnedPost, ListInv
<1>2. IsLocal(call[k]) /\ IsData(call[k]) /\ Fitting(call[k])
  BY <1>1, WholeUnderWay DEF Under, Whole
<1>3. \A m \in {"unknown", "other"} : Whole(Failing(call[k], m))
  BY <1>2, FailingIsWhole DEF Message
<1>4. \A kind \in {"preview", "done"} : Whole(Ending(call[k], [kind |-> kind]))
  BY <1>2, PlainEndingIsWhole
<1>5. ASSUME NEW d, d = [call[k] EXCEPT !.pc = "send"] PROVE Whole(d)
  <2>1. IsData(d) /\ d.pc = "send" /\ d.ask = call[k].ask
    BY <1>2, <1>5, TurningKeepsData DEF Under
  <2> QED BY <1>1, <1>2, <2>1
      DEF Whole, Fitting, Accounted, Latest, Under, Owned, Measures
<1>6. ASSUME NEW row PROVE Whole(LookedUp(call[k], row))
  BY <1>3, <1>4, <1>5 DEF LookedUp
<1> QED BY <1>1, <1>3, <1>6, OneListMoves DEF OwnedPost

LEMMA ReadLedgerKeepsLists ==
  ASSUME CallInv, ListInv, NEW k \in Calls, ReadLedger(k)
  PROVE  ListInv'
<1>1. call[k].pc = "ledger" /\ marks' \subseteq Mark
  BY DEF ReadLedger, ListInv
<1> PICK c : c = call[k]
  OBVIOUS
<1>2. IsLocal(c) /\ IsData(c) /\ Fitting(c) /\ c.ask \in Ask
  BY <1>1, WholeUnderWay, ToolCallsAssumption DEF Under, Whole, IsLocal
<1>3. ASSUME c.ask.op = "list_posts", NEW table \in Ledgers,
             NEW posts \in LedgerPosts(table, c.ask.includeDeleted, clampLimit(c.ask.limit))
      PROVE  Whole(Listed(c, table, posts))
  <2>1. c.ask.limit \in Int
    BY <1>2, <1>3 DEF Ask, PostTools, Writes, Reads, Measures
  <2>2. clampLimit(c.ask.limit) \in Nat
    BY <2>1, LimitIsNat
  <2>3. posts \in Seq(LedgerRow)
    BY <1>3, <2>2, LedgerRows
  <2>4. PICK a : a = [kind |-> "listed", source |-> "ledger", posts |-> posts]
    OBVIOUS
  <2>5. PICK e : e = Ending(c, a)
    OBVIOUS
  <2>6. PICK d : d = [e EXCEPT !.posts = posts, !.table = table]
    OBVIOUS
  <2>7. d = [pc |-> "done", tenant |-> c.tenant, ask |-> c.ask, row |-> c.row,
             todo |-> c.todo, got |-> c.got, rejected |-> c.rejected, range |-> c.range,
             posts |-> posts, table |-> table, last |-> c.last, answer |-> a]
    <3>1. e = [pc |-> "done", tenant |-> c.tenant, ask |-> c.ask, row |-> c.row,
               todo |-> c.todo, got |-> c.got, rejected |-> c.rejected, range |-> c.range,
               posts |-> c.posts, table |-> c.table, last |-> c.last, answer |-> a]
      BY <1>2, <2>5, EndingIsLocal
    <3> QED BY <2>6, <3>1
  <2>8. a \in Answer /\ a.kind = "listed" /\ a.posts = posts
    BY <2>3, <2>4 DEF Answer
  <2>9. IsData(d)
    BY <1>2, <2>3, <2>7, <2>8 DEF IsData
  <2>10. Fitting(d) /\ Accounted(d) /\ Latest(d)
    BY <1>3, <2>7, <2>8 DEF Fitting, Accounted, Latest, Under
  <2> QED BY <2>4, <2>5, <2>6, <2>9, <2>10 DEF Listed, Whole
<1>4. ASSUME c.ask.op = "connection_status", NEW table \in Ledgers,
             NEW posts \in LedgerPosts(table, TRUE, MaxPostLimit),
             NEW d, d = [c EXCEPT !.pc = "send", !.table = table, !.posts = posts]
      PROVE  Whole(d)
  <2>1. MaxPostLimit \in Nat
    BY ToolCallsAssumption
  <2>2. posts \in Seq(LedgerRow)
    BY <2>1, LedgerRows
  <2>3. d = [pc |-> "send", tenant |-> c.tenant, ask |-> c.ask, row |-> c.row,
             todo |-> c.todo, got |-> c.got, rejected |-> c.rejected, range |-> c.range,
             posts |-> posts, table |-> table, last |-> c.last, answer |-> c.answer]
    BY <1>2, <1>4 DEF IsLocal
  <2>4. IsData(d)
    BY <1>2, <2>2, <2>3 DEF IsData
  <2>5. Fitting(d)
    BY <1>1, <1>2, <2>3 DEF Fitting, Under
  <2>6. Accounted(d) /\ Latest(d)
    BY <1>4, <2>3 DEF Accounted, Latest, Measures
  <2> QED BY <2>4, <2>5, <2>6 DEF Whole
<1>5. Whole(Failing(c, "other"))
  BY <1>2, FailingIsWhole DEF Message
<1> QED BY <1>1, <1>3, <1>4, <1>5, OneListMoves DEF ReadLedger

LEMMA WriteLedgerKeepsLists ==
  ASSUME CallInv, ListInv, NEW k \in Calls, WriteLedger(k)
  PROVE  ListInv'
<1>1. call[k].pc = "record" /\ marks' \subseteq Mark
  BY DEF WriteLedger, ListInv
<1>2. IsLocal(call[k]) /\ IsData(call[k])
  BY <1>1, WholeUnderWay DEF Under
<1>3. Whole(Ending(call[k], [kind |-> "done"])) /\ Whole(AfterWriteFails(call[k]))
  BY <1>2, PlainEndingIsWhole, FailingIsWhole DEF Message, AfterWriteFails
<1> QED BY <1>1, <1>3, OneListMoves DEF WriteLedger

-----------------------------------------------------------------------------
(* LinkedIn's answers.                                                     *)

LEMMA WholeWhileSending ==
  ASSUME CallInv, ListInv, NEW k \in Calls, NEW ops, Sending(k, ops)
  PROVE  /\ call[k].pc \in {"send", "resend"} /\ call[k].ask.op \in ops
         /\ IsLocal(call[k]) /\ IsData(call[k]) /\ WellFormed(call[k].ask)
         /\ Accounted(call[k]) /\ Latest(call[k])
         /\ call[k].row # None /\ OwnRow(call[k].row, call[k].tenant)
<1>1. call[k].pc \in {"send", "resend"} /\ call[k].ask.op \in ops
  BY DEF Sending
<1>2. IsLocal(call[k]) /\ RowRead(call[k]) /\ Whole(call[k])
  BY <1>1, WholeUnderWay DEF Under
<1> QED BY <1>1, <1>2 DEF Whole, Fitting, RowRead, Under

\* What a call marks is of its own member, on the object it names.
LEMMA OwnMark ==
  ASSUME CallInv, ListInv, NEW k \in Calls, Sending(k, Writes)
  PROVE  Own(k) \in Mark
<1>1. /\ call[k].ask.op \in Writes /\ call[k].ask \in Ask /\ WellFormed(call[k].ask)
      /\ OwnRow(call[k].row, call[k].tenant)
  BY WholeWhileSending, ToolCallsAssumption DEF IsLocal
<1>2. call[k].ask.on \in Objects
  <2>1. "on" \in DOMAIN call[k].ask /\ call[k].ask.on \in Objects \cup {None}
    BY <1>1 DEF Ask, PostTools, Writes, Reads, Measures
  <2>2. ArgumentsFit(call[k].ask)
    BY <1>1 DEF WellFormed, Writes, Measures
  <2> QED BY <2>1, <2>2 DEF ArgumentsFit
<1>3. call[k].row.member \in Tenants
  BY <1>1 DEF OwnRow, Row
<1> QED BY <1>2, <1>3 DEF Own, Marked, Mark

LEMMA CarriedKeepsLists ==
  ASSUME CallInv, ListInv, NEW k \in Calls, NEW op \in PostTools \cup Writes,
         NEW marksThen \in SUBSET Mark, NEW heard \in BOOLEAN, CarriesOut(k, op, marksThen, heard)
  PROVE  ListInv'
<1>1. Sending(k, {op}) /\ marks' \subseteq Mark
  BY DEF CarriesOut
<1> PICK c : c = call[k]
  OBVIOUS
<1>2. c.ask.op = op /\ IsLocal(c) /\ IsData(c) /\ WellFormed(c.ask)
  BY <1>1, WholeWhileSending
<1>3. Whole(AfterLoss(c))
  <2>1. PICK d : d = [c EXCEPT !.last = 0]
    OBVIOUS
  <2>2. /\ IsLocal(d) /\ IsData(d)
        /\ \A a : [Ending(c, a) EXCEPT !.last = 0] = Ending(d, a)
    BY <1>2, <2>1, NotingKeepsData DEF Refusals
  <2>3. AfterLoss(c) = Failing(d, "other")
    BY <2>2 DEF AfterLoss, Failing
  <2> QED BY <2>2, <2>3, FailingIsWhole DEF Message
<1>4. Whole(AfterAnswer(c))
  <2>1. Whole(Ending(c, [kind |-> "done"]))
    BY <1>2, PlainEndingIsWhole
  <2>2. ASSUME NEW d, d = [c EXCEPT !.pc = "record"] PROVE Whole(d)
    <3>1. IsData(d) /\ d.pc = "record" /\ d.ask = c.ask
      BY <1>2, <2>2, TurningKeepsData DEF Under
    <3> QED BY <1>2, <3>1
        DEF Whole, Fitting, Accounted, Latest, Under, PostTools, Writes, Measures
  <2> QED BY <2>1, <2>2 DEF AfterAnswer
<1>5. Become(k, AfterLoss(c)) \/ Become(k, AfterAnswer(c))
  BY DEF CarriesOut
<1> QED BY <1>1, <1>3, <1>4, <1>5, OneListMoves
LEMMA ReportsKeepsLists ==
  ASSUME CallInv, ListInv, NEW k \in Calls, NEW op, NEW a \in Answer, Reports(k, op, a),
         a.kind \in {"read", "listed"}, a.kind = "listed" => a.source # "ledger"
  PROVE  ListInv'
<1>1. Sending(k, {op}) /\ marks' \subseteq Mark
  BY DEF Reports, ListInv
<1> PICK c : c = call[k]
  OBVIOUS
<1>2. IsLocal(c) /\ IsData(c)
  BY <1>1, WholeWhileSending
<1>3. PICK d : d = [c EXCEPT !.last = 200]
  OBVIOUS
<1>4. IsLocal(d) /\ IsData(d) /\ [Ending(c, a) EXCEPT !.last = 200] = Ending(d, a)
  BY <1>2, <1>3, NotingKeepsData
<1>5. Whole(Ending(d, a))
  BY <1>4, EndingIsWhole
<1> QED BY <1>1, <1>4, <1>5, OneListMoves DEF Reports

\* Every metric but the current one is still to be asked for or has its answer,
\* and the current one has just got its own.
LEMMA NextMetricIsWhole ==
  ASSUME NEW c, IsLocal(c), IsData(c), WellFormed(c.ask), c.ask.op \in Measures,
         NEW left, left = c.todo \ {Current(c)},
         left \cup c.got \cup c.rejected = Kept(c.ask),
         left \cap (c.got \cup c.rejected) = {}, c.got \cap c.rejected = {}
  PROVE  Whole(NextMetric(c))
<1>1. CASE left # {}
  <2>1. PICK d : d = [c EXCEPT !.pc = "send", !.todo = left]
    OBVIOUS
  <2>2. d = [pc |-> "send", tenant |-> c.tenant, ask |-> c.ask, row |-> c.row,
             todo |-> left, got |-> c.got, rejected |-> c.rejected, range |-> c.range,
             posts |-> c.posts, table |-> c.table, last |-> c.last, answer |-> c.answer]
    BY <2>1 DEF IsLocal
  <2>3. IsData(d)
    BY <2>2 DEF IsData
  <2>4. Fitting(d) /\ Accounted(d) /\ Latest(d)
    BY <1>1, <2>2 DEF Fitting, Accounted, Parted, Latest, Measures
  <2> QED BY <1>1, <2>1, <2>3, <2>4 DEF NextMetric, Whole
<1>2. CASE left = {}
  <2>1. PICK e : e = [c EXCEPT !.todo = left]
    OBVIOUS
  <2>2. PICK a : a = [kind |-> "measured", dropped |-> Dropped(c.ask)]
    OBVIOUS
  <2>3. e = [pc |-> c.pc, tenant |-> c.tenant, ask |-> c.ask, row |-> c.row,
             todo |-> left, got |-> c.got, rejected |-> c.rejected, range |-> c.range,
             posts |-> c.posts, table |-> c.table, last |-> c.last, answer |-> c.answer]
    BY <2>1 DEF IsLocal
  <2>4. IsLocal(e)
    BY <2>3 DEF IsLocal
  <2>5. PICK d : d = Ending(e, a)
    OBVIOUS
  <2>6. d = [pc |-> "done", tenant |-> c.tenant, ask |-> c.ask, row |-> c.row,
             todo |-> left, got |-> c.got, rejected |-> c.rejected, range |-> c.range,
             posts |-> c.posts, table |-> c.table, last |-> c.last, answer |-> a]
    <3>1. d = [pc |-> "done", tenant |-> e.tenant, ask |-> e.ask, row |-> e.row,
               todo |-> e.todo, got |-> e.got, rejected |-> e.rejected, range |-> e.range,
               posts |-> e.posts, table |-> e.table, last |-> e.last, answer |-> a]
      BY <2>4, <2>5, EndingIsLocal
    <3> QED BY <2>3, <3>1
  <2>7. a \in Answer /\ a.kind = "measured" /\ a.dropped = Dropped(c.ask)
    <3>1. Dropped(c.ask) \subseteq Nat
      BY KeptOrDropped DEF IsLocal
    <3> QED BY <2>2, <3>1 DEF Answer
  <2>8. IsData(d)
    BY <2>6, <2>7 DEF IsData
  <2>9. Fitting(d) /\ Accounted(d) /\ Latest(d)
    BY <1>2, <2>6, <2>7 DEF Fitting, Accounted, Parted, Latest, Under
  <2> QED BY <1>2, <2>1, <2>2, <2>5, <2>8, <2>9 DEF NextMetric, Whole
<1> QED BY <1>1, <1>2

\* While a metric is asked for, it is one that has no answer yet.
LEMMA CurrentIsLeft ==
  ASSUME NEW c, IsData(c), Accounted(c), c.ask.op \in Measures, c.pc \in {"send", "resend"}
  PROVE  Parted(c) /\ Current(c) \in c.todo /\ Current(c) \in Nat
  BY Least DEF IsData, Accounted, Current

LEMMA OneMetricKeepsLists ==
  ASSUME CallInv, ListInv, NEW k \in Calls, OneMetric(k)
  PROVE  ListInv'
<1>1. Sending(k, Measures) /\ marks' \subseteq Mark
  BY DEF OneMetric, ListInv
<1> PICK c : c = call[k]
  OBVIOUS
<1>2. /\ c.pc \in {"send", "resend"} /\ c.ask.op \in Measures /\ IsLocal(c) /\ IsData(c)
      /\ WellFormed(c.ask) /\ Accounted(c)
  BY <1>1, WholeWhileSending
<1>3. Parted(c) /\ Current(c) \in c.todo /\ Current(c) \in Nat
  BY <1>2, CurrentIsLeft
<1>4. PICK got : got = c.got \cup {Current(c)}
  OBVIOUS
<1>5. PICK d : d = [c EXCEPT !.got = got, !.last = 200]
  OBVIOUS
<1>6. d = [pc |-> c.pc, tenant |-> c.tenant, ask |-> c.ask, row |-> c.row, todo |-> c.todo,
           got |-> got, rejected |-> c.rejected, range |-> c.range, posts |-> c.posts,
           table |-> c.table, last |-> 200, answer |-> c.answer]
  <2>1. PICK e : e = [c EXCEPT !.got = got]
    OBVIOUS
  <2>2. e = [pc |-> c.pc, tenant |-> c.tenant, ask |-> c.ask, row |-> c.row, todo |-> c.todo,
             got |-> got, rejected |-> c.rejected, range |-> c.range, posts |-> c.posts,
             table |-> c.table, last |-> c.last, answer |-> c.answer]
    BY <1>2, <2>1 DEF IsLocal
  <2>3. d = [e EXCEPT !.last = 200]
    BY <1>5, <2>1
  <2> QED BY <2>2, <2>3
<1>7. IsLocal(d)
  BY <1>2, <1>6 DEF IsLocal
<1>8. IsData(d)
  BY <1>2, <1>3, <1>4, <1>6 DEF IsData
<1>9. Current(d) = Current(c) /\ d.ask = c.ask
  BY <1>6 DEF Current
<1>10. PICK left : left = d.todo \ {Current(d)}
  OBVIOUS
<1>11. /\ left \cup d.got \cup d.rejected = Kept(d.ask)
       /\ left \cap (d.got \cup d.rejected) = {} /\ d.got \cap d.rejected = {}
  BY <1>3, <1>4, <1>6, <1>9, <1>10 DEF Parted
<1>12. Whole(NextMetric(d))
  BY <1>2, <1>7, <1>8, <1>9, <1>10, <1>11, NextMetricIsWhole
<1>13. Measured(c) = NextMetric(d)
  BY <1>4, <1>5 DEF Measured
<1> QED BY <1>1, <1>12, <1>13, OneListMoves DEF OneMetric

LEMMA RejectedIsWhole ==
  ASSUME NEW c, IsLocal(c), IsData(c), WellFormed(c.ask), Accounted(c),
         c.pc \in {"send", "resend"}, c.ask.op \in Measures
  PROVE  Whole(Rejected(c))
<1>1. Parted(c) /\ Current(c) \in c.todo /\ Current(c) \in Nat
  BY CurrentIsLeft
<1>2. PICK rejected : rejected = c.rejected \cup {Current(c)}
  OBVIOUS
<1>3. PICK d : d = [c EXCEPT !.rejected = rejected]
  OBVIOUS
<1>4. d = [pc |-> c.pc, tenant |-> c.tenant, ask |-> c.ask, row |-> c.row, todo |-> c.todo,
           got |-> c.got, rejected |-> rejected, range |-> c.range, posts |-> c.posts,
           table |-> c.table, last |-> c.last, answer |-> c.answer]
  BY <1>3 DEF IsLocal
<1>5. IsLocal(d)
  BY <1>4 DEF IsLocal
<1>6. IsData(d)
  BY <1>1, <1>2, <1>4 DEF IsData
<1>7. Current(d) = Current(c) /\ d.ask = c.ask
  BY <1>4 DEF Current
<1>8. PICK left : left = d.todo \ {Current(d)}
  OBVIOUS
<1>9. /\ left \cup d.got \cup d.rejected = Kept(d.ask)
      /\ left \cap (d.got \cup d.rejected) = {} /\ d.got \cap d.rejected = {}
  BY <1>1, <1>2, <1>4, <1>7, <1>8 DEF Parted
<1>10. Whole(NextMetric(d))
  BY <1>5, <1>6, <1>7, <1>8, <1>9, NextMetricIsWhole
<1> QED BY <1>2, <1>3, <1>10 DEF Rejected
\* A list of posts that LinkedIn does not let the member read comes from the
\* ledger.
LEMMA TurnedToLedgerIsWhole ==
  ASSUME NEW c, IsLocal(c), IsData(c), WellFormed(c.ask), c.ask.op = "list_posts"
  PROVE  Whole([c EXCEPT !.pc = "ledger"])
<1>1. PICK d : d = [c EXCEPT !.pc = "ledger"]
  OBVIOUS
<1>2. IsData(d) /\ d.pc = "ledger" /\ d.ask = c.ask
  BY <1>1, TurningKeepsData DEF Under
<1> QED BY <1>1, <1>2 DEF Whole, Fitting, Accounted, Latest, Measures

LEMMA RefusalKeepsLists ==
  ASSUME CallInv, ListInv, NEW k \in Calls, NEW status \in Refusals, LinkedInRefuses(k, status)
  PROVE  ListInv'
<1> PICK c : c = call[k]
  OBVIOUS
<1> PICK local : local = [c EXCEPT !.last = status]
  OBVIOUS
<1>1. /\ Sending(k, PostTools \cup Writes \cup Reads \cup Measures \cup {"list_posts"})
      /\ marks' \subseteq Mark
  BY DEF LinkedInRefuses, ListInv
<1>2. /\ c.pc \in {"send", "resend"} /\ IsLocal(c) /\ IsData(c) /\ WellFormed(c.ask)
      /\ Accounted(c)
  BY <1>1, WholeWhileSending
<1>3. /\ IsLocal(local) /\ IsData(local) /\ local.ask = c.ask /\ local.pc = c.pc
      /\ local.todo = c.todo /\ local.got = c.got /\ local.rejected = c.rejected
  BY <1>2, NotingKeepsData
<1>4. Whole(Ending(local, [kind |-> "read"]))
  BY <1>3, PlainEndingIsWhole
<1>5. c.ask.op = "list_posts" => Whole([local EXCEPT !.pc = "ledger"])
  BY <1>2, <1>3, TurnedToLedgerIsWhole
<1>6. ASSUME c.ask.op \in Measures PROVE Whole(Rejected(local))
  <2>1. Parted(c) /\ c.todo # {}
    BY <1>2, <1>6 DEF Accounted
  <2>2. Accounted(local)
    BY <1>2, <1>3, <1>6, <2>1 DEF Accounted, Parted
  <2> QED BY <1>2, <1>3, <1>6, <2>2, RejectedIsWhole
<1>7. Whole(Failing(local, UserMessage(status)))
  <2>1. UserMessage(status) \in Message
    <3>1. UserMessage(0) \in Message /\ UserMessage(400) \in Message
          /\ UserMessage(500) \in Message
      BY DEF UserMessage, Message
    <3>2. UserMessage(401) \in Message /\ UserMessage(403) \in Message
          /\ UserMessage(404) \in Message
      BY DEF UserMessage, Message
    <3>3. status \in {0, 400, 401, 403, 404, 500}
      BY DEF Refusals
    <3> QED BY <3>1, <3>2, <3>3
  <2> QED BY <1>3, <2>1, FailingIsWhole
<1> QED BY <1>1, <1>4, <1>5, <1>6, <1>7, OneListMoves DEF LinkedInRefuses

LEMMA ThrottleKeepsLists ==
  ASSUME CallInv, ListInv, NEW k \in Calls, LinkedInThrottles(k)
  PROVE  ListInv'
<1> PICK c : c = call[k]
  OBVIOUS
<1>1. /\ Sending(k, PostTools \cup Writes \cup Reads \cup Measures \cup {"list_posts"})
      /\ marks' \subseteq Mark
  BY DEF LinkedInThrottles, ListInv
<1>2. /\ c.pc \in {"send", "resend"} /\ IsLocal(c) /\ IsData(c) /\ WellFormed(c.ask)
      /\ Accounted(c) /\ Latest(c)
  BY <1>1, WholeWhileSending
<1>3. ASSUME c.pc = "send" PROVE Whole(AfterThrottle(c))
  <2>1. PICK s : s = [c EXCEPT !.pc = "resend"]
    OBVIOUS
  <2>2. PICK d : d = [s EXCEPT !.last = 429]
    OBVIOUS
  <2>3. /\ IsLocal(s) /\ IsData(s) /\ s.pc = "resend" /\ s.ask = c.ask /\ s.todo = c.todo
        /\ s.got = c.got /\ s.rejected = c.rejected /\ s.table = c.table /\ s.posts = c.posts
    BY <1>2, <2>1, TurningKeepsData DEF Under
  <2>4. /\ IsData(d) /\ d.pc = "resend" /\ d.ask = c.ask /\ d.todo = c.todo
        /\ d.got = c.got /\ d.rejected = c.rejected /\ d.table = c.table /\ d.posts = c.posts
    BY <2>2, <2>3, NotingKeepsData
  <2>5. Fitting(d)
    BY <1>2, <2>4 DEF Fitting
  <2>6. Accounted(d)
    BY <1>2, <2>4 DEF Accounted, Parted
  <2>7. Latest(d)
    BY <1>2, <2>4 DEF Latest
  <2>8. AfterThrottle(c) = d
    BY <1>3, <2>1, <2>2 DEF AfterThrottle
  <2> QED BY <2>4, <2>5, <2>6, <2>7, <2>8 DEF Whole
<1>4. ASSUME c.pc = "resend" PROVE Whole(AfterThrottle(c))
  <2>1. PICK d : d = [c EXCEPT !.last = 429]
    OBVIOUS
  <2>2. /\ IsLocal(d) /\ IsData(d)
        /\ \A a : [Ending(c, a) EXCEPT !.last = 429] = Ending(d, a)
    BY <1>2, <2>1, NotingKeepsData
  <2>3. AfterThrottle(c) = Failing(d, UserMessage(429))
    BY <1>4, <2>2 DEF AfterThrottle, Failing
  <2>4. UserMessage(429) \in Message
    BY DEF UserMessage, Message
  <2> QED BY <2>2, <2>3, <2>4, FailingIsWhole
<1> QED BY <1>1, <1>2, <1>3, <1>4, OneListMoves DEF LinkedInThrottles

\* The status counts what the statement answered, and names permissions there are.
LEMMA StatusIsWhole ==
  ASSUME NEW c, IsLocal(c), IsData(c), c.row # None, OwnRow(c.row, c.tenant),
         c.posts \in LedgerPosts(c.table, TRUE, MaxPostLimit),
         NEW active \in BOOLEAN, NEW answered, answered \in {{}, c.row.token.scopes}
  PROVE  Whole(Ending(c, StatusOf(c, active, answered)))
<1>1. PICK granted : granted = GrantedScopes(c.row, answered)
  OBVIOUS
<1>2. PICK missing : missing = MissingScopes(granted)
  OBVIOUS
<1>3. PICK a : a = StatusOf(c, active, answered)
  OBVIOUS
<1>4. PICK healthy \in BOOLEAN : healthy <=> active /\ missing = {}
  OBVIOUS
<1>5. PICK recorded, deleted : /\ recorded = countLive(c.posts)
                               /\ deleted = Len(c.posts) - countLive(c.posts)
  OBVIOUS
<1>6. a = [kind |-> "status", granted |-> granted, missing |-> missing, healthy |-> healthy,
           recorded |-> recorded, deleted |-> deleted]
  BY <1>1, <1>2, <1>3, <1>4, <1>5 DEF StatusOf
<1>7. granted \subseteq Scopes /\ missing \subseteq Scopes
  <2>1. c.row.scopes \subseteq Scopes /\ c.row.token.scopes \subseteq Scopes
    BY ToolCallsAssumption DEF OwnRow, Row, Token
  <2> QED BY <1>1, <1>2, <2>1, ToolCallsAssumption DEF GrantedScopes, MissingScopes
<1>8. recorded \in Nat /\ deleted \in Nat
  <2>1. PICK may : may = {p \in c.table : TRUE \/ ~p.deleted}
    OBVIOUS
  <2>2. c.table \subseteq LedgerRow /\ IsFiniteSet(c.table) /\ may = c.table
    BY <2>1, TableIsFinite DEF IsData
  <2>3. c.posts \in Newest(may, MaxPostLimit) /\ MaxPostLimit \in Nat
    BY <2>1, ToolCallsAssumption DEF LedgerPosts
  <2>4. c.posts \in Seq(may) /\ \A i, j \in DOMAIN c.posts : c.posts[i] = c.posts[j] => i = j
    BY <2>2, <2>3, NewestRows
  <2> QED BY <1>5, <2>4, LiveCounted
<1>9. a \in Answer /\ a.kind = "status" /\ a.recorded = recorded /\ a.deleted = deleted
  BY <1>6, <1>7, <1>8 DEF Answer
<1>10. PICK d : d = Ending(c, a)
  OBVIOUS
<1>11. d = [pc |-> "done", tenant |-> c.tenant, ask |-> c.ask, row |-> c.row,
            todo |-> c.todo, got |-> c.got, rejected |-> c.rejected, range |-> c.range,
            posts |-> c.posts, table |-> c.table, last |-> c.last, answer |-> a]
  BY <1>10, EndingIsLocal
<1>12. IsData(d)
  BY <1>9, <1>11 DEF IsData
<1>13. Fitting(d) /\ Accounted(d) /\ Latest(d)
  BY <1>5, <1>9, <1>11 DEF Fitting, Accounted, Latest, Under
<1> QED BY <1>3, <1>10, <1>12, <1>13 DEF Whole
LEMMA IntrospectKeepsLists ==
  ASSUME CallInv, ListInv, NEW k \in Calls, IntrospectToken(k) \/ IntrospectFails(k)
  PROVE  ListInv'
<1>1. Sending(k, {"connection_status"}) /\ marks' \subseteq Mark
  BY DEF IntrospectToken, IntrospectFails, ListInv
<1> PICK c : c = call[k]
  OBVIOUS
<1>2. /\ IsLocal(c) /\ IsData(c) /\ c.row # None /\ OwnRow(c.row, c.tenant)
      /\ c.posts \in LedgerPosts(c.table, TRUE, MaxPostLimit)
  <2>1. /\ IsLocal(c) /\ IsData(c) /\ c.row # None /\ OwnRow(c.row, c.tenant)
        /\ c.pc \in {"send", "resend"} /\ c.ask.op = "connection_status" /\ Latest(c)
    BY <1>1, WholeWhileSending
  <2> QED BY <2>1 DEF Latest
<1>3. \A active \in BOOLEAN : \A answered \in {{}, c.row.token.scopes} :
        Whole(Ending(c, StatusOf(c, active, answered)))
  BY <1>2, StatusIsWhole
<1>4. CASE IntrospectToken(k)
  BY <1>1, <1>3, <1>4, OneListMoves DEF IntrospectToken
<1>5. CASE IntrospectFails(k)
  BY <1>1, <1>3, <1>5, OneListMoves DEF IntrospectFails
<1> QED BY <1>1, <1>4, <1>5

-----------------------------------------------------------------------------
(* The invariant.                                                          *)

LEMMA ListInit == Init => ListInv
  BY DEF Init, ListInv

LEMMA ListStep == CallInv /\ ListInv /\ [Next]_vars => ListInv'
<1> SUFFICES ASSUME CallInv, ListInv, [Next]_vars PROVE ListInv'
  OBVIOUS
<1>1. ASSUME NEW k \in Calls, NEW t \in Tenants, NEW ask \in Asks, Begin(k, t, ask)
      PROVE  ListInv'
  BY <1>1, BeginKeepsLists
<1>2. ASSUME NEW k \in Calls, Runs(k) PROVE ListInv'
  <2>1. ASSUME NEW ops, UseCase(k, ops) PROVE ListInv'
    BY <2>1, UseCaseKeepsLists
  <2> QED BY <1>2, <2>1, ReconnectURLKeepsLists, OwnedPostKeepsLists, WriteLedgerKeepsLists,
             ReadLedgerKeepsLists
      DEF Runs, PublishPost, EditPost, DeletePost, PublishComment, DeleteComment, React,
          PostEngagement, PostComments, ListPosts, Analytics, ConnectionStatus
<1>3. ASSUME NEW k \in Calls, LinkedInAnswers(k) PROVE ListInv'
  <2>1. ASSUME NEW heard \in BOOLEAN, NEW op \in PostTools, CarriesOut(k, op, marks, heard)
        PROVE  ListInv'
    BY <2>1, CarriedKeepsLists DEF ListInv
  <2>2. ASSUME NEW heard \in BOOLEAN, NEW op \in Writes,
               NEW after \in {marks \cup {Own(k)}, marks \ {Own(k)}},
               CarriesOut(k, op, after, heard)
        PROVE  ListInv'
    <3>1. Sending(k, Writes)
      BY <2>2 DEF CarriesOut, Sending
    <3>2. after \in SUBSET Mark
      BY <3>1, OwnMark DEF ListInv
    <3> QED BY <2>2, <3>2, CarriedKeepsLists
  <2>3. ASSUME NEW heard \in BOOLEAN,
               LinkedInCreates(k, heard) \/ LinkedInEdits(k, heard) \/ LinkedInDeletes(k, heard)
        PROVE  ListInv'
    BY <2>1, <2>3 DEF LinkedInCreates, LinkedInEdits, LinkedInDeletes, PostTools
  <2>4. ASSUME NEW heard \in BOOLEAN,
               \/ LinkedInComments(k, heard) \/ LinkedInUncomments(k, heard)
               \/ LinkedInLikes(k, heard) \/ LinkedInUnlikes(k, heard)
        PROVE  ListInv'
    BY <2>2, <2>4
    DEF LinkedInComments, LinkedInUncomments, LinkedInLikes, LinkedInUnlikes, Writes
  <2>5. CASE SocialCounts(k) \/ Comments(k)
    <3>1. PICK a : a = [kind |-> "read"]
      OBVIOUS
    <3>2. a \in Answer /\ a.kind = "read"
      BY <3>1, PlainAnswers
    <3> QED BY <2>5, <3>1, <3>2, ReportsKeepsLists DEF SocialCounts, Comments
  <2>6. CASE FindPostsByAuthor(k)
    <3>1. PICK a : a = [kind |-> "listed", source |-> "linkedin"]
      OBVIOUS
    <3>2. a \in Answer /\ a.kind = "listed" /\ a.source = "linkedin"
      BY <3>1, PlainAnswers
    <3> QED BY <2>6, <3>1, <3>2, ReportsKeepsLists DEF FindPostsByAuthor
  <2>7. CASE OneMetric(k) \/ IntrospectToken(k) \/ IntrospectFails(k) \/ LinkedInThrottles(k)
    BY <2>7, OneMetricKeepsLists, IntrospectKeepsLists, ThrottleKeepsLists
  <2>8. ASSUME NEW status \in Refusals, LinkedInRefuses(k, status) PROVE ListInv'
    BY <2>8, RefusalKeepsLists
  <2> QED BY <1>3, <2>3, <2>4, <2>5, <2>6, <2>7, <2>8 DEF LinkedInAnswers
<1>4. ASSUME NEW k \in Calls, Return(k) \/ Abort(k) PROVE ListInv'
  BY <1>4, OneListMoves DEF Return, Abort, ListInv
<1>5. CASE \/ \E t \in Tenants, S \in Grants, told \in BOOLEAN : SignsInAgain(t, S, told)
           \/ UNCHANGED vars
  BY <1>5 DEF SignsInAgain, vars, ListInv
<1>6. ASSUME NEW k \in Calls, NEW t \in Tenants, ReadResource(k, t)
      PROVE  ListInv'
  BY <1>1, <1>6, ToolCallsAssumption DEF ReadResource
<1>7. ASSUME NEW k \in Calls, NEW t \in Tenants, NEW ask \in Asks,
             ReadTool(k, t, ask) \/ WriteTool(k, t, ask)
      PROVE  ListInv'
  BY <1>1, <1>7 DEF ReadTool, WriteTool
<1> QED BY <1>2, <1>3, <1>4, <1>5, <1>6, <1>7 DEF Next

LEMMA ListInvariant == Spec => [](CallInv /\ ListInv)
<1>1. CallInv /\ ListInv /\ [Next]_vars => (CallInv /\ ListInv)'
  BY InvStep, ListStep
<1> QED BY InvInit, ListInit, <1>1, PTL DEF Spec
-----------------------------------------------------------------------------
(* The theorems.                                                           *)

\* Every variable keeps its type, a request is only under way for a call that
\* has read a row, and analytics only asks while a metric is left.
THEOREM TypeCorrect == Spec => []TypeOK
<1>1. CallInv /\ ListInv => TypeOK
  <2> SUFFICES ASSUME CallInv, ListInv PROVE TypeOK
    OBVIOUS
  <2>1. ASSUME NEW k \in Calls, call[k] # Idle
        PROVE  /\ call[k] \in Local
               /\ call[k].pc \in {"send", "resend", "record"} =>
                    /\ call[k].row # None
                    /\ call[k].ask.op \in Measures => call[k].todo # {}
    <3> PICK c : c = call[k]
      OBVIOUS
    <3>1. IsLocal(c) /\ RowRead(c) /\ IsData(c) /\ Accounted(c)
      BY <2>1 DEF CallInv, CallsInv, Good, ListInv, Whole
    <3>2. c.row \in Row \cup {None}
      BY <3>1 DEF RowRead, OwnRow
    <3>3. /\ c.pc \in {"read", "ledger", "send", "resend", "record", "done"}
          /\ c.tenant \in Tenants /\ c.ask \in Asks
          /\ c.todo \in SUBSET Nat /\ c.got \in SUBSET Nat /\ c.rejected \in SUBSET Nat
          /\ c.range \in Seq(Int) /\ c.posts \in Seq(LedgerRow) /\ c.table \in Ledgers \cup {{}}
          /\ c.last \in Refusals \cup {200, 429} /\ c.answer \in Answer \cup {None}
      BY <3>1 DEF IsLocal, IsData, Under
    <3>4. c = [pc |-> c.pc, tenant |-> c.tenant, ask |-> c.ask, row |-> c.row,
               todo |-> c.todo, got |-> c.got, rejected |-> c.rejected, range |-> c.range,
               posts |-> c.posts, table |-> c.table, last |-> c.last, answer |-> c.answer]
      BY <3>1 DEF IsLocal
    <3>5. c \in Local
      BY <3>2, <3>3, <3>4 DEF Local
    <3>6. c.pc \in {"send", "resend", "record"} =>
            c.row # None /\ (c.ask.op \in Measures => c.todo # {})
      BY <3>1 DEF RowRead, Accounted, Under
    <3> QED BY <3>5, <3>6
  <2>2. call \in [Calls -> Local \cup {Idle}]
    BY <2>1 DEF CallInv, CallsInv
  <2>3. \A k \in Calls : call[k].pc \in {"send", "resend", "record"} => call[k] # Idle
    BY DEF Idle
  <2> QED BY <2>1, <2>2, <2>3 DEF TypeOK, CallInv, RowsInv, CallsInv, ListInv
<1> QED BY <1>1, ListInvariant, PTL

\* An answer of the analytics tools accounts for every metric the client asked
\* for, whatever was asked twice, throttled, rejected or left out.
THEOREM MetricsAccounted == Spec => []EveryMetricAccounted
<1>1. CallInv /\ ListInv => EveryMetricAccounted
  <2> SUFFICES ASSUME CallInv, ListInv, NEW k \in Calls, call[k].pc = "done",
                      call[k].answer.kind = "measured", NEW c, c = call[k]
               PROVE  /\ c.got \cup c.rejected \cup c.answer.dropped
                           = DOMAIN MetricsOrDefault(c.ask.metrics)
                      /\ c.got \cap c.rejected = {}
                      /\ (c.got \cup c.rejected) \cap c.answer.dropped = {}
    BY DEF EveryMetricAccounted
  <2>1. IsLocal(c) /\ Accounted(c)
    BY WholeUnderWay DEF Whole
  <2>2. Parted(c) /\ c.todo = {} /\ c.answer.dropped = Dropped(c.ask)
    BY <2>1 DEF Accounted
  <2>3. Kept(c.ask) = Places(c.ask) \ Dropped(c.ask) /\ Dropped(c.ask) \subseteq Places(c.ask)
    BY DEF Kept, Dropped
  <2>4. c.got \cup c.rejected = Kept(c.ask) /\ c.got \cap c.rejected = {}
    BY <2>2 DEF Parted
  <2> QED BY <2>2, <2>3, <2>4 DEF Places
<1> QED BY <1>1, ListInvariant, PTL

\* list_posts shows the newest posts the ledger has, of those that may be shown:
\* tombstones take no place in the page.
THEOREM LedgerListLatest == Spec => []LedgerListIsLatest
<1>1. CallInv /\ ListInv => LedgerListIsLatest
  <2> SUFFICES ASSUME CallInv, ListInv, NEW k \in Calls, call[k].pc = "done",
                      call[k].answer.kind = "listed", call[k].answer.source = "ledger"
               PROVE  LedgerListIsLatest!(k)!2
    BY DEF LedgerListIsLatest
  <2> PICK c : c = call[k]
    OBVIOUS
  <2> PICK list : list = c.answer.posts
    OBVIOUS
  <2> PICK may : may = {p \in c.table : c.ask.includeDeleted \/ ~p.deleted}
    OBVIOUS
  <2>1. IsLocal(c) /\ IsData(c) /\ Latest(c)
    BY WholeUnderWay DEF Whole
  <2>2. /\ c.ask.op = "list_posts" /\ list \in LedgerPosts(c.table, c.ask.includeDeleted, clampLimit(c.ask.limit))
    BY <2>1 DEF Latest
  <2>3. clampLimit(c.ask.limit) \in Nat
    <3>1. c.ask \in Ask
      BY <2>1, ToolCallsAssumption DEF IsLocal
    <3>2. c.ask.limit \in Int
      BY <2>2, <3>1 DEF Ask, PostTools, Writes, Reads, Measures
    <3> QED BY <3>2, LimitIsNat
  <2>4. may \subseteq LedgerRow /\ IsFiniteSet(may)
    <3>1. c.table \subseteq LedgerRow /\ IsFiniteSet(c.table)
      BY <2>1, TableIsFinite DEF IsData
    <3> QED BY <3>1, FS_Subset
  <2>5. list \in Newest(may, clampLimit(c.ask.limit))
    BY <2>2 DEF LedgerPosts
  <2>6. /\ ToSet(list) \subseteq may
        /\ \A i, j \in DOMAIN list : i < j => list[i].created >= list[j].created
        /\ \A p \in may \ ToSet(list) :
             /\ Len(list) = clampLimit(c.ask.limit)
             /\ \A q \in ToSet(list) : q.created >= p.created
    BY <2>3, <2>4, <2>5, NewestRows
  <2> QED BY <2>6
<1> QED BY <1>1, ListInvariant, PTL

\* The two counters of connection_status are the posts list_posts shows and the
\* tombstones it hides, for any ledger that fits in a page.
THEOREM CountersMatch == Spec => []CountersMatchList
<1>1. CallInv /\ ListInv => CountersMatchList
  <2> SUFFICES ASSUME CallInv, ListInv, NEW k \in Calls, call[k].pc = "done",
                      call[k].answer.kind = "status", NEW c, c = call[k],
                      Cardinality(c.table) <= MaxPostLimit,
                      NEW shown \in LedgerPosts(c.table, FALSE, MaxPostLimit)
               PROVE  /\ c.answer.recorded = Len(shown)
                      /\ c.answer.deleted = Cardinality(c.table \ ToSet(shown))
    BY DEF CountersMatchList
  <2> PICK table : table = c.table
    OBVIOUS
  <2> PICK live : live = {p \in table : ~p.deleted}
    OBVIOUS
  <2>1. IsData(c) /\ Latest(c)
    BY WholeUnderWay DEF Whole
  <2>2. /\ c.posts \in LedgerPosts(table, TRUE, MaxPostLimit)
        /\ c.answer.recorded = countLive(c.posts)
        /\ c.answer.deleted = Len(c.posts) - countLive(c.posts)
    BY <2>1 DEF Latest
  <2>3. table \subseteq LedgerRow /\ IsFiniteSet(table) /\ MaxPostLimit \in Nat
    BY <2>1, TableIsFinite, ToolCallsAssumption DEF IsData
  <2>4. /\ live \subseteq LedgerRow /\ IsFiniteSet(live)
        /\ Cardinality(live) <= Cardinality(table)
    BY <2>3, FS_Subset
  <2>5. /\ Cardinality(table) \in Nat /\ Cardinality(live) \in Nat
        /\ Cardinality(table) <= MaxPostLimit /\ Cardinality(live) <= MaxPostLimit
    BY <2>3, <2>4, FS_CardinalityType
  <2>6. c.posts \in Newest(table, MaxPostLimit) /\ shown \in Newest(live, MaxPostLimit)
    <3>1. {p \in table : TRUE \/ ~p.deleted} = table /\ {p \in table : FALSE \/ ~p.deleted} = live
      OBVIOUS
    <3> QED BY <2>2, <3>1 DEF LedgerPosts
  <2>7. /\ c.posts \in Seq(table) /\ ToSet(c.posts) = table
        /\ \A i, j \in DOMAIN c.posts : c.posts[i] = c.posts[j] => i = j
    BY <2>3, <2>5, <2>6, NewestRows
  <2>8. /\ shown \in Seq(live) /\ ToSet(shown) = live
        /\ \A i, j \in DOMAIN shown : shown[i] = shown[j] => i = j
    BY <2>3, <2>4, <2>5, <2>6, NewestRows
  <2>9. Len(c.posts) = Cardinality(table) /\ countLive(c.posts) = Cardinality(live)
    BY <2>7, LiveCounted
  <2>10. Len(shown) = Cardinality(live)
    BY <2>8, LiveCounted
  <2>11. Cardinality(table \ live) = Cardinality(table) - Cardinality(live)
    <3>1. table \cap live = live
      OBVIOUS
    <3>2. Cardinality(table \ live) = Cardinality(table) - Cardinality(table \cap live)
      BY <2>3, FS_Difference
    <3> QED BY <3>1, <3>2
  <2> QED BY <2>2, <2>8, <2>9, <2>10, <2>11
<1> QED BY <1>1, ListInvariant, PTL
==============================================================================
