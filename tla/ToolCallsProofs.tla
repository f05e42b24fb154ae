---------------------------- MODULE ToolCallsProofs ----------------------------
(***************************************************************************)
(* Theorems about ToolCalls for any sets of members, calls and requests,   *)
(* and any number of new sign-ins while a call is under way.               *)
(*                                                                         *)
(* They are about what a call does and answers; what its lists of metrics  *)
(* and posts hold is the subject of ToolListsProofs.                       *)
(***************************************************************************)
EXTENDS ToolCalls, TLAPS

-----------------------------------------------------------------------------
(* The inductive invariant.                                                *)

\* A row of tenants is the member's own, and so is the token in it; the scopes
\* next to the token are the token's, or none when LinkedIn left them out.
OwnRow(row, t) ==
  /\ row \in Row
  /\ row.member = t /\ row.token.member = t
  /\ row.scopes = row.token.scopes \/ row.scopes = {}
RowsInv ==
  /\ rows \in [Tenants -> Row \cup {None}]
  /\ \A t \in Tenants : rows[t] # None => OwnRow(rows[t], t)

Under == {"read", "ledger", "send", "resend", "record"}

\* The locals of a call, without what its lists hold.
IsLocal(c) ==
  /\ c = [pc |-> c.pc, tenant |-> c.tenant, ask |-> c.ask, row |-> c.row, todo |-> c.todo,
          got |-> c.got, rejected |-> c.rejected, range |-> c.range, posts |-> c.posts,
          table |-> c.table, last |-> c.last, answer |-> c.answer]
  /\ c.pc \in Under \cup {"done"} /\ c.tenant \in Tenants /\ c.ask \in Asks

\* A call goes on with a row that was its member's own, and only with one.
RowRead(c) ==
  /\ c.row # None => OwnRow(c.row, c.tenant)
  /\ c.pc \in Under \ {"read"} => c.row # None

\* What an error may say after e effects, when the last request was answered so.
Told(message, e, last) ==
  /\ message \notin {"other", "unrecorded"} => e = 0
  /\ message = "unrecorded" => e = 1
  /\ message = "other" /\ e = 1 => last = 0

\* How often LinkedIn has done something for a call, by how far it is; the
\* retry makes it one invariant with the answers: before "record" nothing has
\* happened yet, whatever was throttled.
Counted(c, e) ==
  /\ c.pc \in Under => e = IF c.pc = "record" THEN 1 ELSE 0
  /\ c.pc = "done" =>
       /\ e \in {0, 1}
       /\ c.answer.kind = "preview" => e = 0
       /\ c.answer.kind = "error" => Told(c.answer.message, e, c.last)
       /\ c.answer.kind = "done" /\ c.ask.op # "delete_post" => e = 1

\* Nothing is sent that the client was to be shown first.
Decided(c) == c.pc \in {"send", "resend"} => Confirmed(c.ask)

Reported(c) ==
  c.pc = "done" /\ c.answer.kind = "status" =>
    /\ c.row # None
    /\ c.row.scopes # {} =>
         /\ c.answer.granted = c.row.scopes
         /\ c.answer.healthy => Requested \subseteq c.row.scopes

\* What list_posts goes by when it turns to the ledger.
MayNotList(c) == "r_member_social" \notin c.row.scopes \/ c.last \in {401, 403}
Degraded(c) ==
  c.ask.op = "list_posts" =>
    /\ c.pc = "ledger" => MayNotList(c)
    /\ c.pc = "done" =>
         /\ c.answer.kind = "error" => c.answer.message \notin {"scope", "refused"}
         /\ c.answer.kind = "listed" /\ c.answer.source = "ledger" => MayNotList(c)

\* The period a call of the analytics tools asks LinkedIn for.
Asked(c) ==
  c.pc \in {"send", "resend"} /\ c.ask.op \in Measures =>
    DatesFit(c.ask) /\ c.range = dateRange(Since(c.ask), c.ask.until)

Good(c, e) ==
  /\ IsLocal(c) /\ RowRead(c) /\ Counted(c, e)
  /\ Decided(c) /\ Reported(c) /\ Degraded(c) /\ Asked(c)

CallsInv ==
  /\ call = [k \in Calls |-> call[k]] /\ effects \in [Calls -> Nat]
  /\ \A k \in Calls : IF call[k] = Idle THEN effects[k] = 0 ELSE Good(call[k], effects[k])

-----------------------------------------------------------------------------
(* Requests, and the locals a step leaves.                                 *)

\* The tools that ask to be confirmed are the ones that write, and a period
\* comes as two days, each of which may be absent or malformed.
LEMMA AskShapes ==
  ASSUME NEW ask \in Asks
  PROVE  /\ ask.op \in PostTools \cup Writes => "confirm" \in DOMAIN ask
         /\ ask.op \notin PostTools \cup Writes => "confirm" \notin DOMAIN ask
         /\ ask.op \in Measures => ask.since \in Date /\ ask.until \in Date
<1>1. ask \in Ask
  BY ToolCallsAssumption
<1> QED BY <1>1 DEF Ask, PostTools, Writes, Reads, Measures

LEMMA EndingIsLocal ==
  ASSUME NEW c, IsLocal(c), NEW a, NEW d, d = Ending(c, a)
  PROVE  /\ IsLocal(d) /\ d.pc = "done" /\ d.answer = a
         /\ d.tenant = c.tenant /\ d.ask = c.ask /\ d.row = c.row /\ d.last = c.last
         /\ d = [pc |-> "done", tenant |-> c.tenant, ask |-> c.ask, row |-> c.row,
                 todo |-> c.todo, got |-> c.got, rejected |-> c.rejected, range |-> c.range,
                 posts |-> c.posts, table |-> c.table, last |-> c.last, answer |-> a]
  BY DEF IsLocal, Ending, Under

LEMMA FailingIsLocal ==
  ASSUME NEW c, IsLocal(c), NEW m, NEW d, d = Failing(c, m)
  PROVE  /\ IsLocal(d) /\ d.pc = "done"
         /\ d.answer = [kind |-> "error", message |-> m]
         /\ d.tenant = c.tenant /\ d.ask = c.ask /\ d.row = c.row /\ d.last = c.last
  BY EndingIsLocal DEF Failing

LEMMA HearingIsLocal ==
  ASSUME NEW c, IsLocal(c), NEW s, NEW d, d = [c EXCEPT !.last = s]
  PROVE  /\ IsLocal(d) /\ d.pc = c.pc /\ d.answer = c.answer /\ d.last = s
         /\ d.tenant = c.tenant /\ d.ask = c.ask /\ d.row = c.row /\ d.range = c.range
  BY DEF IsLocal

LEMMA TurningIsLocal ==
  ASSUME NEW c, IsLocal(c), NEW pc \in Under \cup {"done"}, NEW d, d = [c EXCEPT !.pc = pc]
  PROVE  /\ IsLocal(d) /\ d.pc = pc /\ d.answer = c.answer /\ d.last = c.last
         /\ d.tenant = c.tenant /\ d.ask = c.ask /\ d.row = c.row /\ d.range = c.range
  BY DEF IsLocal

\* A call that fails leaves the invariant true when what it says of LinkedIn is
\* right, and when it does not blame a permission on a list of posts.
LEMMA FailingIsGood ==
  ASSUME NEW c, NEW e \in {0, 1}, IsLocal(c), RowRead(c), NEW m,
         Told(m, e, c.last),
         c.ask.op = "list_posts" => m \notin {"scope", "refused"}
  PROVE  Good(Failing(c, m), e)
<1> DEFINE d == Failing(c, m)
<1>1. /\ IsLocal(d) /\ d.pc = "done"
      /\ d.answer = [kind |-> "error", message |-> m]
      /\ d.tenant = c.tenant /\ d.ask = c.ask /\ d.row = c.row /\ d.last = c.last
  BY FailingIsLocal
<1> HIDE DEF d
<1>2. RowRead(d)
  BY <1>1 DEF RowRead, Under
<1>3. Counted(d, e) /\ Decided(d) /\ Reported(d) /\ Degraded(d) /\ Asked(d)
  BY <1>1 DEF Counted, Decided, Reported, Degraded, Asked, Under
<1> QED BY <1>1, <1>2, <1>3 DEF Good, d

\* Before LinkedIn has done anything, every message but one is right.
LEMMA NothingDoneYet ==
  ASSUME NEW m, m # "unrecorded", NEW last
  PROVE  Told(m, 0, last)
  BY DEF Told

\* So does one that ends without an error or a status, when "done" is what
\* LinkedIn did, and a list out of the ledger what the permissions leave.
LEMMA EndingIsGood ==
  ASSUME NEW c, NEW e \in {0, 1}, IsLocal(c), RowRead(c), NEW a,
         a.kind \in {"preview", "done", "read", "measured", "listed"},
         a.kind = "listed" => a.source # "ledger" \/ MayNotList(c),
         a.kind = "preview" => e = 0,
         a.kind = "done" /\ c.ask.op # "delete_post" => e = 1
  PROVE  Good(Ending(c, a), e)
<1> DEFINE d == Ending(c, a)
<1>1. /\ IsLocal(d) /\ d.pc = "done" /\ d.answer = a
      /\ d.tenant = c.tenant /\ d.ask = c.ask /\ d.row = c.row /\ d.last = c.last
  BY EndingIsLocal
<1> HIDE DEF d
<1>2. RowRead(d)
  BY <1>1 DEF RowRead, Under
<1>3. Counted(d, e) /\ Decided(d) /\ Reported(d) /\ Degraded(d) /\ Asked(d)
  BY <1>1 DEF Counted, Decided, Reported, Degraded, Asked, Under, MayNotList
<1> QED BY <1>1, <1>2, <1>3 DEF Good, d

\* One call moves, and LinkedIn has done e things for it then.
LEMMA OneCallMoves ==
  ASSUME CallsInv, NEW k \in Calls, NEW d, Become(k, d), NEW e \in Nat,
         effects' = [effects EXCEPT ![k] = e],
         IF d = Idle THEN e = 0 ELSE Good(d, e)
  PROVE  CallsInv'
<1>1. /\ call' = [j \in Calls |-> call'[j]] /\ call'[k] = d
      /\ \A j \in Calls : j # k => call'[j] = call[j]
  BY DEF CallsInv, Become
<1>2. /\ effects' \in [Calls -> Nat] /\ effects'[k] = e
      /\ \A j \in Calls : j # k => effects'[j] = effects[j]
  BY DEF CallsInv
<1>3. \A j \in Calls : IF call'[j] = Idle THEN effects'[j] = 0 ELSE Good(call'[j], effects'[j])
  BY <1>1, <1>2 DEF CallsInv
<1> QED BY <1>1, <1>2, <1>3 DEF CallsInv

LEMMA OneCallMovesUnseen ==
  ASSUME CallsInv, NEW k \in Calls, NEW d, Become(k, d), UNCHANGED effects,
         Good(d, effects[k])
  PROVE  CallsInv'
<1>1. effects[k] \in Nat /\ effects' = [effects EXCEPT ![k] = effects[k]]
  BY DEF CallsInv
<1>2. d # Idle
  BY DEF Good, IsLocal, Idle, Under
<1> QED BY <1>1, <1>2, OneCallMoves

\* What the invariant says of a call that is under way.
LEMMA CallIsGood ==
  ASSUME CallsInv, NEW k \in Calls, call[k].pc # "idle"
  PROVE  Good(call[k], effects[k]) /\ effects[k] \in Nat
  BY DEF CallsInv, Idle

-----------------------------------------------------------------------------
(* The handler, up to the first request.                                   *)

LEMMA LoadingIsLocal ==
  ASSUME NEW c, IsLocal(c), NEW row, NEW d, d = [c EXCEPT !.row = row]
  PROVE  /\ IsLocal(d) /\ d.pc = c.pc /\ d.answer = c.answer /\ d.last = c.last
         /\ d.tenant = c.tenant /\ d.ask = c.ask /\ d.row = row /\ d.range = c.range
  BY DEF IsLocal

\* A call that asks for figures has a period with two sound bounds.
LEMMA PeriodFits ==
  ASSUME NEW ask, ask.op \in Measures, WellFormed(ask)
  PROVE  DatesFit(ask)
<1>1. ask.op # "publish_post"
  BY DEF Measures
<1> QED BY <1>1 DEF WellFormed

LEMMA AdmittedIsGood ==
  ASSUME NEW c, IsLocal(c), OwnRow(c.row, c.tenant), c.row # None, WellFormed(c.ask),
         c.ask.op \in Owned \/ Confirmed(c.ask)
  PROVE  Good(Admitted(c), 0)
<1> DEFINE d == Admitted(c)
<1>1. CASE c.ask.op \in Measures
  <2>1. d = [c EXCEPT !.pc = "send", !.todo = Kept(c.ask),
                      !.range = dateRange(Since(c.ask), c.ask.until)]
    BY <1>1 DEF Admitted
  <2>2. /\ IsLocal(d) /\ d.pc = "send" /\ d.tenant = c.tenant /\ d.ask = c.ask /\ d.row = c.row
        /\ d.range = dateRange(Since(c.ask), c.ask.until)
    BY <2>1 DEF IsLocal, Under
  <2>3. DatesFit(c.ask) /\ c.ask.op \notin Owned /\ c.ask.op # "list_posts"
    BY <1>1, PeriodFits DEF Measures, Owned
  <2> HIDE DEF d
  <2>4. RowRead(d) /\ Counted(d, 0) /\ Decided(d) /\ Reported(d) /\ Degraded(d) /\ Asked(d)
    BY <2>2, <2>3 DEF RowRead, Counted, Decided, Reported, Degraded, Asked, Under
  <2> QED BY <2>2, <2>4 DEF Good, d
<1>2. CASE c.ask.op \notin Measures
  <2>1. PICK pc \in {"ledger", "send"} :
          /\ d = [c EXCEPT !.pc = pc]
          /\ pc = "ledger" <=> LedgerFirst(c.ask, c.row)
    BY <1>2 DEF Admitted
  <2>2. /\ IsLocal(d) /\ d.pc = pc /\ d.last = c.last
        /\ d.tenant = c.tenant /\ d.ask = c.ask /\ d.row = c.row
    BY <2>1, TurningIsLocal DEF Under
  <2> HIDE DEF d
  <2>3. Degraded(d)
    BY <2>1, <2>2 DEF Degraded, MayNotList, LedgerFirst, Owned
  <2>4. RowRead(d) /\ Counted(d, 0) /\ Decided(d) /\ Reported(d) /\ Asked(d)
    BY <1>2, <2>1, <2>2 DEF RowRead, Counted, Decided, Reported, Asked, Under, LedgerFirst, Owned
  <2> QED BY <2>2, <2>3, <2>4 DEF Good, d
<1> QED BY <1>1, <1>2

\* The early returns, in the order of the code.
LEMMA CheckedIsGood ==
  ASSUME NEW c, Good(c, 0), c.pc = "read", NEW row,
         row # None => OwnRow(row, c.tenant)
  PROVE  Good(Checked(c, row), 0)
<1> DEFINE loaded == [c EXCEPT !.row = row]
<1>1. IsLocal(c) /\ RowRead(c)
  BY DEF Good
<1>2. /\ IsLocal(loaded) /\ loaded.pc = "read" /\ loaded.tenant = c.tenant
      /\ loaded.ask = c.ask /\ loaded.row = row
  BY <1>1, LoadingIsLocal
<1>3. row # None => RowRead(loaded)
  BY <1>2 DEF RowRead, Under
<1>4. CASE ~HandlerAccepts(c.ask)
  <2>1. Checked(c, row) = Failing(c, "input")
    BY <1>4 DEF Checked
  <2> QED BY <2>1, <1>1, NothingDoneYet, FailingIsGood
<1>5. CASE HandlerAccepts(c.ask) /\ row = None
  <2>1. Checked(c, row) = Failing(c, "absent")
    BY <1>5 DEF Checked
  <2> QED BY <2>1, <1>1, NothingDoneYet, FailingIsGood
<1>6. CASE HandlerAccepts(c.ask) /\ row # None
  <2>1. CASE ~(Needs(c.ask.op) \subseteq row.scopes)
    <3>1. Checked(c, row) = Failing(loaded, "scope")
      BY <1>6, <2>1 DEF Checked
    <3>2. c.ask.op # "list_posts"
      BY <2>1 DEF Needs, PostTools, Writes, Reads, Measures
    <3> QED BY <3>1, <3>2, <1>2, <1>3, <1>6, NothingDoneYet, FailingIsGood
  <2>2. CASE Needs(c.ask.op) \subseteq row.scopes /\ ~WellFormed(c.ask)
    <3>1. Checked(c, row) = Failing(loaded, "input")
      BY <1>6, <2>2 DEF Checked
    <3> QED BY <3>1, <1>2, <1>3, <1>6, NothingDoneYet, FailingIsGood
  <2>3. CASE /\ Needs(c.ask.op) \subseteq row.scopes /\ WellFormed(c.ask)
             /\ c.ask.op \notin Owned /\ ~Confirmed(c.ask)
    <3>1. Checked(c, row) = Ending(loaded, [kind |-> "preview"])
      BY <1>6, <2>3 DEF Checked
    <3> HIDE DEF loaded
    <3>2. Good(Ending(loaded, [kind |-> "preview"]), 0)
      BY <1>2, <1>3, <1>6, EndingIsGood
    <3> QED BY <3>1, <3>2
  <2>4. CASE /\ Needs(c.ask.op) \subseteq row.scopes /\ WellFormed(c.ask)
             /\ ~(c.ask.op \notin Owned /\ ~Confirmed(c.ask))
    <3>1. Checked(c, row) = Admitted(loaded)
      BY <1>6, <2>4 DEF Checked
    <3>2. Good(Admitted(loaded), 0)
      BY <1>2, <1>6, <2>4, AdmittedIsGood
    <3> QED BY <3>1, <3>2
  <2> QED BY <2>1, <2>2, <2>3, <2>4
<1> QED BY <1>4, <1>5, <1>6

LEMMA UseCaseStep ==
  ASSUME RowsInv, CallsInv, NEW k \in Calls, NEW ops, UseCase(k, ops)
  PROVE  CallsInv'
<1>1. call[k].pc = "read" /\ UNCHANGED effects
  BY DEF UseCase
<1>2. Good(call[k], effects[k]) /\ effects[k] = 0
  BY <1>1, CallIsGood DEF Good, Counted, Under
<1>3. IsLocal(call[k]) /\ RowRead(call[k]) /\ call[k].tenant \in Tenants
  BY <1>2 DEF Good, IsLocal
<1>4. CASE Become(k, Checked(call[k], rows[call[k].tenant]))
  <2>1. rows[call[k].tenant] # None => OwnRow(rows[call[k].tenant], call[k].tenant)
    BY <1>3 DEF RowsInv
  <2>2. Good(Checked(call[k], rows[call[k].tenant]), 0)
    BY <1>1, <1>2, <2>1, CheckedIsGood
  <2> QED BY <1>1, <1>2, <1>4, <2>2, OneCallMovesUnseen
<1>5. CASE Become(k, Failing(call[k], "other"))
  <2>1. Good(Failing(call[k], "other"), 0)
    BY <1>3, NothingDoneYet, FailingIsGood
  <2> QED BY <1>1, <1>2, <1>5, <2>1, OneCallMovesUnseen
<1> QED BY <1>4, <1>5 DEF UseCase

LEMMA ReconnectURLStep ==
  ASSUME CallsInv, NEW k \in Calls, ReconnectURL(k)
  PROVE  CallsInv'
<1>1. call[k].pc = "read" /\ UNCHANGED effects
  BY DEF ReconnectURL
<1>2. IsLocal(call[k]) /\ RowRead(call[k]) /\ effects[k] = 0
  BY <1>1, CallIsGood DEF Good, Counted, Under
<1>3. Good(Failing(call[k], "other"), 0)
  BY <1>2, NothingDoneYet, FailingIsGood
<1>4. Good(Ending(call[k], [kind |-> "read"]), 0)
  BY <1>2, EndingIsGood
<1> QED BY <1>1, <1>2, <1>3, <1>4, OneCallMovesUnseen DEF ReconnectURL

LEMMA BeginStep ==
  ASSUME CallsInv, NEW k \in Calls, NEW t \in Tenants, NEW ask \in Asks, Begin(k, t, ask)
  PROVE  CallsInv'
<1> DEFINE d == [pc |-> "read", tenant |-> t, ask |-> ask, row |-> None, todo |-> {},
                 got |-> {}, rejected |-> {}, range |-> <<>>, posts |-> <<>>,
                 table |-> {}, last |-> 200, answer |-> None]
<1>1. call[k] = Idle /\ Become(k, d) /\ UNCHANGED effects
  BY DEF Begin
<1>2. effects[k] = 0
  BY <1>1 DEF CallsInv
<1>3. IsLocal(d) /\ d.pc = "read" /\ d.row = None
  BY DEF IsLocal, Under
<1> HIDE DEF d
<1>4. Good(d, 0)
  BY <1>3 DEF Good, RowRead, Counted, Decided, Reported, Degraded, Asked, Under
<1> QED BY <1>1, <1>2, <1>4, OneCallMovesUnseen

-----------------------------------------------------------------------------
(* The ledger.                                                             *)

LEMMA OwnedPostStep ==
  ASSUME CallsInv, NEW k \in Calls, OwnedPost(k)
  PROVE  CallsInv'
<1>1. call[k].pc = "ledger" /\ call[k].ask.op \in Owned /\ UNCHANGED effects
  BY DEF OwnedPost
<1>2. IsLocal(call[k]) /\ RowRead(call[k]) /\ effects[k] = 0 /\ call[k].ask.op # "list_posts"
  BY <1>1, CallIsGood DEF Good, Counted, Under, Owned
<1>3. Good(Failing(call[k], "other"), 0) /\ Good(Failing(call[k], "unknown"), 0)
  BY <1>2, NothingDoneYet, FailingIsGood
<1>4. Good(Ending(call[k], [kind |-> "preview"]), 0)
  BY <1>2, EndingIsGood
<1>5. call[k].ask.op # "edit_post" => Good(Ending(call[k], [kind |-> "done"]), 0)
  <2>1. call[k].ask.op # "edit_post" => call[k].ask.op = "delete_post"
    BY <1>1 DEF Owned
  <2> QED BY <1>2, <2>1, EndingIsGood
<1>6. Confirmed(call[k].ask) => Good([call[k] EXCEPT !.pc = "send"], 0)
  <2> SUFFICES ASSUME Confirmed(call[k].ask), NEW d, d = [call[k] EXCEPT !.pc = "send"]
               PROVE  Good(d, 0)
    OBVIOUS
  <2>1. /\ IsLocal(d) /\ d.pc = "send" /\ d.tenant = call[k].tenant
        /\ d.ask = call[k].ask /\ d.row = call[k].row
    BY <1>2, TurningIsLocal DEF Under
  <2>2. RowRead(d)
    BY <1>1, <1>2, <2>1 DEF RowRead, Under
  <2>3. d.ask.op \notin Measures
    BY <1>1, <2>1 DEF Owned, Measures
  <2> QED BY <1>2, <2>1, <2>2, <2>3 DEF Good, Counted, Decided, Reported, Degraded, Asked, Under
<1>7. ASSUME NEW row PROVE Good(LookedUp(call[k], row), 0)
  BY <1>3, <1>4, <1>5, <1>6 DEF LookedUp
<1> QED BY <1>1, <1>2, <1>3, <1>7, OneCallMovesUnseen DEF OwnedPost

\* The list of the ledger, when the permissions leave no other.
LEMMA ListedIsGood ==
  ASSUME NEW c, IsLocal(c), RowRead(c), MayNotList(c), NEW table, NEW list
  PROVE  Good(Listed(c, table, list), 0)
<1>1. PICK d : d = Listed(c, table, list)
  OBVIOUS
<1>2. PICK a : a = [kind |-> "listed", source |-> "ledger", posts |-> list]
  OBVIOUS
<1>3. d = [Ending(c, a) EXCEPT !.posts = list, !.table = table]
  BY <1>1, <1>2 DEF Listed
<1>4. d = [pc |-> "done", tenant |-> c.tenant, ask |-> c.ask, row |-> c.row,
           todo |-> c.todo, got |-> c.got, rejected |-> c.rejected, range |-> c.range,
           posts |-> list, table |-> table, last |-> c.last, answer |-> a]
  BY <1>3 DEF Ending, IsLocal
<1>5. /\ IsLocal(d) /\ d.pc = "done" /\ d.answer = a
      /\ d.tenant = c.tenant /\ d.ask = c.ask /\ d.row = c.row /\ d.last = c.last
  BY <1>4 DEF IsLocal
<1>6. d.answer.kind = "listed"
  BY <1>2, <1>5
<1>7. RowRead(d)
  BY <1>5 DEF RowRead, Under
<1>8. Counted(d, 0) /\ Decided(d) /\ Reported(d) /\ Degraded(d) /\ Asked(d)
  BY <1>5, <1>6 DEF Counted, Decided, Reported, Degraded, Asked, Under, MayNotList
<1> QED BY <1>1, <1>5, <1>7, <1>8 DEF Good

LEMMA ReadLedgerStep ==
  ASSUME CallsInv, NEW k \in Calls, ReadLedger(k)
  PROVE  CallsInv'
<1>1. call[k].pc = "ledger" /\ UNCHANGED effects
  BY DEF ReadLedger
<1>2. IsLocal(call[k]) /\ RowRead(call[k]) /\ effects[k] = 0 /\ Degraded(call[k])
  BY <1>1, CallIsGood DEF Good, Counted, Under
<1>3. ASSUME call[k].ask.op = "list_posts", NEW table, NEW posts
      PROVE  Good(Listed(call[k], table, posts), 0)
  <2>1. MayNotList(call[k])
    BY <1>1, <1>2, <1>3 DEF Degraded
  <2> QED BY <1>2, <2>1, ListedIsGood
<1>4. ASSUME call[k].ask.op = "connection_status", NEW table, NEW posts, NEW d,
             d = [call[k] EXCEPT !.pc = "send", !.table = table, !.posts = posts]
      PROVE  Good(d, 0)
  <2>1. /\ IsLocal(d) /\ d.pc = "send" /\ d.tenant = call[k].tenant
        /\ d.ask = call[k].ask /\ d.row = call[k].row
    BY <1>2, <1>4 DEF IsLocal, Under
  <2>2. Confirmed(d.ask) /\ d.ask.op \notin Measures
    <3>1. call[k].ask \in Asks /\ call[k].ask.op \notin PostTools \cup Writes \cup Measures
      BY <1>2, <1>4 DEF IsLocal, PostTools, Writes, Measures
    <3> QED BY <2>1, <3>1, AskShapes DEF Confirmed
  <2>3. RowRead(d)
    BY <1>1, <1>2, <2>1 DEF RowRead, Under
  <2> QED BY <1>4, <2>1, <2>2, <2>3 DEF Good, Counted, Decided, Reported, Degraded, Asked, Under
<1>5. Good(Failing(call[k], "other"), 0)
  BY <1>2, NothingDoneYet, FailingIsGood
<1> QED BY <1>1, <1>2, <1>3, <1>4, <1>5, OneCallMovesUnseen DEF ReadLedger

LEMMA WriteLedgerStep ==
  ASSUME CallsInv, NEW k \in Calls, WriteLedger(k)
  PROVE  CallsInv'
<1>1. call[k].pc = "record" /\ UNCHANGED effects
  BY DEF WriteLedger
<1>2. IsLocal(call[k]) /\ RowRead(call[k]) /\ effects[k] = 1
  BY <1>1, CallIsGood DEF Good, Counted, Under
<1>3. Good(AfterWriteFails(call[k]), 1)
  BY <1>2, FailingIsGood DEF AfterWriteFails, Told
<1>4. Good(Ending(call[k], [kind |-> "done"]), 1)
  BY <1>2, EndingIsGood
<1> QED BY <1>1, <1>2, <1>3, <1>4, OneCallMovesUnseen DEF WriteLedger

-----------------------------------------------------------------------------
(* LinkedIn's answers.                                                     *)

\* A request goes out for a call that has a row and was confirmed, and for
\* which nothing has been done so far.
LEMMA WhileSending ==
  ASSUME CallsInv, NEW k \in Calls, NEW ops, Sending(k, ops)
  PROVE  /\ call[k].pc \in {"send", "resend"} /\ call[k].ask.op \in ops
         /\ effects[k] = 0 /\ IsLocal(call[k]) /\ RowRead(call[k])
         /\ Confirmed(call[k].ask) /\ Asked(call[k])
         /\ call[k].row # None /\ OwnRow(call[k].row, call[k].tenant)
<1>1. call[k].pc \in {"send", "resend"} /\ call[k].ask.op \in ops
  BY DEF Sending
<1>2. Good(call[k], effects[k])
  BY <1>1, CallIsGood
<1> QED BY <1>1, <1>2 DEF Good, Counted, Decided, RowRead, Under

\* Noting a status moves nothing else, and does not matter to an ending.
LEMMA Noted ==
  ASSUME NEW c, IsLocal(c), RowRead(c), NEW s, NEW a, NEW d, d = [c EXCEPT !.last = s]
  PROVE  /\ IsLocal(d) /\ RowRead(d) /\ d.ask = c.ask /\ d.pc = c.pc /\ d.last = s
         /\ d.range = c.range /\ d.row = c.row /\ d.tenant = c.tenant
         /\ [Ending(c, a) EXCEPT !.last = s] = Ending(d, a)
<1>1. /\ IsLocal(d) /\ d.ask = c.ask /\ d.pc = c.pc /\ d.last = s
      /\ d.range = c.range /\ d.row = c.row /\ d.tenant = c.tenant
  BY DEF IsLocal
<1>2. [Ending(c, a) EXCEPT !.last = s] = Ending(d, a)
  BY DEF Ending, IsLocal
<1> QED BY <1>1, <1>2 DEF RowRead

LEMMA NotedFailing ==
  ASSUME NEW c, NEW e \in {0, 1}, IsLocal(c), RowRead(c), NEW s, NEW m,
         Told(m, e, s),
         c.ask.op = "list_posts" => m \notin {"scope", "refused"}
  PROVE  Good([Failing(c, m) EXCEPT !.last = s], e)
<1>1. PICK d : d = [c EXCEPT !.last = s]
  OBVIOUS
<1>2. PICK a : a = [kind |-> "error", message |-> m]
  OBVIOUS
<1>3. [Ending(c, a) EXCEPT !.last = s] = Ending(d, a)
  BY <1>1 DEF Ending, IsLocal
<1>4. IsLocal(d) /\ RowRead(d) /\ d.ask = c.ask /\ d.last = s
  BY <1>1, HearingIsLocal DEF RowRead
<1>5. [Failing(c, m) EXCEPT !.last = s] = Failing(d, m)
  BY <1>2, <1>3 DEF Failing
<1> QED BY <1>4, <1>5, FailingIsGood

\* What was asked for is done, once, whether or not the answer arrives.
LEMMA CarriesOutStep ==
  ASSUME CallsInv, NEW k \in Calls, NEW op \in PostTools \cup Writes, NEW marksThen,
         NEW heard \in BOOLEAN, CarriesOut(k, op, marksThen, heard)
  PROVE  CallsInv'
<1>1. Sending(k, {op})
  BY DEF CarriesOut
<1>2. /\ call[k].pc \in {"send", "resend"} /\ call[k].ask.op = op
      /\ effects[k] = 0 /\ IsLocal(call[k]) /\ RowRead(call[k]) /\ call[k].row # None
      /\ OwnRow(call[k].row, call[k].tenant)
  BY <1>1, WhileSending
<1>3. effects' = [effects EXCEPT ![k] = 1]
  BY <1>2 DEF CarriesOut, CallsInv
<1>4. op \notin Measures \cup {"list_posts"}
  BY DEF PostTools, Writes, Measures
<1>5. Good(AfterLoss(call[k]), 1)
  BY <1>2, <1>4, NotedFailing DEF AfterLoss, Told
<1>6. Good(AfterAnswer(call[k]), 1)
  <2>1. CASE op \in PostTools
    <3> SUFFICES ASSUME NEW d, d = [call[k] EXCEPT !.pc = "record"] PROVE Good(d, 1)
      BY <1>2, <2>1 DEF AfterAnswer
    <3>1. /\ IsLocal(d) /\ d.pc = "record" /\ d.tenant = call[k].tenant
          /\ d.ask = call[k].ask /\ d.row = call[k].row
      BY <1>2, TurningIsLocal DEF Under
    <3> QED BY <1>2, <1>4, <3>1
        DEF Good, RowRead, Counted, Decided, Reported, Degraded, Asked, Under
  <2>2. CASE op \notin PostTools
    <3>1. AfterAnswer(call[k]) = Ending(call[k], [kind |-> "done"])
      BY <1>2, <2>2 DEF AfterAnswer
    <3> QED BY <1>2, <3>1, EndingIsGood
  <2> QED BY <2>1, <2>2
<1>7. \A d : d = AfterLoss(call[k]) \/ d = AfterAnswer(call[k]) => d # Idle /\ Good(d, 1)
  BY <1>5, <1>6 DEF Good, IsLocal, Idle, Under
<1>8. PICK d : Become(k, d) /\ (d = AfterLoss(call[k]) \/ d = AfterAnswer(call[k]))
  BY DEF CarriesOut
<1> QED BY <1>3, <1>7, <1>8, OneCallMoves

LEMMA ReportsStep ==
  ASSUME CallsInv, NEW k \in Calls, NEW op, NEW a, Reports(k, op, a),
         a.kind \in {"read", "listed"}, a.kind = "listed" => a.source # "ledger"
  PROVE  CallsInv'
<1>1. Sending(k, {op}) /\ UNCHANGED effects
  BY DEF Reports
<1> PICK c : c = call[k]
  OBVIOUS
<1>2. effects[k] = 0 /\ IsLocal(c) /\ RowRead(c)
  BY <1>1, WhileSending
<1>3. PICK d : d = [c EXCEPT !.last = 200]
  OBVIOUS
<1>4. IsLocal(d) /\ RowRead(d) /\ [Ending(c, a) EXCEPT !.last = 200] = Ending(d, a)
  BY <1>2, <1>3, Noted
<1>5. Good(Ending(d, a), 0)
  BY <1>4, EndingIsGood
<1> QED BY <1>1, <1>2, <1>4, <1>5, OneCallMovesUnseen DEF Reports

\* From one metric to the next, or to the answer.
LEMMA NextMetricIsGood ==
  ASSUME NEW c, IsLocal(c), RowRead(c), c.pc \in {"send", "resend"},
         c.ask.op \in Measures, Asked(c)
  PROVE  Good(NextMetric(c), 0)
<1>1. PICK left : left = c.todo \ {Current(c)}
  OBVIOUS
<1>2. /\ Confirmed(c.ask) /\ c.ask.op # "list_posts" /\ c.row # None
      /\ DatesFit(c.ask) /\ c.range = dateRange(Since(c.ask), c.ask.until)
  <2>1. c.ask.op \notin PostTools \cup Writes /\ c.ask.op # "list_posts" /\ c.ask \in Asks
    BY DEF PostTools, Writes, Measures, IsLocal
  <2> QED BY <2>1, AskShapes DEF Confirmed, RowRead, Asked, Under
<1>3. CASE left # {}
  <2> SUFFICES ASSUME NEW d, d = [c EXCEPT !.pc = "send", !.todo = left] PROVE Good(d, 0)
    BY <1>1, <1>3 DEF NextMetric
  <2>1. /\ IsLocal(d) /\ d.pc = "send" /\ d.tenant = c.tenant
        /\ d.ask = c.ask /\ d.row = c.row /\ d.range = c.range
    BY DEF IsLocal, Under
  <2> QED BY <1>2, <2>1 DEF Good, RowRead, Counted, Decided, Reported, Degraded, Asked, Under
<1>4. CASE left = {}
  <2>1. PICK d : d = [c EXCEPT !.todo = left]
    OBVIOUS
  <2>2. PICK a : a = [kind |-> "measured", dropped |-> Dropped(c.ask)]
    OBVIOUS
  <2>3. IsLocal(d) /\ d.tenant = c.tenant /\ d.ask = c.ask /\ d.row = c.row /\ d.pc = c.pc
    BY <2>1 DEF IsLocal
  <2>4. RowRead(d)
    BY <2>3 DEF RowRead
  <2>5. NextMetric(c) = Ending(d, a)
    BY <1>1, <1>4, <2>1, <2>2 DEF NextMetric
  <2>6. a.kind = "measured"
    BY <2>2
  <2> QED BY <2>3, <2>4, <2>5, <2>6, EndingIsGood
<1> QED BY <1>3, <1>4

LEMMA OneMetricStep ==
  ASSUME CallsInv, NEW k \in Calls, OneMetric(k)
  PROVE  CallsInv'
<1>1. Sending(k, Measures) /\ UNCHANGED effects
  BY DEF OneMetric
<1>2. /\ call[k].pc \in {"send", "resend"} /\ call[k].ask.op \in Measures
      /\ effects[k] = 0 /\ IsLocal(call[k]) /\ RowRead(call[k]) /\ Asked(call[k])
  BY <1>1, WhileSending
<1>3. PICK got : got = call[k].got \cup {Current(call[k])}
  OBVIOUS
<1>4. PICK d : d = [call[k] EXCEPT !.got = got, !.last = 200]
  OBVIOUS
<1>5. /\ IsLocal(d) /\ d.pc = call[k].pc /\ d.tenant = call[k].tenant
      /\ d.ask = call[k].ask /\ d.row = call[k].row /\ d.range = call[k].range
  BY <1>2, <1>4 DEF IsLocal
<1>6. RowRead(d) /\ Asked(d)
  BY <1>2, <1>5 DEF RowRead, Asked
<1>7. Measured(call[k]) = NextMetric(d)
  BY <1>3, <1>4 DEF Measured
<1>8. Good(NextMetric(d), 0)
  BY <1>2, <1>5, <1>6, NextMetricIsGood
<1> QED BY <1>1, <1>2, <1>7, <1>8, OneCallMovesUnseen DEF OneMetric

LEMMA RefusalStep ==
  ASSUME CallsInv, NEW k \in Calls, NEW status \in Refusals, LinkedInRefuses(k, status)
  PROVE  CallsInv'
<1> PICK c : c = call[k]
  OBVIOUS
<1> PICK local : local = [c EXCEPT !.last = status]
  OBVIOUS
<1>1. /\ Sending(k, PostTools \cup Writes \cup Reads \cup Measures \cup {"list_posts"})
      /\ UNCHANGED effects
  BY DEF LinkedInRefuses
<1>2. /\ c.pc \in {"send", "resend"} /\ effects[k] = 0 /\ IsLocal(c) /\ RowRead(c)
      /\ Asked(c) /\ c.row # None
  BY <1>1, WhileSending
<1>3. /\ IsLocal(local) /\ RowRead(local) /\ local.ask = c.ask /\ local.pc = c.pc
      /\ local.last = status /\ local.range = c.range /\ local.row = c.row
      /\ local.tenant = c.tenant
  BY <1>2, Noted
<1>4. Good(Ending(local, [kind |-> "read"]), 0)
  BY <1>3, EndingIsGood
<1>5. ASSUME c.ask.op = "list_posts", IsAuth(status), NEW d, d = [local EXCEPT !.pc = "ledger"]
      PROVE  Good(d, 0)
  <2>1. /\ IsLocal(d) /\ d.pc = "ledger" /\ d.ask = c.ask /\ d.row = c.row
        /\ d.last = status /\ d.tenant = c.tenant
    BY <1>3, <1>5 DEF IsLocal, Under
  <2> QED BY <1>2, <1>5, <2>1
      DEF Good, RowRead, Counted, Decided, Reported, Degraded, Asked, MayNotList, IsAuth,
          Under, Measures
<1>6. ASSUME c.ask.op \in Measures PROVE Good(Rejected(local), 0)
  <2>1. PICK rejected : rejected = local.rejected \cup {Current(local)}
    OBVIOUS
  <2>2. PICK d : d = [local EXCEPT !.rejected = rejected]
    OBVIOUS
  <2>3. /\ IsLocal(d) /\ d.pc = c.pc /\ d.tenant = c.tenant
        /\ d.ask = c.ask /\ d.row = c.row /\ d.range = c.range
    BY <1>3, <2>2 DEF IsLocal
  <2>4. RowRead(d) /\ Asked(d)
    BY <1>2, <2>3 DEF RowRead, Asked
  <2>5. Rejected(local) = NextMetric(d)
    BY <2>1, <2>2 DEF Rejected
  <2> QED BY <1>2, <1>6, <2>3, <2>4, <2>5, NextMetricIsGood
<1>7. ASSUME ~(c.ask.op = "list_posts" /\ IsAuth(status))
      PROVE  Good(Failing(local, UserMessage(status)), 0)
  <2>1. c.ask.op = "list_posts" => UserMessage(status) \notin {"scope", "refused"}
    BY <1>7 DEF IsAuth, UserMessage, Refusals
  <2>2. UserMessage(status) # "unrecorded"
    BY DEF UserMessage, Refusals
  <2>3. PICK m : m = UserMessage(status)
    OBVIOUS
  <2> QED BY <1>3, <2>1, <2>2, <2>3, NothingDoneYet, FailingIsGood
<1> QED BY <1>1, <1>2, <1>4, <1>5, <1>6, <1>7, OneCallMovesUnseen DEF LinkedInRefuses

LEMMA ThrottleStep ==
  ASSUME CallsInv, NEW k \in Calls, LinkedInThrottles(k)
  PROVE  CallsInv'
<1> PICK c : c = call[k]
  OBVIOUS
<1>1. /\ Sending(k, PostTools \cup Writes \cup Reads \cup Measures \cup {"list_posts"})
      /\ UNCHANGED effects
  BY DEF LinkedInThrottles
<1>2. /\ c.pc \in {"send", "resend"} /\ effects[k] = 0 /\ IsLocal(c) /\ RowRead(c)
      /\ Asked(c) /\ c.row # None /\ Confirmed(c.ask)
  BY <1>1, WhileSending
<1>3. ASSUME c.pc = "send" PROVE Good(AfterThrottle(c), 0)
  <2>1. PICK s : s = [c EXCEPT !.pc = "resend"]
    OBVIOUS
  <2>2. PICK d : d = [s EXCEPT !.last = 429]
    OBVIOUS
  <2>3. /\ IsLocal(s) /\ RowRead(s) /\ s.pc = "resend" /\ s.tenant = c.tenant
        /\ s.ask = c.ask /\ s.row = c.row /\ s.range = c.range
    <3>1. /\ IsLocal(s) /\ s.pc = "resend" /\ s.tenant = c.tenant
          /\ s.ask = c.ask /\ s.row = c.row /\ s.range = c.range
      BY <1>2, <2>1, TurningIsLocal DEF Under
    <3> QED BY <1>2, <3>1 DEF RowRead, Under
  <2>4. /\ IsLocal(d) /\ RowRead(d) /\ d.pc = "resend"
        /\ d.ask = c.ask /\ d.row = c.row /\ d.range = c.range
    BY <2>2, <2>3, Noted
  <2>5. AfterThrottle(c) = d
    BY <1>3, <2>1, <2>2 DEF AfterThrottle
  <2> QED BY <1>2, <2>4, <2>5 DEF Good, Counted, Decided, Reported, Degraded, Asked, Under
<1>4. ASSUME c.pc = "resend" PROVE Good(AfterThrottle(c), 0)
  <2>1. PICK m : m = UserMessage(429)
    OBVIOUS
  <2>2. m # "unrecorded" /\ m \notin {"scope", "refused"}
    BY <2>1 DEF UserMessage
  <2>3. AfterThrottle(c) = [Failing(c, m) EXCEPT !.last = 429]
    BY <1>4, <2>1 DEF AfterThrottle
  <2>4. IsLocal(c) /\ RowRead(c) /\ Told(m, 0, 429)
    BY <1>2, <2>2, NothingDoneYet
  <2> QED BY <2>2, <2>3, <2>4, NotedFailing
<1> QED BY <1>1, <1>2, <1>3, <1>4, OneCallMovesUnseen DEF LinkedInThrottles

\* connection_status reports the permissions of the row it read, when that row
\* has any: LinkedIn's own list of the token's permissions is the same one.
LEMMA StatusIsGood ==
  ASSUME NEW c, IsLocal(c), RowRead(c), c.row # None, c.ask.op = "connection_status",
         NEW active \in BOOLEAN, NEW answered, answered \in {{}, c.row.token.scopes}
  PROVE  Good(Ending(c, StatusOf(c, active, answered)), 0)
<1>1. PICK a : a = StatusOf(c, active, answered)
  OBVIOUS
<1>2. PICK d : d = Ending(c, a)
  OBVIOUS
<1>3. PICK granted : granted = GrantedScopes(c.row, answered)
  OBVIOUS
<1>4. /\ a.kind = "status" /\ a.granted = granted
      /\ a.healthy = (active /\ MissingScopes(granted) = {})
  BY <1>1, <1>3 DEF StatusOf
<1>5. c.row.scopes # {} => granted = c.row.scopes
  BY <1>3 DEF GrantedScopes, RowRead, OwnRow
<1>6. a.healthy => MissingScopes(granted) = {}
  BY <1>4
<1>7. c.row.scopes # {} /\ a.healthy => Requested \subseteq c.row.scopes
  BY <1>5, <1>6 DEF MissingScopes
<1>8. /\ IsLocal(d) /\ d.pc = "done" /\ d.answer = a
      /\ d.tenant = c.tenant /\ d.ask = c.ask /\ d.row = c.row
  BY <1>2, EndingIsLocal
<1>9. RowRead(d)
  BY <1>8 DEF RowRead, Under
<1>10. Reported(d)
  BY <1>4, <1>5, <1>7, <1>8 DEF Reported
<1>11. Counted(d, 0) /\ Decided(d) /\ Degraded(d) /\ Asked(d)
  BY <1>4, <1>8 DEF Counted, Decided, Degraded, Asked, Under
<1> QED BY <1>1, <1>2, <1>8, <1>9, <1>10, <1>11 DEF Good

LEMMA IntrospectStep ==
  ASSUME CallsInv, NEW k \in Calls, IntrospectToken(k) \/ IntrospectFails(k)
  PROVE  CallsInv'
<1>1. Sending(k, {"connection_status"}) /\ UNCHANGED effects
  BY DEF IntrospectToken, IntrospectFails
<1>2. /\ call[k].ask.op = "connection_status" /\ call[k].row # None
      /\ effects[k] = 0 /\ IsLocal(call[k]) /\ RowRead(call[k])
  BY <1>1, WhileSending
<1>3. \A active \in BOOLEAN : \A answered \in {{}, call[k].row.token.scopes} :
        Good(Ending(call[k], StatusOf(call[k], active, answered)), 0)
  BY <1>2, StatusIsGood
<1>4. CASE IntrospectToken(k)
  BY <1>1, <1>2, <1>3, <1>4, OneCallMovesUnseen DEF IntrospectToken
<1>5. CASE IntrospectFails(k)
  BY <1>1, <1>2, <1>3, <1>5, OneCallMovesUnseen DEF IntrospectFails
<1> QED BY <1>4, <1>5

LEMMA LeaveStep ==
  ASSUME CallsInv, NEW k \in Calls, Return(k) \/ Abort(k)
  PROVE  CallsInv'
  BY OneCallMoves DEF Return, Abort

LEMMA SignsInAgainStep ==
  ASSUME RowsInv, CallsInv, NEW t \in Tenants, NEW S \in Grants, NEW told \in BOOLEAN,
         SignsInAgain(t, S, told)
  PROVE  RowsInv' /\ CallsInv'
<1> DEFINE serial == rows[t].token.serial + 1
           token == [member |-> t, scopes |-> S, serial |-> serial]
           row == [member |-> t, token |-> token, scopes |-> IF told THEN S ELSE {}]
<1>1. /\ rows[t] \in Row /\ serial <= MaxSignIns /\ rows' = [rows EXCEPT ![t] = row]
      /\ UNCHANGED <<call, effects>>
  BY DEF SignsInAgain, RowsInv
<1>2. token \in Token
  <2>1. PICK earlier \in 0 .. MaxSignIns : earlier = rows[t].token.serial
    BY <1>1 DEF Row, Token
  <2>2. MaxSignIns \in Nat
    BY ToolCallsAssumption
  <2>3. serial = earlier + 1 /\ serial <= MaxSignIns
    BY <1>1, <2>1
  <2> HIDE DEF serial
  <2>4. serial \in 0 .. MaxSignIns
    BY <2>2, <2>3
  <2> QED BY <2>4 DEF Token
<1>3. OwnRow(row, t)
  <2>1. S \in SUBSET Scopes
    BY ToolCallsAssumption
  <2> QED BY <1>2, <2>1 DEF OwnRow, Row
<1> HIDE DEF row
<1>4. RowsInv'
  BY <1>1, <1>3 DEF RowsInv, OwnRow
<1>5. CallsInv'
  BY <1>1 DEF CallsInv
<1> QED BY <1>4, <1>5

-----------------------------------------------------------------------------
(* The invariant.                                                          *)

CallInv == RowsInv /\ CallsInv

LEMMA InvInit == Init => CallInv
<1> SUFFICES ASSUME Init PROVE CallInv
  OBVIOUS
<1>1. CallsInv
  BY DEF Init, CallsInv
<1>2. PICK S \in [Tenants -> Grants \cup {None}] :
        rows = [t \in Tenants |->
                  IF S[t] = None THEN None
                  ELSE [member |-> t, token |-> FirstToken(t, S[t]), scopes |-> S[t]]]
  BY DEF Init
<1>3. ASSUME NEW t \in Tenants
      PROVE  rows[t] = None \/ OwnRow(rows[t], t)
  <2>1. CASE S[t] # None
    <3>1. S[t] \in Grants /\ S[t] \in SUBSET Scopes
      BY <2>1, ToolCallsAssumption
    <3>2. FirstToken(t, S[t]) \in Token
      BY <3>1, ToolCallsAssumption DEF FirstToken, Token
    <3> QED BY <1>2, <2>1, <3>1, <3>2 DEF OwnRow, Row, FirstToken
  <2>2. CASE S[t] = None
    BY <1>2, <2>2
  <2> QED BY <2>1, <2>2
<1>4. rows = [t \in Tenants |-> rows[t]]
  BY <1>2
<1>5. RowsInv
  BY <1>3, <1>4 DEF RowsInv, OwnRow
<1> QED BY <1>1, <1>5 DEF CallInv

\* What LinkedIn carries out, as one of the tools that write.
LEMMA Carried ==
  ASSUME NEW k \in Calls, NEW heard \in BOOLEAN,
         \/ LinkedInCreates(k, heard) \/ LinkedInEdits(k, heard) \/ LinkedInDeletes(k, heard)
         \/ LinkedInComments(k, heard) \/ LinkedInUncomments(k, heard)
         \/ LinkedInLikes(k, heard) \/ LinkedInUnlikes(k, heard)
  PROVE  \E op \in PostTools \cup Writes :
           \E after \in {marks, marks \cup {Own(k)}, marks \ {Own(k)}} :
             CarriesOut(k, op, after, heard)
  BY DEF LinkedInCreates, LinkedInEdits, LinkedInDeletes, LinkedInComments,
         LinkedInUncomments, LinkedInLikes, LinkedInUnlikes, PostTools, Writes

LEMMA InvStep == CallInv /\ [Next]_vars => CallInv'
<1> SUFFICES ASSUME RowsInv, CallsInv, [Next]_vars PROVE RowsInv' /\ CallsInv'
  BY DEF CallInv
<1>1. ASSUME NEW k \in Calls, NEW t \in Tenants, NEW ask \in Asks, Begin(k, t, ask)
      PROVE  RowsInv' /\ CallsInv'
  BY <1>1, BeginStep DEF Begin, RowsInv
<1>2. ASSUME NEW k \in Calls, Runs(k) PROVE RowsInv' /\ CallsInv'
  <2>1. UNCHANGED rows
    BY <1>2 DEF Runs, PublishPost, EditPost, DeletePost, ReconnectURL, OwnedPost, WriteLedger,
                PublishComment, DeleteComment, React, PostEngagement, PostComments, ListPosts,
                Analytics, ConnectionStatus, ReadLedger, UseCase
  <2>2. ASSUME NEW ops, UseCase(k, ops) PROVE CallsInv'
    BY <2>2, UseCaseStep
  <2>3. CallsInv'
    BY <1>2, <2>2, ReconnectURLStep, OwnedPostStep, WriteLedgerStep, ReadLedgerStep
    DEF Runs, PublishPost, EditPost, DeletePost, PublishComment, DeleteComment, React,
        PostEngagement, PostComments, ListPosts, Analytics, ConnectionStatus
  <2> QED BY <2>1, <2>3 DEF RowsInv
<1>3. ASSUME NEW k \in Calls, LinkedInAnswers(k) PROVE RowsInv' /\ CallsInv'
  <2>1. ASSUME NEW heard \in BOOLEAN,
               \/ LinkedInCreates(k, heard) \/ LinkedInEdits(k, heard)
               \/ LinkedInDeletes(k, heard) \/ LinkedInComments(k, heard)
               \/ LinkedInUncomments(k, heard) \/ LinkedInLikes(k, heard)
               \/ LinkedInUnlikes(k, heard)
        PROVE  RowsInv' /\ CallsInv'
    <3>1. PICK op \in PostTools \cup Writes,
               after \in {marks, marks \cup {Own(k)}, marks \ {Own(k)}} :
                 CarriesOut(k, op, after, heard)
      BY <2>1, Carried
    <3> QED BY <3>1, CarriesOutStep DEF CarriesOut, RowsInv
  <2>2. CASE SocialCounts(k) \/ Comments(k) \/ FindPostsByAuthor(k)
    <3>1. UNCHANGED rows
      BY <2>2 DEF SocialCounts, Comments, FindPostsByAuthor, Reports
    <3> QED BY <2>2, <3>1, ReportsStep DEF SocialCounts, Comments, FindPostsByAuthor, RowsInv
  <2>3. CASE OneMetric(k)
    BY <2>3, OneMetricStep DEF OneMetric, RowsInv
  <2>4. CASE IntrospectToken(k) \/ IntrospectFails(k)
    BY <2>4, IntrospectStep DEF IntrospectToken, IntrospectFails, RowsInv
  <2>5. ASSUME NEW status \in Refusals, LinkedInRefuses(k, status)
        PROVE  RowsInv' /\ CallsInv'
    BY <2>5, RefusalStep DEF LinkedInRefuses, RowsInv
  <2>6. CASE LinkedInThrottles(k)
    BY <2>6, ThrottleStep DEF LinkedInThrottles, RowsInv
  <2> QED BY <1>3, <2>1, <2>2, <2>3, <2>4, <2>5, <2>6 DEF LinkedInAnswers
<1>4. ASSUME NEW k \in Calls, Return(k) \/ Abort(k) PROVE RowsInv' /\ CallsInv'
  BY <1>4, LeaveStep DEF Return, Abort, RowsInv
<1>5. ASSUME NEW t \in Tenants, NEW S \in Grants, NEW told \in BOOLEAN,
             SignsInAgain(t, S, told)
      PROVE  RowsInv' /\ CallsInv'
  BY <1>5, SignsInAgainStep
<1>6. CASE UNCHANGED vars
  BY <1>6 DEF vars, RowsInv, CallsInv
<1>7. ASSUME NEW k \in Calls, NEW t \in Tenants, ReadResource(k, t)
      PROVE  RowsInv' /\ CallsInv'
  BY <1>1, <1>7, ToolCallsAssumption DEF ReadResource
<1>8. ASSUME NEW k \in Calls, NEW t \in Tenants, NEW ask \in Asks,
             ReadTool(k, t, ask) \/ WriteTool(k, t, ask)
      PROVE  RowsInv' /\ CallsInv'
  BY <1>1, <1>8 DEF ReadTool, WriteTool
<1> QED BY <1>2, <1>3, <1>4, <1>5, <1>6, <1>7, <1>8 DEF Next

LEMMA Invariant == Spec => []CallInv
  BY InvInit, InvStep, PTL DEF Spec

-----------------------------------------------------------------------------
(* The theorems.                                                           *)

\* What the invariant says of any call that is not idle.
LEMMA GoodOnceUnderWay ==
  ASSUME CallInv, NEW k \in Calls, call[k].pc \in Under \cup {"done"}
  PROVE  Good(call[k], effects[k])
  BY DEF CallInv, CallsInv, Idle, Under

\* However often a call is throttled, and whether or not it hears an answer,
\* LinkedIn does for it at most one thing.
THEOREM OneEffect == Spec => []OneEffectPerCall
<1>1. CallInv => OneEffectPerCall
  <2> SUFFICES ASSUME CallInv, NEW k \in Calls PROVE effects[k] <= 1
    BY DEF OneEffectPerCall
  <2>1. CASE call[k] = Idle
    BY <2>1 DEF CallInv, CallsInv
  <2>2. CASE call[k] # Idle
    BY <2>2 DEF CallInv, CallsInv, Good, IsLocal, Counted
  <2> QED BY <2>1, <2>2
<1> QED BY <1>1, Invariant, PTL

\* A preview and a refusal that names its reason come from a call that changed
\* nothing at LinkedIn, "done" from one that did what was asked, and so does the
\* error that says the ledger has no trace of it; an error of another kind after
\* an effect is only left by a lost answer.
THEOREM TrueAnswers == Spec => []AnswersAreTrue
<1>1. CallInv => AnswersAreTrue
  <2> SUFFICES ASSUME CallInv, NEW k \in Calls, call[k].pc = "done"
               PROVE  /\ call[k].answer.kind = "preview" => effects[k] = 0
                      /\ call[k].answer.kind = "error" =>
                           Told(call[k].answer.message, effects[k], call[k].last)
                      /\ call[k].answer.kind = "done" /\ call[k].ask.op # "delete_post" =>
                           effects[k] = 1
    BY DEF AnswersAreTrue, Told
  <2> QED BY GoodOnceUnderWay DEF Good, Counted
<1> QED BY <1>1, Invariant, PTL

\* As long as its row is the one stored, connection_status reports the
\* permissions the tools go by, whatever else signed in meanwhile.
THEOREM StatusIsTheTools == Spec => []StatusMatchesTools
<1>1. CallInv => StatusMatchesTools
  <2> SUFFICES ASSUME CallInv, NEW k \in Calls, call[k].pc = "done",
                      call[k].answer.kind = "status", rows[call[k].tenant] = call[k].row,
                      rows[call[k].tenant].scopes # {}
               PROVE  /\ call[k].answer.granted = rows[call[k].tenant].scopes
                      /\ call[k].answer.healthy => Requested \subseteq rows[call[k].tenant].scopes
    BY DEF StatusMatchesTools
  <2> QED BY GoodOnceUnderWay DEF Good, Reported
<1> QED BY <1>1, Invariant, PTL

\* list_posts never fails for want of a permission, and never passes an outage
\* or a throttle off as the list of the ledger.
THEOREM ListFallsBack == Spec => []ListDegrades
<1>1. CallInv => ListDegrades
  <2> SUFFICES ASSUME CallInv, NEW k \in Calls, call[k].pc = "done",
                      call[k].ask.op = "list_posts"
               PROVE  /\ call[k].answer.kind = "error" =>
                           call[k].answer.message \notin {"scope", "refused"}
                      /\ call[k].answer.kind = "listed" /\ call[k].answer.source = "ledger" =>
                           MayNotList(call[k])
    BY DEF ListDegrades, MayNotList
  <2> QED BY GoodOnceUnderWay DEF Good, Degraded
<1> QED BY <1>1, Invariant, PTL

\* The bounds of a period reach LinkedIn as they were given, for any dates.
LEMMA PeriodKept ==
  ASSUME NEW ask \in Asks, ask.op \in Measures, DatesFit(ask),
         NEW range, range = dateRange(Since(ask), ask.until)
  PROVE  /\ ask.since # None => range # <<>> /\ Head(range) = ask.since
         /\ ask.until # None => range # <<>> /\ Last(range) = ask.until
         /\ Len(range) = 2 => range[1] < range[2]
<1>1. ask.since \in Day \cup {None} /\ ask.until \in Day \cup {None}
  BY AskShapes DEF DatesFit, Date
<1>2. LastDay \in Nat /\ None \notin Int /\ Day \subseteq Int
  BY ToolCallsAssumption DEF Day
<1>3. CASE ask.until = None
  <2>1. range = IF ask.since = None THEN <<>> ELSE <<ask.since>>
    BY <1>3 DEF Since, dateRange
  <2> QED BY <1>3, <2>1
<1>4. CASE ask.until # None
  <2>1. ask.until \in Day /\ ask.until \in Int
    BY <1>1, <1>2, <1>4
  <2>2. CASE ask.since = None
    <3>1. Since(ask) = ask.until - 28
      BY <1>4, <2>2 DEF Since, DefaultPeriod
    <3>2. Since(ask) \in Int /\ Since(ask) # None /\ Since(ask) < ask.until
      BY <1>2, <2>1, <3>1
    <3>3. range = <<Since(ask), ask.until>>
      BY <1>4, <3>2 DEF dateRange
    <3> QED BY <2>2, <3>2, <3>3 DEF Last
  <2>3. CASE ask.since # None
    <3>1. Since(ask) = ask.since /\ ask.since \in Int
      BY <1>1, <1>2, <2>3 DEF Since
    <3>2. ask.since < ask.until
      BY <1>4, <2>3 DEF DatesFit
    <3>3. range = <<ask.since, ask.until>>
      BY <1>4, <2>3, <3>1 DEF dateRange
    <3> QED BY <3>2, <3>3 DEF Last
  <2> QED BY <2>2, <2>3
<1> QED BY <1>3, <1>4

\* LinkedIn is asked for the period the client named, in every request of a
\* call, the repeated ones included.
THEOREM PeriodReachesLinkedIn == Spec => []PeriodAsAsked
<1>1. CallInv => PeriodAsAsked
  <2> SUFFICES ASSUME CallInv, NEW k \in Calls, call[k].pc \in {"send", "resend"},
                      call[k].ask.op \in Measures, NEW ask, ask = call[k].ask,
                      NEW range, range = call[k].range
               PROVE  /\ ask.since # None => range # <<>> /\ Head(range) = ask.since
                      /\ ask.until # None => range # <<>> /\ Last(range) = ask.until
                      /\ Len(range) = 2 => range[1] < range[2]
    BY DEF PeriodAsAsked
  <2>1. /\ ask \in Asks /\ ask.op \in Measures /\ DatesFit(ask)
        /\ range = dateRange(Since(ask), ask.until)
    BY GoodOnceUnderWay DEF Good, IsLocal, Asked, Under
  <2> QED BY <2>1, PeriodKept
<1> QED BY <1>1, Invariant, PTL

\* Nothing changes at LinkedIn but what a call of that very member confirmed,
\* under a token of their own.
THEOREM OnlyWhatWasAsked == Spec => NothingUnasked
<1> DEFINE A ==
      /\ \A k \in Calls : effects'[k] > effects[k] =>
           call[k].ask.confirm /\ call[k].row.token.member = call[k].tenant
      /\ \A m \in (marks \ marks') \cup (marks' \ marks) :
           \E k \in Calls :
             effects'[k] > effects[k] /\ m = Marked(call[k].tenant, call[k].ask)
<1>1. CallInv /\ [Next]_vars => [A]_vars
  <2> SUFFICES ASSUME CallInv, Next PROVE A
    OBVIOUS
  <2>1. effects \in [Calls -> Nat]
    BY DEF CallInv, CallsInv
  <2>2. ASSUME UNCHANGED <<marks, effects>> PROVE A
    BY <2>1, <2>2
  <2>3. ASSUME NEW k \in Calls, Runs(k) PROVE A
    BY <2>2, <2>3 DEF Runs, PublishPost, EditPost, DeletePost, ReconnectURL, OwnedPost,
                      WriteLedger, PublishComment, DeleteComment, React, PostEngagement,
                      PostComments, ListPosts, Analytics, ConnectionStatus, ReadLedger, UseCase
  <2>4. ASSUME NEW k \in Calls, LinkedInAnswers(k) PROVE A
    <3>1. ASSUME NEW heard \in BOOLEAN, NEW op \in PostTools \cup Writes,
                 NEW after \in {marks, marks \cup {Own(k)}, marks \ {Own(k)}},
                 CarriesOut(k, op, after, heard)
          PROVE  A
      <4>1. Sending(k, {op}) /\ marks' = after /\ effects' = [effects EXCEPT ![k] = @ + 1]
        BY <3>1 DEF CarriesOut
      <4>2. /\ call[k].ask.op = op /\ call[k].ask \in Asks /\ Confirmed(call[k].ask)
            /\ OwnRow(call[k].row, call[k].tenant)
        <5>1. Sending(k, {op}) /\ CallsInv
          BY <4>1 DEF CallInv
        <5>2. /\ call[k].ask.op = op /\ IsLocal(call[k]) /\ Confirmed(call[k].ask)
              /\ OwnRow(call[k].row, call[k].tenant)
          BY <5>1, WhileSending
        <5> QED BY <5>2 DEF IsLocal
      <4>3. call[k].ask.confirm
        BY <4>2, AskShapes DEF Confirmed
      <4>4. Own(k) = Marked(call[k].tenant, call[k].ask)
        BY <4>2 DEF Own, OwnRow
      <4>5. effects'[k] > effects[k] /\ \A j \in Calls : j # k => effects'[j] = effects[j]
        BY <2>1, <4>1
      <4>6. \A j \in Calls : effects'[j] > effects[j] =>
              call[j].ask.confirm /\ call[j].row.token.member = call[j].tenant
        BY <2>1, <4>2, <4>3, <4>5 DEF OwnRow
      <4>7. \A m \in (marks \ marks') \cup (marks' \ marks) : m = Own(k)
        BY <3>1, <4>1
      <4> QED BY <4>4, <4>5, <4>6, <4>7
    <3>2. CASE \/ SocialCounts(k) \/ Comments(k) \/ FindPostsByAuthor(k) \/ OneMetric(k)
               \/ IntrospectToken(k) \/ IntrospectFails(k) \/ LinkedInThrottles(k)
               \/ \E status \in Refusals : LinkedInRefuses(k, status)
      BY <2>2, <3>2 DEF SocialCounts, Comments, FindPostsByAuthor, Reports, OneMetric,
                        IntrospectToken, IntrospectFails, LinkedInThrottles, LinkedInRefuses
    <3>3. ASSUME NEW heard \in BOOLEAN,
                 \/ LinkedInCreates(k, heard) \/ LinkedInEdits(k, heard)
                 \/ LinkedInDeletes(k, heard) \/ LinkedInComments(k, heard)
                 \/ LinkedInUncomments(k, heard) \/ LinkedInLikes(k, heard)
                 \/ LinkedInUnlikes(k, heard)
          PROVE  A
      <4>1. PICK op \in PostTools \cup Writes,
                 after \in {marks, marks \cup {Own(k)}, marks \ {Own(k)}} :
                   CarriesOut(k, op, after, heard)
        BY <3>3, Carried
      <4> QED BY <3>1, <4>1
    <3> HIDE DEF A
    <3> QED BY <2>4, <3>2, <3>3 DEF LinkedInAnswers
  <2>5. ASSUME NEW k \in Calls, Return(k) \/ Abort(k) PROVE A
    <3>1. effects' = [effects EXCEPT ![k] = 0] /\ UNCHANGED marks
      BY <2>5 DEF Return, Abort
    <3>2. \A j \in Calls : ~(effects'[j] > effects[j])
      BY <2>1, <3>1
    <3> QED BY <3>1, <3>2
  <2>6. ASSUME NEW k \in Calls, NEW t \in Tenants, NEW ask, Begin(k, t, ask) PROVE A
    BY <2>2, <2>6 DEF Begin
  <2>7. ASSUME NEW t \in Tenants, NEW S \in Grants, NEW told \in BOOLEAN,
               SignsInAgain(t, S, told)
        PROVE  A
    BY <2>2, <2>7 DEF SignsInAgain
  <2> HIDE DEF A
  <2> QED BY <2>3, <2>4, <2>5, <2>6, <2>7 DEF Next, ReadTool, WriteTool, ReadResource
<1> QED BY <1>1, Invariant, PTL DEF Spec, NothingUnasked
===============================================================================
