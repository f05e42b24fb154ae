-------------------------- MODULE PostLedgerProofs --------------------------
(***************************************************************************)
(* Theorems about PostLedger for any sets of tenants, posts, texts and     *)
(* calls, and whatever may go wrong.                                       *)
(***************************************************************************)
EXTENDS PostLedger, TLAPS

-----------------------------------------------------------------------------
(* Shapes.                                                                 *)

\* A ledger write is about a post LinkedIn has named.
RecordedPostKnown == \A k \in Calls : call[k].pc = "record" => call[k].post \in Posts
Shape == TypeOK /\ RecordedPostKnown

LocalShape == Publishing \cup Changing \cup {Idle}

\* A call that moves on keeps its operation, tenant, post and text.
LEMMA LocalMoves ==
  ASSUME NEW c \in Publishing \cup Changing, NEW pc \in {"send", "resend", "record"}
  PROVE  /\ At(c, pc) \in Publishing \cup Changing
         /\ At(c, pc).pc = pc /\ At(c, pc).op = c.op /\ At(c, pc).tenant = c.tenant
         /\ At(c, pc).post = c.post /\ At(c, pc).text = c.text
  BY DEF At, Local, Publishing, Changing

LEMMA Shapes ==
  ASSUME NEW c \in LocalShape, c.pc # "idle"
  PROVE  /\ c \in Publishing \cup Changing
         /\ c.op \in {"publish", "edit", "delete"} /\ c.tenant \in Tenants
         /\ c.post \in Posts \cup {None}
         /\ c.op \in {"publish", "edit"} /\ c \in Publishing => c.text \in Texts
  BY DEF LocalShape, Publishing, Changing, Idle

-----------------------------------------------------------------------------
(* Type correctness.                                                       *)

LEMMA ShapeStep == Shape /\ [Next]_vars => Shape'
<1> SUFFICES ASSUME Shape, [Next]_vars PROVE Shape'
  OBVIOUS
<1> USE PostLedgerAssumption DEF Shape, TypeOK, RecordedPostKnown
<1>0. ASSUME NEW k \in Calls, NEW local \in LocalShape, local.pc = "record" => local.post \in Posts,
             call' = [call EXCEPT ![k] = local]
      PROVE  /\ call' \in [Calls -> Publishing \cup Changing \cup {Idle}]
             /\ \A j \in Calls : call'[j].pc = "record" => call'[j].post \in Posts
  BY <1>0 DEF LocalShape
<1>1. ASSUME NEW k \in Calls, Start(k) PROVE Shape'
  <2>1. ASSUME NEW t \in Tenants, NEW x \in Texts, PublishPost(k, t, x) PROVE Shape'
    <3>1. Local("publish", "send", t, None, x) \in LocalShape
      BY DEF Local, LocalShape, Publishing
    <3> QED BY <1>0, <2>1, <3>1 DEF PublishPost, Begin, Local
  <2>2. ASSUME NEW t \in Tenants, NEW p \in Posts, NEW x \in Texts, EditPost(k, t, p, x)
        PROVE Shape'
    <3>1. Local("edit", "read", t, p, x) \in LocalShape
      BY DEF Local, LocalShape, Changing
    <3> QED BY <1>0, <2>2, <3>1 DEF EditPost, Begin, Local
  <2>3. ASSUME NEW t \in Tenants, NEW p \in Posts, DeletePost(k, t, p) PROVE Shape'
    <3>1. Local("delete", "read", t, p, None) \in LocalShape
      BY DEF Local, LocalShape, Changing
    <3> QED BY <1>0, <2>3, <3>1 DEF DeletePost, Begin, Local
  <2> QED BY <1>1, <2>1, <2>2, <2>3 DEF Start
<1>2. ASSUME NEW k \in Calls, call[k].pc # "idle",
             \/ call' = [call EXCEPT ![k] = Idle]
             \/ call' = [call EXCEPT ![k] = At(call[k], "send")]
             \/ call' = [call EXCEPT ![k] = At(call[k], "resend")],
             UNCHANGED <<ledger, writers, linkedin, history>>
      PROVE Shape'
  <2>1. Idle \in LocalShape /\ Idle.pc # "record"
    BY DEF LocalShape, Idle
  <2>2. At(call[k], "send") \in LocalShape /\ At(call[k], "send").pc = "send"
    BY <1>2, Shapes, LocalMoves DEF LocalShape
  <2>3. At(call[k], "resend") \in LocalShape /\ At(call[k], "resend").pc = "resend"
    BY <1>2, Shapes, LocalMoves DEF LocalShape
  <2> QED BY <1>0, <1>2, <2>1, <2>2, <2>3 DEF history
<1>3. ASSUME NEW k \in Calls, OwnedPost(k) PROVE Shape'
  BY <1>2, <1>3 DEF OwnedPost
<1>4. ASSUME NEW k \in Calls, LinkedInAnswers(k) PROVE Shape'
  <2>1. ASSUME NEW p \in Posts, NEW heard \in BOOLEAN, Answered(k, p, heard),
               call[k].pc \in {"send", "resend"}, call[k] \in Changing => p = call[k].post
        PROVE  /\ call' \in [Calls -> Publishing \cup Changing \cup {Idle}]
               /\ \A j \in Calls : call'[j].pc = "record" => call'[j].post \in Posts
    <3>1. call[k] \in Publishing \cup Changing
      BY <2>1, Shapes DEF LocalShape
    <3>2. /\ AfterAnswer(call[k], p) \in LocalShape
          /\ AfterAnswer(call[k], p).post = p
      BY <2>1, <3>1 DEF AfterAnswer, Local, LocalShape, Publishing, Changing
    <3>3. Idle \in LocalShape /\ Idle.pc # "record"
      BY DEF LocalShape, Idle
    <3>4. \/ call' = [call EXCEPT ![k] = AfterAnswer(call[k], p)]
          \/ call' = [call EXCEPT ![k] = Idle]
      BY <2>1 DEF Answered, AfterLoss
    <3> QED BY <1>0, <3>2, <3>3, <3>4
  <2>2. ASSUME NEW p \in Posts, NEW heard \in BOOLEAN, LinkedInCreates(k, p, heard)
        PROVE Shape'
    <3>1. call[k] \in Publishing
      BY <2>2, Shapes DEF LinkedInCreates, Sending, LocalShape, Changing
    <3>2. /\ linkedin' \in [Posts -> Post \cup {None}]
          /\ said' \in [Posts -> SUBSET Texts] /\ created' \in [Calls -> SUBSET Posts]
      BY <2>2, <3>1 DEF LinkedInCreates, MemberURN, Post, Publishing
    <3>3. call[k] \notin Changing
      BY <3>1 DEF Publishing, Changing
    <3> QED BY <2>1, <2>2, <3>2, <3>3 DEF LinkedInCreates, Sending
  <2>3. ASSUME NEW heard \in BOOLEAN, LinkedInEdits(k, heard) PROVE Shape'
    <3>1. call[k] \in Changing
      BY <2>3, Shapes DEF LinkedInEdits, Sending, LocalShape, Publishing
    <3>2. call[k].text \in Texts
      BY <2>3, <3>1, PostLedgerAssumption DEF LinkedInEdits, Sending, Changing
    <3>3. /\ linkedin' \in [Posts -> Post \cup {None}]
          /\ said' \in [Posts -> SUBSET Texts]
      BY <2>3, <3>1, <3>2 DEF LinkedInEdits, Rewritten, Post, Changing
    <3> QED BY <2>1, <2>3, <3>1, <3>3 DEF LinkedInEdits, Sending, Changing
  <2>4. ASSUME NEW heard \in BOOLEAN, LinkedInDeletes(k, heard) PROVE Shape'
    <3>1. call[k] \in Changing
      BY <2>4, Shapes DEF LinkedInDeletes, Sending, LocalShape, Publishing
    <3>2. linkedin' \in [Posts -> Post \cup {None}]
      BY <2>4, <3>1 DEF LinkedInDeletes, Removed, Post, Changing
    <3> QED BY <2>1, <2>4, <3>1, <3>2 DEF LinkedInDeletes, Sending, Changing, history
  <2>5. CASE LinkedInRefuses(k)
    BY <1>2, <2>5 DEF LinkedInRefuses, AfterRefusal
  <2>6. CASE LinkedInThrottles(k)
    BY <1>2, <2>6 DEF LinkedInThrottles, AfterThrottle
  <2> QED BY <1>4, <2>2, <2>3, <2>4, <2>5, <2>6 DEF LinkedInAnswers
<1>5. ASSUME NEW k \in Calls, NEW op \in {"publish", "edit", "delete"}, NEW row \in Row \cup {None},
             Recording(k, op, row)
      PROVE Shape'
  <2>1. call[k].tenant \in Tenants /\ call[k].post \in Posts
    BY <1>5, Shapes DEF Recording, LocalShape
  <2>2. Idle \in LocalShape /\ Idle.pc # "record"
    BY DEF LocalShape, Idle
  <2>3. ledger' \in [Tenants -> [Posts -> Row \cup {None}]]
    BY <1>5, <2>1 DEF Recording
  <2> QED BY <1>0, <1>5, <2>2, <2>3 DEF Recording, history
<1>6. ASSUME NEW k \in Calls, Write(k) PROVE Shape'
  <2>1. call[k].pc = "record" /\ call[k] \in Publishing \cup Changing
    BY <1>6, Shapes DEF Write, RecordPost, UpdateLedgerCommentary, MarkPostDeleted, Recording, LocalShape
  <2>2. Stored(k) \in Row \cup {None}
    BY <2>1, Shapes DEF Stored, LocalShape
  <2>3. CASE RecordPost(k)
    <3>1. call[k].text \in Texts
      BY <2>1, <2>3 DEF RecordPost, Recording, Publishing, Changing
    <3>2. Recorded(Stored(k), call[k].text) \in Row
      BY <2>2, <3>1 DEF Recorded, Row
    <3> QED BY <1>5, <2>3, <3>2 DEF RecordPost
  <2>4. CASE UpdateLedgerCommentary(k)
    <3>1. call[k].text \in Texts
      BY <2>1, <2>4 DEF UpdateLedgerCommentary, Recording, Publishing, Changing
    <3>2. Edited(Stored(k), call[k].text) \in Row \cup {None}
      BY <2>2, <3>1 DEF Edited, Row
    <3> QED BY <1>5, <2>4, <3>2 DEF UpdateLedgerCommentary
  <2>5. CASE MarkPostDeleted(k)
    <3>1. Struck(Stored(k)) \in Row \cup {None}
      BY <2>2 DEF Struck, Row
    <3> QED BY <1>5, <2>5, <3>1 DEF MarkPostDeleted
  <2> QED BY <1>6, <2>3, <2>4, <2>5 DEF Write
<1>7. ASSUME NEW k \in Calls, Abort(k) PROVE Shape'
  <2>1. call[k].pc # "idle"
    BY <1>7 DEF Abort, Idle, Publishing, Changing
  <2> QED BY <1>2, <1>7, <2>1 DEF Abort
<1>8. CASE Elsewhere
  <2>1. ASSUME NEW t \in Tenants, ScopesChange(t) PROVE Shape'
    BY <2>1 DEF ScopesChange, history
  <2>2. ASSUME NEW p \in Posts, MemberDeletes(p) PROVE Shape'
    BY <2>2 DEF MemberDeletes, Removed, Post, history
  <2>3. ASSUME NEW p \in Posts, NEW x \in Texts, MemberEdits(p, x) PROVE Shape'
    BY <2>3 DEF MemberEdits, Rewritten, Post
  <2> QED BY <1>8, <2>1, <2>2, <2>3 DEF Elsewhere
<1>9. CASE UNCHANGED vars
  BY <1>9 DEF vars, history
<1> QED BY <1>1, <1>3, <1>4, <1>6, <1>7, <1>8, <1>9 DEF Next

LEMMA ShapeInit == Init => Shape
  BY DEF Init, Shape, TypeOK, RecordedPostKnown, Idle

LEMMA ShapeHolds == Spec => []Shape
  BY ShapeInit, ShapeStep, PTL DEF Spec

\* Rows, posts and the locals of every call keep their shape.
THEOREM TypeCorrect == Spec => []TypeOK
  BY ShapeHolds, PTL DEF Shape

-----------------------------------------------------------------------------
(* What a step does: to LinkedIn, to a call, to the ledger.                *)

\* At LinkedIn nothing is forgotten: authors stay, deleted posts stay deleted.
LinkedInMoves ==
  \A p \in Posts :
    /\ said[p] \subseteq said'[p]
    /\ linkedin[p] # None =>
         /\ linkedin'[p] # None
         /\ linkedin'[p].author = linkedin[p].author
         /\ linkedin[p].gone => linkedin'[p].gone

Keeps(k) == /\ call'[k].op = call[k].op /\ call'[k].tenant = call[k].tenant
            /\ call'[k].text = call[k].text

\* LinkedIn has done what call k asked, to the post k now names.
Done(k) ==
  LET p == call'[k].post IN
  /\ p \in Posts /\ linkedin'[p] # None
  /\ call[k].op = "publish" => linkedin'[p].author = call[k].tenant
  /\ call[k].op \in {"edit", "delete"} => p = call[k].post
  /\ call[k].op = "delete" => linkedin'[p].gone
  /\ call[k].op \in {"publish", "edit"} => call[k].text \in said'[p]

CallMoves(k) ==
  \/ call'[k] = call[k]
  \/ call'[k].pc \in {"idle", "read"}
  \/ call'[k].pc = "send" /\ call'[k].post = None
  \/ /\ call[k].pc = "read" /\ call'[k].pc = "send"
     /\ Keeps(k) /\ call'[k].post = call[k].post
     /\ call[k].tenant \in Tenants /\ call[k].post \in Posts
     /\ ledger[call[k].tenant][call[k].post] # None
  \/ /\ call[k].pc \in {"send", "resend"} /\ call'[k].pc = "resend"
     /\ Keeps(k) /\ call'[k].post = call[k].post
  \/ /\ call[k].pc \in {"send", "resend"} /\ call'[k].pc = "record"
     /\ Keeps(k) /\ Done(k)

Written(k) ==
  IF call[k].op = "publish" THEN Recorded(Stored(k), call[k].text)
  ELSE IF call[k].op = "edit" THEN Edited(Stored(k), call[k].text)
  ELSE Struck(Stored(k))

LedgerMoves ==
  \/ ledger' = ledger
  \/ \E k \in Calls :
       /\ call[k].pc = "record" /\ call[k].op \in {"publish", "edit", "delete"}
       /\ call[k].tenant \in Tenants /\ call[k].post \in Posts
       /\ ledger' = [ledger EXCEPT ![call[k].tenant][call[k].post] = Written(k)]

\* Every step is of this form.
LEMMA Moves ==
  ASSUME Shape, [Next]_vars
  PROVE  LinkedInMoves /\ LedgerMoves /\ \A k \in Calls : CallMoves(k)
<1> USE PostLedgerAssumption DEF Shape, TypeOK, RecordedPostKnown
<1>1. ASSUME NEW k \in Calls, Start(k) PROVE LinkedInMoves /\ LedgerMoves /\ \A j \in Calls : CallMoves(j)
  BY <1>1 DEF Start, PublishPost, EditPost, DeletePost, Begin, Local,
              LinkedInMoves, LedgerMoves, CallMoves
<1>2. ASSUME NEW k \in Calls, OwnedPost(k)
      PROVE LinkedInMoves /\ LedgerMoves /\ \A j \in Calls : CallMoves(j)
  <2>1. call[k] \in Publishing \cup Changing
    BY <1>2, Shapes DEF OwnedPost, LocalShape
  <2>2. call[k].tenant \in Tenants /\ call[k].post \in Posts
    BY <1>2, <2>1 DEF OwnedPost, Publishing, Changing
  <2>3. CallMoves(k)
    BY <1>2, <2>1, <2>2, LocalMoves DEF OwnedPost, CallMoves, Keeps, LedgerPost, Idle
  <2> QED BY <1>2, <2>3 DEF OwnedPost, history, LinkedInMoves, LedgerMoves, CallMoves
<1>3. ASSUME NEW k \in Calls, LinkedInAnswers(k)
      PROVE LinkedInMoves /\ LedgerMoves /\ \A j \in Calls : CallMoves(j)
  <2>1. call[k].pc \in {"send", "resend"} /\ call[k] \in Publishing \cup Changing
    BY <1>3, Shapes DEF LinkedInAnswers, LinkedInCreates, LinkedInEdits, LinkedInDeletes, Sending,
                        LinkedInRefuses, LinkedInThrottles, LocalShape
  <2>2. ASSUME NEW p \in Posts, NEW heard \in BOOLEAN, Answered(k, p, heard),
               linkedin'[p] # None,
               call[k].op = "publish" => linkedin'[p].author = call[k].tenant,
               call[k].op \in {"edit", "delete"} => p = call[k].post,
               call[k].op = "delete" => linkedin'[p].gone,
               call[k].op \in {"publish", "edit"} => call[k].text \in said'[p]
        PROVE \A j \in Calls : CallMoves(j)
    <3>1. CASE call' = [call EXCEPT ![k] = Idle]
      BY <3>1 DEF CallMoves, Idle
    <3>2. CASE call' = [call EXCEPT ![k] = AfterAnswer(call[k], p)]
      <4>1. CallMoves(k)
        BY <2>1, <2>2, <3>2 DEF CallMoves, AfterAnswer, Local, Keeps, Done
      <4> QED BY <3>2, <4>1 DEF CallMoves
    <3> QED BY <2>2, <3>1, <3>2 DEF Answered, AfterLoss
  <2>3. ASSUME NEW p \in Posts, NEW heard \in BOOLEAN, LinkedInCreates(k, p, heard)
        PROVE LinkedInMoves /\ LedgerMoves /\ \A j \in Calls : CallMoves(j)
    <3>1. call[k].tenant \in Tenants /\ call[k].text \in Texts
      BY <2>1, <2>3 DEF LinkedInCreates, Sending, Publishing, Changing
    <3>2. LinkedInMoves
      BY <2>3 DEF LinkedInCreates, LinkedInMoves
    <3>3. [author |-> call[k].tenant, text |-> call[k].text, gone |-> FALSE] \in Post
      BY <3>1 DEF Post
    <3>4. /\ linkedin'[p] = [author |-> call[k].tenant, text |-> call[k].text, gone |-> FALSE]
          /\ linkedin'[p] # None /\ call[k].text \in said'[p]
      BY <2>3, <3>3, NoneIsNoRow DEF LinkedInCreates, MemberURN
    <3>5. call[k].op = "publish" /\ Answered(k, p, heard)
      BY <2>3 DEF LinkedInCreates, Sending
    <3>6. \A j \in Calls : CallMoves(j)
      BY <2>2, <3>4, <3>5
    <3> QED BY <2>3, <3>2, <3>6 DEF LinkedInCreates, LedgerMoves
  <2>4. ASSUME NEW heard \in BOOLEAN, LinkedInEdits(k, heard)
        PROVE LinkedInMoves /\ LedgerMoves /\ \A j \in Calls : CallMoves(j)
    <3>1. call[k].post \in Posts /\ call[k].text \in Texts
      BY <2>1, <2>4 DEF LinkedInEdits, Sending, Publishing, Changing
    <3>2. Rewritten(linkedin[call[k].post], call[k].text) \in Post
      BY <2>4, <3>1 DEF LinkedInEdits, Rewritten, Post
    <3>3. LinkedInMoves
      BY <2>4, <3>1, <3>2, NoneIsNoRow DEF LinkedInEdits, LinkedInMoves, Rewritten
    <3>4. linkedin'[call[k].post] # None /\ call[k].text \in said'[call[k].post]
      BY <2>4, <3>1, <3>2, NoneIsNoRow DEF LinkedInEdits
    <3>5. call[k].op = "edit" /\ Answered(k, call[k].post, heard)
      BY <2>4 DEF LinkedInEdits, Sending
    <3>6. \A j \in Calls : CallMoves(j)
      BY <2>2, <3>1, <3>4, <3>5
    <3> QED BY <2>4, <3>3, <3>6 DEF LinkedInEdits, LedgerMoves
  <2>5. ASSUME NEW heard \in BOOLEAN, LinkedInDeletes(k, heard)
        PROVE LinkedInMoves /\ LedgerMoves /\ \A j \in Calls : CallMoves(j)
    <3>1. call[k].post \in Posts
      BY <2>1, <2>5 DEF LinkedInDeletes, Sending, Publishing, Changing
    <3>2. Removed(linkedin[call[k].post]) \in Post
      BY <2>5, <3>1 DEF LinkedInDeletes, Removed, Post
    <3>3. LinkedInMoves
      BY <2>5, <3>1, <3>2, NoneIsNoRow DEF LinkedInDeletes, LinkedInMoves, Removed, history
    <3>4. linkedin'[call[k].post] # None /\ linkedin'[call[k].post].gone
      BY <2>5, <3>1, <3>2, NoneIsNoRow DEF LinkedInDeletes, Removed
    <3>5. call[k].op = "delete" /\ Answered(k, call[k].post, heard)
      BY <2>5 DEF LinkedInDeletes, Sending
    <3>6. \A j \in Calls : CallMoves(j)
      BY <2>2, <3>1, <3>4, <3>5
    <3> QED BY <2>5, <3>3, <3>6 DEF LinkedInDeletes, LedgerMoves
  <2>6. CASE LinkedInRefuses(k)
    BY <2>6 DEF LinkedInRefuses, AfterRefusal, Idle, history, LinkedInMoves, LedgerMoves, CallMoves
  <2>7. CASE LinkedInThrottles(k)
    <3>1. CallMoves(k)
      BY <2>1, <2>7, LocalMoves DEF LinkedInThrottles, AfterThrottle, Idle, CallMoves, Keeps
    <3> QED BY <2>7, <3>1 DEF LinkedInThrottles, history, LinkedInMoves, LedgerMoves, CallMoves
  <2> QED BY <1>3, <2>3, <2>4, <2>5, <2>6, <2>7 DEF LinkedInAnswers
<1>4. ASSUME NEW k \in Calls, Write(k)
      PROVE LinkedInMoves /\ LedgerMoves /\ \A j \in Calls : CallMoves(j)
  <2>1. call[k].pc = "record" /\ call[k].tenant \in Tenants /\ call[k].post \in Posts
    BY <1>4, Shapes DEF Write, RecordPost, UpdateLedgerCommentary, MarkPostDeleted, Recording, LocalShape
  <2>2. LedgerMoves
    BY <1>4, <2>1 DEF Write, RecordPost, UpdateLedgerCommentary, MarkPostDeleted, Recording,
                      LedgerMoves, Written
  <2> QED BY <1>4, <2>2 DEF Write, RecordPost, UpdateLedgerCommentary, MarkPostDeleted, Recording,
                            history, Idle, LinkedInMoves, CallMoves
<1>5. ASSUME NEW k \in Calls, Abort(k)
      PROVE LinkedInMoves /\ LedgerMoves /\ \A j \in Calls : CallMoves(j)
  BY <1>5 DEF Abort, history, Idle, LinkedInMoves, LedgerMoves, CallMoves
<1>6. CASE Elsewhere
  <2>1. CASE \E t \in Tenants : ScopesChange(t)
    BY <2>1 DEF ScopesChange, history, LinkedInMoves, LedgerMoves, CallMoves
  <2>2. ASSUME NEW p \in Posts, MemberDeletes(p) PROVE LinkedInMoves
    <3>1. Removed(linkedin[p]) \in Post
      BY <2>2 DEF MemberDeletes, Removed, Post
    <3> QED BY <2>2, <3>1, NoneIsNoRow DEF MemberDeletes, Removed, history, LinkedInMoves
  <2>3. ASSUME NEW p \in Posts, NEW x \in Texts, MemberEdits(p, x) PROVE LinkedInMoves
    <3>1. Rewritten(linkedin[p], x) \in Post
      BY <2>3 DEF MemberEdits, Rewritten, Post
    <3> QED BY <2>3, <3>1, NoneIsNoRow DEF MemberEdits, Rewritten, LinkedInMoves
  <2> QED BY <1>6, <2>1, <2>2, <2>3 DEF Elsewhere, MemberDeletes, MemberEdits, LedgerMoves, CallMoves
<1>7. CASE UNCHANGED vars
  BY <1>7 DEF vars, history, LinkedInMoves, LedgerMoves, CallMoves
<1> QED BY <1>1, <1>2, <1>3, <1>4, <1>5, <1>6, <1>7 DEF Next

\* Where the ledger differs after a step, the row written tells what the call
\* at its last step knows.
LEMMA RowMoves ==
  ASSUME Shape, LedgerMoves, NEW t \in Tenants, NEW p \in Posts, ledger'[t][p] # ledger[t][p]
  PROVE  \E k \in Calls :
           /\ call[k].pc = "record" /\ call[k].tenant = t /\ call[k].post = p
           /\ \/ /\ call[k].op \in {"publish", "edit"}
                 /\ ledger'[t][p] # None /\ ledger'[t][p].text = call[k].text
                 /\ ledger'[t][p].deleted <=> ledger[t][p] # None /\ ledger[t][p].deleted
              \/ /\ call[k].op = "delete" /\ ledger[t][p] # None
                 /\ ledger'[t][p] # None /\ ledger'[t][p].text = ledger[t][p].text
                 /\ ledger'[t][p].deleted
<1> USE DEF Shape, TypeOK
<1>0. ledger[t][p] \in Row \cup {None}
  OBVIOUS
<1>1. PICK k \in Calls :
        /\ call[k].pc = "record" /\ call[k].op \in {"publish", "edit", "delete"}
        /\ call[k].tenant \in Tenants /\ call[k].post \in Posts
        /\ ledger' = [ledger EXCEPT ![call[k].tenant][call[k].post] = Written(k)]
  BY DEF LedgerMoves
<1>2. call[k].tenant = t /\ call[k].post = p /\ ledger'[t][p] = Written(k) /\ Stored(k) = ledger[t][p]
  BY <1>1 DEF Stored
<1>3. call[k].op \in {"publish", "edit"} => call[k].text \in Texts
  BY <1>1, Shapes DEF LocalShape, Publishing, Changing
<1>4. CASE call[k].op = "publish"
  <2>1. Written(k) = Recorded(ledger[t][p], call[k].text)
    BY <1>2, <1>4 DEF Written
  <2>2. Recorded(ledger[t][p], call[k].text) \in Row
    BY <1>0, <1>3, <1>4 DEF Recorded, Row
  <2>3. /\ Recorded(ledger[t][p], call[k].text).text = call[k].text
        /\ Recorded(ledger[t][p], call[k].text).deleted
             <=> ledger[t][p] # None /\ ledger[t][p].deleted
    BY <1>0 DEF Recorded, Row
  <2> QED BY <1>1, <1>2, <1>4, <2>1, <2>2, <2>3, NoneIsNoRow
<1>5. CASE call[k].op = "edit"
  <2>1. Written(k) = Edited(ledger[t][p], call[k].text) /\ ledger[t][p] # None
    BY <1>2, <1>5 DEF Written, Edited
  <2>2. Edited(ledger[t][p], call[k].text) \in Row
    BY <1>0, <1>3, <1>5, <2>1 DEF Edited, Row
  <2>3. /\ Edited(ledger[t][p], call[k].text).text = call[k].text
        /\ Edited(ledger[t][p], call[k].text).deleted <=> ledger[t][p].deleted
    BY <1>0, <2>1 DEF Edited, Row
  <2> QED BY <1>1, <1>2, <1>5, <2>1, <2>2, <2>3, NoneIsNoRow
<1>6. CASE call[k].op = "delete"
  <2>1. Written(k) = Struck(ledger[t][p]) /\ ledger[t][p] # None
    BY <1>2, <1>6 DEF Written, Struck
  <2>2. Struck(ledger[t][p]) \in Row
    BY <1>0, <2>1 DEF Struck, Row
  <2>3. /\ Struck(ledger[t][p]).text = ledger[t][p].text
        /\ Struck(ledger[t][p]).deleted
    BY <2>1 DEF Struck
  <2> QED BY <1>1, <1>2, <1>6, <2>1, <2>2, <2>3, NoneIsNoRow
<1> QED BY <1>1, <1>4, <1>5, <1>6

-----------------------------------------------------------------------------
(* The ledger and its calls stay at home.                                  *)

\* OnlyOwnPosts is inductive: a call learns a URN from its own tenant's ledger
\* or from LinkedIn's answer to its own publication.
LEMMA OwnStep == Shape /\ OnlyOwnPosts /\ [Next]_vars => OnlyOwnPosts'
<1> SUFFICES ASSUME Shape, OnlyOwnPosts, [Next]_vars PROVE OnlyOwnPosts'
  OBVIOUS
<1>1. LinkedInMoves /\ LedgerMoves /\ \A k \in Calls : CallMoves(k)
  BY Moves
<1>2. ASSUME NEW t \in Tenants, NEW p \in Posts, ledger'[t][p] # None
      PROVE linkedin'[p] # None /\ linkedin'[p].author = t
  <2>1. linkedin[p] # None /\ linkedin[p].author = t
    <3>1. CASE ledger'[t][p] = ledger[t][p]
      BY <1>2, <3>1 DEF OnlyOwnPosts
    <3>2. CASE ledger'[t][p] # ledger[t][p]
      <4>1. PICK k \in Calls : call[k].pc = "record" /\ call[k].tenant = t /\ call[k].post = p
        BY <1>1, <3>2, RowMoves
      <4>2. call[k].post # None
        BY <4>1, PostLedgerAssumption
      <4> QED BY <4>1, <4>2 DEF OnlyOwnPosts
    <3> QED BY <3>1, <3>2
  <2> QED BY <1>1, <2>1 DEF LinkedInMoves
<1>3. ASSUME NEW k \in Calls, call'[k].pc \in {"send", "resend", "record"}, call'[k].post # None
      PROVE /\ linkedin'[call'[k].post] # None
            /\ linkedin'[call'[k].post].author = call'[k].tenant
  <2>1. ASSUME linkedin[call'[k].post] # None, linkedin[call'[k].post].author = call'[k].tenant
        PROVE  /\ linkedin'[call'[k].post] # None
               /\ linkedin'[call'[k].post].author = call'[k].tenant
    <3>1. call'[k].post \in Posts
      <4>1. Shape'
        BY ShapeStep
      <4> QED BY <1>3, <4>1 DEF Shape, TypeOK, Publishing, Changing, Idle
    <3> QED BY <1>1, <2>1, <3>1 DEF LinkedInMoves
  <2>2. CASE call'[k] = call[k]
    BY <1>3, <2>1, <2>2 DEF OnlyOwnPosts
  <2>3. CASE call[k].pc = "read" /\ Keeps(k) /\ call'[k].post = call[k].post
             /\ call[k].tenant \in Tenants /\ call[k].post \in Posts
             /\ ledger[call[k].tenant][call[k].post] # None
    BY <2>1, <2>3 DEF Keeps, OnlyOwnPosts
  <2>4. CASE call[k].pc \in {"send", "resend"} /\ Keeps(k) /\ call'[k].post = call[k].post
    BY <1>3, <2>1, <2>4 DEF Keeps, OnlyOwnPosts
  <2>5. CASE call[k].pc \in {"send", "resend"} /\ Keeps(k) /\ Done(k)
    <3>1. CASE call[k].op = "publish"
      BY <2>5, <3>1 DEF Keeps, Done
    <3>2. CASE call[k].op \in {"edit", "delete"}
      BY <1>3, <2>1, <2>5, <3>2 DEF Keeps, Done, OnlyOwnPosts
    <3>3. call[k].op \in {"publish", "edit", "delete"}
      BY <2>5, Shapes DEF Shape, TypeOK, LocalShape
    <3> QED BY <3>1, <3>2, <3>3
  <2> QED BY <1>1, <1>3, <2>2, <2>3, <2>4, <2>5 DEF CallMoves
<1> QED BY <1>2, <1>3 DEF OnlyOwnPosts

\* No member's ledger lists, and no call of theirs reaches LinkedIn about, the
\* post of somebody else.
THEOREM OwnPostsOnly == Spec => []OnlyOwnPosts
<1>1. Init => OnlyOwnPosts
  BY DEF Init, OnlyOwnPosts, Idle
<1> QED BY <1>1, OwnStep, ShapeHolds, PTL DEF Spec

-----------------------------------------------------------------------------
(* The ledger is honest.                                                   *)

\* A call about to write the ledger writes what LinkedIn has done.
LedgerWritesFollow ==
  \A k \in Calls : call[k].pc = "record" =>
    /\ linkedin[call[k].post] # None
    /\ call[k].op = "delete" => linkedin[call[k].post].gone
    /\ call[k].op \in {"publish", "edit"} => call[k].text \in said[call[k].post]

HonestInv == LedgerWritesFollow /\ TombstonesAreHonest /\ LedgerNeverInvents

LEMMA HonestStep == Shape /\ OnlyOwnPosts /\ HonestInv /\ [Next]_vars => HonestInv'
<1> SUFFICES ASSUME Shape, OnlyOwnPosts, HonestInv, [Next]_vars PROVE HonestInv'
  OBVIOUS
<1>1. LinkedInMoves /\ LedgerMoves /\ \A k \in Calls : CallMoves(k)
  BY Moves
<1>2. ASSUME NEW k \in Calls, call'[k].pc = "record"
      PROVE  /\ linkedin'[call'[k].post] # None
             /\ call'[k].op = "delete" => linkedin'[call'[k].post].gone
             /\ call'[k].op \in {"publish", "edit"} => call'[k].text \in said'[call'[k].post]
  <2>1. CASE call'[k] = call[k]
    <3>1. call[k].post \in Posts
      BY <1>2, <2>1 DEF Shape, RecordedPostKnown
    <3> QED BY <1>1, <1>2, <2>1, <3>1 DEF HonestInv, LedgerWritesFollow, LinkedInMoves
  <2>2. CASE Keeps(k) /\ Done(k)
    BY <2>2 DEF Keeps, Done
  <2> QED BY <1>1, <1>2, <2>1, <2>2 DEF CallMoves
<1>3. ASSUME NEW t \in Tenants, NEW p \in Posts, ledger'[t][p] # None
      PROVE  /\ ledger'[t][p].deleted => linkedin'[p] # None /\ linkedin'[p].gone
             /\ ledger'[t][p].text \in said'[p]
  <2>1. /\ ledger'[t][p].deleted => linkedin[p] # None /\ linkedin[p].gone
        /\ ledger'[t][p].text \in said[p]
    <3>1. CASE ledger'[t][p] = ledger[t][p]
      BY <1>3, <3>1 DEF HonestInv, TombstonesAreHonest, LedgerNeverInvents
    <3>2. CASE ledger'[t][p] # ledger[t][p]
      BY <1>1, <1>3, <3>2, RowMoves DEF HonestInv, LedgerWritesFollow, TombstonesAreHonest, LedgerNeverInvents
    <3> QED BY <3>1, <3>2
  <2> QED BY <1>1, <2>1 DEF LinkedInMoves
<1> QED BY <1>2, <1>3 DEF HonestInv, LedgerWritesFollow, TombstonesAreHonest, LedgerNeverInvents

LEMMA HonestHolds == Spec => []HonestInv
<1>1. Init => HonestInv
  BY DEF Init, HonestInv, LedgerWritesFollow, TombstonesAreHonest, LedgerNeverInvents, Idle
<1> QED BY <1>1, HonestStep, OwnPostsOnly, ShapeHolds, PTL DEF Spec

\* What the ledger marks deleted is gone at LinkedIn.
THEOREM TombstonesHold == Spec => []TombstonesAreHonest
  BY HonestHolds, PTL DEF HonestInv

\* The ledger only shows texts the post has had at LinkedIn.
THEOREM NothingInvented == Spec => []LedgerNeverInvents
  BY HonestHolds, PTL DEF HonestInv

\* No row leaves the ledger, and no tombstone is lifted.
THEOREM LedgerGrows == Spec => LedgerOnlyGrows
<1>1. ASSUME Shape, [Next]_vars, NEW t \in Tenants, NEW p \in Posts, ledger[t][p] # None
      PROVE  /\ ledger'[t][p] # None
             /\ ledger[t][p].deleted => ledger'[t][p].deleted
  <2>1. LedgerMoves
    BY <1>1, Moves
  <2>2. CASE ledger'[t][p] = ledger[t][p]
    BY <1>1, <2>2
  <2>3. CASE ledger'[t][p] # ledger[t][p]
    BY <1>1, <2>1, <2>3, RowMoves
  <2> QED BY <2>2, <2>3
<1>2. Shape /\ [Next]_vars =>
        [\A t \in Tenants, p \in Posts : ledger[t][p] # None =>
           /\ ledger'[t][p] # None
           /\ ledger[t][p].deleted => ledger'[t][p].deleted]_vars
  BY <1>1
<1> QED BY <1>2, ShapeHolds, PTL DEF Spec, LedgerOnlyGrows

-----------------------------------------------------------------------------
(* One post per call.                                                      *)

\* While a publication can still be sent, it has created nothing.
CreatesOnce ==
  /\ OnePostPerCall
  /\ \A k \in Calls : call[k].pc \in {"send", "resend"} /\ call[k].op = "publish" => created[k] = {}

LEMMA CreatesOnceStep == Shape /\ CreatesOnce /\ [Next]_vars => CreatesOnce'
<1> SUFFICES ASSUME Shape, CreatesOnce, [Next]_vars PROVE CreatesOnce'
  OBVIOUS
<1> USE DEF CreatesOnce, OnePostPerCall, Shape, TypeOK
<1>1. ASSUME NEW k \in Calls, Start(k) PROVE CreatesOnce'
  <2>1. ASSUME NEW local, Begin(k, local) PROVE CreatesOnce'
    BY <2>1 DEF Begin
  <2> QED BY <1>1, <2>1 DEF Start, PublishPost, EditPost, DeletePost
<1>2. ASSUME NEW k \in Calls, NEW p \in Posts, NEW heard \in BOOLEAN, LinkedInCreates(k, p, heard)
      PROVE CreatesOnce'
  <2>1. created[k] = {} /\ created' = [created EXCEPT ![k] = {p}]
    BY <1>2 DEF LinkedInCreates, Sending
  <2>2. call'[k].pc \in {"idle", "record"} /\ \A j \in Calls \ {k} : call'[j] = call[j]
    BY <1>2 DEF LinkedInCreates, Answered, AfterAnswer, AfterLoss, Local, Idle
  <2> QED BY <2>1, <2>2
<1>3. ASSUME created' = created, NEW k \in Calls, \A j \in Calls \ {k} : call'[j] = call[j],
             \/ call'[k].pc \in {"idle", "record"}
             \/ call[k].pc = "read" /\ call'[k].op = call[k].op
             \/ call[k].pc \in {"send", "resend"} /\ call'[k].op = call[k].op,
             call[k].pc = "read" => call[k].op # "publish"
      PROVE CreatesOnce'
  BY <1>3
<1>4. ASSUME NEW k \in Calls PROVE call[k].pc = "read" => call[k].op # "publish"
  BY DEF Publishing, Changing, Idle
<1>5. ASSUME NEW k \in Calls, OwnedPost(k) PROVE CreatesOnce'
  <2>1. call[k] \in Publishing \cup Changing
    BY <1>5, Shapes DEF OwnedPost, LocalShape
  <2> QED BY <1>3, <1>4, <1>5, <2>1, LocalMoves DEF OwnedPost, history, Idle
<1>6. ASSUME NEW k \in Calls, NEW heard \in BOOLEAN, LinkedInEdits(k, heard) \/ LinkedInDeletes(k, heard)
      PROVE CreatesOnce'
  BY <1>3, <1>4, <1>6 DEF LinkedInEdits, LinkedInDeletes, Sending, Answered, AfterAnswer, AfterLoss, Local,
                          history, Idle
<1>7. ASSUME NEW k \in Calls, LinkedInRefuses(k) PROVE CreatesOnce'
  BY <1>3, <1>4, <1>7 DEF LinkedInRefuses, AfterRefusal, history, Idle
<1>8. ASSUME NEW k \in Calls, LinkedInThrottles(k) PROVE CreatesOnce'
  <2>1. call[k] \in Publishing \cup Changing
    BY <1>8, Shapes DEF LinkedInThrottles, LocalShape
  <2> QED BY <1>3, <1>4, <1>8, <2>1, LocalMoves DEF LinkedInThrottles, AfterThrottle, history, Idle
<1>9. ASSUME NEW k \in Calls, Write(k) \/ Abort(k) PROVE CreatesOnce'
  BY <1>9 DEF Write, RecordPost, UpdateLedgerCommentary, MarkPostDeleted, Recording, Abort, history, Idle
<1>10. CASE Elsewhere
  BY <1>10 DEF Elsewhere, ScopesChange, MemberDeletes, MemberEdits, history
<1>11. CASE UNCHANGED vars
  BY <1>11 DEF vars, history
<1> QED BY <1>1, <1>2, <1>5, <1>6, <1>7, <1>8, <1>9, <1>10, <1>11 DEF Next, LinkedInAnswers

\* A confirmed publish_post never publishes twice.
THEOREM PublishesOnce == Spec => []OnePostPerCall
<1>1. Init => CreatesOnce
  BY DEF Init, CreatesOnce, OnePostPerCall
<1> QED BY <1>1, CreatesOnceStep, ShapeHolds, PTL DEF Spec, CreatesOnce

-----------------------------------------------------------------------------
(* The ledger is complete.                                                 *)

\* A post is listed or about to be, by the very publication that created it:
\* an edit or a deletion that is about to write the ledger would not list it.
HeldInv ==
  \A p \in Posts : linkedin[p] # None /\ linkedin[p].author \notin Unlucky =>
    \/ ledger[linkedin[p].author][p] # None
    \/ \E k \in Calls : /\ call[k].pc = "record" /\ call[k].op = "publish"
                        /\ call[k].post = p /\ call[k].tenant = linkedin[p].author

\* Only an accepted publication brings a post into being.
LEMMA PostsAreCreated ==
  ASSUME Shape, [Next]_vars, NEW p \in Posts, linkedin[p] = None, linkedin'[p] # None
  PROVE  \E k \in Calls, heard \in BOOLEAN : LinkedInCreates(k, p, heard)
<1> USE DEF Shape, TypeOK
<1>1. ASSUME NEW k \in Calls, LinkedInAnswers(k)
      PROVE  \E heard \in BOOLEAN : LinkedInCreates(k, p, heard)
  <2>1. ASSUME NEW q \in Posts, NEW heard \in BOOLEAN, LinkedInCreates(k, q, heard) PROVE q = p
    BY <2>1 DEF LinkedInCreates
  <2> QED BY <1>1, <2>1 DEF LinkedInAnswers, LinkedInEdits, LinkedInDeletes, LinkedInRefuses, LinkedInThrottles
<1>2. ~Elsewhere
  BY DEF Elsewhere, ScopesChange, MemberDeletes, MemberEdits
<1>3. ASSUME NEW k \in Calls PROVE ~(Start(k) \/ OwnedPost(k) \/ Write(k) \/ Abort(k))
  BY DEF Start, PublishPost, EditPost, DeletePost, Begin, OwnedPost, Abort,
         Write, RecordPost, UpdateLedgerCommentary, MarkPostDeleted, Recording
<1> QED BY <1>1, <1>2, <1>3 DEF Next, vars

\* A publication about to be recorded waits, is recorded, or is cut.
LEMMA PublicationIsRecorded ==
  ASSUME Shape, [Next]_vars, NEW k \in Calls, call[k].pc = "record", call[k].op = "publish"
  PROVE  \/ call'[k] = call[k]
         \/ ledger'[call[k].tenant][call[k].post] # None
         \/ call[k].tenant \in Unlucky
<1> USE DEF Shape, TypeOK
<1>1. CASE RecordPost(k)
  <2>1. /\ call[k].tenant \in Tenants /\ call[k].post \in Posts /\ call[k].text \in Texts
    BY Shapes DEF LocalShape, RecordedPostKnown, Publishing, Changing
  <2>2. Stored(k) \in Row \cup {None}
    BY <2>1 DEF Stored
  <2>3. Recorded(Stored(k), call[k].text) \in Row
    BY <2>1, <2>2 DEF Recorded, Row
  <2> QED BY <1>1, <2>1, <2>3, NoneIsNoRow DEF RecordPost, Recording
<1>2. CASE Abort(k)
  BY <1>2 DEF Abort
<1>3. ASSUME NEW j \in Calls, Start(j) \/ OwnedPost(j) \/ LinkedInAnswers(j) PROVE call'[k] = call[k]
  BY <1>3 DEF Start, PublishPost, EditPost, DeletePost, Begin, Idle, OwnedPost, LinkedInAnswers,
              LinkedInCreates, LinkedInEdits, LinkedInDeletes, Sending, Answered, LinkedInRefuses, LinkedInThrottles
<1>4. ASSUME NEW j \in Calls, j # k, Write(j) \/ Abort(j) PROVE call'[k] = call[k]
  BY <1>4 DEF Write, RecordPost, UpdateLedgerCommentary, MarkPostDeleted, Recording, Abort
<1>5. ~UpdateLedgerCommentary(k) /\ ~MarkPostDeleted(k)
  BY DEF UpdateLedgerCommentary, MarkPostDeleted, Recording
<1>6. CASE Elsewhere \/ UNCHANGED vars
  BY <1>6 DEF Elsewhere, ScopesChange, MemberDeletes, MemberEdits, vars
<1> QED BY <1>1, <1>2, <1>3, <1>4, <1>5, <1>6 DEF Next, Write

LEMMA HeldStep == Shape /\ HeldInv /\ [Next]_vars => HeldInv'
<1> SUFFICES ASSUME Shape, HeldInv, [Next]_vars,
                    NEW p \in Posts, linkedin'[p] # None, linkedin'[p].author \notin Unlucky
             PROVE  \/ ledger'[linkedin'[p].author][p] # None
                    \/ \E k \in Calls : /\ call'[k].pc = "record" /\ call'[k].op = "publish"
                                        /\ call'[k].post = p /\ call'[k].tenant = linkedin'[p].author
  BY DEF HeldInv
<1>1. LinkedInMoves /\ LedgerMoves
  BY Moves
<1>2. CASE linkedin[p] = None
  <2>1. PICK k \in Calls, heard \in BOOLEAN : LinkedInCreates(k, p, heard)
    BY <1>2, PostsAreCreated
  <2>2. call[k].op = "publish" /\ linkedin'[p].author = call[k].tenant
    BY <2>1 DEF LinkedInCreates, Sending, MemberURN, Shape, TypeOK
  <2>3. call' = [call EXCEPT ![k] = AfterAnswer(call[k], p)]
    BY <2>1, <2>2 DEF LinkedInCreates, Answered
  <2> QED BY <2>2, <2>3 DEF AfterAnswer, Local, Shape, TypeOK
<1>3. CASE linkedin[p] # None
  <2> DEFINE a == linkedin[p].author
  <2>1. a \in Tenants /\ linkedin'[p].author = a
    BY <1>1, <1>3 DEF LinkedInMoves, Shape, TypeOK, Post
  <2>2. CASE ledger[a][p] # None
    <3>1. ledger'[a][p] # None
      BY <1>1, <2>1, <2>2, RowMoves
    <3> QED BY <2>1, <3>1
  <2>3. CASE ledger[a][p] = None
    <3>1. PICK k \in Calls : /\ call[k].pc = "record" /\ call[k].op = "publish"
                             /\ call[k].post = p /\ call[k].tenant = a
      BY <1>3, <2>1, <2>3 DEF HeldInv
    <3>2. call'[k] = call[k] \/ ledger'[a][p] # None
      BY <2>1, <3>1, PublicationIsRecorded
    <3> QED BY <2>1, <3>1, <3>2
  <2> QED BY <2>2, <2>3
<1> QED BY <1>2, <1>3

\* Every post of a member whose calls are not cut is in the ledger, or a call is
\* about to write it there, whatever goes wrong for everybody else.
THEOREM LedgerComplete == Spec => []LedgerHoldsEverything
<1>1. Init => HeldInv
  BY DEF Init, HeldInv
<1>2. HeldInv => LedgerHoldsEverything
  BY DEF HeldInv, LedgerHoldsEverything
<1> QED BY <1>1, <1>2, HeldStep, ShapeHolds, PTL DEF Spec
=============================================================================
