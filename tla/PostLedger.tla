----------------------------- MODULE PostLedger -----------------------------
(***************************************************************************)
(* publish_post, edit_post and delete_post (internal/app/posts.go): each   *)
(* reads the local ledger of posts, calls LinkedIn and then writes the     *)
(* ledger (internal/adapters/sqlite/store.go).  Nothing makes the call and *)
(* the write one step: tool calls of one tenant interleave, an answer of   *)
(* LinkedIn may be lost, and the process may stop between the two.         *)
(*                                                                         *)
(* A call is an element of Calls.  Only confirmed calls are steps: without *)
(* confirm=true the tool answers with a preview and stops before LinkedIn. *)
(* LinkedIn is external: it does what an accepted request asks, checks the *)
(* author of nothing, and members may also work on LinkedIn directly.      *)
(*                                                                         *)
(* A definition X_... next to X is X with a plausible bug; no other        *)
(* definition uses it.                                                     *)
(***************************************************************************)

CONSTANTS
  Tenants,   \* tenant ids, each the only account of one member
  Posts,     \* the post URNs LinkedIn can mint
  Texts,     \* commentaries
  Calls,     \* concurrent tool calls
  Unlucky,   \* the tenants whose calls may lose an answer or be cut, and who
             \* also edit their posts on LinkedIn itself
  None       \* no row, no post, no text

ASSUME PostLedgerAssumption ==
  /\ Unlucky \subseteq Tenants
  /\ None \notin Tenants \cup Posts \cup Texts

VARIABLES
  ledger,    \* posts table: tenant -> URN -> row
  writers,   \* the tenants whose scopes column has w_member_social
  call,      \* locals of each running tool call
  linkedin,  \* external: the posts LinkedIn has, deleted ones marked gone
  said,      \* history: every text a post has had at LinkedIn
  created    \* history: the posts the call in each slot created at LinkedIn

history == <<said, created>>
vars == <<ledger, writers, call, linkedin, history>>

Row  == [text: Texts, deleted: BOOLEAN]
Post == [author: Tenants, text: Texts, gone: BOOLEAN]

\* "read" is before the ledger is read, "send" before LinkedIn is called,
\* "resend" before it is called again, "record" before the ledger is written.
Idle == [pc |-> "idle"]
Publishing == [op: {"publish"}, pc: {"send", "resend", "record"},
               tenant: Tenants, post: Posts \cup {None}, text: Texts]
Changing ==
       [op: {"edit"}, pc: {"read", "send", "resend", "record"},
        tenant: Tenants, post: Posts, text: Texts]
  \cup [op: {"delete"}, pc: {"read", "send", "resend", "record"},
        tenant: Tenants, post: Posts, text: {None}]
Local(op, pc, t, p, x) == [op |-> op, pc |-> pc, tenant |-> t, post |-> p, text |-> x]
At(local, pc) == Local(local.op, pc, local.tenant, local.post, local.text)

ASSUME NoneIsNoRow == None \notin Row \cup Post

TypeOK ==
  /\ ledger \in [Tenants -> [Posts -> Row \cup {None}]]
  /\ writers \subseteq Tenants
  /\ call \in [Calls -> Publishing \cup Changing \cup {Idle}]
  /\ linkedin \in [Posts -> Post \cup {None}]
  /\ said \in [Posts -> SUBSET Texts]
  /\ created \in [Calls -> SUBSET Posts]

Init ==
  /\ ledger = [t \in Tenants |-> [p \in Posts |-> None]]
  /\ writers \in SUBSET Tenants
  /\ call = [k \in Calls |-> Idle]
  /\ linkedin = [p \in Posts |-> None]
  /\ said = [p \in Posts |-> {}]
  /\ created = [k \in Calls |-> {}]

-----------------------------------------------------------------------------
(* A tool call up to LinkedIn.                                             *)

\* tenant and requireScope, then the input checks; the call goes on with the
\* row it read, whatever a sign-in makes of the scopes meanwhile.
Begin(k, local) ==
  /\ call[k] = Idle
  /\ local.tenant \in writers
  /\ call' = [call EXCEPT ![k] = local]
  /\ created' = [created EXCEPT ![k] = {}]
  /\ UNCHANGED <<ledger, writers, linkedin, said>>

PublishPost(k, t, x) ==
  Begin(k, Local("publish", "send", t, None, x))

EditPost(k, t, p, x) ==
  Begin(k, Local("edit", "read", t, p, x))

DeletePost(k, t, p) ==
  Begin(k, Local("delete", "read", t, p, None))

\* SELECT ... WHERE tenant_id = ? AND post_urn = ?
LedgerPost_AnyTenant(t, p) ==
  LET holders == {u \in Tenants : ledger[u][p] # None} IN
  IF holders = {} THEN None ELSE ledger[CHOOSE u \in holders : TRUE][p]
LedgerPost(t, p) == ledger[t][p]

\* An unknown post is refused; a deleted one is refused (edit) or answered as
\* already done (delete).
OwnedPost(k) ==
  /\ call[k].pc = "read"
  /\ LET row == LedgerPost(call[k].tenant, call[k].post) IN
     call' = [call EXCEPT ![k] =
                IF row = None \/ row.deleted THEN Idle ELSE At(@, "send")]
  /\ UNCHANGED <<ledger, writers, linkedin, history>>

-----------------------------------------------------------------------------
(* Client.do: LinkedIn receives the request, and answers or not.           *)

Sending(k, op) == call[k].pc \in {"send", "resend"} /\ call[k].op = op

AfterAnswer_PublishUnrecorded(local, p) ==
  IF local.op = "publish" THEN Idle ELSE At(local, "record")
AfterAnswer(local, p) == Local(local.op, "record", local.tenant, p, local.text)

\* A timeout, a cut connection or a create answered without x-restli-id is an
\* error like another: nothing is sent again.
AfterLoss_Resend(local) == At(local, "resend")
AfterLoss(local) == Idle

Answered(k, p, heard) ==
  /\ heard \/ call[k].tenant \in Unlucky
  /\ call' = [call EXCEPT ![k] = IF heard THEN AfterAnswer(@, p) ELSE AfterLoss(@)]

MemberURN_Empty(t) == None
MemberURN(t) == t

LinkedInCreates(k, p, heard) ==
  /\ Sending(k, "publish")
  /\ linkedin[p] = None
  /\ linkedin' = [linkedin EXCEPT ![p] =
       [author |-> MemberURN(call[k].tenant), text |-> call[k].text, gone |-> FALSE]]
  /\ said' = [said EXCEPT ![p] = @ \cup {call[k].text}]
  /\ created' = [created EXCEPT ![k] = @ \cup {p}]
  /\ Answered(k, p, heard)
  /\ UNCHANGED <<ledger, writers>>

\* A deleted post cannot be edited any more; deleting twice succeeds.
Rewritten(post, x) == [author |-> post.author, text |-> x, gone |-> post.gone]
Removed(post) == [author |-> post.author, text |-> post.text, gone |-> TRUE]

LinkedInEdits(k, heard) ==
  LET p == call[k].post IN
  /\ Sending(k, "edit")
  /\ linkedin[p] # None /\ ~linkedin[p].gone
  /\ linkedin' = [linkedin EXCEPT ![p] = Rewritten(@, call[k].text)]
  /\ said' = [said EXCEPT ![p] = @ \cup {call[k].text}]
  /\ Answered(k, p, heard)
  /\ UNCHANGED <<ledger, writers, created>>

LinkedInDeletes(k, heard) ==
  LET p == call[k].post IN
  /\ Sending(k, "delete")
  /\ linkedin[p] # None
  /\ linkedin' = [linkedin EXCEPT ![p] = Removed(@)]
  /\ Answered(k, p, heard)
  /\ UNCHANGED <<ledger, writers, history>>

\* Any other answer than 2xx or 429, and a request that never arrived.
AfterRefusal_GoneIsFine(local) ==
  IF local.op = "delete" THEN At(local, "record") ELSE Idle
AfterRefusal_EditAnyway(local) ==
  IF local.op = "edit" THEN At(local, "record") ELSE Idle
AfterRefusal(local) == Idle

LinkedInRefuses(k) ==
  /\ call[k].pc \in {"send", "resend"}
  /\ call' = [call EXCEPT ![k] = AfterRefusal(@)]
  /\ UNCHANGED <<ledger, writers, linkedin, history>>

\* A throttled request (429) is sent again once, after the delay.
AfterThrottle(local) == IF local.pc = "send" THEN At(local, "resend") ELSE Idle

LinkedInThrottles(k) ==
  /\ call[k].pc \in {"send", "resend"}
  /\ call' = [call EXCEPT ![k] = AfterThrottle(@)]
  /\ UNCHANGED <<ledger, writers, linkedin, history>>

-----------------------------------------------------------------------------
(* The ledger write that ends a call.                                      *)

\* The row is found by tenant and URN; an UPDATE without a match does nothing.
Recording(k, op, row) ==
  /\ call[k].pc = "record" /\ call[k].op = op
  /\ ledger' = [ledger EXCEPT ![call[k].tenant][call[k].post] = row]
  /\ call' = [call EXCEPT ![k] = Idle]
  /\ UNCHANGED <<writers, linkedin, history>>

Stored(k) == ledger[call[k].tenant][call[k].post]

\* INSERT ... ON CONFLICT DO UPDATE leaves deleted_at alone.
Recorded(row, x) == [text |-> x, deleted |-> IF row = None THEN FALSE ELSE row.deleted]

Edited_Replaced(row, x) == [text |-> x, deleted |-> FALSE]
Edited(row, x) == IF row = None THEN None ELSE [text |-> x, deleted |-> row.deleted]

Struck(row) == IF row = None THEN None ELSE [text |-> row.text, deleted |-> TRUE]

RecordPost(k) == Recording(k, "publish", Recorded(Stored(k), call[k].text))
UpdateLedgerCommentary(k) == Recording(k, "edit", Edited(Stored(k), call[k].text))
MarkPostDeleted(k) == Recording(k, "delete", Struck(Stored(k)))

\* The write fails, the caller hangs up or the process dies.
Abort(k) ==
  /\ call[k] # Idle /\ call[k].tenant \in Unlucky
  /\ call' = [call EXCEPT ![k] = Idle]
  /\ UNCHANGED <<ledger, writers, linkedin, history>>

-----------------------------------------------------------------------------
(* The rest of the world.                                                  *)

\* A sign-in or a reconnection stores the scopes the member granted.
ScopesChange(t) ==
  /\ writers' = IF t \in writers THEN writers \ {t} ELSE writers \cup {t}
  /\ UNCHANGED <<ledger, call, linkedin, history>>

MemberDeletes(p) ==
  /\ linkedin[p] # None
  /\ linkedin' = [linkedin EXCEPT ![p] = Removed(@)]
  /\ UNCHANGED <<ledger, writers, call, history>>

MemberEdits(p, x) ==
  /\ linkedin[p] # None /\ linkedin[p].author \in Unlucky /\ ~linkedin[p].gone
  /\ linkedin' = [linkedin EXCEPT ![p] = Rewritten(@, x)]
  /\ said' = [said EXCEPT ![p] = @ \cup {x}]
  /\ UNCHANGED <<ledger, writers, call, created>>

-----------------------------------------------------------------------------
Start(k) ==
  \E t \in Tenants :
    \/ \E x \in Texts : PublishPost(k, t, x)
    \/ \E p \in Posts, x \in Texts : EditPost(k, t, p, x)
    \/ \E p \in Posts : DeletePost(k, t, p)

LinkedInAnswers(k) ==
  \/ \E p \in Posts, heard \in BOOLEAN : LinkedInCreates(k, p, heard)
  \/ \E heard \in BOOLEAN : LinkedInEdits(k, heard)
  \/ \E heard \in BOOLEAN : LinkedInDeletes(k, heard)
  \/ LinkedInRefuses(k)
  \/ LinkedInThrottles(k)

Write(k) == RecordPost(k) \/ UpdateLedgerCommentary(k) \/ MarkPostDeleted(k)

Elsewhere ==
  \/ \E t \in Tenants : ScopesChange(t)
  \/ \E p \in Posts : MemberDeletes(p)
  \/ \E p \in Posts, x \in Texts : MemberEdits(p, x)

Next ==
  \/ \E k \in Calls : Start(k) \/ OwnedPost(k) \/ LinkedInAnswers(k) \/ Write(k) \/ Abort(k)
  \/ Elsewhere

Spec == Init /\ [][Next]_vars

-----------------------------------------------------------------------------
(* Properties.                                                             *)

\* A member's ledger lists only their own posts, and no call ever reaches
\* LinkedIn about the post of somebody else, although LinkedIn is not trusted
\* to check and the URNs are known to everybody.
OnlyOwnPosts ==
  /\ \A t \in Tenants, p \in Posts :
       ledger[t][p] # None => linkedin[p] # None /\ linkedin[p].author = t
  /\ \A k \in Calls :
       call[k].pc \in {"send", "resend", "record"} /\ call[k].post # None =>
         /\ linkedin[call[k].post] # None
         /\ linkedin[call[k].post].author = call[k].tenant

\* A tombstone is honest: what the ledger marks deleted is gone at LinkedIn,
\* whatever was refused, lost, throttled or interrupted on the way.
TombstonesAreHonest ==
  \A t \in Tenants, p \in Posts :
    ledger[t][p] # None /\ ledger[t][p].deleted => linkedin[p] # None /\ linkedin[p].gone

\* The ledger never invents: the text it shows for a post is one the post has
\* really had at LinkedIn.
LedgerNeverInvents ==
  \A t \in Tenants, p \in Posts : ledger[t][p] # None => ledger[t][p].text \in said[p]

\* A confirmed publish_post creates at most one post, even when LinkedIn
\* throttles it or its answer is lost.
OnePostPerCall == \A k \in Calls : \A p, q \in created[k] : p = q

\* The history stays: no row leaves the ledger and no tombstone is lifted, in
\* particular not by an edit that was racing the deletion.
LedgerOnlyGrows ==
  [][\A t \in Tenants, p \in Posts : ledger[t][p] # None =>
       /\ ledger'[t][p] # None
       /\ ledger[t][p].deleted => ledger'[t][p].deleted]_vars

\* "The server therefore keeps its own ledger of everything it published":
\* a post created by a call that is over is listed, unless calls of its author
\* lose answers or are cut.  What happens to other members does not matter.
LedgerHoldsEverything ==
  \A p \in Posts :
    \/ linkedin[p] = None \/ linkedin[p].author \in Unlucky
    \/ ledger[linkedin[p].author][p] # None
    \/ \E k \in Calls : call[k].pc = "record" /\ call[k].post = p

\* UpdateLedgerCommentary "keeps the ledger in step with an edited post": a
\* listed post nobody is working on has at LinkedIn the text the ledger shows.
LedgerInStep ==
  \A t \in Tenants, p \in Posts :
    ledger[t][p] # None /\ (\A k \in Calls : call[k] # Idle => call[k].post # p)
      => ledger[t][p].text = linkedin[p].text
=============================================================================
