------------------------------ MODULE ToolCalls ------------------------------
(***************************************************************************)
(* The MCP tools and resources (internal/adapters/mcpserver): the post     *)
(* tools and list_posts (internal/app/posts.go), the engagement tools      *)
(* (engagement.go), post_analytics, account_analytics, connection_status   *)
(* (analytics.go) and reconnect_url, from the handler down to Client.do    *)
(* and the answer the client gets.  What the post tools make of the ledger *)
(* is PostLedger's: here they find in it, and leave in it, anything.       *)
(*                                                                         *)
(* A tool call reads the member's row once and goes on with that copy,     *)
(* while a new sign-in replaces the row, and requests are refused,         *)
(* throttled, cut off or carried out unheard.                              *)
(*                                                                         *)
(* LinkedIn is external: it serves a request only under a token with the   *)
(* permission, believes the actor it is told, and may refuse any request,  *)
(* as it does once the token has expired or was withdrawn.                 *)
(*                                                                         *)
(* A definition X_... next to X is X with a plausible bug; no other        *)
(* definition uses it.                                                     *)
(***************************************************************************)
EXTENDS Integers, Sequences, SequencesExt

CONSTANTS
  Tenants,     \* tenant ids, each the account of one member
  Calls,       \* concurrent tool calls
  Objects,     \* URNs of posts and comments
  Asks,        \* what clients ask, see Ask
  Grants,      \* the sets of permissions members grant
  Requested,   \* LINKEDIN_SCOPES
  KnownMetrics, DefaultMetrics, TotalOnlyMetrics,
  Ledgers,     \* what the posts table may hold of a tenant
  DefaultPostLimit, MaxPostLimit,
  LastDay,       \* the days of a period are numbers up to this one
  MaxSignIns,  \* bound: how often each member signs in again
  Malformed,   \* a date that does not parse
  None         \* a blank URN, an absent date, no row

PostTools == {"publish_post", "edit_post", "delete_post"}
Writes == {"publish_comment", "delete_comment", "like", "unlike"}
Reads  == {"post_engagement", "post_comments"}

Scopes ==
  {"w_member_social", "w_member_social_feed", "r_member_social", "r_member_postAnalytics"}

Measures == {"post_analytics", "account_analytics"}

Day  == 1 .. LastDay
Date == Day \cup {None, Malformed}
DefaultPeriod == 28

\* A call with its arguments; text says whether a commentary is not blank.  The
\* wording of a comment and the limit of the comment listing are left out.
Ask ==
       [op: Writes \cup {"delete_post"}, on: Objects \cup {None}, confirm: BOOLEAN]
  \cup [op: {"edit_post"}, on: Objects \cup {None}, text: BOOLEAN, confirm: BOOLEAN]
  \cup [op: {"publish_post"}, text: BOOLEAN, visibility: {None, "PUBLIC", "CONNECTIONS", "?"},
        article: {None, "https", "?"}, reshare: {None, "urn", "?"}, confirm: BOOLEAN]
  \cup [op: Reads, on: Objects \cup {None}]
  \cup [op: {"list_posts"}, limit: Int, includeDeleted: BOOLEAN]
  \cup [op: {"connection_status", "reconnect_url"}]
  \cup [op: Measures, on: Objects \cup {None}, metrics: Seq(STRING), daily: BOOLEAN,
        since: Date, until: Date]

\* The resources linkedin://connection and linkedin://posts.
Resources ==
  {[op |-> "connection_status"], [op |-> "list_posts", limit |-> 0, includeDeleted |-> FALSE]}

\* A row of posts; commentary, visibility and permalink are PostLedger's.
LedgerRow == [urn: Objects, created: Nat, deleted: BOOLEAN]

ASSUME ToolCallsAssumption ==
  /\ Asks \subseteq Ask /\ Resources \subseteq Asks
  /\ Grants \subseteq (SUBSET Scopes) \ {{}}
  /\ Requested \subseteq Scopes
  /\ DefaultMetrics \in Seq(KnownMetrics) /\ TotalOnlyMetrics \subseteq KnownMetrics
  /\ \A table \in Ledgers : table \subseteq LedgerRow /\ IsFiniteSet(table)
  /\ {DefaultPostLimit, MaxPostLimit, LastDay, MaxSignIns} \subseteq Nat
  /\ None \notin Objects /\ None \notin Int

VARIABLES
  rows,     \* tenants table
  marks,    \* external: the comments and reactions LinkedIn has
  call,     \* locals of each running tool call
  effects   \* history: the writes LinkedIn carried out for each running call

vars == <<rows, marks, call, effects>>

Token == [member: Tenants, scopes: Grants, serial: 0 .. MaxSignIns]
Row   == [member: Tenants, token: Token, scopes: SUBSET Scopes]
Mark  == [kind: {"comment", "reaction"}, by: Tenants, on: Objects]

\* Statuses of LinkedIn's answers; 0 is a request without one.
Refusals == {0, 400, 401, 403, 404, 500}

\* What the client reads when a call fails.
Message ==
  {"absent", "scope", "input", "unknown", "reauthorize", "refused", "quota", "not found",
   "unrecorded", "other"}
Answer ==
       [kind: {"preview", "done", "read"}]
  \cup [kind: {"error"}, message: Message]
  \cup [kind: {"listed"}, source: {"linkedin"}]
  \cup [kind: {"listed"}, source: {"ledger"}, posts: Seq(LedgerRow)]
  \cup [kind: {"status"}, healthy: BOOLEAN, granted: SUBSET Scopes, missing: SUBSET Scopes,
        recorded: Nat, deleted: Nat]
  \cup [kind: {"measured"}, dropped: SUBSET Nat]

\* "read" is before the row is read, "ledger" before the posts table is, "send"
\* before LinkedIn is called, "resend" before it is called again, "record"
\* before the ledger is written.
\* posts is what the posts table answered, out of the rows in table; todo, got
\* and rejected are places in the list of metrics.
Idle == [pc |-> "idle"]
Local ==
  [pc: {"read", "ledger", "send", "resend", "record", "done"}, tenant: Tenants, ask: Asks,
   row: Row \cup {None}, todo: SUBSET Nat, got: SUBSET Nat, rejected: SUBSET Nat,
   range: Seq(Int), posts: Seq(LedgerRow), table: Ledgers \cup {{}}, last: Refusals \cup {200, 429}, answer: Answer \cup {None}]

\* Besides the shapes: a request is only under way with a row behind it, and
\* analytics only while there is a metric left to ask for.
TypeOK ==
  /\ rows \in [Tenants -> Row \cup {None}]
  /\ marks \subseteq Mark
  /\ call \in [Calls -> Local \cup {Idle}]
  /\ effects \in [Calls -> Nat]
  /\ \A k \in Calls : call[k].pc \in {"send", "resend", "record"} =>
       /\ call[k].row # None
       /\ call[k].ask.op \in Measures => call[k].todo # {}

FirstToken(t, S) == [member |-> t, scopes |-> S, serial |-> 0]

\* A session may name a tenant that has no row: see SignIn!CodesNameATenant.
Init ==
  /\ \E S \in [Tenants -> Grants \cup {None}] :
       rows = [t \in Tenants |->
                 IF S[t] = None THEN None
                 ELSE [member |-> t, token |-> FirstToken(t, S[t]), scopes |-> S[t]]]
  /\ marks = {}
  /\ call = [k \in Calls |-> Idle]
  /\ effects = [k \in Calls |-> 0]

-----------------------------------------------------------------------------
(* The tool handler, up to the first request.                              *)

Become(k, local) == call' = [call EXCEPT ![k] = local]
Ending(local, answer) == [local EXCEPT !.pc = "done", !.answer = answer]
Failing(local, message) == Ending(local, [kind |-> "error", message |-> message])

Begin(k, t, ask) ==
  /\ call[k] = Idle
  /\ Become(k, [pc |-> "read", tenant |-> t, ask |-> ask, row |-> None, todo |-> {},
                got |-> {}, rejected |-> {}, range |-> <<>>, posts |-> <<>>,
                table |-> {}, last |-> 200, answer |-> None])
  /\ UNCHANGED <<rows, marks, effects>>

\* t is the subject of the verified bearer, never an argument.
ReadTool(k, t, ask) == "confirm" \notin DOMAIN ask /\ Begin(k, t, ask)
WriteTool(k, t, ask) == "confirm" \in DOMAIN ask /\ Begin(k, t, ask)
ReadResource(k, t) == \E ask \in Resources : Begin(k, t, ask)

\* The permissions requireScope wants; list_posts and connection_status do
\* without.
Needs(op) ==
  CASE op \in PostTools                          -> {"w_member_social"}
    [] op \in Writes                             -> {"w_member_social_feed"}
    [] op \in Reads                              -> {"r_member_social"}
    [] op \in Measures                           -> {"r_member_postAnalytics"}
    [] op \in {"list_posts", "connection_status"} -> {}

MetricsOrDefault(requested) == IF requested = <<>> THEN DefaultMetrics ELSE requested

\* LinkedIn has no daily figures of some metrics: they are left out and named.
\* A metric may be asked for twice, so what is meant is its place in the list.
Places(ask) == DOMAIN MetricsOrDefault(ask.metrics)
Dropped(ask) ==
  {i \in Places(ask) : ask.daily /\ MetricsOrDefault(ask.metrics)[i] \in TotalOnlyMetrics}
Kept(ask) == Places(ask) \ Dropped(ask)

\* optionalDay, the order of the bounds, and a start for every end: LinkedIn is
\* only asked for a period that has one.
DatesFit(ask) ==
  /\ Malformed \notin {ask.since, ask.until}
  /\ None \notin {ask.since, ask.until} => ask.since < ask.until

Since_AsAsked(ask) == ask.since
Since(ask) ==
  IF ask.since = None /\ ask.until # None THEN ask.until - DefaultPeriod ELSE ask.since

dateRange(since, until) ==
  IF since = None THEN <<>> ELSE IF until = None THEN <<since>> ELSE <<since, until>>

buildPublishRequest(ask) ==
  /\ ask.visibility # "?"
  /\ ask.text \/ ask.reshare # None
  /\ ask.article # None => ask.article = "https" /\ ask.reshare = None
  /\ ask.reshare # "?"

\* A commentary to edit and an object to act on are wanted; the dates and the
\* metrics have to be ones LinkedIn knows.
ArgumentsFit(ask) ==
  /\ "on" \in DOMAIN ask => ask.on # None
  /\ "text" \in DOMAIN ask => ask.text

WellFormed_EmptyBreakdown(ask) ==
  CASE ask.op \in Measures ->
         ToSet(MetricsOrDefault(ask.metrics)) \subseteq KnownMetrics /\ DatesFit(ask)
    [] ask.op = "publish_post" -> buildPublishRequest(ask)
    [] OTHER -> ArgumentsFit(ask)
WellFormed(ask) ==
  CASE ask.op \in Measures ->
         /\ ToSet(MetricsOrDefault(ask.metrics)) \subseteq KnownMetrics
         /\ Kept(ask) # {}
         /\ DatesFit(ask)
    [] ask.op = "publish_post" -> buildPublishRequest(ask)
    [] OTHER -> ArgumentsFit(ask)

Confirmed_Unasked(ask) == TRUE
Confirmed(ask) == "confirm" \in DOMAIN ask => ask.confirm

\* The tools that preview what the ledger says of the post.
Owned == {"edit_post", "delete_post"}

\* connection_status counts posts first, a post is looked up first; list_posts
\* skips LinkedIn when it may not ask.
LedgerFirst(ask, row) ==
  \/ ask.op \in Owned \cup {"connection_status"}
  \/ ask.op = "list_posts" /\ "r_member_social" \notin row.scopes

\* The checks of the handler come before the row is read.
HandlerAccepts(ask) == ask.op = "post_analytics" => ask.on # None

Admitted(local) ==
  LET ask == local.ask IN
  IF ask.op \in Measures
    THEN [local EXCEPT !.pc = "send", !.todo = Kept(ask),
                       !.range = dateRange(Since(ask), ask.until)]
    ELSE [local EXCEPT !.pc = IF LedgerFirst(ask, local.row) THEN "ledger" ELSE "send"]

\* The early returns, in the order of the code.
Checked(local, row) ==
  LET loaded == [local EXCEPT !.row = row] IN
  IF ~HandlerAccepts(local.ask)               THEN Failing(local, "input")
  ELSE IF row = None                          THEN Failing(local, "absent")
  ELSE IF ~(Needs(local.ask.op) \subseteq row.scopes) THEN Failing(loaded, "scope")
  ELSE IF ~WellFormed(local.ask)              THEN Failing(loaded, "input")
  ELSE IF local.ask.op \notin Owned /\ ~Confirmed(local.ask) THEN Ending(loaded, [kind |-> "preview"])
  ELSE Admitted(loaded)

\* Reading the row fails when the statement does or its tokens do not decrypt.
UseCase(k, ops) ==
  /\ call[k].pc = "read" /\ call[k].ask.op \in ops
  /\ \/ Become(k, Checked(call[k], rows[call[k].tenant]))
     \/ HandlerAccepts(call[k].ask) /\ Become(k, Failing(call[k], "other"))
  /\ UNCHANGED <<rows, marks, effects>>

PublishPost(k)      == UseCase(k, {"publish_post"})
EditPost(k)         == UseCase(k, {"edit_post"})
DeletePost(k)       == UseCase(k, {"delete_post"})
PublishComment(k)   == UseCase(k, {"publish_comment"})
DeleteComment(k)    == UseCase(k, {"delete_comment"})
React(k)            == UseCase(k, {"like", "unlike"})
PostEngagement(k)   == UseCase(k, {"post_engagement"})
PostComments(k)     == UseCase(k, {"post_comments"})
ListPosts(k)        == UseCase(k, {"list_posts"})
Analytics(k)        == UseCase(k, Measures)
ConnectionStatus(k) == UseCase(k, {"connection_status"})

\* No row is looked at: only a login state is parked, see SignIn!ReconnectURL.
ReconnectURL(k) ==
  /\ call[k].pc = "read" /\ call[k].ask.op = "reconnect_url"
  /\ \/ Become(k, Ending(call[k], [kind |-> "read"]))
     \/ Become(k, Failing(call[k], "other"))
  /\ UNCHANGED <<rows, marks, effects>>

\* A post the ledger does not list is refused, and so is editing a deleted one;
\* deleting it again is answered as done.
LookedUp(local, row) ==
  IF row = None \/ (row.deleted /\ local.ask.op = "edit_post") THEN Failing(local, "unknown")
  ELSE IF row.deleted           THEN Ending(local, [kind |-> "done"])
  ELSE IF ~Confirmed(local.ask) THEN Ending(local, [kind |-> "preview"])
  ELSE [local EXCEPT !.pc = "send"]

OwnedPost(k) ==
  /\ call[k].pc = "ledger" /\ call[k].ask.op \in Owned
  /\ \/ \E row \in UNION Ledgers \cup {None} : Become(k, LookedUp(call[k], row))
     \/ Become(k, Failing(call[k], "other"))
  /\ UNCHANGED <<rows, marks, effects>>

\* ORDER BY created_at DESC LIMIT ?: rows of one second come in any order.
Newest(posts, limit) ==
  LET size == IF limit < Cardinality(posts) THEN limit ELSE Cardinality(posts) IN
  {list \in Injection(1 .. size, posts) :
     \A i \in 1 .. size :
       /\ \A j \in i .. size : list[i].created >= list[j].created
       /\ \A p \in posts \ Range(list) : list[i].created >= p.created}

\* WHERE comes before LIMIT.
LedgerPosts_LimitFirst(table, includeDeleted, limit) ==
  {SelectSeq(list, LAMBDA p : includeDeleted \/ ~p.deleted) : list \in Newest(table, limit)}
LedgerPosts(table, includeDeleted, limit) ==
  Newest({p \in table : includeDeleted \/ ~p.deleted}, limit)

clampLimit(limit) ==
  IF limit <= 0 THEN DefaultPostLimit
  ELSE IF limit > MaxPostLimit THEN MaxPostLimit ELSE limit

Listed(local, table, posts) ==
  [Ending(local, [kind |-> "listed", source |-> "ledger", posts |-> posts])
    EXCEPT !.posts = posts, !.table = table]

\* list_posts ends with the rows, connection_status goes on to count them.  The
\* table may be any the post tools left; any SELECT on it may fail.
ReadLedger(k) ==
  /\ call[k].pc = "ledger"
  /\ \/ /\ call[k].ask.op = "list_posts"
        /\ \E table \in Ledgers :
           \E posts \in LedgerPosts(table, call[k].ask.includeDeleted, clampLimit(call[k].ask.limit)) :
             Become(k, Listed(call[k], table, posts))
     \/ /\ call[k].ask.op = "connection_status"
        /\ \E table \in Ledgers : \E posts \in LedgerPosts(table, TRUE, MaxPostLimit) :
             Become(k, [call[k] EXCEPT !.pc = "send", !.table = table, !.posts = posts])
     \/ Become(k, Failing(call[k], "other"))
  /\ UNCHANGED <<rows, marks, effects>>

-----------------------------------------------------------------------------
(* Client.do, and what each tool makes of LinkedIn's answer.               *)

Sending(k, ops) == call[k].pc \in {"send", "resend"} /\ call[k].ask.op \in ops

\* What LinkedIn asks of a token before it does anything.
Accepts(local) ==
  /\ local.ask.op \in PostTools => "w_member_social" \in local.row.token.scopes
  /\ local.ask.op \in Writes => "w_member_social_feed" \in local.row.token.scopes
  /\ local.ask.op \in Reads \cup {"list_posts"} => "r_member_social" \in local.row.token.scopes
  /\ local.ask.op \in Measures => "r_member_postAnalytics" \in local.row.token.scopes

Marked(member, ask) ==
  [kind |-> IF ask.op \in {"publish_comment", "delete_comment"} THEN "comment" ELSE "reaction",
   by |-> member, on |-> ask.on]

AfterLoss_Resend(local) == [local EXCEPT !.pc = "resend", !.last = 0]
AfterLoss(local) == [Failing(local, "other") EXCEPT !.last = 0]

\* The post tools write the ledger before they answer.
AfterAnswer(local) ==
  IF local.ask.op \in PostTools THEN [local EXCEPT !.pc = "record"]
  ELSE Ending(local, [kind |-> "done"])

\* heard is false when the answer does not reach the server.
CarriesOut(k, op, marksThen, heard) ==
  /\ Sending(k, {op}) /\ Accepts(call[k])
  /\ marks' = marksThen
  /\ effects' = [effects EXCEPT ![k] = @ + 1]
  /\ Become(k, IF heard THEN AfterAnswer(call[k]) ELSE AfterLoss(call[k]))
  /\ UNCHANGED rows

\* The actor is the member of the row that was read.
Own(k) == Marked(call[k].row.member, call[k].ask)

LinkedInCreates(k, heard) == CarriesOut(k, "publish_post", marks, heard)
LinkedInEdits(k, heard)   == CarriesOut(k, "edit_post", marks, heard)
LinkedInDeletes(k, heard) == CarriesOut(k, "delete_post", marks, heard)
LinkedInComments(k, heard) == CarriesOut(k, "publish_comment", marks \cup {Own(k)}, heard)
LinkedInUncomments(k, heard) ==
  CarriesOut(k, "delete_comment", marks \ {Own(k)}, heard) /\ Own(k) \in marks
LinkedInLikes(k, heard)   == CarriesOut(k, "like", marks \cup {Own(k)}, heard)
LinkedInUnlikes(k, heard) == CarriesOut(k, "unlike", marks \ {Own(k)}, heard) /\ Own(k) \in marks

Reports(k, op, answer) ==
  /\ Sending(k, {op}) /\ Accepts(call[k])
  /\ Become(k, [Ending(call[k], answer) EXCEPT !.last = 200])
  /\ UNCHANGED <<rows, marks, effects>>

SocialCounts(k)      == Reports(k, "post_engagement", [kind |-> "read"])
Comments(k)          == Reports(k, "post_comments", [kind |-> "read"])
FindPostsByAuthor(k) == Reports(k, "list_posts", [kind |-> "listed", source |-> "linkedin"])

\* One request per metric, in their order; the last one ends the call.
Current(local) == Min(local.todo)
NextMetric(local) ==
  LET left == local.todo \ {Current(local)} IN
  IF left # {} THEN [local EXCEPT !.pc = "send", !.todo = left]
  ELSE Ending([local EXCEPT !.todo = left],
              [kind |-> "measured", dropped |-> Dropped(local.ask)])

Measured(local) == NextMetric([local EXCEPT !.got = @ \cup {Current(local)}, !.last = 200])
Rejected_Silently(local) == NextMetric(local)
Rejected(local) == NextMetric([local EXCEPT !.rejected = @ \cup {Current(local)}])

OneMetric(k) ==
  /\ Sending(k, Measures) /\ Accepts(call[k])
  /\ Become(k, Measured(call[k]))
  /\ UNCHANGED <<rows, marks, effects>>

IsAuth_Expired(status) == status = 401
IsAuth(status) == status \in {401, 403}

\* toolError and UserMessage.
UserMessage(status) ==
  CASE status = 401 -> "reauthorize"
    [] status = 403 -> "refused"
    [] status = 429 -> "quota"
    [] status = 404 -> "not found"
    [] status \in {0, 400, 500} -> "other"

\* A post without comments or reactions is a 404, a metric that does not exist
\* a 400, a list that may not be read a 401 or 403: none of them is an error.
LinkedInRefuses(k, status) ==
  LET op == call[k].ask.op
      local == [call[k] EXCEPT !.last = status]
  IN
  /\ Sending(k, PostTools \cup Writes \cup Reads \cup Measures \cup {"list_posts"})
  /\ \/ op \in Reads /\ status = 404 /\ Become(k, Ending(local, [kind |-> "read"]))
     \/ op = "list_posts" /\ IsAuth(status) /\ Become(k, [local EXCEPT !.pc = "ledger"])
     \/ op \in Measures /\ status = 400 /\ Become(k, Rejected(local))
     \/ /\ ~(op \in Reads /\ status = 404)
        /\ ~(op = "list_posts" /\ IsAuth(status))
        /\ ~(op \in Measures /\ status = 400)
        /\ Become(k, Failing(local, UserMessage(status)))
  /\ UNCHANGED <<rows, marks, effects>>

\* The request is sent again once, after the delay; then the tool fails.
AfterThrottle_Again(local) == [local EXCEPT !.pc = IF @ = "send" THEN "resend" ELSE "send"]
AfterThrottle(local) ==
  IF local.pc = "send" THEN [local EXCEPT !.pc = "resend", !.last = 429]
  ELSE [Failing(local, UserMessage(429)) EXCEPT !.last = 429]

LinkedInThrottles(k) ==
  /\ Sending(k, PostTools \cup Writes \cup Reads \cup Measures \cup {"list_posts"})
  /\ Become(k, AfterThrottle(call[k]))
  /\ UNCHANGED <<rows, marks, effects>>

\* The ledger is written; if that fails the tool fails although LinkedIn did
\* what was asked, and says so ("publication réussie mais ...").
AfterWriteFails_Hidden(local) == Failing(local, "other")
AfterWriteFails(local) == Failing(local, "unrecorded")

WriteLedger(k) ==
  /\ call[k].pc = "record"
  /\ \/ Become(k, Ending(call[k], [kind |-> "done"]))
     \/ Become(k, AfterWriteFails(call[k]))
  /\ UNCHANGED <<rows, marks, effects>>

-----------------------------------------------------------------------------
(* connection_status.                                                      *)

\* The link that an answer which is not healthy carries is SignIn!ReconnectURL.

\* LinkedIn's list of permissions when its answer has one, the stored one
\* otherwise.
GrantedScopes_AnswerOnly(row, answered) == answered
GrantedScopes(row, answered) == IF answered # {} THEN answered ELSE row.scopes

MissingScopes(granted) == IF granted = {} THEN {} ELSE Requested \ granted

countLive_All(posts) == Len(posts)
countLive(posts) == Cardinality({i \in DOMAIN posts : ~posts[i].deleted})

StatusOf(local, active, answered) ==
  LET granted == GrantedScopes(local.row, answered) IN
  [kind |-> "status", granted |-> granted, missing |-> MissingScopes(granted),
   healthy |-> active /\ MissingScopes(granted) = {},
   recorded |-> countLive(local.posts),
   deleted |-> Len(local.posts) - countLive(local.posts)]

\* LinkedIn may leave the permissions out.
IntrospectToken(k) ==
  /\ Sending(k, {"connection_status"})
  /\ \E active \in BOOLEAN, answered \in {{}, call[k].row.token.scopes} :
       Become(k, Ending(call[k], StatusOf(call[k], active, answered)))
  /\ UNCHANGED <<rows, marks, effects>>

\* A form posted to the OAuth host is never sent again, and no answer, of
\* whatever kind, counts as an inactive token.
IntrospectFails(k) ==
  /\ Sending(k, {"connection_status"})
  /\ Become(k, Ending(call[k], StatusOf(call[k], FALSE, {})))
  /\ UNCHANGED <<rows, marks, effects>>

-----------------------------------------------------------------------------
(* The rest of the world.                                                  *)

\* The answer reaches the client; or the client hangs up or the process stops.
Return(k) ==
  /\ call[k].pc = "done"
  /\ Become(k, Idle)
  /\ effects' = [effects EXCEPT ![k] = 0]
  /\ UNCHANGED <<rows, marks>>

Abort(k) ==
  /\ call[k].pc \in {"read", "ledger", "send", "resend", "record"}
  /\ Become(k, Idle)
  /\ effects' = [effects EXCEPT ![k] = 0]
  /\ UNCHANGED <<rows, marks>>

\* A new sign-in replaces token and scopes together; LinkedIn may leave the
\* scopes out of its answer, and then none are stored.
SignsInAgain(t, S, told) ==
  LET serial == rows[t].token.serial + 1
      token == [member |-> t, scopes |-> S, serial |-> serial]
  IN
  /\ rows[t] # None /\ serial <= MaxSignIns
  /\ rows' = [rows EXCEPT ![t] =
       [member |-> t, token |-> token, scopes |-> IF told THEN S ELSE {}]]
  /\ UNCHANGED <<marks, call, effects>>

-----------------------------------------------------------------------------
Runs(k) ==
  \/ PublishPost(k) \/ EditPost(k) \/ DeletePost(k) \/ ReconnectURL(k)
  \/ OwnedPost(k) \/ WriteLedger(k)
  \/ PublishComment(k) \/ DeleteComment(k) \/ React(k)
  \/ PostEngagement(k) \/ PostComments(k) \/ ListPosts(k)
  \/ Analytics(k) \/ ConnectionStatus(k)
  \/ ReadLedger(k)

LinkedInAnswers(k) ==
  \/ \E heard \in BOOLEAN :
       \/ LinkedInCreates(k, heard) \/ LinkedInEdits(k, heard) \/ LinkedInDeletes(k, heard)
       \/ LinkedInComments(k, heard) \/ LinkedInUncomments(k, heard)
       \/ LinkedInLikes(k, heard) \/ LinkedInUnlikes(k, heard)
  \/ SocialCounts(k) \/ Comments(k) \/ FindPostsByAuthor(k) \/ OneMetric(k)
  \/ IntrospectToken(k) \/ IntrospectFails(k)
  \/ \E status \in Refusals : LinkedInRefuses(k, status)
  \/ LinkedInThrottles(k)

Next ==
  \/ \E k \in Calls :
       \/ \E t \in Tenants, ask \in Asks : ReadTool(k, t, ask) \/ WriteTool(k, t, ask)
       \/ \E t \in Tenants : ReadResource(k, t)
       \/ Runs(k) \/ LinkedInAnswers(k) \/ Return(k) \/ Abort(k)
  \/ \E t \in Tenants, S \in Grants, told \in BOOLEAN : SignsInAgain(t, S, told)

Spec == Init /\ [][Next]_vars

\* A call runs in a goroutine of its own, every request to LinkedIn has a
\* timeout, and a statement waits only for statements.
Fairness ==
  \A k \in Calls :
    WF_vars(Runs(k)) /\ WF_vars(LinkedInAnswers(k)) /\ WF_vars(Return(k))

FairSpec == Spec /\ Fairness

-----------------------------------------------------------------------------
(* Properties.                                                             *)

\* Nothing changes at LinkedIn unless a call of that very member confirmed it,
\* on that object, under a token of their own: a preview never publishes, edits
\* or deletes, and a comment or reaction is the one that was asked for.
NothingUnasked ==
  [][/\ \A k \in Calls : effects'[k] > effects[k] =>
          call[k].ask.confirm /\ call[k].row.token.member = call[k].tenant
     /\ \A m \in (marks \ marks') \cup (marks' \ marks) :
          \E k \in Calls :
            effects'[k] > effects[k] /\ m = Marked(call[k].tenant, call[k].ask)]_vars

\* A call changes LinkedIn at most once, also when it is throttled or its
\* answer is lost: publish_comment never comments twice.
OneEffectPerCall == \A k \in Calls : effects[k] <= 1

\* What a write tool answers is what happened: a refusal, for whatever reason
\* it names, and a preview come from a call that changed nothing, also when it
\* was throttled and sent again; "done" from one that did, or that found the
\* post deleted already; "unrecorded" from one that did and has left no trace in
\* the ledger, where a client that took it for a refusal would publish twice.
\* Only an error of another kind leaves it open, and when something was done it
\* is LinkedIn's own answer that was lost.
AnswersAreTrue ==
  \A k \in Calls :
    LET answer == call[k].answer IN
    call[k].pc = "done" =>
      /\ answer.kind = "preview" => effects[k] = 0
      /\ answer.kind = "error" =>
           /\ answer.message \notin {"other", "unrecorded"} => effects[k] = 0
           /\ answer.message = "unrecorded" => effects[k] = 1
           /\ answer.message = "other" /\ effects[k] = 1 => call[k].last = 0
      /\ answer.kind = "done" /\ call[k].ask.op # "delete_post" => effects[k] = 1

\* An answer of the analytics tools accounts for every metric that was asked
\* for, as often as it was asked: each is either read, or rejected by LinkedIn,
\* or named as missing from the daily figures, whatever was throttled or
\* refused on the way.
EveryMetricAccounted ==
  \A k \in Calls :
    call[k].pc = "done" /\ call[k].answer.kind = "measured" =>
      LET read == call[k].got
          rejected == call[k].rejected
          dropped == call[k].answer.dropped
      IN
      /\ read \cup rejected \cup dropped = DOMAIN MetricsOrDefault(call[k].ask.metrics)
      /\ read \cap rejected = {} /\ (read \cup rejected) \cap dropped = {}

\* connection_status "says what the account may do": as long as the row it
\* read is the one stored, the permissions it reports are those the tools go
\* by, and healthy means that none of the requested ones is refused.  A
\* sign-in whose scopes LinkedIn left out is the exception.
StatusMatchesTools ==
  \A k \in Calls :
    LET row == rows[call[k].tenant] IN
    call[k].pc = "done" /\ call[k].answer.kind = "status" /\ row = call[k].row /\ row.scopes # {} =>
        /\ call[k].answer.granted = row.scopes
        /\ call[k].answer.healthy => Requested \subseteq row.scopes

\* list_posts does without r_member_social: it is refused neither when the row
\* lacks it nor when LinkedIn says so (403), and answers from the ledger then.
\* An outage, a throttle or any other failure is never passed off as the
\* ledger's shorter list.  Of an expired token, see ExpiredTokenSaysSo.
ListDegrades ==
  \A k \in Calls :
    call[k].pc = "done" /\ call[k].ask.op = "list_posts" =>
      /\ call[k].answer.kind = "error" => call[k].answer.message \notin {"scope", "refused"}
      /\ call[k].answer.kind = "listed" /\ call[k].answer.source = "ledger" =>
           \/ "r_member_social" \notin call[k].row.scopes
           \/ call[k].last \notin (Refusals \ {401, 403}) \cup {429}

\* "any tool that hits an expired token answers with that same link instead of
\* an opaque 401": a call whose last request LinkedIn answered 401 tells the
\* client to reconnect.
ExpiredTokenSaysSo ==
  \A k \in Calls :
    call[k].pc = "done" /\ call[k].last = 401 =>
      call[k].answer = [kind |-> "error", message |-> "reauthorize"]

\* A list out of the ledger is the newest posts that may be shown: none of them
\* a deleted one unless it was asked for, and a post is only missing when the
\* list is full of newer ones, however many tombstones lie between.
LedgerListIsLatest ==
  \A k \in Calls :
    call[k].pc = "done" /\ call[k].answer.kind = "listed" /\ call[k].answer.source = "ledger" =>
      LET list == call[k].answer.posts
          may == {p \in call[k].table : call[k].ask.includeDeleted \/ ~p.deleted}
      IN
      /\ ToSet(list) \subseteq may
      /\ \A i, j \in DOMAIN list : i < j => list[i].created >= list[j].created
      /\ \A p \in may \ ToSet(list) :
           /\ Len(list) = clampLimit(call[k].ask.limit)
           /\ \A q \in ToSet(list) : q.created >= p.created

\* "Reporting one number for both made connection_status disagree with
\* list_posts": as long as the ledger fits in one page, the two counters are
\* the posts list_posts shows and the tombstones it hides.
CountersMatchList ==
  \A k \in Calls :
    call[k].pc = "done" /\ call[k].answer.kind = "status"
        /\ Cardinality(call[k].table) <= MaxPostLimit =>
      \A shown \in LedgerPosts(call[k].table, FALSE, MaxPostLimit) :
        /\ call[k].answer.recorded = Len(shown)
        /\ call[k].answer.deleted = Cardinality(call[k].table \ ToSet(shown))

\* LinkedIn is asked for the period the client named: its bounds are never
\* dropped, also when only the end is given, and never crossed.
PeriodAsAsked ==
  \A k \in Calls :
    call[k].pc \in {"send", "resend"} /\ call[k].ask.op \in Measures =>
      LET ask == call[k].ask
          range == call[k].range
      IN
      /\ ask.since # None => range # <<>> /\ Head(range) = ask.since
      /\ ask.until # None => range # <<>> /\ Last(range) = ask.until
      /\ Len(range) = 2 => range[1] < range[2]

\* Every call ends, however long LinkedIn keeps throttling.
CallsEnd == \A k \in Calls : call[k] # Idle ~> call[k] = Idle
=============================================================================
