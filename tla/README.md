# Specifications of linkedin-mcp

TLA+ specifications of the stateful parts of `linkedin-mcp`, a multi-tenant MCP server for
LinkedIn: the OAuth authorization server, the LinkedIn sign-in, the LinkedIn tokens and
their renewal, the ledger of posts, the MCP tools and resources, and the process itself, from
its environment and migrations to its shutdown. The modules are model-checked with TLC on
small instances and, where a proof module exists, proved with TLAPS for every value of the
constants. Paths below are relative to the repository.

## 1. The system

| Component | State it keeps | Operations | Interacts with |
|---|---|---|---|
| Authorization server, `internal/adapters/authserver` | `oauth_clients`, `login_states`, `oauth_codes`, `oauth_refresh_tokens`; access tokens are signed JWTs nobody stores | register, authorize, exchange a code, rotate a refresh token, verify an access token | MCP clients; parks a login state for the LinkedIn callback |
| Sign-in callback, `linkedin/handlers.go`, `app/login.go` | `tenants` (one row per LinkedIn member) | consume the state, exchange the LinkedIn code, identify the member, upsert the tenant, issue an authorization code | LinkedIn OAuth, the authorization server (`IssueAuthCode`) |
| Token renewal, `app/login.go`, `tokenLoop` in `cmd/linkedin-mcp/main.go` | token columns of `tenants` | list due tenants, renew each, report | LinkedIn OAuth, operator's log; writes the same rows as the sign-in |
| Purge, `purgeLoop`, `sqlite/store.go` | the three expiring tables | three `DELETE`s per round | the authorization server |
| Post tools, `app/posts.go` | ledger: table `posts` | publish, edit, delete (with `confirm`), list | LinkedIn REST, ledger |
| LinkedIn REST client, `linkedin/client.go`, `content.go` | none | one request, sent again once after a 429 | LinkedIn |
| Engagement, analytics, status, `app/engagement.go`, `analytics.go` | none | one scope check and a LinkedIn request | LinkedIn, ledger (counts) |
| MCP surface, `mcpserver` | none | bearer token to tenant id, arguments to service calls | authorization server, service |
| Store and cipher, `sqlite`, `crypto` | one SQLite file, one connection; tokens sealed with AES-GCM | statements, transactions | everything above |
| Migrations, `sqlite/db.go`, `migrations` | `schema_migrations` and the schema | apply what is not recorded, one transaction each | every process that starts on the file |
| Process, `cmd/linkedin-mcp/main.go` | none; the listener, two loops, calls in flight | start, serve, drain for ten seconds, end | all components |
| Configuration, `config` | none | one reading of the environment, with defaults and refusals | gives every component its URL and keys |
| Router, relay, metadata documents, `httpserver`, `authserver/metadata.go` | none | one handler per method and path; addresses handed to clients | MCP clients, browsers |
| Pages, prompts | none | | |

What makes the behaviour hard:

- **Interleaving.** Every request has its own goroutine. `db.SetMaxOpenConns(1)` makes one
  SQL statement atomic and nothing more: handlers interleave between their statements, and
  between a statement and a call to LinkedIn. Purge and renewal run beside them.
- **Two stores without a transaction.** A post lives at LinkedIn and in the ledger; a token
  lives at LinkedIn and in `tenants`. The answer in between can be lost, and the process can
  stop.
- **Single-use secrets.** States, codes and refresh tokens are spent by the statement that
  reads them, so a failure afterwards loses the session; it must not duplicate one.
- **Time.** Five deadlines, compared as whole seconds against clock readings taken before
  the statement runs; a sweep with a window, a recheck interval and a ticker.
- **Identity.** The tenant id in a JWT scopes everything a request can see.
- **Restarts.** Two processes may start on one file, either may die in the middle of a
  migration, and a power loss takes the file back to an earlier commit (`journal_mode = WAL`,
  `synchronous = NORMAL`), while clients keep the tokens and addresses they were given.

What makes each component correct:

- *Authorization server*: one live credential per sign-in; tokens stay with the client and
  the PKCE challenge of the request that opened the sign-in; redirects only to registered
  URIs; a refresh token row is revoked once and dropped only when expired.
- *Sign-in*: what a session names is the tenant of the member who signed in; tenant ids do
  not change; codes name a stored tenant.
- *Renewal*: a renewable token does not run out; one that is not renewable is reported in
  time; rows are never a mixture of two consents; reconnecting wins over renewing.
- *Purge*: expired rows go, live rows stay.
- *Post tools and ledger*: only one's own posts are touched; tombstones are true; nothing is
  invented; one post per confirmed call; what was published is listed, with its text.
- *All tools*: nothing changes at LinkedIn that the member did not confirm; one effect per
  call; what a tool answers is what happened; every metric asked for is accounted for, over
  the period asked for; the status agrees with what the tools do; the listing needs no
  permission, never passes a failure off as the ledger's list, and shows the newest posts; an
  expired token is answered with the way to reconnect.
- *Process and migrations*: a migration is recorded if and only if it is applied, once; a
  process serves on the full schema; everybody comes up.
- *Configuration and router*: a token survives a restart under the same URL and key, however
  they are spelled; every address handed out is answered by the handler it is meant for, as long as the URL is an origin.

## 2. The modules

| Module | Models | Status |
|---|---|---|
| `Sessions` | abstract: a sign-in has one key at a time, each key used once | complete |
| `SignIn` | authorization server, callback, OAuth tables, purge; implements `Sessions` | complete |
| `SignInProofs`, `SignInRefinement` | theorems about `SignIn` | every safety property |
| `PowerLoss` | `SignIn` on a machine whose newest commits a power loss undoes | complete |
| `PowerLossProofs` | theorems about `PowerLoss` | every property of its run |
| `PostLedger` | publish, edit and delete between LinkedIn and the ledger | complete |
| `PostLedgerProofs` | theorems about `PostLedger` | every property that holds |
| `TenantTokens` | token columns: sign-ins, renewal sweep, restarts, cipher key, clock | complete |
| `TenantTokensProofs` | theorems about `TenantTokens` | every property that holds |
| `ToolCalls` | every tool and resource, from the handler to the client's retry and the answer | complete |
| `ToolCallsProofs`, `ToolListsProofs` | theorems about `ToolCalls`: what a call does and answers, and what its lists hold | every safety property |
| `Configuration` | `config.Load`: which environments start the server, and what it makes of them | complete |
| `Router` | the routes and the addresses handed out, as functions of the configuration | complete |
| `Lifecycle` | processes on one database file: start, migrations, requests, shutdown, restarts | complete |
| `LifecycleProofs` | theorems about `Lifecycle` | every safety property that holds |
| `MCSignIn`, `MCPowerLoss`, `MCPostLedger`, `MCTenantTokens`, `MCToolCalls`, `MCLifecycle` | symmetry sets and inputs for TLC | |

`PowerLoss` extends `SignIn` and `Lifecycle` extends `Router`, which extends `Configuration`.
`ToolCalls` leaves the contents of the ledger to `PostLedger`, and parking a login state to
`SignIn`.

Every proof module extends the module it is about, or an earlier proof module about it;
`PowerLossProofs` also takes a second instance of `SignInProofs` for the tables on the disk.

Planned: `Publications`, an abstract account of a member's posts, implemented by `PostLedger`,
with its refinement proof.

### SignIn

State: the five tables as functions from key to row or `None`; `accessTokens`, the JWT
answered with each refresh token; `callback[k]` and `grant[g]`, the locals of requests in
flight; `purge`; the clock `now`; `drawn`, the secrets used; `lineage`, a history variable
that remembers which code, request and member a credential comes from.

| Action | Code |
|---|---|
| `RegisterClient`, `Authorize`, `ReconnectURL` | `RegisterHandler`, `AuthorizeHandler`, `Service.ReconnectURL` |
| `ConsumeState`, `LookupTenant`, `UpsertTenant`, `IssueAuthCode`, `AbortCallback` | `CallbackHandler` and `Complete`, cut at each statement |
| `ConsumeAuthCode`, `RotateRefreshToken`, `IssueTokens`, `AbortGrant` | `grantAuthorizationCode`, `grantRefreshToken`, `issueTokens` |
| `PurgeStart`, `PurgeCodes`, `PurgeStates`, `PurgeTokens`, `PurgeFail` | `PurgeExpired`, cut at each statement |

`RotateRefreshToken` takes a clock reading that may be older than the statement. A secret is
an element nobody drew before (32 random bytes). `SHA-256` is a constructor, `S256`. Requests
refused before they reach the store are no steps.

### PowerLoss

`SignIn` with `disk`, the tables as a power loss would leave them. `Checkpoint` writes the log
to the disk; `Lose` puts `disk` back, ends every request and the purge, and leaves clients
with what they hold: spent and unspent secrets and their access tokens. It is what makes
`OneLiveCredentialPerSignIn` interesting here: a code or refresh token that was spent comes
back, and never beside the token it was exchanged for. `RefreshRowsOnlyAge`, `TenantIdStable`
and `ImplementsSessions` are about steps and are not true of the step `Lose`.

### PostLedger

State: `ledger`, `writers` (tenants that granted `w_member_social`), `call[k]` with the pc and
arguments of each running tool call, `linkedin`, and two history variables, `said` and
`created`. A call reads the ledger (`OwnedPost`), sends (`LinkedInCreates`, `-Edits`,
`-Deletes`, `-Refuses`, `-Throttles`) and records (`RecordPost`, `UpdateLedgerCommentary`,
`MarkPostDeleted`). Only confirmed calls are steps; a preview changes nothing. LinkedIn is
external: it carries out what it accepts and checks no author, so isolation does not rest on
it. `Unlucky` are the tenants whose answers may be lost, whose calls may be cut and whose
ledger writes may fail, and who also edit their posts on LinkedIn itself: what is claimed of
the others holds next to them.

### TenantTokens

State: `tenants`, each row sealed under the `key` of the process that wrote it; `login[l]` and
`sweep`, the locals of sign-ins and of the sweep; `server`; the clock; `swept`, when the last
sweep that ended began; `consents`, what members granted at LinkedIn; `warned`, the last
report about each member.

| Action | Code |
|---|---|
| `ExchangeCode`, `LookupTenant`, `UpsertTenant`, `UpsertFails` | `LoginService.Complete` |
| `RefreshExpiringTokens` | the list of due rows, which fails as a whole at an unreadable one |
| `RefreshAccessToken`, `RefreshUnavailable`, `StoreRenewed`, `StoreFails` | `refreshOne` and the loop around it |
| `Report` | the end of `sweep` in `tokenLoop` |
| `Stop`, `Start`, `Tick` | the process, its key, and time |

The clock counts sweep periods. It stands still while a sign-in or one renewal is in flight,
each being bounded by the HTTP client's timeout of 20 seconds against a period of half a day.
`MaxGap` bounds how far apart the starts of two completed sweeps are: it covers a slow sweep
and a server that is down. Without such a bound no server could keep a token alive. LinkedIn
is taken to answer an authorization code with scopes, and may leave scopes and refresh token
out of a renewal.

A server is only started under another key than before when no row is sealed under it: the
old key is lost, and the new one was made to replace it.

### ToolCalls

State: `rows`, the columns of `tenants` a tool reads; `call[k]`, the locals of each running
call with the row it read, up to the answer the client gets; `marks`, the comments and
reactions LinkedIn has; and the history variable `effects`, how often LinkedIn carried out
a write of the call. A token carries what LinkedIn knows of it: its member and permissions.

| Action | Code |
|---|---|
| `ReadTool`, `WriteTool`, `ReadResource` | the handlers of `tools_read.go`, `tools_write.go` and `resources.go`, tenant id from the bearer |
| `PublishPost`, `EditPost`, `DeletePost`, `PublishComment`, `DeleteComment`, `React`, `PostEngagement`, `PostComments`, `ListPosts`, `Analytics`, `ConnectionStatus` | the use case up to its first request: row, permission, input, `confirm` |
| `ReconnectURL` | the one tool that reads no row |
| `OwnedPost`, `ReadLedger`, `WriteLedger` | the statements on `posts`: look a post up, list or count, write down what was done |
| `LinkedInCreates`, `-Edits`, `-Deletes`, `-Comments`, `-Uncomments`, `-Likes`, `-Unlikes`, `SocialCounts`, `Comments`, `FindPostsByAuthor`, `OneMetric` | the client's operations when LinkedIn carries them out |
| `LinkedInRefuses`, `LinkedInThrottles` | any other answer, and the single retry of `Client.do` |
| `IntrospectToken`, `IntrospectFails` | introspection, which is never sent again |
| `Return`, `Abort`, `SignsInAgain` | the end of a call, and a row replaced under it |

LinkedIn may refuse any request, as it does when a token has expired, so expiry needs no
clock here. It trusts the actor it is told, so that `NothingUnasked` rests on this server.
What the ledger holds is any member of `Ledgers`: how it comes about is `PostLedger`'s. Any
statement may fail. `Newest` is the set of lists `ORDER BY created_at DESC LIMIT ?` may answer
with, since rows of one second come in any order. A metric may be asked for twice, so an
analytics call keeps the places of its metrics in the list that was asked for.

Errors are told apart as far as a client reads something different: `"unrecorded"` is
"publication réussie mais son enregistrement local a échoué" and its likes, and `"other"`
every message that leaves open what LinkedIn did.

### Configuration and Router

Functions, no state. `Accepted` is the checks of `Load`; `Load` is what the other modules
need of the result: the URL without its trailing slashes, the keys decoded from any of four
base64 alphabets, the port of the relay. Capitals in scheme or host, and a path, stay in a
URL as they stay in the code: two URLs that differ by them are two issuers, and `Load` takes
both. `Mounts` is the route table, `Answers` what
`net/http` makes of it (a `GET` pattern answers `HEAD`, no method answers another one, a
double slash is redirected, a base with a path is not found), `HandedOut` every address a client is told: by the 401 of
`/mcp`, the two metadata documents, the sign-in links, the redirect URI and the icon.
`DiscoveryLeadsHome` is about a `PUBLIC_URL` without a path, an origin as README line 182 says;
`TokensSurviveRestarts` about URLs that differ by trailing slashes and keys that differ by
their alphabet.

### Lifecycle

State: `file` and `disk`, the migrations recorded and applied, as committed and as a power
loss leaves them; `writer`, who holds the write lock; `server[p]`, a process with its
environment, its build and how far it is; `call[k]`, a tool call with the time left of its
wait; `bearer`, an access token that outlives the process that signed it.

| Action | Code |
|---|---|
| `Launch` | `run` up to `sqlite.New`; an environment `Load` refuses is no step |
| `MigrationApplied`, `BeginMigration`, `ApplyMigration`, `RecordMigration`, `CommitMigration`, `MigrationBusy` | `migrate` and `applyMigration`, cut at each statement; the lock is waited for or given up |
| `PurgeAtStart`, `PurgeBusy` | the purge before the listener opens, which also wants the lock |
| `Begin`, `LinkedInAnswers`, `LinkedInRefuses`, `LinkedInThrottles`, `Resend`, `Record` | a request with the timers of `Client.do` |
| `MintAccessToken`, `Expires`, `VerifyAccessToken` | `signAccessToken`, `VerifyAccessToken` |
| `Terminate`, `Shutdown`, `StartFails`, `Crash`, `Checkpoint`, `PowerLoss`, `Tick` | the end of a process, and time |

Two processes on one file is not a deployment the repository recommends; it is what replacing
a container or starting the binary twice does for a moment, and where `_txlock=immediate` and
`busy_timeout` matter: inside one process the single connection leaves nobody to wait for.

## 3. The runs

| Run | Instance | Question and answer |
|---|---|---|
| `isolation` | `PowerLoss`: 3 members of which 2 allowed, 2 callbacks, 1 grant, 2 tenant ids, 1 power loss | Types; sessions stay with their member; registered redirects; one live credential, over a power loss too. Holds |
| `rotation` | 2 clients, 2 verifiers, 2 codes, 3 refresh tokens, 2 grants, clock 0..1 | Binding to the request, ageing of rows, stable tenant ids, `SignIn` implements `Sessions`. Holds |
| `purge` | 1 member, 1 callback, 2 states, 2 tenant ids, clock 0..2, fairness | Expired rows go; with one callback at a time codes name a stored tenant. Holds |
| `first_sign_ins` | 1 member, 2 callbacks, 2 tenant ids | Codes name a stored tenant: violated by two first sign-ins |
| `ledger` | 2 tenants, one of them unlucky, 2 posts, 2 texts, 2 calls | Types, own posts, honest tombstones, no invention, one post per call, no row lost; the posts of the lucky one are all listed. Holds |
| `racing_edits` | 1 post, 2 texts, 2 calls | Ledger in step: violated |
| `renewal` | 2 members, one of them unlucky, overlap, clock 1..6 | Types; a row is of one piece; renewable tokens stay alive; dying ones are reported first; sign-ins store what they got. Holds |
| `reconnect_undone` | 1 member, overlap | A row never returns to an older consent: violated |
| `lost_key_sign_in` | 1 member, 2 keys | A sign-in ends with its tokens stored: violated |
| `tools` | 2 members, 1 call at a time, 29 asks, 4 ledgers, 2 sets of permissions, 1 reconnection each, fairness | Types, nothing unasked, one effect per call, true answers, metrics and period, honest status, counters and listing, calls end. Holds |
| `expired_token` | as `tools`, no fairness | A call that hits an expired token says how to reconnect: violated by `list_posts` |
| `server` | 2 processes, 2 builds, 9 environments of which 3 start, 1 call, 2 faults, fairness | Types, migrations all or nothing and once, full schema, tokens and addresses over restarts, everybody comes up. Holds |

Why the bounds are enough. Every race of this code is between two actors on one row, so two
callbacks, grants, calls or processes produce it; a second member, tenant or client is what could be
mixed up with the first, and a third secret is the one a losing racer would obtain. In
`isolation` and `first_sign_ins` `MaxTime = 0`, as no property of theirs involves a
deadline; in `rotation` one tick separates live from expired rows (all TTLs 1), including a
clock reading that is one tick old. In the token runs `Window = 3`, `Recheck = 1`,
`Lifetime = 4`, `MaxGap = 2` keep the order of the real values (14, 7 and 60 days, sweeps
half a day apart) and what the argument needs: `MaxGap < Window` and
`Recheck + MaxGap < Lifetime`. The clock then covers a token's life and its renewal.
`MaxGrants = 2` is one reconnection. In the token runs the
system may stop when the clock has reached its bound and no consent is left, which is why
they say `CHECK_DEADLOCK FALSE`; all other runs check for deadlock.

In `PowerLoss` one loss is enough: after it the tables are those of an earlier state of the
same kind, and a second one starts from there. In `server` the faults (a failure, a signal, a
crash, a power loss) are two together: one to interrupt a start and one to interrupt the
next or the other process. `Grace = 1`, `Timeout = 2` and `MaxWait = 1` keep the order of the
real values (10 s, and 20 s per request), so that a call may end within the grace or be cut
by it, and waits out a `Retry-After` in between. The second migration of the newer build is one
that could run twice, unlike the first. Two of the good environments spell one URL and one
key differently, and one has a relay port; the third means another URL, with capitals and a
path; each of the others breaks one check of `Load`.

In `tools` calls share nothing inside the process: they meet in the rows and at LinkedIn.
One call slot next to sign-ins that replace rows, and a LinkedIn that may refuse any request
for what another call did before, give each call everything a second one could do to it, and
the two members take turns in the slot. The asks cover every tool, previews, blank and
contradictory input, dates that are absent, malformed or crossed, an unknown metric, a
repeated one, a breakdown that leaves out one metric and one that leaves out all. With
`MaxPostLimit = 3` the ledgers are empty, shorter than a page, a page, and longer, with posts
that were created in one second.

Fairness. `ExpiredRowsGo` assumes a ticker that keeps firing (`WF` of `PurgeStart`) and
statements that do not fail every time they are reached (`SF`): `PurgeFail` may otherwise
win for ever. `CallsEnd` assumes that a running goroutine proceeds and that LinkedIn answers
or its client times out (`WF` of reading, answering and writing); it assumes nothing about
what the answer is, throttling included. `EverybodyComesUp` assumes that whoever runs the
server starts it again when it has ended, as a container platform does (the repository comes
with a `Dockerfile` and a `captain-definition`), that a starting process proceeds, a shutdown ends and time passes; faults are finitely many by
their bound.

### Findings

1. `first_sign_ins` - `Complete` (`internal/app/login.go:92`) returns the id it drew even when
   `ON CONFLICT(member_id)` kept another. Two overlapping first sign-ins of one member leave
   the second client with tokens for a tenant that does not exist, for the 30 days of the
   refresh chain and beyond, as rotation never looks at the tenant.
2. `racing_edits` - two edits of a post reach LinkedIn in one order and the ledger in the
   other; `UpdateLedgerCommentary` "keeps the ledger in step" only one call at a time.
3. `reconnect_undone` - `refreshOne` (`internal/app/login.go:190`) stores the whole row it listed
   earlier; a reconnection in between is undone, scopes included.
4. `lost_key_sign_in` - after a change of `TOKEN_CIPHER_KEY` the stored row cannot be opened,
   and the sign-in that should repair it fails at `TenantByMemberID`.
5. `expired_token` - README lines 358-359 say that any tool that hits an expired token
   answers with the reconnection link. `list_posts` treats the 401 as it treats the missing
   permission (`internal/app/posts.go:302`, `IsAuth`) and answers from the ledger, with the
   notice that the permission is missing.

Seen while modelling, without a run of their own:

- The router mounts the OAuth endpoints with `GET` and `POST` patterns
  (`internal/adapters/httpserver/router.go:60`), so an `OPTIONS` request is answered 405 and
  never reaches the branch that each handler has for it: `PreflightsUnrouted` in
  `LifecycleProofs` proves it for every configuration. `authserver/server.go:136-137` says
  `allowCORS` opens these endpoints to browser based clients that fetch them cross-origin;
  a browser sends `OPTIONS` before it posts JSON to `/oauth/register`.
- After a change of `TOKEN_CIPHER_KEY` one due row of the old key makes the whole list of
  `TenantsDueForTokenRefresh` fail (`sqlite/store.go:183`), and nobody's token is renewed any
  more, a member's who has signed in since included. `NobodyDropsOff` is violated by it: give
  the run `lost_key_sign_in` a second member and that invariant. The theorem has the
  hypothesis that the key is kept.
- A publication whose answer is lost never enters the ledger, and `edit_post` and
  `delete_post` then refuse it: `LedgerHoldsEverything` excepts the tenants in `Unlucky`.
- A publication whose ledger write fails is answered as an error, which says that the post is
  out (`AnswersAreTrue`); a client that only sees an error and repeats the call publishes
  twice.
- `recheckInterval` is measured from `updated_at`, which a failed renewal does not move: an
  undated tenant is listed at every sweep, not once in seven days.
- README line 353 says the sweep asks LinkedIn whether each token is still alive. `refreshOne`
  only uses refresh tokens; `IntrospectToken` is called by `connection_status` alone.
- The other tools answer an expired token by naming the tool `reconnect_url`, not with the
  link that README line 358 announces.
- The package comment of `mcpserver/server.go` (lines 4-6) says every post URN is checked
  against the ledger. `publish_comment`, `delete_comment`, `react`, `post_engagement`,
  `post_comments` and `post_analytics` take any URN: `LedgerPost` is read by `edit_post` and
  `delete_post` only.
- An empty list of permissions counts as nothing missing (`analytics.go:227`): if LinkedIn
  leaves the scopes out of the token answer and of the introspection, `connection_status` is
  healthy and every tool refuses. When only the token answer leaves them out, it reports
  permissions the tools do not go by. `StatusMatchesTools` excepts such rows.
- LinkedIn being out of reach makes `connection_status` say that the authorization is no
  longer valid (`analytics.go:198`, `:241`).
- `config.go` (`ScopeWritePosts`, `ScopeWriteFeed`) says `w_member_social` covers comments and
  reactions and that `w_member_social_feed` is not needed for the member's own content; the
  tools require the latter for every comment and reaction.
- The counters of `connection_status` are over the newest 100 rows, tombstones included, and
  stop being totals beyond that; `CountersMatchList` is about a ledger within one page.
- A session that names no stored tenant gets "introuvable" from every tool but
  `reconnect_url`, which reads no row and answers with a link (see finding 1).
- A power loss can bring a spent code or refresh token back. It is then the only credential of
  its sign-in, and a client that already went on to the next one has to sign in again.
- Of two processes that apply the same first migration the loser's start fails, as the table
  is there when its transaction begins; it needs a restart, which succeeds. `busy_timeout` is
  the last pragma applied, so the ones before it do not wait for a lock.
- `Retry-After` has no ceiling, so a throttled call can outlast the ten seconds of a shutdown
  and is cut then.
- `ACCESS_TOKEN_TTL` and `REFRESH_TOKEN_TTL` below one second are accepted, although deadlines
  are whole seconds: such tokens are expired when they are issued.
- `LINKEDIN_API_BASE_URL` is not validated, and `LINKEDIN_API_VERSION` may name a month that
  does not exist; `config.go:1-3` says that a misconfiguration stops the start.
- Scheme and host of `PUBLIC_URL` are not brought to lower case, so a URL that is re-spelled
  that way is another issuer and invalidates the tokens: `TokensSurviveRestarts` does not
  count it as the same URL.
- A `PUBLIC_URL` with a path is accepted, but routes are mounted at the root and the redirect
  of `Authorize` starts with a slash: none of the addresses handed out is answered then
  (`Reaches`).
- `Options.LoginPath` defaults to `/meta/login`, which no route answers. `main.go` always sets
  it; `DiscoveryLeadsHome` fails with the default.

## 4. The proofs

Assumptions are the named `ASSUME`s of the modules: times are naturals, `None` is nothing
else, the kinds of secrets do not overlap. Those that say more, and why they are the code's:
a token lives for some time and the clock's bound lets it start (`Lifetime > 0`,
`MaxClock > 0`); an absent row is no sealed row and an absent date no day (`NoneIsNoRow`,
`ToolCallsAssumption`: Go's `nil` and zero time); a sign-in's consent has at least one
permission, as LinkedIn answers a code with scopes; the posts table has finitely many rows; a variable of the environment is unset or
of the kind that is read (`EnvironmentAssumption`). There is no bound on the sets of clients,
secrets, calls, members, posts, processes, migrations or power losses, and no order among
times but where a theorem has it as a hypothesis. Every inductive invariant below was
model-checked on the instance of a run before it was proved.

- **SignIn, safety.** The properties are not inductive by themselves. `TypeOK` is proved
  first. `DrawnInv` says that every secret in a table or in flight was drawn and that what was
  not drawn has no lineage; it is what makes a new secret new. On it rest `RequestInv` (rows
  and locals agree with the request in their lineage: gives `BoundToTheRequest`), `OneInv`
  (the three kinds of credential of a sign-in exclude each other: gives
  `OneLiveCredentialPerSignIn`) and `OwnerInv`, the invariant behind `Isolation`: there is a
  function from tenant ids to members such that every id that was ever drawn belongs to one
  member, in rows, locals and credentials alike, whether or not that id was stored.
  `RedirectInv` strengthens `OnlyRegisteredRedirects` to parked states, and `PurgeInv`
  (a purge's clock reading lies in the past) gives `RefreshRowsOnlyAge`. `CodesAreNamed` has
  the hypothesis `LoneCallback`, one callback at a time: then `NamedInv` (the id a callback
  carries is the one its member's row has, or will have) holds, so that callbacks that
  overlap, as in `first_sign_ins`, are the only way for a code to come to name no tenant.
- **SignIn, refinement.** `SignInImplementsSessions`: initial states map to initial states and
  each action to one action of `Sessions` or to a stutter. The mapping reads the phase of a
  sign-in off the tables, so most of the proof shows that a step leaves the sessions it does
  not mention alone.
- **PowerLoss.** `AfterLoss` is the state a loss would leave now: the disk's tables, no
  request under way, and what clients keep. `LossInv` says of both
  states what is proved of `SignIn`, so that `Lose` is immediate and `Checkpoint` a copy. What needs proof is that
  the steps of the server do not spoil the state on the disk, whose tables they leave alone:
  the secrets drawn, their lineage and the access tokens only grow, by new secrets only
  (`DrawnInv` of the disk's tables). The owners of `OwnerInv` have to be the same function for
  both, as `Isolation` of each state by itself would let a member's id be drawn again for
  another (`OwnersInv`, `OwnersGrow`).
- **PostLedger.** `Shape` is a form of `TypeOK` with the arguments of calls by operation.
  `OnlyOwnPosts` is inductive on top of it. `HonestInv` adds to `TombstonesAreHonest` and
  `LedgerNeverInvents` that a call about to write has seen LinkedIn do what it writes.
  `CreatesOnce` ties the pc of a publishing call to the posts it created. `LedgerOnlyGrows`
  follows from how each write builds a row. `LedgerHoldsEverything` accepts any call about to
  write the ledger row of the post; `HeldInv` asks for the publication that created it, since
  an edit would leave no row behind (`LedgerComplete`).
- **TenantTokens.** `PieceInv` carries "of one consent" from rows to the locals of sign-ins
  and sweep and gives `RowIsOfOnePiece`. The two timing theorems have hypotheses. `KeyKept`:
  the operator does not lose the cipher key; the property is false otherwise, see the findings.
  `Timely`: `MaxGap < Window` and `Recheck + MaxGap < Lifetime`, that is half a day and the
  longest outage within the 14 days of the window, and with the 7 days of the recheck within
  the 60 of a token. `TimeInv` is the argument: what the last completed sweep left behind is
  `Settled` (stored since the sweep began, dated beyond its window, or checked within
  `Recheck`), or it can only be reported, and has been; and the sweep under way has each row
  that is not settled still before it or has dealt with it (`Attended`). A settled token
  outlives `MaxGap` by `Timely`, and the next sweep begins within it. What
  `EverybodyIsWarned` adds to it is those who cannot be renewed: the `Unlucky`, whose renewals
  fail, and members without a refresh token.
- **ToolCalls.** `RowsInv`: a row holds its member's own token and the scopes LinkedIn gave
  with it, or none. `CallsInv` follows a call from read to answer: `RowRead` (the row it goes
  on with), `Counted` (LinkedIn has done nothing for it before `"record"`, retries included,
  and once from there on; what an error may say is `Told`), `Decided` (what is sent was confirmed), `Reported`, `Degraded` and `Asked` (what the answer, the fallback and the period
  may be). Most properties only speak of a call that is over, so that they are not inductive. The proof of a step is by the form of the call it leaves behind, not by tool.
  `ListInv` is about the lists and uses `CallsInv`: the metrics that were kept are at each
  request divided into those still to be asked for, read and rejected (`Parted`), a call past
  its checks has sound arguments (`Fitting`, which also makes every comment or reaction one on
  a named object), and what came from the ledger is a list its statement may answer with
  (`Latest`). `EveryMetricAccounted` and `TypeOK` follow from it. What is left is about lists:
  `NewestRows` (an injective list as long as a set is finite covers it, hence nothing newer is
  left out and a short ledger is shown whole) and `LiveCounted` (the live places of a list are
  as many as its live rows) give `LedgerListIsLatest` and `CountersMatchList`.
- **Lifecycle.** `SchemaMatchesRecord` is not inductive: the process that commits a migration
  must not be committing one that is recorded already. `TypeOK` says that the write lock is
  held by exactly the process between `BEGIN` and `COMMIT`; `Sound` that such a process is
  inside its list of migrations, that the one it is about to commit is not recorded (only the
  holder of the lock records), and that all it has passed are (the file never loses a record
  while a process lives). This gives `SchemaInv`, and `ServesOnFullSchema` with it, because a
  process opens its listener only past the end of its list. `TokensSurviveRestarts` and
  `DiscoveryLeadsHome` follow from type correctness and facts about `Load`, `Mounts` and
  `HandedOut` for every accepted environment: two that mean the same load the same, and
  every address handed out by an origin has a route that depends on nothing else.

Only model-checked, and why:

- `ExpiredRowsGo`, `CallsEnd`, `EverybodyComesUp`: liveness under fairness is out of the
  prover's reach.
- What the five runs show violated is of course not proved; `CodesAreNamed` and
  `SignInsRestore` state the conditions under which two of these things do not happen, as
  `NobodyIsDropped` does for the renewals that a changed key would stop.

## 5. Not modelled

- Wording, JSON, HTML pages and prompts: no state, and no property is about them.
- The router's limit on bodies, its guard against panics and its access log; what the relay
  redirects to.
- The JWT codec and its signature: an access token is its claims and the key they are signed
  with. The AES-GCM cipher likewise: a sealed token opens under the key it was sealed with.
- `RevokeTenantRefreshTokens`, `LoginService.DeleteByMemberID` (with `DeleteTenant`) and the
  client's `GetPost`: no caller in the program.
- Numbers of likes and views, days remaining, the texts in listings.
- A confirmation tied to its preview: the tools take `confirm` as an argument and keep
  nothing between the two calls.
- The length of a migration's SQL: a migration is its name and whether it runs a second time.
- Arithmetic overflow: all times are seconds in 64 bits.

## 6. Running

In this directory:

    tlc -config MCPostLedger_ledger.cfg MCPostLedger
    tlapm PostLedgerProofs.tla

`PROJECT.json` lists every run with its configuration, the source lines of every definition,
and for each property a mutation of the model under which it fails. The mutated forms stand
next to the definition they change, as `Name_WhatIsWrong`, and are used nowhere else.
