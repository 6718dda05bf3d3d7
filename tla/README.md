# A formal model of bugsecure-mcp

TLA+ modules, TLC runs and TLAPS proofs for `bugsecure-mcp`, the MCP server
through which an AI client reads and changes things on BugSecure in a user's
name. All paths below are relative to `src/src/` unless they say otherwise.

## The system

The same server runs in two forms. Locally it is a child process of each MCP
client and speaks MCP over stdio; every such process of a user shares one stored
login. Hosted, it is one HTTP process that serves many users, each request
carrying its own bearer token. Both forms serve the same tools, which query or
change BugSecure's GraphQL API.

| component | code | state it keeps | operations |
|---|---|---|---|
| credentials lock | `auth/stdio/file-lock.ts` | lock file, guard file, files moved aside | `withFileLock`: acquire, break a stale lock, heartbeat, sweep, release |
| stored login | `auth/stdio/session.ts` | credential in the store, `#cached`, `#refreshing` | `getAccessToken`, `#load`, `#refresh`, `invalidate`, `logout` |
| login | `auth/stdio/login.ts`, `cli/commands.ts` | one command's authorization and its code | discover, listen, present, redeem, save |
| credential store | `auth/stdio/credential-store.ts` | keychain entry or JSON file | `load`, `save`, `delete`, choice of the store |
| OAuth requests | `auth/oauth.ts` | none | discovery, token requests, revocation |
| loopback receiver | `auth/stdio/loopback.ts` | a listening socket, one promise | evaluate a callback, settle once, close |
| approval gate | `tools/approval.ts`, `approval-url.ts` | none of its own: a sealed state at the client, approvals at the API | `check`: read, build, poll, find, create, ask |
| tool framework | `tools/define-tool.ts` | deadlines of requests, session memo | `runTool`, `requestDeadline`, `executeTool`, `approvedWrite` |
| write resend | `tools/shared/write-retry.ts`, `request-id.ts` | none | resend once what was lost, wait for a key in progress |
| write tools | `tools/*.ts`, `tools/shared/report-ref.ts`, `viewer.ts`, `report.ts` | the roles of the account, remembered in the session memo | check role and side, build a payload from current data, send its parts |
| read tools | `tools/list-*.ts`, `search*.ts`, `get-*.ts`, `tools/shared/common.ts` | none | query, leave rows out, answer a page and where the next begins |
| GraphQL client | `graphql/client.ts`, `http.ts`, `graphql/errors.ts` | none | attempt, retry a lost read, refresh a refused token and try again, map errors |
| scopes and errors | `scopes.ts`, `errors.ts` | none | what a consent asks for, what a tool misses, what the user is advised to do |
| token exchange | `auth/hosted/token-exchange.ts` | cached exchanges, exchanges under way, refused tokens | `exchanged`, `invalidate`, `isRefused` |
| HTTP application | `transports/http-app.ts`, `lru.ts` | bounded caches | check a request, limit it, step up, serve MCP |
| rate limiter | `rate-limit.ts` | a bounded map of token buckets for each limit | `consume` |
| lifecycle | `transports/*.ts`, `cli.ts`, `config.ts` | the running server, its connections | configure, start, drain, stop |
| schema pruning | `../scripts/prune-schema.ts` | none | the part of the API's schema the documents use |
| texts | `untrusted.ts`, `logger.ts`, `crypto.ts`, ... | none | fencing, redaction, hashing |

How they interact. A tool call goes through the tool framework; a write tool
goes through the approval gate, which asks the API whether the user has approved
exactly this payload, and then through the resend. Each request to the API takes
an access token from the stored login (stdio) or the token exchange (hosted) and
gives it back with `invalidate` when the API refuses it. The stored login takes
the credentials lock around everything that changes the store. The user decides
on approvals in a browser, at a time nobody controls. A hosted request passes the
token check, the limits of its user and the step-up before its tool runs, and the
exchanger's marker of a refused session afterwards.

What is hard: several processes share one login whose refresh token may be used
once only; the lock that serialises them lives in files, and its holder may be
paused or die at any instruction; the user's decision, the data a payload was
built from and the approval itself may change between any two requests; answers
get lost after the API has committed; calls are cancelled while their requests
are under way; a client stops waiting at a time of its own, and what is under way
should have ended by then; lists change between two pages; a user does what an
answer advises, and the advice must lead somewhere, once. What makes each component correct is stated with its module
below, and every hazard is listed with its line in `PROJECT.json`.

## The modules

### FileLock, Mutex: the credentials lock

`FileLock` models `withFileLock` one file operation at a time: `TakeGuard` and
`Unguard` are the O_EXCL creation and the removal of `<lock>.break`; `OpenLock`
and `WriteLock` create the lock and write its owner; `Judge`, `Examine`,
`MoveAside`, `Discard`, `Restore` are the recovery of a stale lock (stat, check
under the guard, rename aside, look again, delete or put back); `Beat` and
`BeatLands` are a heartbeat's start and its effect, whenever that comes;
`SweepOne` is `sweepStaleAside`; `ReadOwnLock` and `RemoveLock` are
`releaseLock`. `pc[p]` is where process `p` is in the code, `ctx[p]` which of
the three uses of `tryGuarded` it is in, `res[p]` what the function under the
guard returned. Processes crash anywhere, PIDs are reused, and the constant
`Faults` says which file system errors a run allows.

`Mutex` is what callers are promised: one owner at a time, operations only
inside, a dead process stops owning. `FileLock` implements it under the mapping
at its end (`ImplementsMutex`).

It is correct if at most one process is inside (`MutualExclusion`), its lock
file stays in place however long it is paused (`HolderKeepsLock`), a file moved
aside is examined undisturbed (`NobodyBehindTheExaminer`, `SweepSparesExamined`),
a process that lost its lock does not delete its successor's
(`ReleaseSparesSuccessor`), a guard left by a dead process lets nobody in
(`AbandonedGuardFailsClosed`), every call ends (`CallEnds`) and the lock of a
dead process is recovered (`DeadOwnerRecovered`).

### LocalSession, StoredLogin: the stored login

Servers, `login` and `logout` commands and the authorization server, over the
lock that `Mutex` promises. `cached[p]` and `rpc[p]` are a session's `#cached`
and where its `#refreshing` is; `store` is the stored credential; `mine[x]` is
what a refresh or a command has in its hands. A refresh is `RefreshLoad` (take
the lock, load again, perhaps adopt what another process stored), then one of
`Refreshed`, `AnswerLost`, `Unreachable`, `Rejected`, `RemovalFails`, then `Save`
or `SaveFails`. `Load` and `Loaded` are separate because `#load` reads without
the lock and may write `#cached` late: a session may so be left with a cached
pair that differs from the stored one, which costs a rotation and no more.

A refresh that gets no answer within the 15 seconds of `postForm`, or whose process
dies, is given up on while its request may still be on its way (`unanswered`): the
authorization server may perform it at any later time (`PerformedLate`), also after
the lock was passed on and the same pair was refreshed by another process, which is
a replay and ends the grant. A rotated pair is lost when nobody waits for it, its save
fails or its process dies before the store (`orphaned`): the next refresh then replays
the used-up token. Neither can be prevented by a client that only has a lock, and
session.ts:6 ("never replay a rotated refresh token") is to be read with these two
exceptions.

It is correct if a used-up refresh token comes back only where a refresh of that very
token went unanswered, or the pair that replaced it was lost (`NoReplay`), the stored
pair of a living grant is its newest, or about to be replaced under the lock, unless
the newest was lost (`StoredIsNewest`), nothing is handed out that
was not stored (`HandedOutWasStored`), no refresh undoes a login or a logout
(`LoginNotOverwritten`, `SignedOutStaysOut`, `OnlyDeadLoginRemoved`), a late
refusal of an old token leaves a newer one alone (`OnlyRefusedTokensForced`) and
coalesced callers are all answered (`CallersAnswered`).

`StoredLogin` is what all of this amounts to for the user: one login that only moves
forward. It is renewed by the pair that follows the stored one, replaced by a grant
that was never stored before, and removed when its grant is over or by a sign-out,
which has the login to itself from `load` to `delete`. `LocalSession` implements it
(`ImplementsStoredLogin`): the stored pair is the login, a logout that has loaded it is
the sign-out, and everything a refresh does before its save is invisible.

### CredentialStore, LoginFlow: the commands `login` and `logout`

`CredentialStore` has what is stored, an entry for each issuer in the keychain and
in the file (`keychain`, `file`), the store each process has chosen (`kind`) and
what it has read of the file (`entries`). A save or a delete is two steps,
`ReadEntries` and `Put`, because the code reads the file whole, changes an entry
and replaces it. The rename is the only part of `writeAll` others can see. A
keychain answers or does not, and may change its mind (`KeyringChanges`).

`LoginFlow` runs commands in any number of terminals over these stores and the
promise of `Mutex`. A login goes through `Start`, `ChooseStore`, `Listen`
(discovery, the receiver, a new authorization), `Presented`, `CodeArrived` or
`NoCode`, `Redeemed`, `TakeLock`, `Read`, `Save`; a logout through `TakeLock`,
`LoadLogin` or `NotSignedIn`, `Revoked`, `Read`, `Delete`; each may fail where
the code can throw (`Fails`), or die anywhere. `Callback` is the handler of
`startLoopbackReceiver` with `evaluateCallback`: the browser answers any
authorization that was ever asked for, at any time and more than once, and the
answer reaches whoever listens on its port by then. `outcome[p]` is the promise
`code`, which settles once.

Between the code's `load` and `delete`, and between `ReadEntries` and `Put`, a
logout keeps the lock. `LocalSession` looks at the same save among the refreshes of
one login, where the store is a single entry; here there are several issuers and
no refreshes, which write as `Save` does.

It is correct if no process undoes what another one saved or deleted for another
issuer (`NoEntryLost`), tokens are kept under the issuer that was asked for them
(`LoginsOfTheirIssuer`) and every command ends (`CommandsEnd`).

### AgentWrites: approvals, parts and the resend

Concurrent tool calls, the API's approvals and its key store, the user, and
everybody who changes the data. The actions up to `Fallback` are
`ApprovalGate.check` in its order: `Start` (the state verifies and names this
call, or does not), `Read`, `Build`, `Poll`, `BudgetSpent`, `Decided`, `Find`,
`Create`, `Ask`. `Send`, `Confirmed` and `CallDeadline` are the loop of
`approvedWrite` over the parts; `Resend`, `AskAgain`, `Refused` and
`OutcomeUnknown` are `resendingLostWrites`; `Cancel` is the client's
cancellation or the server's death, anywhere. A request whose sender gave up is
in `late` until the API runs it, or never does; a registration that was given up is
in `posted` likewise (`LateRegisters`).

The API is external. Of it the model takes what `approval.ts`, `write-retry.ts`
and SECURITY.md build on: it runs a part only under an approval that is approved
with exactly that payload, and performs a key once. That is assumed, not shown.

It is correct if only what the user approved is ever on its way to the API
(`OnlyApprovedIsSent`), a write that may have been made is never reported as a
plain failure (`NoWriteDenied`), success is the truth about every part
(`OkMeansAllMade`), and every call is answered (`CallsAnswered`). SECURITY.md:93
says that the server's checks keep a user from being asked twice (`AskedOnce`). They do
not: the lookup of an approval and its registration are two requests, under a fresh key,
so two calls for one change that are under way together register one each
(`writes_twice`). What the code does ensure is `AskedTwiceOnlyTogether`: it takes a
registration of the same payload, of another call or given up and still on its way, at
the moment a call looks for an approval and finds none. The history `crossed` has the
payloads of which that is so.

### ExpiringLru, TokenExchange, HttpApp: the hosted server

`ExpiringLru` is `lru.ts`: a map is the sequence of its entries, least recently
used first, and `AfterGet`, `AfterSet`, `Without` give what `get`, `set` with
`#evictOne`, and `delete` leave.

`TokenExchange` adds the exchanger's state (`cache`, `refused`, and `running`,
whose subjects are the keys of `#inflight`), what its methods do as parts of a
request's step (`Exchanged`, `Invalidated`, `IsRefused`), how an exchange settles
(`Grants`, `Refuses`, `Fails`), and the authorization server, which issues,
refuses, or leaves an exchange to its time limit. The clock and revocations move
at any time.

`HttpApp` composes requests with it: `Arrive`; the token check (`Unauthorized`,
`Verified`); `Reject` and `NoTool`; `GrantedScopes`, the first use of the
exchanger; any number of requests to the API, each with a token (`CallApi`), and
the one more try with another when it is refused (`ApiRefuses`,
`ApiRefusesAgain`); then `Answer`, which replaces a JSON answer by 401 when the
subject has been refused, or `AnswerStreamed`, which cannot. `Leave` is a
disconnect or the deadline and `Stop` what it aborts. `pc[r]` is where request
`r` is awaiting something; between two awaits JavaScript runs undisturbed, so a
step is what happens between them. Whether a call passes its scope and approval
checks, and what the API answers, are free choices.

It is correct if a cached token is given up before it or its subject expires,
however long its exchange took (`CacheKeepsMargin`), a refused subject stays
refused until it expires or newer refusals displace it (`RefusalRemembered`) and
is never served from the cache, although exchanges and refusals interleave
(`NotCachedAndRefused`), no request calls the API with a token any request has
seen refused (`NoRefusedTokenReused`), a tool call that failed because its session
is dead is answered 401, which makes the client log in again
(`DeadSessionGets401`), a client that leaves does not cancel an exchange others
wait for (`NobodyForgotten`) and every request ends (`RequestsEnd`).

### Timing, ToolCall: a call against the clock

`Timing` is the arithmetic: what a call is allowed (`RequestDeadline`), what is
kept for a write and its answer (`WriteReserve`, `AnswerBy`), how long a decision
is waited for (`PollBudgetWithin`, `PollDeadline`), whether a write attempt still
fits (`WriteFits`) and how long a request may take (`TimeoutFor`).

`ToolCall` runs requests of one session against a clock. `memory` is
`callDeadlines`, an `ExpiringLru`; `EnterHandler` is `requestDeadline`, `Answered`
the release of the deadline when `runTool` returns. A 2025-era client is asked to
elicit within its request, and the SDK enters the handler again with the same id
(`Reenter`); a newer one retries under a new id. `StatusRead`, `StatusKnown`,
`PayloadBuilt`, `ReadAgain`, `DecisionRead` are the waiting of `check`; `SendPart`,
`TokenComes`, `TokenRefused`, `PartMade`, `AnswerLost`, `InProgress`, `AskAgain`
are `approvedWrite`, `resendingLostWrites` and the timeouts of the client. `GiveUp`
is the client's cancellation, anywhere. What is awaited ends by `till` (`Tick`); the
server's own computing takes no time. `AgentWrites` says which approval a write
needs, and this module when it is sent.

It is correct if a request keeps its own deadline, although its id is used again
and its handler is entered again (`OwnDeadline`), and what is acted on or sent ends
while the client will hear of it (`HeardInTime`). Both name the exceptions the
code has: a deadline displaced from the memory or lapsed, a request given up while
eliciting, whose deadline stays behind under its id, and a token that has to be
fetched between the check of `writeAttempt` and the request (`define-tool.ts:490`),
which may start a write after the answer was due.

### WriteRules: in which role, and on which side

Two calls of one session, the account, its reports and the API, which shows a
report to its reporter under `reports:read` and to the organisation under
`triage:read`. A call begins (`RequiredScopes`), refuses staff (`notStaff`, with
the roles remembered in `roles` for `RolesTtl`), finds out whose report it is,
under the scopes it has, builds its payload, waits and sends. The account may
become staff, a report may get another grade, and a draft another revision or be
published, between any two steps.

It is correct if a comment lands on the side it was meant for and an appeal
contests the grade of the report it names (`RightSide`), if staff do not write for
an organisation, but for what `RolesTtl` admits (`StaffRefused`), and if
`mark_notifications_read`, which sends its parts one by one, says of every part what
became of it (`MarkedAreTold`). `MarkedAreTold` has two exceptions, as the code has
(`mark-notifications-read.ts:59`). The part that failed may have been performed all the
same. And an error that is not a `BugSecureError`, such as the file system's under the
store that `getAccessToken` reads and writes, or an abort, is passed on as it is after
some parts are done: it names none of them. `RightSide` has one exemption: a token that does not
name its user (`viewerId` undefined) and reads both sides. `report-ref.ts:105-112`
resolves this for reading; `add_report_comment` and `add_triage_comment` then skip
the assertion and leave the side to the API.

### ReadTools: pages of a list that changes

A model follows `nextOffset` from the first page to the last. `ReadPage` stands for
the tools whose pages come from the API, some rows of which are left out
(`KeptRow`), `ReadPart` for those that filter and cut a whole list (`pageOf`),
`ReadHistory` for the comments and status changes of a report, paged together from
the newest back. Rows are added and go meanwhile. `ListShown`: nothing is shown that
the tool leaves out, and following the offsets to their end misses at most one row
for each that has gone. Offsets above 10,000 are refused although `nextOffset` may
name them: the rows behind are out of reach.

### ApiFailures: failures, and where their advice leads

One wish for one change. `attempt`, `Handle` are `GraphQLClient`'s round trips;
`mapGraphQLErrors` and what it is made of say what each error of the API means, in
the order of `PRIORITY`; `Resend` and `outcomeUnknown` are `resendingLostWrites`;
`AdviceOf` is the hint an answer carries. The user does what the answer says and
calls again: signs in, waits, approves again, checks first, goes to the website.
`MadeOnce`: doing so never makes the change twice, although every new approval has a
key of its own. It holds if a committed write is answered with data, an internal
error, or an answer that is lost, and if the user who is told to check does so when
what was sent has ended; unreadable answers are the run `writes_garbled`.

### RateLimits: the buckets

`Take` is `consume` over an `ExpiringLru` per limit; `ToolsCall` asks the limits in
the order of `serveMcp`. A token of the code is `Price` units, so that all numbers
are whole. `CallsBounded` watches any key of any limit from any time on: it is let
through no more often than a full bucket and what came back since allow, unless its
bucket was displaced before it was full, and that takes more active keys than are
kept. The comment at `rate-limit.ts:12-14` says that minting client ids does not
help in this; `http-app.ts:234-240` keys the first limit by client, and the limit that
does not count them is `perUser`.

### Permissions: scopes

Accounts of several kinds at a consent screen, locally and hosted: what is asked at
first, what a request needs (`requiredScopes`), the step-up with what the screen
has offered in vain, the narrowing of the exchange, the check before a tool runs,
and the advice of a refusal. `NothingAskedTwice`: a step-up never shows what was
offered without being granted, and no answer asks for what has been approved.
`EligibleServed`: whatever the account can hold and the registration allows is
obtained by following the answers. A user who gives up does so only when nothing
that is wanted can be had. A connection that is made anew asks for the first consent
only, so `notifications:write` from a step-up is lost with it and stepped up again.

### Configuration, Connections: start and shutdown

`Configuration` is what `config.ts` accepts, by the shapes its checks tell apart. `Connections`
starts the process in one of them, over stdio or HTTP, and runs connections against
the Node adapter: bodies that are too large, uploads that stall, answers, keep-alive,
and the three stages of a shutdown (`closing`, `draining`, `exited`) with their
deadlines. Node is external. `ShutdownEnds`: a signal ends the process, however many
requests are under way, provided that no client uses a kept-alive connection again and
again (`KeptInUse`): idle connections are closed once (`http-server.ts:199-208`), so one
that carries another request each time within the keep-alive timeout keeps the process
for ever. It also needs that clients finish or leave: the deadline for
handling a request (`http-server.ts:33`) does not cover an upload that stalls after
the server has stopped looking for it.

### SchemaPruning: the published schema

`prune-schema.ts` as stages: `Collect`, closing over inputs, `reconcileInterfaces`,
pruning, validation. `PrunedRight`: what is written validates every document and
has nothing they do not use, and pruning fails for five reasons only. Of types,
"nothing more" means that no smaller set of them serves the operations (`Serves`): an
input is published only if a variable, an argument of what is selected or another such
input refers to it. An input's own fields are published whole. Three are the
script's own checks (`NoSelection`, `NoMember`, `EnumChanged`). The fourth is an
implementation that departs from its interface, since the fields that are reconciled
are not closed over. The fifth is an interface that implements another:
`reconcileInterfaces` gives fields to object types only (`getPossibleTypes`), although
its comment speaks of every kept implementation, so such an interface may lack a field
that is selected of the one it implements (`InterfaceShort`). Nothing wrong is written
in either case; the result does not validate and the script stops.

### The composites

`MCTools` and `MCServer` check several modules in one run, as `MCLoginFlow` does
the commands and the callers of a session. They choose a part at the start and move
only that (`part`): the parts share no state, and each is explored as it would be
alone. Real interactions are within modules: `HttpApp` composes requests with the
exchanger and its maps, `ToolCall` calls with the memory of deadlines and the clock,
`LoginFlow` commands with the stores and the lock, `Connections` the start with the
configuration.

## The runs

| run | instance | shows |
|---|---|---|
| `lock` | 2 processes, no faults | the lock file of a process inside stays, `Mutex` is implemented, calls end, dead owners' locks are recovered |
| `lock_faults` | 2 processes, every fault | what survives when files cannot be written, moved, removed or read |
| `lock_unread_owner` | 2 processes | violation: a live owner's lock is broken when its owner cannot be read |
| `session` | 2 servers with a caller each and 2 grants, or 2 callers of one server and 1 grant; 1 command, requests given up on and performed later (of one pair), failing saves, crashes | nothing unsaved is handed out; no refresh undoes a login or logout; replay only of a pair whose refresh went unanswered or whose successor was lost; a late refusal spares a newer token; `StoredLogin` is implemented |
| `writes` | 2 calls; 1 approval of 2 parts and 2 versions of the data, or 2 approvals of 1 payload and nothing sent | only approved payloads are sent, no write is denied, success means every part was made; the user is asked twice only for a change that was being registered meanwhile |
| `writes_twice` | 2 calls, 2 approvals | violation: two calls for one change register an approval each |
| `writes_strayed` | 1 slot, 2 approvals | violation: a call whose state was not accepted writes under an approved approval |
| `writes_garbled` | 1 call | violation: an unreadable answer to a committed write becomes a plain failure |
| `hosted` | 2 requests, 2 subjects, maps of 1 entry, clients that may leave | safety of the exchanger and of the answers given |
| `login` | 2 terminals with different stores, 2 issuers, 2 authorizations, 1 port; 2 callers of one server and a command | no entry is lost, tokens stay with their issuer, every command ends; coalesced callers are answered |
| `tools` | 2 requests against a clock of 6; 2 calls with 2 reports; lists of up to 3 rows with 2 changes; 2 approvals; schemas of 11 types; 3 principals | deadlines, roles and sides, paging, what failures lead to, pruning, rate limits |
| `server` | 3 kinds of accounts; 2 connections; 2 requests of one subject; 1 slot with 1 approval | permissions are obtained and not asked for twice, a shutdown ends, requests end, calls of write tools are answered |

The subjects of the violation runs are the `findings` of `PROJECT.json`, each
quoted there with the line it contradicts. Of
the hosted server, two things no property speaks of: a request may be answered 401
although its tool call succeeded, when a concurrent one of the same subject was refused
(`http-app.ts:436`), and a late refusal of an old token drops the newer one cached for
the same subject (`token-exchange.ts:143`), which costs one exchange.

**Bounds.** Two processes are the least with an owner and a breaker, and each of
them plays both parts again and again; that a third changes nothing is what the
theorems show. `MaxGen` bounds the rotations of
one grant and `Grant` the logins: one rotation is enough to have a used-up pair,
two grants to have a login that replaces another; two callers of one server are
enough for one to be refused a token the other has had replaced; tokens of generation `MaxGen`
do not expire, so that the bound ends rotations and not requests. `Key` bounds
approvals, `MaxPolls` and `MaxAsks` the polls and waits that fit in a call; two
versions of the data are enough for a payload to change and change back. `MCAgentWrites`
asks two questions with the other's inputs held small (`question`): what is written, under
one approval that no two calls register at once, and what is registered, while nothing is
written. `server` has a single call at a time, with one poll and one wait.

For the hosted server, two requests of one subject share and overtake each other
and two of two subjects push each other out of maps of one entry (the sizes in the
code only make that rarer). The clock counts half minutes, the unit of the margin
and the leeway (`EXPIRY_MARGIN_SECONDS`, `CLOCK_TOLERANCE_SECONDS`); tokens live two
units and subjects two or three, so that either may expire first. `MaxTime` ends
the clock when the last subject expires, `MaxTokens` bounds what is issued for a
subject: a refused token is followed by a second one for one subject only, and while
no time passes (`OneFollows`; in `server` no time passes at all). For logins, two terminals, one that prefers the keychain and one with the
file, meet in the file when the keychain does not answer; a single port means that
it is used again, and two authorizations that an old tab may answer to a new
receiver.

For `tools`: a deadline of 5 with a margin, a reserve and a least attempt of 1 has room
for a poll, a write and a resend, and the theorems cover every other choice;
`MaxTime` 6 is past the deadline of a request that came at 0, and a memory of one entry
is displaced by the second id. `OneBusy` and `MeetInRoles` leave out what interleaves
without meeting: two requests meet in the memory of deadlines, which is looked at when
a handler is entered; two calls meet in the remembered roles. Two changes and three
rows make a row cross the border of a page either way, with limits of one and two,
`MaxOffset` stands for 10,000 and `HISTORY_LIMIT` for the code's. `MaxAgain` is the
code's two delays. The schema has one type of each kind and way of being kept, two
interfaces of which one implements the other, and inputs in a chain; every set of its
fields is a document. Of the rate limits one user's keys are watched, from a time on that
has calls before and after; `LimitsHold` proves it for every key and time. For
`server`: accounts of a user, a researcher and an organisation's member, one tool of
each way a scope is come by, alone and in batches, and configurations that differ from
a sound one in one setting.

Where faults or identities differ between processes no symmetry is used, nor in any
liveness run; that of `session` exchanges the servers together with their callers
(`Alike`). Deadlock is not checked, because each of the systems may
come to rest (every process dead, every approval used); that calls end is what
the liveness runs check.

**Fairness.** A process that is alive keeps executing (weak fairness of its own
steps). A waiter that keeps coming back to its deadline finds it passed (strong
fairness of `GiveUp`). Recovery has the premise (`Persistent`) that time passes and that sessions come
back at their next request. For agent writes, every wait is timed
(`CodeStep` includes giving up). For the hosted server, the step a request is
waiting to make is taken (weak fairness), because requests to the API and the
reading of a body have time limits, and an exchange settles because its own time
limit makes it fail; strong fairness of `AnswerWithoutCall` says that a tool makes
finitely many requests. For the commands, every request,
the browser's opener (10 s), the receiver (5 min) and the wait for the lock have time
limits, so the next step of a command is taken. For a shutdown (`ConnFairness`), the
app's closing, the handling of a request and Node's timers take their course, and a
client finishes its upload or leaves. `ShutdownEnds` has a premise besides: the idle
connections are closed once (`http-server.ts:199-208`), and one whose answer is given
later is kept, so a client that sends its next request within `keepAliveTimeout`, time
after time for ever, keeps the process (`KeptInUse`). For the permissions (`Progress`), the user
follows the answers. Nothing is assumed of crashes, operators, other clients, the
API, the decisions of users or the authorization server. `CallEnds` holds under the premise
that locks eventually stop going stale: after breaking a lock the loop starts
over without looking at its deadline (`file-lock.ts:310`), so a caller can be
kept going for as long as new owners keep dying.

## The proofs

Every safety property that a passing run checks is proved for any sets of processes,
callers, grants, calls, approvals, payloads, parts, reports, subjects, requests and
keys, for lists and schemas of any size, and for any bounds; three under a premise,
named below, that the code needs as well (`HolderKeepsLock`, `ImplementsMutex`,
`NoWriteDenied`). The prover trusts nothing
but the named assumptions on the constants, which TLC evaluates on every run.

| module | proves about |
|---|---|
| `FileLockProofs` | `FileLock`, `Mutex` |
| `LocalSessionProofs` | `LocalSession`, `StoredLogin` |
| `LoginFlowProofs` | `LoginFlow`, `CredentialStore` |
| `AgentWritesProofs` | `AgentWrites` |
| `ExpiringLruProofs` | `ExpiringLru`; used by the next three |
| `HttpAppProofs` | `HttpApp`, `TokenExchange` |
| `AccessProofs` | `RateLimits`, `Permissions` |
| `ToolProofs` | `ToolCall`, `Timing`, `WriteRules`, `ApiFailures`, `ReadTools`, `SchemaPruning` |

* **FileLock.** `IInv` says what a process may rely on while it has the guard:
  having opened the lock it is empty until written, having judged it dead it
  stays dead, having moved it aside the path stays free. Mutual exclusion alone
  is not inductive: it needs that only the guard's creator touches the path. From
  it follow `MutualExclusion`, `HolderKeepsLock`, undisturbed examination, and the
  refinement of `Mutex`, step by step. These assume `"examine-read" \notin Faults`:
  the run `lock_unread_owner` shows they fail otherwise. What is about the guard alone
  has an invariant of its own, `GuardInv`, which is inductive whatever the file system
  fails at, and gives `GuardExclusive`, `ReleaseSparesSuccessor` and
  `AbandonedGuardFailsClosed` for every fault. The assumption on the constants
  is that `NoFile` and `Empty` are two values and no processes.
* **LocalSession.** `IInv` ties a refresh to the stored pair (`RefreshInHand`), a
  logout to the stored login (`LogoutInHand`) and a login to a grant nobody has
  seen (`LoginInHand`). It is inductive whatever fails, and gives
  `HandedOutWasStored`, `SignedOutStaysOut`, `LoginNotOverwritten` and
  `OnlyDeadLoginRemoved`. Requests performed late need `InOrder`: what is on its way
  was stored before, the pairs of the stored grant were stored in their order, and the
  server is at most one pair ahead of the store, so a late request cannot rotate what a
  refresh has in its hands. `NoReplayHolds`, also whatever fails, needs
  `StoredIsNewest` for its induction: only with it does a refresh under the lock
  send a token that has not been used; `StoredIsNewestHolds` states it.
  `OnlyRefusedTokensForced` rests on two facts about single steps: only `invalidate`
  of the cached token forces it, and a token that is refused stays refused.
  The refinement of `StoredLogin` rests on `RefreshInHand` again: the pair a refresh
  has to save follows the stored one. Assumed of the constants: each caller
  has a process, commands are not servers, `None` is no token.
* **LoginFlow.** `FlowInv` says that who replaces the file has the lock and has read
  what is there, and that a code is that of the receiver's own authorization,
  asked of its own issuer. `NoEntryLost` needs the first, `LoginsOfTheirIssuer` the
  second, and together they are inductive. Assumed of the constants: `None` is none
  of the values, and contents that cannot be read are no entries.
* **AgentWrites.** `IInv` says that approvals keep their payload, that a sealed
  state names an approval of its digest, that a call carries only such states, and
  that what it sends is registered and agreed. It gives `OnlyApprovedIsSent`.
  `SendingInv` (parts in order; an exposed call holds its answer or has resent)
  gives `OkMeansAllMade` and, for `~Garbling`, `NoWriteDenied`. For
  `AskedTwiceOnlyTogether` the property alone is not inductive: `OnceUnlessCrossed` adds
  that of a payload that never crossed one call, or one request that was given up, is
  about to register at most, and nothing is in force then. Assumed of the
  constants: at least one part, and `None` and `Late` are none of the other values.
* **The hosted server.** `ExpiringLruProofs` shows what the operators on maps keep
  and lose, ending in `EntryStored`. `IInv` is `ExchangeInv`, about the exchanger,
  with `NobodyForgotten` and `TokensInv`, about its callers. `NotCachedAndRefused`
  alone is not inductive: a grant must not come after a refusal, which holds
  because one exchange at a time is under way for a subject (`OneExchange`) and
  only for one that is not refused (`AnswersInv`). `NoRefusedTokenReused` needs that
  a token seen refused is neither cached nor on its way (`TokensInv`), for which an
  issued token must be new and an answer under way not yet handed to anyone. The
  lemmas say what each operation of the exchanger keeps, then what each step of a
  request adds. Assumed of the constants: maps of at least one entry, an eviction
  that looks at one or more, times and bounds that are numbers, and that `None` is
  no token.

* **RateLimits.** `RateInv` bounds what a key has taken together with what its bucket
  still holds: the two never exceed a full bucket and the time since. That is
  inductive only with `FillsInTime` (an entry lapses no sooner than its bucket is
  full, so a bucket that lapsed loses nothing) and a count of the keys that were
  active when a bucket was displaced. It gives `CallsBounded` (`LimitsHold`). Assumed
  of the constants: a call costs no more than a full bucket, finitely many
  principals, and that a user has the rate and burst of two clients.
* **ToolCall.** `RememberedRight` says that the memory has the deadline of a
  request that runs and nothing of one that is over, but for one given up while
  eliciting; with it `Owned` (the deadline of a call against its arrival) survives
  `Arrive` and `Reenter`, whatever the memory has displaced, and is `OwnDeadline`.
  `Timely` says that polls keep the reserve of a write, that a request ends by the
  time the answer is due and that a pause leaves time to ask again: it is what each
  check of `approvedWrite` and `resendingLostWrites` is there for. The two give
  `HeardInTime`. Assumed of the constants: a timeout no shorter than the least write
  attempt, positive delays, budgets and sizes.
* **Permissions.** `PermInv` adds to the property what a connection has been offered
  in vain (`OfferedInVain`): at a hosted server only scopes a step-up never asks for,
  because consent grants everything else to every account. That is
  `EligibilityAssumption`, and without it a step-up would ask twice. Assumed besides:
  requests are for tools that exist.
* **WriteRules.** `RulesInv` says of every call that it has passed the checks it is past
  (`JobOk`), and of the remembered roles that they were read no longer ago than they are
  remembered (`RolesOk`): a call that found no staff among them began before the account
  could have been staff for `RolesTtl`. It gives `RightSide` and `StaffRefused`;
  `MarkedAreTold` is part of it, with what a call has done and what its answer says of
  it told apart (`NoticesDone`, `Told`). Assumed of the constants: times are numbers.
* **ApiFailures.** `FailuresInv` says that a key the API has taken, unanswered, belongs
  to a call that will be sent again under the same key, or that has been told to check
  first (`InDoubt`). With the tables of errors and advice expanded it is inductive, case
  by case of what an answer may be, and gives `MadeOnce`.
* **ReadTools.** `ListShown` speaks of the end of a list; `ReadInv` of every page: at
  most as many rows that are owed are among the places passed as rows have gone
  (`Passed`, `Owed`). A row that goes shifts one row of the next page among those
  passed, and no step else does. The counting is about finite sets of places
  (`FiniteSetTheorems`), which is why offsets are stated over sets (`Place`,
  `Chronological`) and not by recursion over the list. Assumed of the constants: lists
  are finite, limits positive.
* **SchemaPruning.** `PruneInv` says that the types in use are among those of every set
  that serves the operations, are all that is kept, and are closed over but for the
  queue (`UsageInv`), that fields are the selected ones and those
  forced (`FieldsInv`), and what the checks have passed. The work is in the last step:
  a filtered schema that does not validate is so for a departing implementation or an
  interface that falls short.

Attempts at these proofs corrected the models. The cases of `attempt` in `ApiFailures`
overlapped, and `CASE` chose among them. In `SchemaPruning` fields were forced on
interfaces too, which `getPossibleTypes` does not return, and a composite type had to
have a selection, which excluded `NoMember`.

Only model-checked: liveness (`CallEnds`, `DeadOwnerRecovered`,
`CallersAnswered`, `CommandsEnd`, `CallsAnswered`, `ShutdownEnds`, `EligibleServed`,
`RequestsEnd`), because fairness and ENABLED are out of the prover's reach.
`Configuration` and `Connections` have no property but `ShutdownEnds`.

Only proved, and stated by no run: `MutualExclusion`, `NobodyBehindTheExaminer` and
`SweepSparesExamined` of the lock, `SignedOutStaysOut` and `LoginNotOverwritten` (which
`StoredLogin` implies) of the stored login,
`NotCachedAndRefused` of the exchanger. They are parts of invariants, or follow from
what the runs check.

## What is not modelled

Within the modules: principals and scopes read from a stored credential, grants without
a refresh token, the wording of answers, in `AgentWrites` clocks (a budget is a
number of polls, ages are one bit; `ToolCall` has the clock). The gate's answers for a
payload that does not match or
a status it does not know (`MISMATCH_MESSAGE`, `UNKNOWN_STATUS_MESSAGE`) need an
API that misbehaves and are not reached. A payload that has been checked is not
checked again while its decision is awaited within one call, and `WriteRules` has it so.
Of logins: scopes, file
permissions, the temporary file that a failed write or a crash leaves behind, what
the browser is shown, and the validation of metadata and token answers, which is
one choice between success and failure. Of the hosted server: rejections by method,
host and origin, which change no state, signatures, several API requests of one tool at
once, an `expires_in` that is missing, and the answer to a token without any scope,
which is told that a tool is not available instead of how to reconnect
(`token-exchange.ts:154-165`). A hosted call takes its deadline from its arrival
(`deadlineAt`), so the memory of `ToolCall` is that of stdio sessions. Of read tools:
the tools that make one query and reshape it, the merging of a search over several
types by relevance, and the cuts of long texts.

Of the system: text safety, redaction and hashing (`untrusted.ts`, `logger.ts`,
`crypto.ts`), functions of single texts without state; the schemas of tools; the parsing
of numbers, URLs and arguments from text; the drivers of the code generator and of the
repository's checks; and generated code, which is a seventh of the repository's lines.

## Plan

Done: the lock, the stored login, the login flow with its stores, agent writes against
other calls and against the clock, the checks of write tools, paging, failures and
advice, the hosted token exchange with its requests, rate limits, permissions,
start and shutdown, schema pruning; and the theorems above. What could follow:

1. An abstract session of the hosted server (a subject signed in, refused, expired)
   that `HttpApp` implements, and an abstract register per issuer that the two stores of
   `LoginFlow` implement, as refinements with theorems.
2. `ToolCall` with hosted deadlines, composed with the end of a request in `HttpApp`.
3. The read tools that make one query, and the merging of a search over several types.
