# Fruitback: a TLA+ model of its sessions, its queues and its caches

Fruitback puts a feedback widget over a page and turns what people write into issues
of a tracker.  It is a TypeScript monorepo: a **worker** (`src/apps/worker`), the
browser **extension** that carries the widget (`src/apps/extension`), the
**console** (`src/apps/console`), the **widget** (`src/packages/widget`) and what they
share (`src/packages/shared`).  The worker has no memory that matters between two
requests except a few maps; everything else is in PostgreSQL, several workers may serve one
database, and any of them may stop between two statements.

This directory holds TLA+ modules translated from that code, TLC configurations
that check them on small instances, and proofs that TLAPS checks.  Everything is read
from the source; a comment or a document of the repository is only quoted where the code
does otherwise (see *Disagreements*).

## 1. Inventory

### The worker

| Component | State it keeps | Operations | What is hard |
|---|---|---|---|
| **Session store** (`session.ts`, `session-postgres.ts`, `session-rows.ts`, `postgres.ts`) | tables `pairings` (codes) and `sessions` (refresh tokens, one row per rotation, chained by `predecessor_hash` and `root_hash`) | `createPairing`, `purgeExpired`, `redeemPairing`, `rotateSession`, `revokeSession`, `endSessionsOf`, `renameSessionsOf`, `readdressSessionsOf`, `chainOf`, `liveIdentity`, `holdsSession` | concurrent refreshes of a token, lost answers and retries, replays, a person removed while a refresh runs, row locks and wait cycles |
| **Session routes, removals, suspensions** (`session-routes.ts`, `session-check.ts`, `instance-admin.ts`, `auth.ts`, `auth-organization.ts`) | members of a workspace, `suspended_at` of an account | `POST /session/pair`, `refresh`, `revoke`; removal, departure, suspension, restoration, deletion | the store and the members are not written in one transaction; a pass over the sessions can fail after the write it follows |
| **Connect requests** (`connect.ts`, `connect-routes.ts`, end of `session-postgres.ts`) | table `connect_requests`: the answer, the account, the claim, the wrong words, the expiry | create, answer, miss, claim, end of a browser | limits counted before an insert, an account read before the transaction |
| **Read cache** (`cache.ts`, `kv.ts`) | key-value store, shared loads, versions | read, invalidate | a load that ends after a write |
| **Rate limit** (`rate-limit.ts`) | counters of two windows | take | a burst on both sides of a boundary |
| **REST deliveries, routines** (`rest-connector.ts`, `rest-send.ts`, `claude-routine.ts`) | table of deliveries, attempts | enqueue, pass, settle, give up | two workers in one pass, an arrival whose record is lost |
| **Messages of a note done** (`done-notices.ts`, `notes-index-postgres.ts`) | rows claimed for a while | take, sent, release | a claim that runs out while its message leaves |
| **Linear OAuth** (`linear-oauth.ts`) | a pair of tokens of a connector | refresh | refresh tokens used once, several workers |
| **Migrations** (`postgres-migrate.ts`) | schema version, advisory lock | migrate at start | two workers that start, one that stops |
| **Instance administrators** (`instance-admin-postgres.ts`, `first-admin.ts`) | the role, under an advisory lock | grant, withdraw, first administrator | the last administrator |
| **Accounts and authentication** (`accounts-postgres.ts`, `auth.ts`, ...) | users, members, addresses | mostly one statement each | transfers of addresses and of sole owners |
| **Notes, attachments, trackers, console API, OAuth server, mail** | rows of notes, files, connectors | create, read, update, delete, calls of other services | parsing and rendering rather than control |

### The extension, the widget, the console

| Component | State it keeps | Operations | What is hard |
|---|---|---|---|
| **Session of the extension** (`session.ts`, `session-storage.ts`) | one storage of the browser: session, epoch, run | pair, adopt, refresh, `ensureAccess`, end, log out | the popup and the background write one storage, both with awaits in between |
| **Connect flow** (`connect.ts`, `connect-loop.ts`) | a pending request | ask, poll, claim, cancel | a request that is claimed and whose answer is lost |
| **Sites and panels** (`site-sync.ts`, `relay.ts`, ...) | registered origins, panels | sync, open, relay | messages of frames that are gone |
| **Widget, console** | the user interface | drawing, forms | out of the reach of this kind of model |

### How they interact

The console mints a code; the extension redeems it at `POST /session/pair` for a refresh
token and then refreshes: each refresh rotates the token and answers a new one.  A client
that loses an answer asks again with the token of before, inside a grace.  A token used
twice by two parties is a replay and ends its chain.  The administration of a workspace and of the instance
calls `endSessionsOf` when a person must lose their sessions, and the routes check the
membership again after the store has answered.  The properties that make the whole correct:
one chain has at most two live tokens and no rotation prolongs it; nothing revives what ended; a replay ends the chain;
when a call that ends sessions answers, the sessions it found have ended, whatever ran
meanwhile; and somebody who is no member keeps no session once the requests are over.

The other parts meet the sessions little.  A note that is written gives its page a new version in the **cache**, puts
a row in the queue of **deliveries** when the site has such a place, and may leave an address that waits for the note to be done; the **rate limit**
comes before all of it.  What they share is the manner: a statement claims or counts, an await
follows, and another process of the worker may do the same between the two.

`PROJECT.json` lists every component and the hazards of the code at their lines.

## 2. Modules

| Module | What it is | Code |
|---|---|---|
| `SessionPromise` | what the `SessionStore` interface promises: each operation is one atomic step on two tables, except the calls on a person, which have a start and an end | `session.ts` (the interface), `session-postgres.ts` |
| `SessionPromiseProofs` | its invariants, proved for every value of the constants | |
| `MCSessionPromise` | the instance for TLC: people, codes and tokens as model values; tokens and codes are interchangeable | |
| `SessionPostgres` | the store as it is written: one step per SQL statement and per row that a statement locks, READ COMMITTED snapshots, row locks, commits, rollbacks, deadlock victims | `session-postgres.ts`, `session-rows.ts` |
| `SessionPostgresProofs` | its invariant and the refinement of `SessionPromise`, proved for every value of the constants | |
| `MCSessionPostgres` | the instance for TLC | |
| `SessionRoutes` | the routes and the handlers that end sessions, composed with an instance of `SessionPromise` as their store | `session-routes.ts`, `instance-admin.ts`, `auth.ts`, `auth-organization.ts`, `console-api.ts` |
| `SessionRoutesProofs` | its proofs: the composition uses the store as the promise allows, and who keeps a session | |
| `MCSessionRoutes` | the instance for TLC | |
| `ConnectPromise` | what becomes of a request of the extension: asked, answered once, claimed once, forgotten | `connect.ts` (the interface) |
| `ConnectRequests` | the routes and the statements of the requests, with accounts that are suspended and brought back | `connect-routes.ts`, `connect.ts`, end of `session-postgres.ts` |
| `ConnectRequestsProofs` | its invariants and the refinement of `ConnectPromise`, proved for every value of the constants | |
| `MCConnectRequests` | the instance for TLC | |
| `ExtensionSession` | the session that the extension holds: two contexts and a page over two storage areas without transactions, composed with an instance of `SessionPromise` as the worker | `session.ts`, `session-storage.ts` of the extension |
| `ExtensionSessionProofs` | its four properties, proved for every value of the constants, from the proofs of `SessionPromise` | |
| `MCExtensionSession` | the instance for TLC | |
| `RestDeliveries`, `MCRestDeliveries`, `RestDeliveriesProofs` | the queue of deliveries: passes, attempts, settlements, giving up, new attempts | `rest-connector.ts`, statements of `accounts-postgres.ts`, `server.ts` |
| `DoneNotices`, `MCDoneNotices` | the messages of notes done: claims, sends, removals, releases, the sweep | `done-notices.ts`, `notes-index-postgres.ts`, `mail.ts` |
| `Cache`, `MCCache` | the read cache of a page: versions, entries, shared loads, on the key-value store of the database | `cache.ts`, `kv-postgres.ts`, `note-helpers.ts` |
| `RateLimit`, `MCRateLimit` | the sliding window of one caller on counters with an expiry | `rate-limit.ts`, `kv-postgres.ts` |
| `SharedTablesProofs` | the proofs of `RateLimit`, `Cache` and `DoneNotices`, three tables that every worker writes in single statements | |
| `WorkspaceMembers`, `MCWorkspaceMembers`, `WorkspaceMembersProofs` | the members of a workspace and the administrators of the instance, lock by lock | `instance-admin-postgres.ts`, `accounts-postgres.ts`, the triggers of `drizzle/0016` and `0020` |

So the sessions have three levels: `SessionPostgres` implements `SessionPromise` (checked, and proved), and on the
promise stand the routes (`SessionRoutes`, proved to use nothing else) and the other end of the wire (`ExtensionSession`).
`ConnectRequests` implements `ConnectPromise` (checked, and proved).  The five other components are on their own.

### State and actions against the code

`SessionPromise`: `sessions` and `pairings` are functions from a digest to a row or `NoRow`;
the columns are `revoked_at` (a Boolean), `rotated_at`, `predecessor_hash`, `root_hash`
(a head names itself), `expires_at`, and the code a session was bought with.  `issued` holds the digests ever drawn: the code
draws 256 bits, so a digest is never drawn twice.  `ending` and `renaming` are the calls on a person in progress,
with what they found when they started.  `rotateSession` is one action per outcome: `RotateFirst`,
`RotateAgain` (a retry inside the grace), `RotateLate` and `RotateReplay`.  A refusal that writes
nothing is no action.  The instant of a call is an input and not a clock: calls read
the clock before they wait for a lock, so instants arrive in any order.

`SessionPostgres`: `table` is what is committed; `draft[c]` what the transaction of the
caller `c` wrote; `holder` the row locks; `calls[c]` the call, with `pc`, the statement that runs
(`does`), and the rows it has still to visit (`todo`, fixed by the snapshot).  `Visit` takes one row:
it waits for a lock, reads the WHERE again (`Applies`) on the version left by the
last holder, and writes (`Result`).  `SELECT ... ORDER BY ... FOR UPDATE` visits in order,
`UPDATE` and `DELETE` in any order.  `Victim` ends one transaction of a circle of waits; `Lost` is
a connection that drops or a worker that stops, at any statement.

`SessionRoutes`: `members` and `suspended` are what `roleIn` and `accountActive` read;
`requests[c]` is the request a caller serves, with the step it is at; `failed` records that a request stopped or a pass over the sessions failed.

`ConnectRequests`: `table` is `connect_requests`; `calls[c]` the request of HTTP that a caller serves, with what
it read and the instant it carries.  A statement is one step, since its WHERE is read again on the row it changes;
the transaction of a claim is one step, since the one row it shares is the one it holds.  `POST /session/connect` is `StartCalled`, then `Counted` or
`Busy`, then `Created`; an approval is `WordDiffers` or `WordAgrees`, then `Missed` or `MissedNothing`, then `Answered` or
`AnswerRefused`; a claim is `ClaimFound`, then `AccountOpens` or `AccountGone`, then `Spent` or `NotSpent`.
`heard` is a history: the wrong words that were answered for a request.  A connection is a chain of sessions; what
happens inside one is in `SessionPostgres`.

`ExtensionSession`: `runs` is `storage.local` (one key per run, so that a late write never lands in a newer run), `epoch` the key that
says which run counts, `grant` the access token in `storage.session`.  `refreshing[x]` is the refresh of a context and `clicks[p]`
the pairing or the log out of a page, each with what it has read; one access to storage or one answer of the worker is
a step, and any of them may be the last (`RefreshStops`, `ClickStops`).  `adrift` are requests that nobody waits for and the worker still
receives.  Left out: several endpoints (their keys are apart), the keys of older versions, the freshness of a token (a refresh may start at any
time), the callers that join a refresh of their own context, purges and endings by the console.  A generation is drawn with its token, so one stands
for the other; a claim of a sign-in is kept as a pairing is.

`RestDeliveries`: `rows[d]` is the row of a delivery, with the time it still waits or the time since it was given up; `attempts[w][d]` is what
the worker `w` does with it, with the count it read.  A delivery that calls a routine keeps its session (`KeepSession`, which never throws)
and notes the state of the token before it settles.  `passing` are the workers in a pass, `keyed` those that have the key of the targets, `stuck` those whose pass waits for the database for ever (`Hangs`); a worker that stops, in a pass
or not, is started again with the key or without it (`Stops`).  `got[d]` is what the receiver knows.  Left out: files in transit, the age of kept sessions, two deliveries of one connector.

`DoneNotices`: `rows[n]` is the row of a note, with what is left of its 90 days and of the claim on it; `hands[r]` is what a read took and has
still to settle, with what is left of its claim.  A read settles one notice after the other, by the note and not by the
claim.  `excused` and `overrun` are ghosts: the ways out of the promise that the code leaves.

`Cache`: `kv` is the version of a page and its entries with the time left to each, `flushed` what a crash of the
database goes back to (commits there do not wait for the disk).  A note is a number of writes, so an answer
that is behind is smaller.  A read joins the load of its version in its own process; `unsaid` are the writes whose new version is not written yet.  Left out: the store in memory, the other pages.

`RateLimit`: a request reads the clock once, then counts itself in one statement and reads the count of
the window before in another, in any order and up to `Slowest` later.  `granted` has one element for each place of a batch; `Within` is the comparison of the code multiplied
by the length of a window, so that it stays in integers.

`WorkspaceMembers`: `table` holds the committed rows of members, workspaces and accounts, `draft[c]` what the transaction of `c` wrote, and `locks` who
holds which row and how: `share` (FOR KEY SHARE, of a foreign key), `write` (FOR NO KEY UPDATE) and `update` (FOR UPDATE, or a deletion), and the advisory lock of the role.
An account is a member of a workspace once: the unique key makes an insertion wait for whoever writes that membership too (`InTheWay`).
`calls[c]` has the step and the rows that a statement has still to take, in the order of their ids, or in any order for a cascade.  A route of better-auth counts the owners
when it starts and writes later (`RouteCalled`, `Write`); the roles that are not the owner's are one (`Role`), and a change among them is a call as well; the trigger of `0020` is `Trigger`, or is inside the step of a call that already holds the workspace.  `setInstanceAdmin` and
`setSuspended` are one step: whoever reads or writes who is an administrator holds the lock of the role.  Left out: invitations, shares with guests, the suspension of
a workspace, the rows of actions, the sites and notes that go with a workspace.

## 3. Runs

| Run | Instance | What it shows |
|---|---|---|
| `SessionPromise` | 3 tokens, 2 codes, 2 people, instants 0 and 2, lifetime 2, grace 1 | the six properties of the interface below |
| `PostgresPromise` | 3 tokens, 1 code, 2 callers, 2 names, a clock of 2 instants, lifetime 1; every operation that writes | the statements are the promise, one atomic step each; the head is never the only live row of a chain where a token was revoked |
| `PostgresAnswers` | 2 tokens, 2 callers, a clock of 2 instants, lifetime 1 | every call answers or throws |
| `SessionRoutes` | 3 tokens, 1 person, 3 requests at once | somebody who is not active keeps no session once their requests are over and none failed; a restoration gives back none of the sessions it found |
| `ConnectRequests` | 2 requests, 2 accounts, 2 connections, 2 callers, 1 place, 2 wrong words, a clock of 2 instants and a lifetime of 1 | a request is answered once, claimed once, by its account and with its word; the bounds on wrong words and on a burst |
| `ExtensionSession` | 2 contexts and a page, 3 tokens, 2 codes, 2 epochs, 2 calls at once, 1 late request | what storage answers is of the last pairing and live, whatever is written late; what ends it |
| `ExtensionLockout` | 2 contexts, 1 code | a counterexample to a comment: see *Disagreements* |
| `RestDeliveries` | 1 delivery, of an address or of a routine, 2 workers, a series of 3 attempts, 1 request for a new one, 1 fault; what is given up leaves after 1 instant | who is sent a note twice, and why; nothing leaves the queue unsent; every delivery ends while one worker has the key and its answers |
| `DoneNotices` | 2 notes, an account and an address, 2 reads, claims of 1 instant, rows of 2, 1 fault | who is told twice, and why; no message is lost; every address goes |
| `Cache` | 2 reads, 2 processes, 2 writes, an entry of 1 instant, a version of 3, loads of 1 | no new read misses a write whose version is committed; how old an answer may be |
| `RateLimit` | 2 requests at once, a limit of 2, batches of 2, windows of 3 instants, requests of 2 | no place is granted twice; what a minute holds |
| `WorkspaceMembers` | 2 accounts, 1 workspace, 3 memberships, 2 calls at once, of twelve kinds | a workspace keeps an owner and the instance an administrator; what a deletion counted holds; who may wait in a circle |

The properties:

- `TypeOK` (`CacheTypeOK`, `NoticesTypeOK`): one type invariant per module.
- `LiveTokensArePairs`: a chain has two live tokens at most, and one is the predecessor of the other, whatever is lost, retried or replayed.
- `EndedStaysEnded`: no step makes a token live in a chain that ended.
- `GraceStartsOnce`: the first rotation sets `rotated_at` for good; a retry does not start the grace anew.
- `EndingEnds`: when `endSessionsOf` answers, the chains it found have no live token, with successors inserted meanwhile.
- `PromiseIsKept`: refinement of `SessionPromise` by `SessionPostgres`; it carries the properties above (and the rename) to the statements.  So no rotation prolongs a
  session either: a successor has the expiry of its predecessor, which `ChainsAgree` says of the promise and TLAPS proves.
- `HeadIsNeverAlone`: the reason that `chainHasLive` may look at `root_hash` only.
- `EveryCallAnswers`: liveness.
- `StrangersHaveNoSession`, `RestoredFromNothing`: of the routes.
- `PromiseIsKept` of `ConnectRequests`: refinement of `ConnectPromise`.  Nothing the statements read without a lock goes back, so a request
  is answered once and claimed once, and its session is of the account that approved.
- `WrongWordsAreCounted`: words that are guessed at once are compared before any is counted; still no more than the limit are answered, and the last one refuses.
- `ApprovedWithTheWord`: the route skips the comparison when the request does not wait, and goes on to answer; no request is approved that way.
- `BurstIsBounded`: the count and the insert are two statements, so the limit is passed by one per other caller at most.
- `HeldIsOfTheLastPairing`: no refresh of a run that is over brings back a session after a log out or a new pairing, and no other grant is honoured.
- `HeldTokenIsLive`: a lost answer, a late request, a page that closes or a browser that restarts never leaves the extension with a dead token of a live
  session, as long as no two contexts spend one token at once (`ExtensionLockout`) and no retry is answered before the request it repeats.  It speaks of being
  revoked: a live token may still be refused, see *Disagreements* for every way in which a reviewer is locked out.
- `OnlyTheDeadAreEnded`: a refused refresh throws away what the worker ended, and no pairing made since.
- `ArrivesOnce`, `ToldOnce`: a receiver is sent a note twice, a person is told twice, for the reasons that the code accepts and names, and for no other.
- `KeepsItsSeries`: two settlements of one delivery never take it out of its series.
- `NothingIsLost` (of the deliveries and of the messages): what leaves the table was sent, or is said to be given up.
- `RunsAreShown`: the call of a routine leaves the queue after its session is kept, or could not be.
- `EveryDeliveryEnds`: while the workspace acts and one worker has the key and a database that answers, every delivery leaves the queue or is given up.  `EveryAddressGoes`: so does every address that waits for a note.
- `AnnouncedIsSeen`: a read that learns the version of the page never gets, from an entry or from a load it joins, an answer of before a version that was
  committed when it learnt it.
- `NoAnswerIsOlder`: when the invalidation fails or is forgotten, no answer is older than an entry and two slow reads.
- `APlaceIsGrantedOnce`, `AMinuteHolds`: of the rate limit.
- `SomebodyIsInCharge`: whatever two replicas, a route and an administrator, or two administrators do to each other at once, a workspace has an owner and the
  instance an administrator who is not suspended.  Nobody could repair either from the console.
- `TheCountHolds`: between the count of `deleteAccount` and its commit, no other call makes a workspace depend on the account.
- `CirclesAreAboutNewcomers`: members, then the workspace, is an order that no two calls break, except about a member who came after a call looked for the members.

**Bounds.**  A race of the store needs two transactions and two or three rows of a chain: the head,
the token and its successor; a third transaction only waits behind the other two.  Three tokens are a pair, two
rotations or a rotation and its retry.  `PostgresAnswers` has two tokens, enough for circles of waits between statements that lock in another order; the
circle about a third row, the predecessor that a rotation revokes, is not in that run.  `PostgresPromise`
explores three parts, which `Parts` of `MCSessionPostgres` names: chains of three tokens at one instant, time with two tokens, and a rename with two tokens
and nothing that ends a session.  Instants stand for
"now", "inside" and "past" of the lifetimes.  `Ops` names which calls a run lets callers start; `MaxClock`
bounds the clock; a draw that finds no digest left ends its call like a lost connection.  Nothing else is bounded.  In `ConnectRequests`, one place and two callers are enough for a burst to pass the limit, two
wrong words for one that does not refuse, and two accounts for two answers that differ; a poll comes at any instant.
In `ExtensionSession`, a race needs two calls: two refreshes, or one and a click; three tokens are two rotations, or a
pairing over another; the second epoch is the log out or the pairing that ends the first run.  In `RestDeliveries`, two workers are a double
attempt, one new request restarts the series under an attempt, and one fault is a stop, a pass that hangs or a lost write; at the start any of the workers has the key; two deliveries are too many for TLC, so what `limit` holds back
is in the model and not in the run.  In `DoneNotices`, two notes are what a read settles one after the other, a claim of one instant runs out while it does; rows
live one instant longer.  In `Cache`, the version outlives an entry and a slow load by one instant, the least that the comment of
`PAGE_VERSION_TTL_MS` asks for; two writes are a version that ends or is overwritten, and the third reader of a race is
an entry.  In `RateLimit`, two windows of three instants give every offset of a minute, and two requests at once that may take two instants every
order of four statements; `MaxCount` stops a count where more is refused alike.
In `WorkspaceMembers`, two calls and two members are a race for the last owner and a circle of waits; the third id is for an account that comes again while a call still knows its first membership, and is explored (`Parts`)
with the acceptances and the deletions of an account, under one administrator.  A circle of three callers, or about two workspaces, is not in the run.
The constants that start with `Max`, `LastAsk`, `Limit` of `RestDeliveries` and `Slowest` are the bounds; all else is what the code has.
`CHECK_DEADLOCK FALSE` is there because digests, epochs and requests run out, or the last instant of the rate limit is past, and a behaviour then rightly stops.

**Fairness.**  `SessionPostgres`:  Weak fairness of `Statement(c)`: a worker that is not stopped
sends its next statement; a stop is `Lost`, which ends the call.  Strong fairness of `Visit(c)`: PostgreSQL gives a row lock to
those that wait in the order they came, so a statement that could take its row again and again does take it.
Weak fairness of `Victim(c)`: `deadlock_timeout` ends one transaction of a circle.  No fairness is assumed of clients, the clock, or of connections being lost.
`RestDeliveries`: weak fairness of the clock; of the start of a pass by a worker that has the key (`setInterval` of `server.ts`; a worker that stopped is
started again); of the end of a pass, and of each attempt as a whole while the pass of its worker is not `stuck`.  A request has a deadline (`setTimeout` and `destroy`, `rest-send.ts:113`).
A statement has none: `postgres.ts:201-204` bounds the wait for a connection and nothing else, so a pass may wait for the database for ever with `passing` true (`server.ts:178-184`), which is `Hangs`, and
nothing is asked of it then.  A worker without `secretsKey` attempts nothing and the rows wait for the key (`rest-connector.ts:245-246`, `:259`), which is the guard `HasKey`.  So `EveryDeliveryEnds` has a premise, `SomebodyDelivers`: one worker, from
some time on, has the key and a database that answers it.  The code speaks of one container (`server.ts:175`), and with one worker the premise is about that one: without the key, or with a statement that is never answered, its deliveries
wait until it is started again.  TLC finds both counterexamples when one half of the premise is left out.  No fairness is assumed of faults, which are bounded.
A workspace that is suspended again and again holds its deliveries back, which `EveryDeliveryEnds` excludes.  `DoneNotices`: weak fairness of the sweep (a timer)
and of the clock; none of reads, since a page may never be opened again; its sweep supposes as well that the database answers.  The other modules have safety properties only.

## 4. Proofs

`SessionPromiseProofs` proves, for any sets of tokens, codes, people and instants and any lifetimes, as theorems of
`Spec`: `TypeCorrect`, `ChainsAgreeAlways`, `PairsOfLiveTokens`, `EndedForGood`, `GraceStartsOnceAlways`, `EndingEndsAlways`.
The assumptions are the named ASSUMEs of `SessionPromise`: the lifetimes and instants are natural numbers, and the null values are none of the values they stand beside.

`ChainsAgree` (a token has the person and the expiry of its head) is proved and in no run of its own.  `LiveTokensArePairs` is not inductive: nothing in it prevents a predecessor that has a live successor from being rotated
as if never rotated.  The inductive invariant `IInv` adds:
`DigestsAreIssued` (a row has a digest that was drawn, so an insert overwrites nothing),
`ChainsAgree` (links stay in a chain), `SuccessorsFollowRotation` (a token that has a
successor was rotated).  `EndingOwnsItsChains` (every chain a call found belongs to one of its people) is what `EndingEnds` needs besides.  There is one lemma per action and, under
it, one step per conjunct that the action can disturb; facts on the successor and on
revoking are stated once.

`SessionPostgresProofs` proves, for any number of callers, tokens, codes, people and instants: `InvariantHolds`, `HeadIsNeverAloneAlways` and the refinement,
`PromiseIsKeptAlways`.  So what is proved of the promise holds of the statements, under READ COMMITTED and the locks they take.  A promise is kept at a commit, of which
the caller's own rows are the evidence, so the invariant says what each call knows at each of its statements:

- of the rows (`RowsOK`): what a transaction wrote it holds, or drew for itself (`WritesAreHeld`), and the tokens of a chain agree with its head, which is there until it expires (`ChainsHold`);
- of each call (`CallOK`, one case per operation): which rows it holds, which it wrote and with what, which a statement found and has still to take.  `PairOK`: the
  code is spent for this call, and not expired.  `ChainOK`: the head is held, so what was decided of the token (`Gone`, `Late`)
  is still so.  `EndOK`: the heads of the chains it found are held, and every session of those chains is ended or about to be taken.  `RewriteOK`: so are the codes it found and the heads of
  their sessions, and every row that may be rewritten was, or is about to be;
- of two calls (`PurgesAreWhole`): a purge takes its rows in any order and no head first; when it has reached the head of a chain that a refresh works on, it has reached the token of the refresh too,
  because a chain expires at once.

A step of a call is checked against that call; a lemma says what it leaves true of the others (`Env` is what a call may see another do, and `EnvStays` what stays under it).  On that stands the refinement.
A commit maps to one action of the promise (of a purge `Purge`, of a redemption `RedeemPairing`; of a refresh, the one its outcome names; of a call on a person, its end), a call on a
person that starts or fails maps to that, and every other step changes nothing that a caller sees.  The assumptions are that tokens and codes are natural numbers (digests have an order) and apart, that lifetimes
and instants are natural numbers, that a scope is a set of people, and that the null values are none of the values they stand beside.

`SessionRoutesProofs` proves `RoutesUseTheStore`: `Spec => Store!Spec`, every action of the routes is an
action of the store or leaves it as it is.  Read with the theorems above, the properties of the store hold under
the routes, for every value of the constants.  On it stand `TypeCorrect`, `StrangersNeverKeepSessions` and `RestoredFromNothingAlways`.
`StrangersHaveNoSession` speaks of people whose requests are over; the invariant `Guarded` speaks of every state: until a pass fails, each
live session of somebody without a role is *covered* by a request (`Covers`), which checks or revokes the session it opened, or is in its second
pass, with the session among the chains it found or a search still to come.  A step that uncovers a session ends it; one that
opens a session covers it itself, because the person a request checks is the one of the row (`CallsAgree`, for which a code keeps its person: `CodesStay`);
one that takes a role away goes on to the second pass.  The restoration needs an invariant of its own, `RestoringEnds`: what a request found has ended when it comes to
write.  Its steps cite the lemmas of `SessionPromiseProofs` through an instance (`S!EndedStep`, `S!EndingStepEnds`, `S!StepDraws`).

`ConnectRequestsProofs` proves, for any accounts, requests, callers and limits: `TypeCorrect`, `WrongWordsAlwaysCounted`,
`AlwaysApprovedWithTheWord`, `BurstIsAlwaysBounded`, and the refinement, `PromiseAlwaysKept`.  What makes them inductive is that what a call read stays true:
`ClaimsAreApproved` (a claim that goes on has a request that is still approved by the account it read, or is gone),
`WordsWereCompared` (an approval with another word carries an instant as of which the request no longer waits), `MissesAreHeard`
(the column is the history), and `RowsAreAsked` (a request that was purged is never made again).  `WaitingGoesForGood` and `ApprovalsStay` are the lemmas
that the comments of the code stand on: "neither ever goes back".  The bound on a burst counts sets that change in one step (`WaitingMoves`, `InsertsMove`): a call let through found fewer than `MaxLive` requests that
waited as of an instant that is past (`CountsArePast`), and of those no more wait now (`WaitingShrinks`).  The assumptions are that the limits are natural numbers, that at least one request and one wrong word are allowed, that the calls that run at once are finitely
many, and that the null values are none of the values they stand beside.

`ExtensionSessionProofs` proves, for any number of contexts, pages, tokens, epochs and calls at once, `TypeCorrect`,
`HeldIsOfTheLastPairingAlways`, `HeldTokenIsAlwaysLive` and `OnlyTheDeadAreEndedAlways`.  The invariant says of every call what it is about to write: `RefreshOK` and `ClickOK` (what carries the epoch that
counts is of the last chain), and `RunOK` of every key of storage; a new epoch is beyond all that are carried, and makes them harmless at once.
`HeldTokenIsLive` needs a second invariant, `SpentOnce`: the links of a chain stay in it (`LinksHold`), and, while no two contexts spent one token at once and no retry overtook its request (`~doubled`), the answer to one request only is written for one token.  A token
that the worker may still be asked for is the one that storage answers, if it is of the last chain (`AskedIsHeld`); a successor is nobody's before it is written (`CarriedIsNew`); one call at most writes
the run that counts (`WritesAreAlone`); what it writes is live (`WrittenIsLive`, `AdoptedIsNew`).  `RotationLasts` says what a refresh leaves of a chain: the token that is spent and its successor, and all of every other chain.
The last theorem stands on `Leaving`: what a refused refresh removes expired or ended, for good (`DeadStays`), and a sweep removes runs of older epochs.
It all stands on `SessionPromiseProofs`, whose invariant and lemmas are instantiated for the worker inside.

`SharedTablesProofs` proves three small components, one after the other; it extends all three modules, which is why the names of `Cache` and `DoneNotices` say whose they are
(`CacheSpec`, `NoticesSpec`).

Of `RateLimit` it proves, for any limit, callers and instants: `TypeCorrect`, `PlacesAreGrantedOnce` and `AMinuteAlwaysHolds`.  The invariant has the
history of a key in it: `KeysLast` (a key lives until no request of its window can count the next), `RequestsAreCounted` and `RequestsAreApart` (every request that counted
has places of its own, from 1 to the count), `GrantsAreCounted`, `GrantsAreApart` and `GrantsAreOfTheirWindow` (so have those let through), and
`FullWindowsFollowNone` (with `ReadsAreWhole`): the last place of a window is
granted only to a request that read nobody in the window before, so, unless that read missed somebody, two windows in a row are never both full.

Of `Cache`, for any lifetimes, readers, processes and writes: `CacheTypeCorrect`, `AnnouncedIsAlwaysSeen` and `NoAnswerIsEverOlder`.  The first property needs to know what may be filed
under a version before anybody reads it: a new version is new, so nothing is there yet and nobody can file there (`VersionsAreSaid`); what is filed under the version of the page has every write
that was announced (`TheVersionIsFresh`); and what is filed under the version a read learnt has what was announced when it learnt it (`FloorsHold`).  A page without a version is the hard case, for that is no new name:
after a version ends, an entry or a load of before it could be found again.  `NoneIsOld` says that none is left: while there is a version,
who read that there was none is as old as the version, and so is what they stored, because `TtlAssumption` makes a version outlive an entry and the slowest load.  That is
what the comment of `PAGE_VERSION_TTL_MS` asks for, and the one place where it is needed.  `NoneWasFlushed` is what a crash of the database needs besides: it may bring back entries, and
never a page without a version beside one that has it.  For the second, `AnswersAge` bounds the last write that each entry and each load misses by the time each has been there.  The other assumptions are that an entry lives at all and that writes are counted.

Of `DoneNotices`, for any notes, people, readers and claims: `NoticesTypeCorrect`, `EveryoneIsToldOnce`, and of every step `NoMessageIsLost`.  `ToldOnce` is not inductive: whoever holds a notice may tell it.
The invariant says who may: until its claim runs out, the row of a note is the one its read took, with the claim of that read (`ClaimsHold`), and no other read has the note (`OneReadHasIt`), although no statement
of the code compares the claim.  A notice that was told is in no list any more, and in one hand at most, which is about to remove the row (`ToldAndGone`); so a row that is taken again was not told.  That a removal
takes away only what was told is `LeftWasTold`, on which `NoMessageIsLost` stands, with the ways out that the property names (the end of 90 days, a note that left the index, an account that goes, the notices turned off).
The assumptions: the times are natural numbers, an account is a person, and the null values are none of the values they stand beside.

`WorkspaceMembersProofs` proves, for any accounts, workspaces, memberships and callers: `TypeCorrect`, `SomebodyIsAlwaysInCharge` and
`TheCountAlwaysHolds`.  The invariant has one part for each call, `CallOK`, which says what the call read, wrote and holds in terms of the committed rows alone: what it wrote
it holds (`RowsHeld`), a call that takes an owner away and may commit holds the workspace and leaves another owner (`Sure`), and a deletion of an account holds
the workspaces of its memberships (`EraseOK`).  A step of one call is checked against that call; a commit leaves the part of each other call true (`CommitLeaves`),
because the locks of two calls on one row go together (`LocksAgree`).  The assumptions are that the ids are natural numbers (they have an order), that the ids of three
tables are apart, and that the null values are none of the rows.

It also proves `CirclesAreAlwaysAboutNewcomers`.  `WaitInv` strengthens the invariant with what a call holds while it waits: the members of before that it is about are held,
or it has yet to come to them and holds no member with a larger id (`ManageWaits`, `EraseWaits`); a route holds no member while it waits for one (`RouteWaits`); an acceptance or a
creation holds its workspace and its account only as others may share them (`JoinWaits`); and nobody else names a workspace that is being made (`NamesNew`).  In a circle that is about no newcomer and has no acceptance nobody waits
for an insertion (`InsertionsWaitForJoins`), for the role (who waits for it holds nothing yet, so nobody waits for that call), for an account, or for a workspace:
the holder of a workspace that still waits is a deletion of an account, and two of these would share the role lock.  So all of them wait for members
(`NoCircleOfOldMembers`), each for one with a larger id than those it holds; of the smallest that is waited for, the holder would wait for a smaller.  The argument
takes the smallest of a set of ids, so it needs no bound on the callers, finite or not.

`RestDeliveriesProofs` proves, for any deliveries, workers, series of waits and limits: `TypeCorrect`, `ArrivesOnceAlways`, `KeepsItsSeriesAlways`, and of every
step `NothingIsLostEver` and `RunsAreShownAlways`.  `ArrivesOnce` is not inductive: the invariant adds that only one worker attempts a delivery that is not excused (`OneAttempt`), and that
a receiver that has it has it from that attempt, whose settlement is all that is left to its row (`GotOnce`).  `ArrivedIsGot` and `KeptIsShown` say the same of every attempt, excused or not,
and give the two properties of a step: `WaysOut` lists how a row leaves the table.  The assumptions: a wait is a positive number of seconds, a pass attempts at least one delivery, and the null values
are none of the values they stand beside.

Only model-checked: `EveryCallAnswers`, `EveryDeliveryEnds` and `EveryAddressGoes` (liveness is out of the prover's reach, with ENABLED).

## 5. Disagreements between the code and what it says

Found by a run:

- `ExtensionLockout`: "Two callers spending the same token is a lockout" (`src/docs/decisions/worker.md:2599`), and the map of refreshes is "the only thing between"
  (`src/apps/extension/src/session.ts:441`).  Each context has a map of its own: the popup and the background may spend one token at once, and the first may
  store the successor that the second's retry revoked.  `HeldTokenIsLive` says nothing once that happened.

  It is not the only way to be locked out.  One context does it alone when its first request arrives after the retry was answered and stored: the worker takes it for
  a second retry and revokes the successor that the extension holds (`RotateAgain`, `session-postgres.ts`), so the next refresh is refused.  `doubled` excludes that case too.
  And a live token that was rotated is refused once the grace passed, and its chain ends with it (`RotateLate`, `session-postgres.ts:184-189`): an answer that stays lost for longer than the grace is a
  lock-out that the extension knows of (`session.ts:391`).  Apart from these and from what ends a chain (a log out, a replay, an expiry, the worker), the
  property holds of every late, lost or repeated answer, of pages that close and of a browser that restarts.

Found while modelling, each with a counterexample of TLC at the time; the properties that the comments state are not among the runs:

- `session-postgres.ts:84`: "In one order for every call, so two calls that hold two rows never wait for each other."  A rotation revokes the predecessor (`:222`), a third row it does not hold, out of the order of the digests, and can
  wait in a circle with `endSessionsOf`.  PostgreSQL ends one of the two, and its caller answers an error: `EveryCallAnswers` still holds.
- `session-postgres.ts:74-75`: "A purge removes a whole chain in one statement."  A purge (`:407`) can delete a head and leave a successor that was being committed.  It has expired, so nobody can use it.
- `session.ts:92-93`: `endSessionsOf` "Ends every session of a person in a workspace, and spends the codes minted for them there and not redeemed yet".  A redemption in flight opens a session that it does not end: its UPDATE of the codes (`session-postgres.ts:397`) waits for the
  redemption, after its UPDATE of the sessions.  The check of the routes ends it, except on a worker without accounts.
- `session-postgres.ts:291`: "Only the name changes after the pairing is made".  `readdressSessionsOf` writes the address since, and a redemption writes the one it read with no lock over it (`:327`).
- `instance-admin.ts:762-763`: "A session that a failed suspension left live is ended before the account can act again".  A restoration that read an account before it was suspended (`:779`) ends no session; when the suspension's pass over the sessions fails, the restored account has its old sessions.
- `connect-routes.ts:144`: "An account suspended after the approval opens nothing (FRU-281)."  A claim reads the account before its transaction (`session-postgres.ts:562`), so an account suspended in between opens a session.
- `done-notices.ts:18-19`: "One case sends twice".  So do a provider whose answer does not come in time, and a page whose notices take longer than the claim (`overrun` in the model); there the late `sent` may also delete a row that was written
  meanwhile for somebody else, who is told nothing.
- `rate-limit.ts:16-18`: "`2 × limit − 1` requests through in 60 seconds ... That is the most any caller gets".  A request that reads the clock at the end of a window and is counted after a request of the next one has read the count gives one more, and so does a
  slow request whose key has ended.  `AMinuteHolds` states both bounds.
- `accounts.ts`, of `settleDelivery`: what somebody asked for "must not be written over".  An attempt from the count 0 has the count of the new request, so its failure is counted against it; nothing is lost but one attempt of the series.
- `SECURITY.md:2229-2231`: a writer that holds a workspace "holds the members first, so that a route and a deletion do not wait for each other".  They do, about a member who joins after `holdMembers`
  (`accounts-postgres.ts:293`) looked: an acceptance is shared with the FOR NO KEY UPDATE of `dropWorkspace` (`:322`), so the new owner is held by nobody; a demotion of them holds
  their row and waits for the workspace in the trigger, and the deletion waits for the row.  So do an administrator and an acceptance: `addMember` and `setOwner` hold the workspace and insert a membership (`instance-admin-postgres.ts:1017`, `:1051`), which waits for an
  acceptance of the same person that has its key and waits for the workspace.
  PostgreSQL ends one of the two calls; `CirclesAreAboutNewcomers`, which is proved, says that there is no other circle.
- `note-helpers.ts:154-157`: "a pin that shows up one TTL late".  With a slow load in flight it is later: `NoAnswerIsOlder` has the bound.

## 6. Plan

Done: the sessions in the worker and in the extension, the requests that connect a browser, the two queues of messages, the cache, the rate limit, and who is in charge
of a workspace and of the instance.
What a next step would take, in this order:

1. The files in transit of a delivery (`attachments.ts`): they end by a time of their own, and a delivery that arrived shortens it.
2. The refresh of a Linear connector, once what Linear answers to a token used twice is known.
3. The connect flow of the extension over `ConnectRequests` and `ExtensionSession`.

## 7. Not modelled

Reads that write nothing (`chainOf`, `liveIdentity`, `holdsSession`, `sessionStillValid`); the drawing, hashing and signing of tokens; rows
an operator edited by hand; SERIALIZABLE or other isolation levels (the code uses none); HTTP.  The components with status `not_modelled` in
`PROJECT.json` have their reason there: user interface, parsing, calls of other services, or later in the plan.
