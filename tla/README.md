# A formal model of smart-http-requester

TLA+ models of the API server in this repository, checked by TLC on small
instances, and theorems about them proved by TLAPS for instances of any size.
Paths below are relative to the repository's root; `TaskService!Write` means
the definition `Write` of the module `TaskService`.

## 1. The system

The API accepts descriptions of HTTP requests ("tasks"), stores them in
PostgreSQL, announces them on RabbitMQ, and lets workers (separate programs, not
in this repository) carry them out. Users log in and get an opaque token.

| Part | Code | State it keeps | Operations |
|---|---|---|---|
| Task endpoints and domain | `api/v1/requests.py`, `domain/tasks.py` | none of its own | POST `/`, POST `/batch`, GET `/`, GET/PUT/DELETE `/{id}` |
| Task repository, `tasks` table | `repository/task.py`, `migrations/0001`, `0004` | rows: owner, content, status | INSERT, batch INSERT, SELECT, UPDATE, confirm, list |
| Session lifecycle | `services/database.py` | one transaction per request, the pool of connections | open, commit after the response, rollback, close |
| Publication | `services/rabbitmq.py` | `tasks.queue`, one connection per process | connect, publish, close |
| Retry topology | `services/rabbitmq.py:47-82` | exchanges, queues, bindings, waiting messages | declare, bind; the broker routes and expires |
| Status announcements | `repository/task.py:243-251` | Redis channel `tasks.status` | PUBLISH |
| NOTIFY trigger | `migrations/0003` | none | notify on status change |
| Auth endpoints and domain | `api/v1/auth.py`, `domain/auth.py` | none of its own | register, login, token, logout, refresh, me |
| Auth repository, `users`, `tokens` | `repository/auth.py`, `migrations/0001`, `0002` | accounts; one token and expiry per user | INSERT, get-or-create, DELETE, UPDATE, resolve |
| Authorization | `middleware/auth.py` | none | token to user |
| Password hashing | `core/auth.py` | none | hash, check |
| Rate limiter | `middleware/rate_limit.py`, `services/redis_service.py` | Redis counters per address and window | one Lua script |
| Metrics | `middleware/metrics.py`, `services/metrics.py` | a gauge and counters per process | count, expose |
| Lifecycle, settings, logging | `application.py`, `config.py`, `services/logger.py` | start-up, serving, shutdown | start-up checks, wiring, closing |
| Websocket helpers | `api/v1/requests.py:25-40` | `active_connections` | not reachable from any route |
| Workers | documents only | the same `tasks` table | take a message, claim, record the outcome |

How they interact: a request passes the metrics and the rate-limit middleware
(one Redis script), then the authorization dependency (one SELECT), then its
handler. Handler and dependencies share one SQLAlchemy session; `get_db` commits
it after the response has been sent. Handlers and workers meet in the `tasks`
table, through row locks and committed versions, and in `tasks.queue`. Requests
of one user meet in the single row of `tokens`, requests of one address in the
counters of Redis.

What is hard here, and what each part must get right:

* **Tasks.** A row and a message are written to two systems without a common
  transaction; statements of one request interleave with other requests and with
  workers; the commit comes after the answer; an UPDATE runs before the check
  that may refuse it. Right means: no lock outlives its request; only the owner's
  accepted requests change a row; what was answered is what is committed; nothing
  pending without a message, no message without a row; the status only moves
  forward; accepted tasks get finished.
* **Sessions.** Two transactions per request, on a row keyed by the user while
  the client presents a token. Right means: an ended token never works again, a
  token that was handed out works until ended, and no interleaving opens a session.
* **List.** Each page is a query of its own, and the order moves between them; the
  stamps it is ordered by are the times transactions began. Right means: a walk
  shows what nobody touched, and repeats nothing without a cause.
* **Broker.** Several processes declare the structure while others publish; they
  stop and start; workers die; the broker restarts. Right means: as long as a process
  serves, every message has exactly one way to go; nothing is lost or doubled but for
  named causes; retries wait as long as they should and come to an end.
* **Gateway.** Exceptions can leave at any depth; requests wait for connections, row
  locks and each other; start-up and shutdown race requests. Right means: metrics add
  up on every way out; nobody waits in a circle; one broker connection per process.
* **Rate limiter.** A stamp taken before the script runs, two windows, keys that
  expire. Right means: nothing that still counts is forgotten, everything else
  is; the limit holds per window; nobody under the limit is refused.

`PROJECT.json` lists the hazards with their lines and the properties that cover them.

## 2. Modules

| Module | What it is |
|---|---|
| `TaskService` | the task half of the API: requests, table, queue, announcements, workers, failures |
| `TaskLedger` | abstract specification: what the `tasks` table promises a reader |
| `TaskProperties` | the properties of `TaskService` that hold, its refinement of `TaskLedger`, and the inductive invariant |
| `TaskClaims` | what the documents say of tasks and the code does not do |
| `TaskProofs` | theorems about `TaskService`: the table and its locks |
| `TaskMessagesProofs` | more of them: messages, announcements and counters |
| `Sessions` | accounts and tokens, with properties and inductive invariant |
| `SessionsProofs` | theorems about `Sessions` |
| `RateLimit` | the rate limiter for one address, with properties and inductive invariant |
| `RateLimitProofs` | theorems about `RateLimit` |
| `Broker` | exchanges, queues and bindings, messages and retries, with properties |
| `BrokerProofs` | theorems about `Broker`: the structure, and that nothing is lost |
| `BrokerCopiesProofs` | more of them: copies of a message, and how long retries wait |
| `Listing` | a walk through the pages of `GET /` over a changing table, with properties |
| `ListingProofs` | theorems about `Listing` |
| `Gateway` | one API process around its handlers: lifecycle, middlewares, pool, broker connection |
| `GatewayProofs` | theorems about `Gateway` |
| `MCTasks`, `MCSessions`, `MCRateLimit`, `MCListing` | add symmetry sets for TLC |

Definitions marked "Mutant" are never used by a specification. Each is the
operator after it with a plausible mistake, and documents which mistake a
property detects; the pairs are listed in `PROJECT.json`.

### TaskService

A request is a record `req[r]` whose `pc` says what its handler does next. One
action is one statement, or several that nobody else can tell apart.

| Request | Actions, in order | Code |
|---|---|---|
| POST `/` | `CreateInsert` or `InsertFails` (INSERT, commit), `Publish`, `Confirm` (UPDATE, commit, counter, answer) | `domain/tasks.py:32-72` |
| POST `/batch` | `BatchRejected`, or `BatchInsert`, `Publish` once per task, `BatchFinish` (answer), `FinalCommit` | `domain/tasks.py:75-103` |
| GET `/{id}` | `NotFound` or `Get` | `domain/tasks.py:106-138` |
| PUT `/{id}` | `NotFound` or `Select`, `Write`, `Check` (re-read, announce, verdict, answer), `FinalCommit` | `repository/task.py:186-251`, `domain/tasks.py:209-256` |
| DELETE `/{id}` | the same, without `Write` if the task was not pending | `repository/task.py:135-184`, `domain/tasks.py:165-206` |

The table has a committed version `row[t]` and, while a transaction has written
the row, an uncommitted one `draft[t]` owned by `lock[t]`; row locks exclude a
second writer, so one draft is enough. A read sees the reader's draft or else the
committed row, and an UPDATE waits for the lock and starts from the committed
row: READ COMMITTED. `Commit`, `Rollback` and `Raises` are the three ways out of
`get_db`. A rejection (403, 400) is an exception and so rolls back before the
client sees it; a 200 is sent first and committed afterwards.

`tasks.queue` is a set of tasks: the code relies on no order among messages.
A restart of the broker empties it and records in `lost` what was in it, and `missed`
records the tasks whose message a worker dropped because it saw no row, so that the
properties can name the cause. The failures are the members of `FaultKinds`; a run
chooses which happen. A failing publish may or may not have reached the broker, and a
failing commit may or may not have taken effect, the commit between INSERT and publish
(`InsertFails`), that of the confirmation (`ConfirmFails`) and that after the response
(`CommitFails`) alike. The first statement of any handler can fail (`StartFails`) and each
later one (`StatementFails`). A process can die at every point of a handler (`Crash`),
also between the commit of the confirmation and the answer (`CrashConfirmed`).

The workers are external. `WorkerTake` and `WorkerFinish` are the best-behaved
workers the documents allow: one conditional UPDATE claims the task, messages of
tasks that cannot be started are dropped, and what was started gets finished.

`UrlBinds` says whether the driver takes the `HttpUrl` object that
`create_tasks_batch` binds for a TEXT column. It does not (asyncpg wants a
`str`), so FALSE is the code as it is, and the run `claim_batch` shows it. The run
`tasks` takes TRUE and so checks what lies behind that error.

### Sessions

Each method of `AuthRepository` is one transaction and one action; the function
`get_or_create_user_token` has two statements and is `Lookup` then `Insert` or
`Return`. The endpoints behind the authorization dependency are `Authorized` (the
token is resolved, the user remembered), then `Logout`, `Refresh` or `Me` on the
user's row. `Tick` moves PostgreSQL's clock, so a session can expire at any point.
A failure is `Fails` (before the commit) or the 500 of `Answers` (the outcome of
the commit is lost). `/token` does what `/login` does. The password check is an
input. Some accounts may exist initially, which spares the runs their
registration.

### RateLimit

`Stamp` is `check_rate_limit` up to its call of the script, `Refuse` and `Admit`
are the two outcomes of one atomic run of the script, `Fail` (and the 500 of
`Admit`) a Redis that goes away before or after it. `count[w] = 0` stands for an
absent key, `Tick` drops keys that are due. The comparison is multiplied by
`Window` and so exact; Redis computes it in floating point, a difference the
model does not have. `late` records that a request was counted after one of a later
stamp: only then can X-RateLimit-Remaining be negative, down to the limit's negative
(`RemainingIsBounded`). `MaxDelay` bounds the seconds from stamp to script; the code
has no such bound, see below. One address: the keys of two have nothing in common.

### Broker

`Declare(p)` is the next declaration of `setup_rabbitmq_with_retries` in process `p`,
each awaited; `Serving(p)` is the end of `pre_check`. `Declaration(i)` lists exchanges,
queues and bindings in the order of the code, `Route(x, k)` is what a direct exchange
does with them, and a message without a route is dropped. `Publish` is `publish_task`,
with its own declaration of the exchange and the header `x-attempts-done`.

RabbitMQ is external: `Expire` dead-letters the head of a retry queue, `Tick` lets a
second pass when nothing is due. So are the workers: they take a message, settle it,
or publish the next attempt to its retry queue and then acknowledge; past the last level
the delay no longer grows. `Stop`, `WorkerDies`, `Reject` and `BrokerRestart` are the
failures. A restart keeps what was declared durable and drops all messages, because
`publish_task` leaves out the delivery mode.

### Listing

`List` is one request of a client that asks for page after page until one is not full;
`Page` is OFFSET and LIMIT over some order of the rows that ORDER BY allows, another
one at every query. A writer is a transaction: `Begin` fixes its NOW(), and `Insert`
or `Update` is its commit. `touched`, `tied` and `older` are sets of tasks that record why a walk can go wrong:
those written since the first page, those that shared a stamp when a page was cut, and
those that an update has moved back in the list.

### Gateway

`at[Main]` is the lifespan: the stages of `pre_check` in order, serving, draining,
`pre_shutdown`. `at[r]` is how far a request has come: `Limit` (the limiter's middleware),
`Authorize` or `Malformed`, `Handle`, and what the kind of request adds: `Publish`,
`Connected`, `Confirm` for a create, `Publish` any number of times for a batch (or
`EmptyBatch`), `Lock` and `Check` for a write. A create gives its connection back before it
publishes, a batch keeps it and publishes inside its transaction. `Answer` is
the start of the response, where `MetricsMiddleware` counts; `Finish` is the rest of
`get_db`. `Raise` is an exception that no handler turns into a response. A session has a
connection from its first statement to the end of its transaction (`Ask`, `Obtain`,
`GivesBack`). What the limiter, the authorization and the handlers decide is a choice here.
Nothing that follows the decision depends on the kind of a request, so `Goes` forgets it there.
All writes are for one row, the worst case for the pool; the rows of a batch are new, and
no other request waits for them.

## 3. Runs

The bounds are sets of model values in the `.cfg` files: requests are handled once
each, and a task, token or content is one of a few values. There are no state
constraints; `MaxTime` in the guard of `Tick` bounds the clocks.

| Run | Instance | What it shows |
|---|---|---|
| `tasks` | 3 requests, 2 tasks, 2 users, 2 contents; create, batch, update, cancel, with batches that bind; crash, publish, commit may fail | `TypeOK`, `IInv`, `LocksAreReleased`, `AcceptedIsPublished`, `CountersKeepUp`, `PendingIsQueued`, `QueuedIsStored`, `OnlyOwnersWrite`, `ImplementsLedger` |
| `tasks_live` | 3 requests, 1 task, 1 user, 2 contents; create, get, update, cancel; crash, publish, statement, Redis, broker may fail | `AnswerIsCommitted`, `AnnouncedIsCommitted`, `EveryRequestIsAnswered`, `CreatedTaskIsFinished` |
| `sessions` | 4 requests, 1 user, 4 tokens, lifetime 1, clock to 2, failures | `TypeOK`, `RevokedTokensAreDead`, `HandedOutTokensLast`, `IInv`, `OnlyLoginOpens` |
| `rate` | 2 in flight, limit 2, window 3, delay up to 3, clock to 9 | `TypeOK`, `NothingThatCountsIsForgotten`, `LimitPerWindow`, `RetainedTwoWindows`, `RemainingIsNotNegative`, `IInv`, `NoFalseRefusal` |
| `broker` | 2 processes, 2 workers, 2 messages, 2 retry queues, 3 attempts, one failure of any kind | `TypeOK`, `ServingIsRouted`, `NothingElseIsLost`, `OnlyDeathsDuplicate`, `BackoffDoubles`, `PublishedIsSettled` |
| `listing` | 3 tasks, 2 writers, pages of 1, clock to 3 | `TypeOK`, `QuietTasksAreListed`, `RepeatsAreWrites` |
| `gateway` | 3 requests of any kind, 2 connections, all failures | `TypeOK`, `MetricsAddUp`, `WaitersHoldNothing`, `OneConnection`, `EveryRequestEnds`, `IInv` |
| `claim_cancel` | 2 requests, 1 task | violates `OnlyPendingIsCanceled` |
| `claim_saved` | 2 requests, 2 tasks, publish may fail | violates `SavedIsPublished` |
| `claim_batch` | 2 requests, no failures | violates `BatchIsAccepted` |
| `claim_login` | 2 requests, 1 user, clock to 2 | violates `LoginGivesValidToken` |
| `claim_burst` | 2 in flight, limit 2, window 3, no delay | violates `NoBoundaryBurst` |

Why the bounds are enough. Requests for different tasks share nothing but the
batch, so one task with a creator and two writers, next to the workers, gives
every race for a row; two users give the owner and the stranger; two tasks are
the smallest batch that can be published half. A user's sessions are one row, so
four requests give two logins at once, or a login, a refresh, a logout and one
that is late. A GET changes nothing, so it is in `tasks_live`, where it is to be
answered. The limiter looks at two windows; the instance has three and a
bit, so keys expire and are created again. In `tasks_live` the commit after the
response does not fail, because then nothing can be said of what it announced: the client
has its 200, the write is rolled back, and nothing in the code prevents or mends it. A
process that dies between answer and commit does the same, and `AnswerIsCommitted`
leaves it out too. `tasks` has neither failing statements nor broker restarts, which
`tasks_live` has: with them its nine properties also hold (1.3 million distinct states),
but the run is too slow to be repeated with every change. A failing statement
takes the path of the other errors, `Raises`, and a restart only adds to `lost`, which
`PendingIsQueued` excepts.

Two processes are enough for one that declares while another publishes, two workers
and two messages for one message in front of another in every queue; with two retry
queues and three attempts the last level is used and the attempts run out. One
failure; the safety properties also hold with two (5.4 million states), but that is too
large for the liveness check. Three tasks and
two overlapping writers on pages of one row make each of the three
exceptions of `QuietTasksAreListed` necessary (without it TLC finds a walk that misses
a row). The exception `older` of `RepeatsAreWrites` is necessary in an instance with
three writers and a clock to 5, where two late commits move one task back along with the
walk, which shows it three times while no other is written; TLC found this after a proof
had failed. In `listing` it makes no difference. With two connections and three requests one holds the row lock, one waits for
it, and one waits for a connection; or a batch publishes while the two others wait. A batch
is finite: one more `publish_task` leaves the state of `Gateway` as it is, so the fairness
of `Proceed` asks for the last.

Violated claims. Each quotes a sentence of the repository; the findings in
`PROJECT.json` give the place in the code.

* `OnlyPendingIsCanceled`: the status is checked by a SELECT and not by the UPDATE,
  and a worker fits in between: a running task is canceled. PUT has the same gap.
* `SavedIsPublished`: the row is committed first; if publishing fails, the client
  gets a 500 and the row stays `BEFORE RMQ` for good.
* `BatchIsAccepted`: see `UrlBinds` above.
* `LoginGivesValidToken`: an expired row is handed out again at every login, and
  nothing else can remove it, because logout and refresh need a valid token.
* `NoBoundaryBurst`: the limiter keeps counters, not timestamps.

Seen while modelling, without a run of their own:

* `src/README.md:59` says "exponential backoff retry (5s, 10s, 20s, 40s) → Dead Letter
  Queue" and line 115 "exponential retry (5s → 40s)". The queues of the code
  (`services/rabbitmq.py:18-26`) wait 1, 2, 4, ... 64 seconds, as ADR-005 says. This is what
  `BackoffDoubles` states and the run `broker` and the theorem `BackoffIsExact` show, so
  they contradict those two lines. Nor is there a dead letter queue (below).
* `docs/adr/005-dlx-exponential-retries.en.md` draws the retry queues as a chain, each
  leading to the next. In the code each leads back to `tasks.queue`; with the chain
  `BackoffDoubles` fails (the mutant `ChainKey`).
* `tasks.queue` dead-letters with the key `retry.1s`, and the retry queues are bound by
  their full names (`tasks.retry.1s`): what a worker rejects disappears. `tasks.dlq` has a
  name and is never declared. This is the exception `rejected` in `Broker`.
* `docs/adr/001-use-rabbitmq-for-async-processing.en.md:49` says that messages survive
  broker restarts. The queues do; the messages are transient. This is the
  exception `lost` in `Broker` and `TaskService`.
* An exception that is not turned into a response (from the limiter, the authorization,
  and every handler but the two POSTs) is in no counter of requests, though the counter is
  said to be of all. This is the exception `raised` in `MetricsAddUp`.
* The list is said to show the most recently modified task first
  (`api/v1/requests.py:121`); NOW() is the start of the transaction, so an update
  that began earlier and committed later is placed too low. This is the exception `older`.
* `docker/api/Dockerfile` starts two worker processes with a metrics registry each; a
  scrape reads one of them.

Fairness. `FairSpec` of `TaskService` (`tasks_live`, `claim_saved`) has weak fairness for
each request's `Proceed`: the event loop resumes a coroutine whose await is over, and an
UPDATE that waits for a lock is next once the lock is free (a lock is released for good
when its transaction ends, since each request takes it once). It has weak fairness for
the workers, which keep consuming. `Gateway` has the same for requests, with the pool
serving its waiters, and for `PreShutdown`, which nothing holds up once the requests are
over. `Broker` has it for time, for the expiry of what is due and for the workers.
Neither arrivals nor failures are fair: nobody has to send a request or start a process,
and nothing has to break. `gateway` does not rely on the pool's 30 second timeout: it is
among the failures, and `EveryRequestEnds` holds whether or not it strikes.

## 4. Proofs

Theorems hold for any sets of requests, tasks, users, contents and tokens, any
limit and window, and any choice of failures, under the assumptions named in the
modules (`ConstantsAssumption`, `SessionsAssumption`, `RateLimitAssumption`,
`BrokerAssumption`, `GatewayAssumption`, `ListingAssumption`).

| Module | Theorem | States |
|---|---|---|
| `TaskProofs` | `Invariant`, `TypeCorrect` | `[]IInv`, `[]TypeOK` |
| | `LocksReleased` | `[]LocksAreReleased` |
| | `OwnersOnly` | `OnlyOwnersWrite` |
| | `AnswersCommitted` | `AnswerIsCommitted`, if `"commit" \notin Faults` |
| | `LedgerImplemented` | `TaskService` implements `TaskLedger` |
| `TaskMessagesProofs` | `MessagesInvariant` | `[]MInv` |
| | `PublishedWhenAccepted` | `[]AcceptedIsPublished` |
| | `PendingQueued` | `[]PendingIsQueued` |
| | `QueuedStored` | `[]QueuedIsStored` |
| | `CountersAgree` | `[]CountersKeepUp` |
| | `AnnouncementsTrue` | `AnnouncedIsCommitted` |
| `SessionsProofs` | `Invariant`, `TypeCorrect` | `[]IInv`, `[]TypeOK` |
| | `RevokedStayDead` | `[]RevokedTokensAreDead` |
| | `HandedOutLast` | `[]HandedOutTokensLast` |
| | `LoginsOpen` | `OnlyLoginOpens` |
| `RateLimitProofs` | `Invariant`, `TypeCorrect` | `[]IInv`, `[]TypeOK` |
| | `NothingForgotten` | `[]NothingThatCountsIsForgotten` |
| | `Retained` | `[]RetainedTwoWindows` |
| | `LimitKept` | `[]LimitPerWindow`, if `MaxDelay <= Window` |
| | `RefusalsAreDue` | `NoFalseRefusal` |
| | `QuotaInvariant` | `[]RInv` |
| | `RemainingTold` | `[]RemainingIsNotNegative` |
| | `QuotaBounded` | `[]RemainingIsBounded`, if `MaxDelay <= Window` |
| `BrokerProofs` | `Invariant`, `TypeCorrect` | `[]IInv`, `[]TypeOK` |
| | `ServingRoutes` | `[]ServingIsRouted` |
| | `OnlyNamedLosses` | `[]NothingElseIsLost` |
| `BrokerCopiesProofs` | `DeathsDuplicate` | `[]OnlyDeathsDuplicate` |
| | `RetriesAreDue` | `[]DueInv` |
| | `BackoffIsExact` | `BackoffDoubles` |
| `GatewayProofs` | `Invariant`, `TypeCorrect` | `[]IInv`, `[]TypeOK` |
| | `MetricsAreRight` | `[]MetricsAddUp` |
| | `NoHoldAndWait` | `[]WaitersHoldNothing` |
| | `SingleConnection` | `[]OneConnection` |
| `ListingProofs` | `TableInvariant`, `TypeCorrect` | `[]TableInv`, `[]TypeOK` |
| | `WalkInvariant` | `[](RepeatInv /\ AheadInv)` |
| | `RepeatsNeedWrites` | `[]RepeatsAreWrites` |
| | `QuietListed` | `[]QuietTasksAreListed` |

*Tasks.* `TypeOK` is not inductive: that `Write` builds a row needs the row to be
there, and that an uncommitted version differs from the committed one as its
request says needs the committed one to stand still. `IInv` adds `StageOK` (what
each value of `pc` implies about the request and the row it addresses) and
`DraftOK` (every draft is its owner's write of the present committed row). Each
action is one lemma; the properties then follow from `IInv` in one step each. `OnlyOwnersWrite`
ties a change to the step that makes it: only the commit of the request that holds the row's
lock changes content or cancels, `DraftOK` says that what it commits is its own write, and
`StageOK` that a handler which gets as far as its commit is its task's owner's. The
refinement follows by matching every action with a step of the ledger or a stutter.

*Messages and counters.* None of these properties is inductive: that a POST is answered
200 with its messages sent rests on what it has still to publish; that a pending row has
its message, on rows that are not pending yet but will be when their creator confirms
them. `MInv` follows a creating request through its loop (`Sending`) and a batch until its
commit, says that every message is of a task that some request creates, so that a fresh
identifier has none (`Addressed`), that two requests do not create the same task (`Apart`),
and that the message of a row which is pending, or about to be, is in the queue or among
`lost` and `missed` (`Heard`). The counters are equal to the size of
the set of answered tasks, and at least that of the cancellations in the table together
with those which their requests have counted and not yet committed (`Cancelled`,
`Cancelling`); the steps that change them come down to adding disjoint finite sets.
`AnnouncedIsCommitted` needs only `IInv`, and no assumption on failures: the draft that is
announced has the status of the committed row, because the announcing handler holds its lock.

*Sessions.* The point is what a request still knows about the table when its
second transaction runs. `Held(u, k)` says that `k` is `u`'s token or has been
ended, and `IInv` says that every token a request has read is held, that no ended
token is in the table and that no two rows have one token. Four lemmas
(`Untouched`, `Opened`, `Closed`, `Replaced`) show that each kind of change keeps
all of this, `Step` that the requests which do not move keep theirs.

*Rate limiter.* `Complete(w)`: before the end of the window after `w`, its counter
equals the history and its key is not due before then; `Lasting(w)`: a key is due
at most two windows after the last admission. Arithmetic with a window of unknown
length is in the lemmas `Dividing`, `Scaling` and `Weighing`. `LimitKept` needs
`MaxDelay <= Window`: with a longer delay TLC finds a run in which Redis drops the
counter while a request for its window is still on its way.
`RemainingIsNotNegative` is about requests yet to be judged, so `RInv` says it of every
stamp that is not before those already counted: time only makes the weighted total smaller
(`Weaker` compares two stamps, in one window or in two), and an admission adds one to a
total that was below the limit. `NoFalseRefusal` compares the script's total with the same
weighted sum of the requests admitted (`Admitted`): the counters never exceed the history
(`Lasting`), so a refusal is due by the history too. `QuotaBounded` needs `LimitKept` and with
it `MaxDelay <= Window`.

*Broker.* `IInv` adds that a process has declared what its `setup` counts, and that
everything is declared once anything is published (`DeclaredOK`): `publish_task` runs
only after `pre_check`, and durable structure never goes away. `Bindings` and `Routing`
then show that each key has one queue, for any number of retry queues. Messages are
followed through the set of what all queues hold (`Queued`) and what workers try
(`Tried`); four lemmas say what appending, prepending, removing and ageing do to it. This
`IInv` is defined in `BrokerProofs`; the run `broker` checks what it adds only through
`ServingIsRouted` and `NothingElseIsLost`.

`OnlyDeathsDuplicate` counts copies, which no step can be followed through one by one;
`PlacesInv` says instead where they are: a task that no dying worker has given back is in one
queue, once, or with one worker, or settled (`Alone`). The copies are then counted at the end
(`Counted`). `BackoffDoubles` needs that the head of a retry queue is the oldest message in it
and is never overdue. `DueInv` says so of every message of every retry queue: it is of
that queue's level (a worker puts it there, and no other key leads there), not older than the queue's
time, and not younger than those behind it. Time passes only when nothing is due, which
is where equality comes from. That 2^n is a number for every n, which the provers do not know, is
proved by counting the subsets of a set.

*Gateway.* `IInv` has three parts by their variables: `LifecycleOK` (the connection is
open from `pre_check` to `pre_shutdown`, and requests are under way only between them),
the pool (a row lock belongs to an open transaction, a waiter has none) and the metrics
(an exception ends its request). `MoveStep`, `RaiseStep` and `MainStep` are the kinds of
steps; the metrics come down to adding one request to a finite set or removing it.

*List.* A walk is judged by where it stands among the rows. `Position` says that
in every order that ORDER BY allows a row without ties has the place given by the number of rows above
it; `ShownOnce` says which rows a page shows for that. `RepeatInv`: for a task that was
shown, the rows above it that nobody has written since the first page, together with one
for each time it was shown, are not more than what the walk has skipped; so to show
it again, another row that was written (`Others`) must have come above it. `AheadInv`: the walk has not skipped more rows
than there are above a quiet task that it has still to show. Both rest on commits moving the
written row up only, unless it is in `older`. The first form of `RepeatsAreWrites`, where any task
could be the one that had moved back, could not be proved, and a larger instance (section 3)
showed that it was false.

The inductive invariants `MInv`, `RInv`, `PlacesInv`, `DueInv`, `TableInv`, `RepeatInv` and
`AheadInv` are defined in the modules of their proofs; TLC found no violation of them on the
instances of the runs `tasks`, `rate`, `broker` and `listing` before they were proved.

Only model-checked: liveness (`EveryRequestIsAnswered`, `CreatedTaskIsFinished`,
`PublishedIsSettled`, `EveryRequestEnds`), which this prover does not do. Every
safety property of a passing run, invariant or action property, is a theorem, and
`QuotaBounded` one beyond the runs. The violated
claims have counterexamples and so need none.

## 5. Not modelled

Password hashing is a pure function of a library; `Sessions` takes its verdict as an
input. Settings and logging have no state. Of the metrics: histograms, labels, a gauge
that is never set, and the division of a registry among processes. The NOTIFY trigger and
the Redis channel have no listener in the repository. The helpers for websockets are
reachable from no route. `close_redis`: nothing uses the client after it. The columns of
a task that nothing decides on (`attempt_count`, `max_attempts`, `result`). Privileges: every
endpoint asks for 0, so the comparison never refuses. Deployment: containers, scraping,
dashboards. Two clocks (PostgreSQL's and the API's) are each exact within their module.

The modules are not composed into one. `Gateway` leaves open what `RateLimit`,
`Sessions` and `TaskService` decide, and these leave open when `Gateway` lets a request
through: the outcome of a step is a choice in each. What this cannot show is a property that needs
the decisions of two modules at once.

## 6. Plan

Done, in this order: `TaskService` with `TaskLedger`, its properties, claims and
proofs; `Sessions` and `RateLimit` with their proofs; batches and broker restarts in all
properties of tasks; `Broker` and `Gateway` with their first theorems, and `Listing`; then
the theorems about messages, counters, quotas, copies, retries and the list, so that every
safety property that a run checks is proved.

Next:

1. What the violated claims leave: the weaker statements that do hold in their place, such
   as the conditions under which a saved task is published or a login gives a valid
   token, as theorems.
2. What the ledger promises, proved of `TaskLedger` alone and so of the table: the order of
   statuses, and that a task keeps its owner.
