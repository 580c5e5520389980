------------------------------- MODULE Gateway -------------------------------
(***************************************************************************)
(* One API process around its handlers: start-up and shutdown              *)
(* (application.py), the metrics and rate-limit middlewares, the           *)
(* authorization dependency, the pool of database connections behind       *)
(* get_db, and the RabbitMQ connection that all requests share.  What the  *)
(* limiter, the authorization and a handler decide is left open here:      *)
(* RateLimit, Sessions and TaskService say it.                             *)
(***************************************************************************)
EXTENDS Naturals, Sequences, FiniteSets

CONSTANTS
  Requests,  \* HTTP requests; each is handled once
  Main,      \* the lifespan of the application
  Nobody,    \* "no request"
  PoolSize,  \* connections the engine opens at most
  Faults     \* the failures admitted, a subset of FaultKinds

\* redis: the limiter's script raises; database: a statement raises, or the pool's
\* timeout is over; publish: publish_task raises; close: close_rabbitmq raises.
FaultKinds == {"redis", "database", "publish", "close"}

\* plain: /metrics; public: register, login; read: me, GET; create: POST /; batch: POST
\* /batch; write: PUT and DELETE of one task, the same for all.
Kinds == {"plain", "public", "read", "create", "batch", "write"}

ASSUME GatewayAssumption ==
  /\ IsFiniteSet(Requests)
  /\ Main \notin Requests /\ Nobody \notin Requests
  /\ PoolSize \in Nat \ {0}
  /\ Faults \subseteq FaultKinds

VARIABLES
  at,         \* what each request, or the lifespan, does next
  kind,       \* the kind of each request, until its answer is decided
  held,       \* requests that have a connection of the pool
  waiting,    \* those that wait for one; a newcomer can be faster than they
  lock,       \* the request that holds the row lock, or Nobody
  connected,  \* is _rabbitmq set, and open?
  open,       \* RabbitMQ connections the process has open
  gauge,      \* http_requests_in_progress, over all labels
  counted,    \* http_requests_total, over all labels
  raised      \* history: requests that an exception took through all middlewares

pool    == <<held, waiting, lock>>
rabbit  == <<connected, open>>
metrics == <<gauge, counted, raised>>
vars    == <<at, kind, pool, rabbit, metrics>>

Starting == {"redis", "database", "rabbitmq", "connecting", "structure"}
Stages   == Starting \cup {"serving", "draining", "stopped", "uncleaned"}
Points   == {"absent", "limit", "auth", "handle", "publish", "connecting", "confirm",
             "lock", "check", "answer", "commit", "done"}

TypeOK ==
  /\ at \in [Requests \cup {Main} -> Stages \cup Points]
  /\ at[Main] \in Stages /\ \A r \in Requests : at[r] \in Points
  /\ kind      \in [Requests -> Kinds \cup {"none"}]
  /\ held      \subseteq Requests /\ Cardinality(held) <= PoolSize
  /\ waiting   \subseteq Requests
  /\ lock      \in Requests \cup {Nobody}
  /\ connected \in BOOLEAN
  /\ open      \in Nat
  /\ gauge \in Nat /\ counted \in Nat
  /\ raised    \subseteq Requests

\* Mutant: pre_check leaves RabbitMQ to the first request.
LazyStages == <<"redis", "database", "serving">>

\* The order of pre_check.
PreChecks == <<"redis", "database", "rabbitmq", "structure", "serving">>

Init ==
  /\ at = [a \in Requests \cup {Main} |-> IF a = Main THEN PreChecks[1] ELSE "absent"]
  /\ kind = [r \in Requests |-> "none"]
  /\ held = {} /\ waiting = {} /\ lock = Nobody
  /\ connected = FALSE /\ open = 0
  /\ gauge = 0 /\ counted = 0 /\ raised = {}

\* Nothing depends on the kind of a request once it is to be answered.
Goes(a, next) ==
  /\ at' = [at EXCEPT ![a] = next]
  /\ kind' = IF next \in {"answer", "done"} THEN [kind EXCEPT ![a] = "none"] ELSE kind

-----------------------------------------------------------------------------
(* get_rabbitmq, called by the lifespan and by publish_task *)

\* The test of the singleton; a connection is opened across an await.
GetRabbitmq(a, next) ==
  /\ Goes(a, IF connected THEN next ELSE "connecting")
  /\ UNCHANGED <<pool, rabbit, metrics>>

\* What a handler does when publish_task returns: a batch has any number of messages.
AfterPublish(r) == IF kind[r] = "create" THEN {"confirm"} ELSE {"publish", "answer"}

\* The new connection takes the place of the old one, which nobody closes.
Connected(a) ==
  /\ at[a] = "connecting"
  /\ open' = open + 1
  /\ connected' = TRUE
  /\ \E next \in IF a = Main THEN {"structure"} ELSE AfterPublish(a) : Goes(a, next)
  /\ UNCHANGED <<pool, metrics>>

-----------------------------------------------------------------------------
(* The lifespan; a start-up that fails is one that takes no further step. *)

PreCheck ==
  \E i \in 1 .. Len(PreChecks) - 1 :
    /\ at[Main] = PreChecks[i]
    /\ IF at[Main] = "rabbitmq" THEN GetRabbitmq(Main, "structure")
       ELSE Goes(Main, PreChecks[i + 1]) /\ UNCHANGED <<pool, rabbit, metrics>>

\* The server takes no more requests and waits for those under way.
Stop ==
  /\ at[Main] = "serving"
  /\ Goes(Main, "draining")
  /\ UNCHANGED <<pool, rabbit, metrics>>

Over(r) == at[r] \in {"absent", "done"}

\* Mutant: pre_shutdown does not wait for the requests under way.
AtOnce == TRUE

Drained == \A r \in Requests : Over(r)

CloseRabbitmq ==
  /\ open' = IF connected THEN open - 1 ELSE open
  /\ connected' = FALSE

\* pre_shutdown; an exception of close_rabbitmq is swallowed.
PreShutdown ==
  /\ at[Main] = "draining" /\ Drained
  /\ \/ CloseRabbitmq /\ Goes(Main, "stopped")
     \/ /\ "close" \in Faults
        /\ UNCHANGED rabbit
        /\ Goes(Main, "uncleaned")
  /\ UNCHANGED <<pool, metrics>>

-----------------------------------------------------------------------------
(* The way in, and the two ways out through the middlewares *)

Enter(r, k) ==
  /\ at[Main] = "serving"
  /\ at[r] = "absent"
  /\ at' = [at EXCEPT ![r] = "limit"]
  /\ kind' = [kind EXCEPT ![r] = k]
  /\ gauge' = gauge + 1
  /\ UNCHANGED <<pool, rabbit, counted, raised>>

\* A 423 or 429 of RateLimitMiddleware passes through MetricsMiddleware like any answer.
Limit(r) ==
  /\ at[r] = "limit"
  /\ \/ Goes(r, "answer")
     \/ Goes(r, CASE kind[r] = "plain"  -> "answer"
                  [] kind[r] = "public" -> "handle"
                  [] OTHER              -> "auth")
  /\ UNCHANGED <<pool, rabbit, metrics>>

\* The response has started: MetricsMiddleware counts it, and only then does get_db go
\* on after its yield.
Answer(r) ==
  /\ at[r] = "answer"
  /\ Goes(r, IF r \in held THEN "commit" ELSE "done")
  /\ counted' = counted + 1
  /\ gauge' = gauge - 1
  /\ UNCHANGED <<pool, rabbit, raised>>

\* Mutant: the decrement follows the call instead of being its `finally`.
NoFinally(r) == raised' = raised \cup {r} /\ UNCHANGED <<gauge, counted>>

\* An exception that no handler turned into a response: the `finally` is all that
\* MetricsMiddleware does about it.
Raise(r) ==
  /\ raised' = raised \cup {r}
  /\ gauge' = gauge - 1
  /\ UNCHANGED counted

-----------------------------------------------------------------------------
(* The pool.  A session takes its connection with its first statement and   *)
(* gives it back when its transaction ends.                                  *)

\* Mutant: a second session, while the first holds its connection.
WantsAnother(r) == at[r] \in {"auth", "handle", "confirm", "check"}

Wants(r) == at[r] \in {"auth", "handle", "confirm"} /\ r \notin held

Ask(r) ==
  /\ Wants(r) /\ r \notin waiting
  /\ waiting' = waiting \cup {r}
  /\ UNCHANGED <<at, kind, held, lock, rabbit, metrics>>

\* Mutant: one connection more than the pool has.
RoomForOneMore == Cardinality(held) <= PoolSize

Room == Cardinality(held) < PoolSize

Obtain(r) ==
  /\ r \in waiting /\ Room
  /\ held' = held \cup {r}
  /\ waiting' = waiting \ {r}
  /\ UNCHANGED <<at, kind, lock, rabbit, metrics>>

HasSession(r) == r \in held /\ r \notin waiting

\* The transaction ends, or the wait for a connection does.
GivesBack(r) ==
  /\ held' = held \ {r}
  /\ waiting' = waiting \ {r}
  /\ lock' = IF lock = r THEN Nobody ELSE lock

-----------------------------------------------------------------------------
(* The handlers *)

\* AuthRepository ends each of its transactions itself.
Authorize(r) ==
  /\ at[r] = "auth" /\ HasSession(r)
  /\ Goes(r, "handle") \/ Goes(r, "answer")
  /\ GivesBack(r)
  /\ UNCHANGED <<rabbit, metrics>>

\* No token, or one that is no UUID.
Malformed(r) ==
  /\ at[r] = "auth" /\ r \notin held /\ r \notin waiting
  /\ Goes(r, "answer")
  /\ UNCHANGED <<pool, rabbit, metrics>>

\* The first transaction of a handler: a create has committed its row, a batch has
\* inserted its rows, which no other request knows, and goes on without a commit, a write
\* has read its task; a read may keep its transaction until get_db ends it.
Handle(r) ==
  /\ at[r] = "handle" /\ HasSession(r)
  /\ \/ kind[r] = "create" /\ Goes(r, "publish") /\ GivesBack(r)
     \/ kind[r] = "batch"  /\ Goes(r, "publish") /\ UNCHANGED pool
     \/ kind[r] = "write"  /\ Goes(r, "lock")    /\ UNCHANGED pool
     \/ kind[r] = "read"   /\ Goes(r, "answer")  /\ UNCHANGED pool
     \/ kind[r] \notin {"create", "batch"} /\ Goes(r, "answer") /\ GivesBack(r)
  /\ UNCHANGED <<rabbit, metrics>>

\* A batch without tasks is refused before any statement.
EmptyBatch(r) ==
  /\ at[r] = "handle" /\ kind[r] = "batch"
  /\ r \notin held /\ r \notin waiting
  /\ Goes(r, "answer")
  /\ UNCHANGED <<pool, rabbit, metrics>>

\* One call of publish_task; a batch has its connection meanwhile.
Publish(r) ==
  /\ at[r] = "publish"
  /\ \E next \in AfterPublish(r) : GetRabbitmq(r, next)

Confirm(r) ==
  /\ at[r] = "confirm" /\ HasSession(r)
  /\ Goes(r, "answer")
  /\ GivesBack(r)
  /\ UNCHANGED <<rabbit, metrics>>

\* The UPDATE.
Lock(r) ==
  /\ at[r] = "lock" /\ HasSession(r)
  /\ lock = Nobody
  /\ lock' = r
  /\ Goes(r, "check")
  /\ UNCHANGED <<held, waiting, rabbit, metrics>>

\* The verdict: 200 before the commit, 403 or 400 after the rollback.
Check(r) ==
  /\ at[r] = "check" /\ HasSession(r)
  /\ UNCHANGED pool \/ GivesBack(r)
  /\ Goes(r, "answer")
  /\ UNCHANGED <<rabbit, metrics>>

\* Mutant: get_db neither commits nor closes the session after its yield.
NeverCloses(r) ==
  /\ at[r] = "commit"
  /\ Goes(r, "done")
  /\ UNCHANGED <<pool, rabbit, metrics>>

\* get_db after the response: commit, or rollback if that fails, and close.
Finish(r) ==
  /\ at[r] = "commit"
  /\ GivesBack(r)
  /\ Goes(r, "done")
  /\ UNCHANGED <<rabbit, metrics>>

-----------------------------------------------------------------------------
(* Failures *)

LimiterFails(r) ==
  /\ "redis" \in Faults
  /\ at[r] = "limit"
  /\ Raise(r)
  /\ Goes(r, "done")
  /\ UNCHANGED <<pool, rabbit>>

PublishFails(r) ==
  /\ "publish" \in Faults
  /\ at[r] \in {"publish", "connecting"}
  /\ GivesBack(r)
  /\ Goes(r, "answer")
  /\ UNCHANGED <<rabbit, metrics>>

\* Only POST / and POST /batch turn every exception into an HTTPException; get_db rolls
\* back in any case.
DatabaseFails(r) ==
  /\ "database" \in Faults
  /\ at[r] \in {"auth", "handle", "confirm", "lock", "check"}
  /\ r \in held \cup waiting
  /\ GivesBack(r)
  /\ IF kind[r] \in {"create", "batch"} /\ at[r] # "auth"
     THEN Goes(r, "answer") /\ UNCHANGED metrics
     ELSE Goes(r, "done") /\ Raise(r)
  /\ UNCHANGED rabbit

-----------------------------------------------------------------------------

\* The states in which the process may rest.
Quiet ==
  /\ at[Main] \in {"stopped", "uncleaned"}
  /\ UNCHANGED vars

Proceed(r) ==
  \/ Limit(r) \/ Ask(r) \/ Obtain(r) \/ Authorize(r) \/ Handle(r)
  \/ Publish(r) \/ Connected(r) \/ Confirm(r) \/ Lock(r) \/ Check(r)
  \/ Answer(r) \/ Finish(r)

Fail(r) == LimiterFails(r) \/ PublishFails(r) \/ DatabaseFails(r)

Next ==
  \/ PreCheck \/ Connected(Main) \/ Stop \/ PreShutdown
  \/ \E r \in Requests : \/ Proceed(r) \/ Malformed(r) \/ EmptyBatch(r) \/ Fail(r)
                         \/ \E k \in Kinds : Enter(r, k)
  \/ Quiet

Spec == Init /\ [][Next]_vars

\* The event loop resumes a coroutine whose await is over, the pool serves its waiters,
\* and Redis, PostgreSQL and RabbitMQ answer or raise.  A batch is finite: its next
\* publish_task changes nothing here, and so Proceed is fair to its last.
FairSpec ==
  /\ Spec
  /\ \A r \in Requests : WF_vars(Proceed(r))
  /\ WF_vars(PreShutdown)

-----------------------------------------------------------------------------
(* Properties *)

Inside(r) == at[r] \notin {"absent", "commit", "done"}

\* Whatever becomes of a request, an exception from any depth included, it leaves the
\* gauge of requests in progress as it was before, and it is counted exactly once,
\* unless its exception reached the server: those 500s are in no counter.
MetricsAddUp ==
  /\ gauge = Cardinality({r \in Requests : Inside(r)})
  /\ counted + gauge + Cardinality(raised) = Cardinality({r \in Requests : at[r] # "absent"})

\* Who waits for a connection has none, and no row lock: requests that wait for each
\* other's connections and locks cannot form a cycle, and PoolSize = 1 is enough.
WaitersHoldNothing ==
  \A r \in Requests : r \in waiting => r \notin held /\ lock # r

\* Requests publish over one connection per process: it is opened before the first
\* request is served, so no two of them open one each, and none is opened again after
\* pre_shutdown has closed it.
OneConnection ==
  /\ open <= 1
  /\ at[Main] = "stopped" => open = 0

\* Every request comes to its end without the pool's timeout, and so does a shutdown,
\* though a batch has its connection, and a write connection and row lock, across awaits.
EveryRequestEnds ==
  /\ \A r \in Requests : at[r] = "limit" ~> at[r] = "done"
  /\ at[Main] = "draining" ~> at[Main] \in {"stopped", "uncleaned"}

-----------------------------------------------------------------------------
(* The inductive invariant the theorems of GatewayProofs rest on. *)

\* The connection is open from pre_check to pre_shutdown, and requests are under way
\* only between these.
LifecycleOK ==
  /\ open = IF connected THEN 1 ELSE 0
  /\ at[Main] \in {"redis", "database", "rabbitmq", "connecting", "stopped"} => ~connected
  /\ at[Main] \in {"structure", "serving", "draining"} => connected
  /\ \A r \in Requests : /\ ~Over(r) => at[Main] \in {"serving", "draining"}
                         /\ at[r] # "connecting"

\* Row locks belong to open transactions, and an exception ends its request.
IInv ==
  /\ TypeOK
  /\ LifecycleOK
  /\ WaitersHoldNothing
  /\ lock # Nobody => lock \in held
  /\ MetricsAddUp
  /\ \A r \in raised : at[r] = "done"

=============================================================================
