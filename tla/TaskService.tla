---------------------------- MODULE TaskService ----------------------------
(***************************************************************************)
(* The task half of the API: every HTTP request under /v1/requests, the    *)
(* `tasks` table it works on through one SQLAlchemy session per request,   *)
(* the message it publishes to tasks.queue, and the external workers that  *)
(* consume the queue and write the same table.                             *)
(*                                                                         *)
(* A request is a process.  Between two of its SQL statements or awaits    *)
(* any other request, worker or failure may take a step, so a handler is   *)
(* one action per statement (or per group of statements no one else can    *)
(* tell apart).  PostgreSQL runs at READ COMMITTED: a SELECT returns the   *)
(* session's own uncommitted write or else the last committed row; an      *)
(* UPDATE waits for the row lock and then starts from the last committed   *)
(* row.  A row lock excludes a second writer, so one uncommitted version   *)
(* per task is enough.                                                     *)
(***************************************************************************)
EXTENDS Naturals, FiniteSets

CONSTANTS
  Requests,   \* HTTP requests; each is handled once
  Tasks,      \* the identifiers gen_random_uuid() can hand out
  Users,      \* authenticated users
  Contents,   \* values of (url, method, headers, body)
  Absent,     \* "no row"
  Nobody,     \* "no request"
  Ops,        \* the endpoints exercised, a subset of Endpoints
  Faults,     \* the failures admitted, a subset of FaultKinds
  UrlBinds    \* does the driver accept an HttpUrl object as a TEXT parameter?

Endpoints == {"create", "batch", "get", "update", "cancel"}

\* crash: the process handling a request dies (or its coroutine is cancelled);
\* publish: publish_task raises; statement: a SQL statement of an open
\* transaction raises; commit: the commit in get_db raises; redis: the PUBLISH
\* of update_task raises; broker: RabbitMQ restarts.
FaultKinds == {"crash", "publish", "statement", "commit", "redis", "broker"}

Status == {"BEFORE RMQ", "pending", "running", "done", "failed", "canceled"}
Row    == [owner : Users, content : Contents, status : Status]

ASSUME ConstantsAssumption ==
  /\ IsFiniteSet(Tasks)
  /\ Nobody \notin Requests
  /\ Absent \notin Row
  /\ Ops \subseteq Endpoints
  /\ Faults \subseteq FaultKinds
  /\ UrlBinds \in BOOLEAN

VARIABLES
  row,        \* the committed table
  lock,       \* the request whose open transaction wrote the row, or Nobody
  draft,      \* that transaction's version of the row
  queue,      \* tasks with a message in tasks.queue
  sent,       \* history: tasks whose message the broker ever accepted
  lost,       \* history: tasks whose message it has lost
  missed,     \* history: tasks whose message a worker dropped, seeing no row
  announced,  \* history: [task, status] published on Redis "tasks.status"
  created,    \* the counter tasks_created_total, over all processes and restarts
  canceled,   \* the counter tasks_completed_total{status="canceled"}
  req         \* the state of every request

db     == <<row, lock, draft>>
broker == <<queue, sent, lost, missed>>
meters == <<created, canceled>>
vars   == <<row, lock, draft, queue, sent, lost, missed, announced, created, canceled,
            req>>

Nothing == [owner |-> Nobody, status |-> "none"]
Seen    == [owner : Users \cup {Nobody}, status : Status \cup {"none"}]

\* pc: the next thing the handler does; mine: the tasks it addresses; todo: those
\* it still has to publish; seen: what its first SELECT returned; reply: the HTTP
\* status sent (0: none yet); body: the `status` field of the TaskResponse sent.
PCs     == {"idle", "publish", "confirm", "finish", "write", "check", "commit",
            "done", "crashed"}
Replies == {0, 200, 400, 403, 404, 500}
Request == [pc    : PCs,
            op    : Endpoints \cup {"none"},
            user  : Users \cup {Nobody},
            arg   : Contents \cup {Nobody},
            mine  : SUBSET Tasks,
            todo  : SUBSET Tasks,
            seen  : Seen,
            reply : Replies,
            body  : Status \cup {"none"}]

TypeOK ==
  /\ row       \in [Tasks -> Row \cup {Absent}]
  /\ lock      \in [Tasks -> Requests \cup {Nobody}]
  /\ draft     \in [Tasks -> Row \cup {Absent}]
  /\ queue     \subseteq Tasks
  /\ sent      \subseteq Tasks
  /\ lost      \subseteq Tasks
  /\ missed    \subseteq Tasks
  /\ announced \subseteq [task : Tasks, status : Status]
  /\ created   \in Nat
  /\ canceled  \in Nat
  /\ req       \in [Requests -> Request]

Unused == [pc |-> "idle", op |-> "none", user |-> Nobody, arg |-> Nobody,
           mine |-> {}, todo |-> {}, seen |-> Nothing, reply |-> 0,
           body |-> "none"]

Init ==
  /\ row       = [t \in Tasks |-> Absent]
  /\ lock      = [t \in Tasks |-> Nobody]
  /\ draft     = [t \in Tasks |-> Absent]
  /\ queue     = {}
  /\ sent      = {}
  /\ lost      = {}
  /\ missed    = {}
  /\ announced = {}
  /\ created   = 0
  /\ canceled  = 0
  /\ req       = [r \in Requests |-> Unused]

-----------------------------------------------------------------------------
(* Sessions: what a request's transaction reads, and how get_db ends it.   *)

Visible(r, t) == IF lock[t] = r THEN draft[t] ELSE row[t]

Release(r) ==
  /\ lock'  = [t \in Tasks |-> IF lock[t] = r THEN Nobody ELSE lock[t]]
  /\ draft' = [t \in Tasks |-> IF lock[t] = r THEN Absent ELSE draft[t]]

Commit(r) ==
  /\ row' = [t \in Tasks |-> Visible(r, t)]
  /\ Release(r)

\* Mutant: the session is closed without ending its transaction.
KeepsTransaction(r) == UNCHANGED db

\* Mutant: an error path that commits what the handler wrote.
CommitsAnyway(r) == Commit(r)

Rollback(r) ==
  /\ UNCHANGED row
  /\ Release(r)

\* The response is on its way; the handler has `next` left to do.
Responds(r, code, shown, next) ==
  req' = [req EXCEPT ![r] = [@ EXCEPT !.pc = next, !.reply = code, !.body = shown]]

\* An exception leaves the handler: get_db rolls back, and only then is the
\* error response sent.
Raises(r, code) ==
  /\ Rollback(r)
  /\ Responds(r, code, "none", "done")

Starts(r, op, u, c, ts, before, next) ==
  /\ op \in Ops
  /\ req[r].pc = "idle"
  /\ req' = [req EXCEPT ![r] =
       [pc |-> next, op |-> op, user |-> u, arg |-> c, mine |-> ts,
        todo |-> IF op \in {"create", "batch"} THEN ts ELSE {},
        seen |-> before, reply |-> 0, body |-> "none"]]

\* A request whose handling ends with its first statement.
StartsAndEnds(r, op, u, ts, code, shown) ==
  /\ op \in Ops
  /\ req[r].pc = "idle"
  /\ req' = [req EXCEPT ![r] = [Unused EXCEPT
       !.pc = "done", !.op = op, !.user = u, !.mine = ts,
       !.reply = code, !.body = shown]]

-----------------------------------------------------------------------------
(* POST /v1/requests/ *)

Owned(u, c, s) == [owner |-> u, content |-> c, status |-> s]

\* gen_random_uuid() never repeats an identifier, not even of a row rolled back.
Fresh(t) ==
  /\ row[t] = Absent
  /\ \A r \in Requests : req[r].op \in {"create", "batch"} => t \notin req[r].mine

\* Mutant: create_request_task leaves create_task's default status in place.
DefaultStatus == "pending"

InitialStatus == "BEFORE RMQ"

\* Mutant: the commit between the INSERT and publish_task is missing.
CreateUncommitted(r, u, c, t) ==
  /\ Fresh(t)
  /\ lock'  = [lock EXCEPT ![t] = r]
  /\ draft' = [draft EXCEPT ![t] = Owned(u, c, InitialStatus)]
  /\ Starts(r, "create", u, c, {t}, Nothing, "publish")
  /\ UNCHANGED <<row, broker, announced, meters>>

CreateInsert(r, u, c, t) ==
  /\ Fresh(t)
  /\ row' = [row EXCEPT ![t] = Owned(u, c, InitialStatus)]
  /\ Starts(r, "create", u, c, {t}, Nothing, "publish")
  /\ UNCHANGED <<lock, draft, broker, announced, meters>>

\* Mutant: create_request_tasks_batch leaves its loop after the first task.
PublishesOne(r) ==
  /\ req[r].pc = "publish"
  /\ \E t \in req[r].todo :
       /\ queue' = queue \cup {t}
       /\ sent'  = sent \cup {t}
       /\ req' = [req EXCEPT ![r] = [@ EXCEPT
            !.todo = {}, !.pc = IF req[r].op = "create" THEN "confirm" ELSE "finish"]]
  /\ UNCHANGED <<db, lost, missed, announced, meters>>

\* Mutant: a publish that is repeated although the broker has the message.
PublishesAgain(r) ==
  /\ req[r].pc = "publish"
  /\ \E t \in req[r].todo : queue' = queue \cup {t} /\ sent' = sent \cup {t}
  /\ UNCHANGED <<db, lost, missed, announced, meters, req>>

\* One publish_task call; after the last one a create goes on to confirm its row
\* and a batch to return.
Publish(r) ==
  /\ req[r].pc = "publish"
  /\ \E t \in req[r].todo :
       /\ queue' = queue \cup {t}
       /\ sent'  = sent \cup {t}
       /\ req' = [req EXCEPT ![r] = [@ EXCEPT
            !.todo = req[r].todo \ {t},
            !.pc   = IF req[r].todo # {t} THEN "publish"
                     ELSE IF req[r].op = "create" THEN "confirm" ELSE "finish"]]
  /\ UNCHANGED <<db, lost, missed, announced, meters>>

\* Mutant: the UPDATE without its condition on the status.
ConfirmedAnyway(s) == "pending"

\* confirm_rmq_task only touches a row that is still staged: a worker may have
\* been faster than the confirmation.
ConfirmedStatus(s) == IF s = "BEFORE RMQ" THEN "pending" ELSE s

Confirmation(r) ==
  \E t \in req[r].mine :
    /\ lock[t] = Nobody \/ row[t].status # "BEFORE RMQ"
    /\ row' = [row EXCEPT ![t].status = ConfirmedStatus(@)]

\* The UPDATE, its commit, the counter and the response; get_db's own commit then
\* has nothing to do.  The response shows the row as it was inserted.
Confirm(r) ==
  /\ req[r].pc = "confirm"
  /\ Confirmation(r)
  /\ created' = created + 1
  /\ Responds(r, 200, InitialStatus, "done")
  /\ UNCHANGED <<lock, draft, broker, announced, canceled>>

-----------------------------------------------------------------------------
(* POST /v1/requests/batch *)

BatchRejected(r, u, S) ==
  /\ S = {} \/ ~UrlBinds
  /\ StartsAndEnds(r, "batch", u, S, IF S = {} THEN 400 ELSE 500, "none")
  /\ UNCHANGED <<db, broker, announced, meters>>

BatchInsert(r, u, c, S) ==
  /\ S # {} /\ UrlBinds
  /\ \A t \in S : Fresh(t)
  /\ lock'  = [t \in Tasks |-> IF t \in S THEN r ELSE lock[t]]
  /\ draft' = [t \in Tasks |-> IF t \in S THEN Owned(u, c, "pending") ELSE draft[t]]
  /\ Starts(r, "batch", u, c, S, Nothing, "publish")
  /\ UNCHANGED <<row, broker, announced, meters>>

\* Mutant: the batch counts as one creation.
CountsOne(r) ==
  /\ req[r].pc = "finish"
  /\ created' = created + 1
  /\ Responds(r, 200, "pending", "commit")
  /\ UNCHANGED <<db, broker, announced, canceled>>

BatchFinish(r) ==
  /\ req[r].pc = "finish"
  /\ created' = created + Cardinality(req[r].mine)
  /\ Responds(r, 200, "pending", "commit")
  /\ UNCHANGED <<db, broker, announced, canceled>>

-----------------------------------------------------------------------------
(* GET, PUT and DELETE /v1/requests/{task_id} *)

NotFound(r, op, u, t) ==
  /\ op \in {"get", "update", "cancel"}
  /\ row[t] = Absent
  /\ StartsAndEnds(r, op, u, {t}, 404, "none")
  /\ UNCHANGED <<db, broker, announced, meters>>

Get(r, u, t) ==
  /\ row[t] # Absent
  /\ IF row[t].owner = u
     THEN StartsAndEnds(r, "get", u, {t}, 200, row[t].status)
     ELSE StartsAndEnds(r, "get", u, {t}, 403, "none")
  /\ UNCHANGED <<db, broker, announced, meters>>

\* The first SELECT of update_task and cancel_task.  update_task goes on to its
\* UPDATE whatever it saw, cancel_task only if it saw the task pending.
Select(r, op, u, c, t) ==
  /\ op \in {"update", "cancel"}
  /\ row[t] # Absent
  /\ Starts(r, op, u, IF op = "update" THEN c ELSE Nobody, {t},
            [owner |-> row[t].owner, status |-> row[t].status],
            IF op = "update" \/ row[t].status = "pending" THEN "write" ELSE "check")
  /\ UNCHANGED <<db, broker, announced, meters>>

\* Mutant: the UPDATE writes back the status its request had read.
WrittenFromSnapshot(r, old) ==
  IF req[r].op = "cancel" THEN [old EXCEPT !.status = "canceled"]
  ELSE [old EXCEPT !.content = req[r].arg, !.status = req[r].seen.status]

\* Mutant: the status spelt as in the comment of migrations/0001.
WrittenMisspelt(r, old) ==
  IF req[r].op = "cancel" THEN [old EXCEPT !.status = "cancelled"]
                          ELSE [old EXCEPT !.content = req[r].arg]

Written(r, old) ==
  IF req[r].op = "cancel" THEN [old EXCEPT !.status = "canceled"]
                          ELSE [old EXCEPT !.content = req[r].arg]

\* The UPDATE waits for the row lock and starts from the last committed row.
Write(r) ==
  /\ req[r].pc = "write"
  /\ \E t \in req[r].mine :
       /\ lock[t] = Nobody
       /\ lock'  = [lock EXCEPT ![t] = r]
       /\ draft' = [draft EXCEPT ![t] = Written(r, row[t])]
  /\ req' = [req EXCEPT ![r] = [@ EXCEPT !.pc = "check"]]
  /\ UNCHANGED <<row, broker, announced, meters>>

\* What the second SELECT of the transaction returns.
Current(r) == CHOOSE t \in Tasks : t \in req[r].mine

Reread(r) == Visible(r, Current(r)).status

\* Mutant: the status of the first SELECT is sent instead of the second one's.
AnnouncedSeen(r) == req[r].seen.status

AnnouncedStatus(r) == Reread(r)

\* update_task publishes a status that changed under it; an error of Redis is
\* logged and forgotten.
Announce(r) ==
  IF req[r].op = "update" /\ req[r].seen.status # Reread(r)
  THEN \/ announced' = announced \cup
            {[task |-> Current(r), status |-> AnnouncedStatus(r)]}
       \/ "redis" \in Faults /\ UNCHANGED announced
  ELSE UNCHANGED announced

\* The domain function's verdict, on what the FIRST SELECT returned.
Allowed(r) == req[r].seen.owner = req[r].user
Pending(r) == req[r].seen.status = "pending"

Check(r) ==
  /\ req[r].pc = "check"
  /\ Announce(r)
  /\ \/ /\ ~Allowed(r)
        /\ Raises(r, 403)
        /\ UNCHANGED canceled
     \/ /\ Allowed(r) /\ ~Pending(r)
        /\ Raises(r, 400)
        /\ UNCHANGED canceled
     \/ /\ Allowed(r) /\ Pending(r)
        /\ canceled' = IF req[r].op = "cancel" THEN canceled + 1 ELSE canceled
        /\ Responds(r, 200, Reread(r), "commit")
        /\ UNCHANGED db
  /\ UNCHANGED <<broker, created>>

\* Mutant: get_db closes the session without committing.
FinalClose(r) ==
  /\ req[r].pc = "commit"
  /\ Rollback(r)
  /\ req' = [req EXCEPT ![r] = [@ EXCEPT !.pc = "done"]]
  /\ UNCHANGED <<broker, announced, meters>>

\* get_db resumes after its yield, the response being already sent.
FinalCommit(r) ==
  /\ req[r].pc = "commit"
  /\ Commit(r)
  /\ req' = [req EXCEPT ![r] = [@ EXCEPT !.pc = "done"]]
  /\ UNCHANGED <<broker, announced, meters>>

-----------------------------------------------------------------------------
(* Failures *)

\* The first statement of a handler fails: the INSERT of a POST, the SELECT of the
\* others.
StartFails(r, op, u) ==
  /\ "statement" \in Faults
  /\ StartsAndEnds(r, op, u, {}, 500, "none")
  /\ UNCHANGED <<db, broker, announced, meters>>

\* The commit between the INSERT and publish_task fails; the row may be there.
InsertFails(r, u, c, t) ==
  /\ "commit" \in Faults
  /\ Fresh(t)
  /\ \/ UNCHANGED row
     \/ row' = [row EXCEPT ![t] = Owned(u, c, InitialStatus)]
  /\ StartsAndEnds(r, "create", u, {t}, 500, "none")
  /\ UNCHANGED <<lock, draft, broker, announced, meters>>

\* publish_task raises, with or without the broker having got the message.
PublishFails(r) ==
  /\ "publish" \in Faults
  /\ req[r].pc = "publish"
  /\ \/ UNCHANGED broker
     \/ /\ \E t \in req[r].todo : queue' = queue \cup {t} /\ sent' = sent \cup {t}
        /\ UNCHANGED <<lost, missed>>
  /\ Raises(r, 500)
  /\ UNCHANGED <<announced, meters>>

StatementFails(r) ==
  /\ "statement" \in Faults
  /\ req[r].pc \in {"confirm", "write", "check"}
  /\ Raises(r, 500)
  /\ UNCHANGED <<broker, announced, meters>>

\* The commit after the response fails; the client keeps its 200.  A connection
\* lost during COMMIT does not tell whether the server had committed.
CommitFails(r) ==
  /\ "commit" \in Faults
  /\ req[r].pc = "commit"
  /\ Commit(r) \/ Rollback(r)
  /\ req' = [req EXCEPT ![r] = [@ EXCEPT !.pc = "done"]]
  /\ UNCHANGED <<broker, announced, meters>>

\* The same for the commit in confirm_rmq_task, which comes before the response.
ConfirmFails(r) ==
  /\ "commit" \in Faults
  /\ req[r].pc = "confirm"
  /\ Confirmation(r) /\ UNCHANGED <<lock, draft>>
  /\ Responds(r, 500, "none", "done")
  /\ UNCHANGED <<broker, announced, meters>>

\* PostgreSQL rolls a lost connection's transaction back.
Crash(r) ==
  /\ "crash" \in Faults
  /\ req[r].pc \notin {"idle", "done", "crashed"}
  /\ Rollback(r)
  /\ req' = [req EXCEPT ![r] = [@ EXCEPT !.pc = "crashed"]]
  /\ UNCHANGED <<broker, announced, meters>>

\* The process dies after the commit in confirm_rmq_task, before it counts the task
\* and answers.
CrashConfirmed(r) ==
  /\ "crash" \in Faults
  /\ req[r].pc = "confirm"
  /\ Confirmation(r) /\ UNCHANGED <<lock, draft>>
  /\ req' = [req EXCEPT ![r] = [@ EXCEPT !.pc = "crashed"]]
  /\ UNCHANGED <<broker, announced, meters>>

\* publish_task sets no delivery_mode, and aio_pika's default is transient.
Persistent == FALSE

BrokerRestart ==
  /\ "broker" \in Faults
  /\ queue # {}
  /\ queue' = IF Persistent THEN queue ELSE {}
  /\ lost' = IF Persistent THEN lost ELSE lost \cup queue
  /\ UNCHANGED <<db, sent, missed, announced, meters, req>>

-----------------------------------------------------------------------------
(* The workers, which are not in this repository: a consumer takes a message, *)
(* claims the row with one conditional UPDATE if it is runnable, forgets the  *)
(* message otherwise, and later records the outcome of a task it runs.        *)

Runnable == {"BEFORE RMQ", "pending"}

WorkerTake(t) ==
  /\ t \in queue
  /\ queue' = queue \ {t}
  /\ IF row[t] # Absent /\ row[t].status \in Runnable
     THEN lock[t] = Nobody /\ row' = [row EXCEPT ![t].status = "running"]
     ELSE UNCHANGED row
  /\ missed' = IF row[t] = Absent THEN missed \cup {t} ELSE missed
  /\ UNCHANGED <<lock, draft, sent, lost, announced, meters, req>>

WorkerFinish(t) ==
  /\ row[t] # Absent /\ row[t].status = "running"
  /\ lock[t] = Nobody
  /\ \E s \in {"done", "failed"} : row' = [row EXCEPT ![t].status = s]
  /\ UNCHANGED <<lock, draft, broker, announced, meters, req>>

-----------------------------------------------------------------------------

\* Nothing is left to do: the one state in which the system may rest.
Quiet ==
  /\ \A r \in Requests : req[r].pc \in {"done", "crashed"}
  /\ queue = {}
  /\ \A t \in Tasks : row[t] # Absent => row[t].status # "running"
  /\ UNCHANGED vars

Arrive(r) ==
  \E u \in Users, t \in Tasks, c \in Contents :
    \/ CreateInsert(r, u, c, t) \/ InsertFails(r, u, c, t)
    \/ Get(r, u, t)
    \/ \E op \in Endpoints : \/ NotFound(r, op, u, t)
                            \/ Select(r, op, u, c, t)
                            \/ StartFails(r, op, u)
    \/ \E S \in SUBSET Tasks : BatchRejected(r, u, S) \/ BatchInsert(r, u, c, S)

\* What a handler does once it has started.
Proceed(r) ==
  \/ Publish(r) \/ Confirm(r) \/ BatchFinish(r)
  \/ Write(r) \/ Check(r) \/ FinalCommit(r)

Fail(r) ==
  \/ PublishFails(r) \/ StatementFails(r) \/ CommitFails(r) \/ ConfirmFails(r)
  \/ Crash(r) \/ CrashConfirmed(r)

Next ==
  \/ \E r \in Requests : Arrive(r) \/ Proceed(r) \/ Fail(r)
  \/ \E t \in Tasks : WorkerTake(t) \/ WorkerFinish(t)
  \/ BrokerRestart
  \/ Quiet

Spec == Init /\ [][Next]_vars

\* The event loop resumes every coroutine whose await is over, and the workers
\* keep consuming; no request need ever arrive and nothing need ever fail.
FairSpec ==
  /\ Spec
  /\ \A r \in Requests : WF_vars(Proceed(r))
  /\ \A t \in Tasks : WF_vars(WorkerTake(t)) /\ WF_vars(WorkerFinish(t))

=============================================================================
