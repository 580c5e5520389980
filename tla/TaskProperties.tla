--------------------------- MODULE TaskProperties ---------------------------
(***************************************************************************)
(* What the task half of the API gets right: the properties of TaskService *)
(* that hold of the code.  TaskClaims has those its documentation states   *)
(* and the code does not keep.                                             *)
(***************************************************************************)
EXTENDS TaskService

\* A row lock is held by exactly the one open transaction that wrote the row: a
\* request has its lock from its UPDATE or batch INSERT until get_db has ended the
\* transaction, on every way out of a handler, an exception and a crash included.
\* A lock that outlived its request would block the task for all later requests.
LocksAreReleased ==
  \A t \in Tasks :
    /\ (lock[t] = Nobody) <=> (draft[t] = Absent)
    /\ lock[t] # Nobody =>
         /\ t \in req[lock[t]].mine
         /\ \/ req[lock[t]].op = "batch" /\ req[lock[t]].pc \in {"publish", "finish", "commit"}
            \/ req[lock[t]].op \in {"update", "cancel"} /\ req[lock[t]].pc \in {"check", "commit"}

\* Is this step the commit of r's update or cancellation of t, accepted with 200 for
\* the task's owner, to whom the task was pending?
CommitsOwners(r, t) ==
  /\ lock[t] = r /\ req[r].mine = {t}
  /\ req[r].pc = "commit" /\ req'[r].pc = "done"
  /\ req[r].user = row[t].owner
  /\ req[r].seen.status = "pending" /\ req[r].reply = 200

\* update_task and cancel_task write before anyone checks who is asking, and
\* rely on get_db's rollback to take the write back: whatever step changes the
\* content of a row, or cancels it, is the commit of the very request that holds the
\* row's lock and asked for that change, and that request is its owner's, saw the
\* task pending and was answered 200.
OnlyOwnersWrite ==
  [][\A t \in Tasks : row[t] # Absent =>
       /\ row'[t].content # row[t].content =>
            \E r \in Requests :
              CommitsOwners(r, t) /\ req[r].op = "update" /\ row'[t].content = req[r].arg
       /\ row'[t].status = "canceled" /\ row[t].status # "canceled" =>
            \E r \in Requests : CommitsOwners(r, t) /\ req[r].op = "cancel"]_vars

\* The table implements the ledger: no step of any request, worker or failure
\* deletes a row, changes its owner or moves its status against the arrows, in
\* particular not a confirm_rmq_task that comes after the worker has started.
Ledger == INSTANCE TaskLedger WITH tasks <- row
ImplementsLedger == Ledger!LedgerSpec

\* The status and the content an update or a cancellation answered 200 with are
\* those the commit after the response then makes durable, whoever else has
\* written the row since the request first read it.  Nothing is said of a process that
\* dies before that commit, and where commits fail it does not hold.
AnswerIsCommitted ==
  [][\A r \in Requests :
       /\ req[r].pc = "commit" /\ req'[r].pc = "done"
       /\ req[r].op \in {"update", "cancel"}
       => \A t \in req[r].mine :
            /\ row'[t].status = req[r].body
            /\ req[r].op = "update" => row'[t].content = req[r].arg]_vars

\* A POST answered 200 has put a message for each of its tasks on the queue: no
\* failure of RabbitMQ is reported to the client as success.
AcceptedIsPublished ==
  \A r \in Requests :
    req[r].op \in {"create", "batch"} /\ req[r].reply = 200 => req[r].mine \subseteq sent

\* A batch publishes its messages before its rows are committed.
Batched(t) == \E r \in Requests : req[r].op = "batch" /\ t \in req[r].mine

\* No row waits as `pending` without a message that will bring a worker to it, unless
\* the broker lost the message or a worker dropped it before the rows of its batch were
\* committed.  This is what the extra status "BEFORE RMQ" is for: a crash or a failed
\* publish leaves a row of POST / in that status, never in `pending`, and a batch that
\* could not publish one of its tasks leaves no row at all.
PendingIsQueued ==
  \A t \in Tasks :
    row[t] # Absent /\ row[t].status = "pending" => t \in queue \cup lost \cup missed

\* No worker is told of a task that is not in the table, because POST / commits the row
\* before it publishes; only the messages of a batch can come too early, or stay behind
\* when it is rolled back.
QueuedIsStored == \A t \in queue \cup missed : row[t] # Absent \/ Batched(t)

\* What update_task announces on Redis is the committed status of the task at that
\* moment, even if its transaction then rolls back.
AnnouncedIsCommitted ==
  [][\A e \in announced' \ announced : row[e.task] # Absent /\ row[e.task].status = e.status]_vars

\* The counters are never behind the table: tasks_created_total is the number of tasks
\* whose creation was answered 200, each task of a batch counted, and no cancellation
\* gets into the table uncounted, although it is counted before its commit.
CountersKeepUp ==
  /\ created = Cardinality({t \in Tasks : \E r \in Requests :
                  req[r].op \in {"create", "batch"} /\ req[r].reply = 200 /\ t \in req[r].mine})
  /\ Cardinality({t \in Tasks : row[t] # Absent /\ row[t].status = "canceled"}) <= canceled

\* Every request gets its answer, if its process does not die: no two requests and
\* workers wait for each other's row locks forever.
EveryRequestIsAnswered ==
  \A r \in Requests : req[r].pc # "idle" ~> req[r].reply # 0 \/ req[r].pc = "crashed"

\* A task whose POST / was answered 200 is eventually done, failed or canceled,
\* whichever of the worker and the confirmation comes first, and whatever updates
\* and cancellations interfere, unless the broker loses its message.
CreatedTaskIsFinished ==
  \A r \in Requests :
    req[r].op = "create" /\ req[r].reply = 200
    ~> \A t \in req[r].mine \ lost :
         row[t] # Absent /\ row[t].status \in {"done", "failed", "canceled"}

-----------------------------------------------------------------------------
(* The inductive invariant the theorems of TaskProofs rest on. *)

\* The row a handler of one task works on is there, and is the one it first read.
Reading(r) ==
  \E t \in Tasks :
    /\ req[r].mine = {t}
    /\ row[t] # Absent
    /\ req[r].seen.owner = row[t].owner
    /\ req[r].seen.status = "BEFORE RMQ" \/ row[t].status # "BEFORE RMQ"

\* Does the request write, if it gets as far as its UPDATE?
Writes(r) == req[r].op = "update" \/ req[r].seen.status = "pending"

StageOK(r) ==
  /\ req[r].pc = "publish" =>
       /\ req[r].user \in Users /\ req[r].arg \in Contents
       /\ \/ req[r].op = "create" /\ \E t \in Tasks : req[r].mine = {t} /\ row[t] # Absent
          \/ req[r].op = "batch"
  /\ req[r].pc = "confirm" =>
       req[r].op = "create" /\ \E t \in Tasks : req[r].mine = {t} /\ row[t] # Absent
  /\ req[r].pc = "finish" =>
       req[r].op = "batch" /\ req[r].user \in Users /\ req[r].arg \in Contents
  /\ req[r].pc \in {"write", "check"} =>
       /\ req[r].op \in {"update", "cancel"} /\ Reading(r)
       /\ req[r].op = "update" => req[r].arg \in Contents
  /\ req[r].pc = "write" => Writes(r)
  /\ req[r].pc = "check" /\ Writes(r) => \A t \in req[r].mine : lock[t] = r
  /\ req[r].pc = "commit" =>
       \/ req[r].op = "batch" /\ req[r].user \in Users /\ req[r].arg \in Contents
       \/ /\ req[r].op \in {"update", "cancel"} /\ Reading(r)
          /\ req[r].op = "update" => req[r].arg \in Contents
          /\ req[r].seen.owner = req[r].user /\ req[r].seen.status = "pending"
          /\ req[r].reply = 200
          /\ \A t \in req[r].mine : lock[t] = r /\ req[r].body = draft[t].status

\* An uncommitted version is what its request makes of the committed one, which
\* cannot change while the row is locked.
DraftOK(t) ==
  LET r == lock[t]
  IN IF r = Nobody THEN draft[t] = Absent
     ELSE /\ t \in req[r].mine
          /\ \/ /\ req[r].op = "batch" /\ req[r].pc \in {"publish", "finish", "commit"}
                /\ row[t] = Absent
                /\ draft[t] = Owned(req[r].user, req[r].arg, "pending")
             \/ /\ req[r].op \in {"update", "cancel"} /\ req[r].pc \in {"check", "commit"}
                /\ row[t] # Absent /\ Writes(r)
                /\ draft[t] = Written(r, row[t])

\* Each handler's progress agrees with the row it addresses, and each lock and draft
\* with the handler that owns them: TypeOK alone does not say that a row a handler
\* writes exists, nor that the draft of a row is based on its committed version.
IInv ==
  /\ TypeOK
  /\ \A r \in Requests : StageOK(r)
  /\ \A t \in Tasks : DraftOK(t)

=============================================================================
