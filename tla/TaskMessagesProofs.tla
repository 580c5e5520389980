------------------------- MODULE TaskMessagesProofs -------------------------
(***************************************************************************)
(* Theorems of TaskProperties about what the task half of the API tells    *)
(* the rest of the system: the messages of tasks.queue, the announcements  *)
(* on Redis and the counters.  They rest on IInv of TaskProperties and on  *)
(* a second inductive invariant, MInv, that relates the requests to the    *)
(* broker and to the counters.                                             *)
(***************************************************************************)
EXTENDS TaskProofs

-----------------------------------------------------------------------------
(* The inductive invariant. *)

Creates(r) == req[r].op \in {"create", "batch"}

\* A request that creates tasks is answered 200 only when every one of them has a
\* message; on the way there, those it no longer has to publish have theirs.
Sending(r) ==
  /\ req[r].pc = "idle" => req[r].op = "none"
  /\ Creates(r) =>
       /\ req[r].todo \subseteq req[r].mine
       /\ req[r].pc \in {"publish", "confirm", "finish"} => req[r].reply = 0
       /\ req[r].pc = "publish" => req[r].mine \ req[r].todo \subseteq sent
       /\ req[r].pc \in {"confirm", "finish", "commit"} \/ req[r].reply = 200
            => req[r].mine \subseteq sent

\* Messages are those of tasks some request creates, so a fresh identifier has none.
Addressed ==
  /\ queue \subseteq sent
  /\ lost \subseteq sent
  /\ \A t \in sent : \E r \in Requests : Creates(r) /\ t \in req[r].mine

\* A message brings a worker to its task, unless it is lost or came too early; a row is
\* pending only once its message has been sent.
Heard(t) ==
  /\ t \in sent => \/ t \in queue \cup lost \cup missed
                   \/ row[t] # Absent /\ row[t].status \notin {"BEFORE RMQ", "pending"}
  /\ row[t] # Absent /\ row[t].status = "pending" => t \in sent

\* No two requests create the same task, unless both are refused batches.
Apart(r, q) ==
  Creates(r) /\ Creates(q) /\ req[r].reply \in {0, 200} /\ req[q].reply \in {0, 200}
  /\ r # q => req[r].mine \cap req[q].mine = {}

Answered == {t \in Tasks : \E r \in Requests :
               req[r].op \in {"create", "batch"} /\ req[r].reply = 200 /\ t \in req[r].mine}

\* The cancellations in the table and those already counted that the next commit
\* will put there.
Cancelled == {t \in Tasks : row[t] # Absent /\ row[t].status = "canceled"}
Cancelling == {t \in Tasks : /\ lock[t] # Nobody
                             /\ req[lock[t]].pc = "commit" /\ req[lock[t]].op = "cancel"}

MInv ==
  /\ \A r \in Requests : Sending(r)
  /\ Addressed
  /\ \A t \in Tasks : Heard(t)
  /\ \A t \in queue \cup missed : row[t] # Absent \/ Batched(t)
  /\ \A r, q \in Requests : Apart(r, q)
  /\ created = Cardinality(Answered)
  /\ Cardinality(Cancelled \cup Cancelling) <= canceled

-----------------------------------------------------------------------------
(* What a step does to the requests. *)

\* A new request is one of five: one that ends at once, one that ends although it has
\* created its task, one that creates a task, one that creates a batch, and one that
\* goes on with a task that exists.
EndsAtOnce(r) ==
  /\ req'[r].pc = "done" /\ req'[r].todo = {}
  /\ req'[r].op \in {"create", "batch"} => req'[r].reply \in {400, 500}
  /\ UNCHANGED <<row, lock>>

FailsAtInsert(r) ==
  /\ req'[r].op = "create" /\ req'[r].pc = "done" /\ req'[r].reply = 500
  /\ req'[r].todo = {}
  /\ \E t \in Tasks, u \in Users, c \in Contents :
       Fresh(t) /\ row' = [row EXCEPT ![t] = Owned(u, c, "BEFORE RMQ")]
  /\ UNCHANGED lock

StartsCreate(r) ==
  /\ req'[r].op = "create" /\ req'[r].pc = "publish" /\ req'[r].reply = 0
  /\ req'[r].todo = req'[r].mine
  /\ \E t \in Tasks, u \in Users, c \in Contents :
       /\ req'[r].mine = {t} /\ Fresh(t)
       /\ row' = [row EXCEPT ![t] = Owned(u, c, "BEFORE RMQ")]
  /\ UNCHANGED lock

StartsBatch(r) ==
  /\ req'[r].op = "batch" /\ req'[r].pc = "publish" /\ req'[r].reply = 0
  /\ req'[r].todo = req'[r].mine
  /\ \A t \in req'[r].mine : Fresh(t)
  /\ lock' = [t \in Tasks |-> IF t \in req'[r].mine THEN r ELSE lock[t]]
  /\ UNCHANGED row

GoesOn(r) ==
  /\ req'[r].op \in {"update", "cancel"} /\ req'[r].pc \in {"write", "check"}
  /\ UNCHANGED <<row, lock>>

\* How a request arrives, as far as messages, answers and counters are concerned.
LEMMA ArriveMoves ==
  ASSUME IInv, NEW r \in Requests, Arrive(r)
  PROVE  /\ req[r].pc = "idle"
         /\ \A q \in Requests \ {r} : req'[q] = req[q]
         /\ \/ EndsAtOnce(r) \/ FailsAtInsert(r) \/ StartsCreate(r) \/ StartsBatch(r)
            \/ GoesOn(r)
         /\ UNCHANGED <<queue, sent, lost, missed, announced, created, canceled>>
<1>0. req \in [Requests -> Request]  BY DEF IInv, TypeOK
<1> DEFINE Goal == /\ req[r].pc = "idle"
                   /\ \A q \in Requests \ {r} : req'[q] = req[q]
                   /\ \/ EndsAtOnce(r) \/ FailsAtInsert(r) \/ StartsCreate(r)
                      \/ StartsBatch(r) \/ GoesOn(r)
                   /\ UNCHANGED <<queue, sent, lost, missed, announced, created, canceled>>
<1>1. PICK u \in Users, t \in Tasks, c \in Contents :
        \/ CreateInsert(r, u, c, t) \/ InsertFails(r, u, c, t)
        \/ Get(r, u, t)
        \/ \E op \in Endpoints :
             NotFound(r, op, u, t) \/ Select(r, op, u, c, t) \/ StartFails(r, op, u)
        \/ \E S \in SUBSET Tasks : BatchRejected(r, u, S) \/ BatchInsert(r, u, c, S)
  BY DEF Arrive
<1>2. CASE CreateInsert(r, u, c, t)
  <2>1. /\ Fresh(t) /\ req[r].pc = "idle" /\ UNCHANGED lock
        /\ row' = [row EXCEPT ![t] = Owned(u, c, "BEFORE RMQ")]
        /\ UNCHANGED <<queue, sent, lost, missed, announced, created, canceled>>
        /\ req' = [req EXCEPT ![r] =
             [pc |-> "publish", op |-> "create", user |-> u, arg |-> c, mine |-> {t},
              todo |-> {t}, seen |-> Nothing, reply |-> 0, body |-> "none"]]
    BY <1>2 DEF CreateInsert, Starts, InitialStatus, broker, meters
  <2>2. /\ req'[r].pc = "publish" /\ req'[r].op = "create" /\ req'[r].reply = 0
        /\ req'[r].mine = {t} /\ req'[r].todo = {t}
        /\ \A q \in Requests \ {r} : req'[q] = req[q]
    BY <1>0, <2>1
  <2>3. StartsCreate(r)  BY <2>1, <2>2 DEF StartsCreate
  <2> QED  BY <2>1, <2>2, <2>3
<1>3. ASSUME NEW op, NEW S, NEW code, NEW shown, StartsAndEnds(r, op, u, S, code, shown),
             op \in {"create", "batch"} => code \in {400, 500},
             UNCHANGED <<db, broker, announced, meters>>
      PROVE  Goal
  <2>1. /\ req'[r].pc = "done" /\ req'[r].op = op /\ req'[r].reply = code
        /\ req'[r].todo = {}
        /\ \A q \in Requests \ {r} : req'[q] = req[q]
        /\ req[r].pc = "idle"
    BY <1>0, <1>3 DEF StartsAndEnds, Unused
  <2>2. EndsAtOnce(r)  BY <1>3, <2>1 DEF EndsAtOnce, db
  <2> QED  BY <1>3, <2>1, <2>2 DEF broker, meters
<1>4. ASSUME NEW op \in Endpoints, Select(r, op, u, c, t)  PROVE Goal
  <2>1. /\ op \in {"update", "cancel"} /\ req[r].pc = "idle"
        /\ UNCHANGED <<db, broker, announced, meters>>
        /\ \E a, b, n : n \in {"write", "check"} /\ req' = [req EXCEPT ![r] =
             [pc |-> n, op |-> op, user |-> u, arg |-> a, mine |-> {t},
              todo |-> IF op \in {"create", "batch"} THEN {t} ELSE {},
              seen |-> b, reply |-> 0, body |-> "none"]]
    BY <1>4 DEF Select, Starts
  <2>2. /\ req'[r].pc \in {"write", "check"} /\ req'[r].op = op
        /\ \A q \in Requests \ {r} : req'[q] = req[q]
    BY <1>0, <2>1
  <2>3. GoesOn(r)  BY <2>1, <2>2 DEF GoesOn, db
  <2> QED  BY <2>1, <2>2, <2>3 DEF broker, meters
<1>5. ASSUME NEW S \in SUBSET Tasks, BatchInsert(r, u, c, S)  PROVE Goal
  <2>1. /\ \A x \in S : Fresh(x)
        /\ req[r].pc = "idle" /\ UNCHANGED row
        /\ lock' = [x \in Tasks |-> IF x \in S THEN r ELSE lock[x]]
        /\ UNCHANGED <<queue, sent, lost, missed, announced, created, canceled>>
        /\ req' = [req EXCEPT ![r] =
             [pc |-> "publish", op |-> "batch", user |-> u, arg |-> c, mine |-> S,
              todo |-> S, seen |-> Nothing, reply |-> 0, body |-> "none"]]
    BY <1>5 DEF BatchInsert, Starts, broker, meters
  <2>2. /\ req'[r].pc = "publish" /\ req'[r].op = "batch" /\ req'[r].reply = 0
        /\ req'[r].mine = S /\ req'[r].todo = S
        /\ \A q \in Requests \ {r} : req'[q] = req[q]
    BY <1>0, <2>1
  <2>3. StartsBatch(r)  BY <2>1, <2>2 DEF StartsBatch
  <2> QED  BY <2>1, <2>2, <2>3
<1>6. CASE InsertFails(r, u, c, t) /\ ~UNCHANGED row
  <2>1. /\ Fresh(t) /\ UNCHANGED lock
        /\ row' = [row EXCEPT ![t] = Owned(u, c, "BEFORE RMQ")]
        /\ UNCHANGED <<queue, sent, lost, missed, announced, created, canceled>>
        /\ StartsAndEnds(r, "create", u, {t}, 500, "none")
    BY <1>6 DEF InsertFails, InitialStatus, broker, meters
  <2>2. /\ req'[r].pc = "done" /\ req'[r].op = "create" /\ req'[r].reply = 500
        /\ req'[r].todo = {} /\ req[r].pc = "idle"
        /\ \A q \in Requests \ {r} : req'[q] = req[q]
    BY <1>0, <2>1 DEF StartsAndEnds, Unused
  <2>3. FailsAtInsert(r)  BY <2>1, <2>2 DEF FailsAtInsert
  <2> QED  BY <2>1, <2>2, <2>3
<1> HIDE DEF Goal
<1>7. ASSUME NEW op \in Endpoints, StartFails(r, op, u)  PROVE Goal
  BY <1>3, <1>7 DEF StartFails
<1>8. ASSUME InsertFails(r, u, c, t), UNCHANGED row  PROVE Goal
  <2>1. /\ StartsAndEnds(r, "create", u, {t}, 500, "none")
        /\ UNCHANGED <<db, broker, announced, meters>>
    BY <1>8 DEF InsertFails, db
  <2> QED  BY <1>3, <2>1
<1>9. Goal
  BY <1>1, <1>2, <1>3, <1>4, <1>5, <1>6, <1>7, <1>8 DEF Goal, Get, NotFound, BatchRejected
<1> QED  BY <1>9 DEF Goal

\* A handler goes on without creating or confirming anything: its statement, its check,
\* the end of its session, or a failure.
Leaves(r) ==
  /\ req'[r].pc \in {"check", "commit", "done", "crashed"}
  /\ req'[r].pc = "commit" => req[r].op \in {"update", "cancel"}
  /\ req'[r].todo = req[r].todo
  /\ \/ req'[r].reply = req[r].reply
     \/ req'[r].reply = 500 /\ req[r].pc \in {"publish", "confirm"}
     \/ req[r].op \in {"update", "cancel"}
  /\ \/ UNCHANGED broker
     \/ /\ req[r].pc = "publish" /\ UNCHANGED <<lost, missed>>
        /\ \E t \in req[r].todo : queue' = queue \cup {t} /\ sent' = sent \cup {t}
  /\ UNCHANGED created

\* A response changes where the handler is and what it answered.
LEMMA RespondsMoves ==
  ASSUME TypeOK, NEW r \in Requests, NEW code, NEW shown, NEW next,
         Responds(r, code, shown, next)
  PROVE  /\ \A q \in Requests \ {r} : req'[q] = req[q]
         /\ req'[r].op = req[r].op /\ req'[r].mine = req[r].mine
         /\ req'[r].todo = req[r].todo /\ req'[r].reply = code /\ req'[r].pc = next
<1>1. req'[r] = [req[r] EXCEPT !.pc = next, !.reply = code, !.body = shown]
      /\ req[r] \in Request
  BY DEF Responds, TypeOK
<1>2. req'[r].todo = req[r].todo  BY <1>1 DEF Request
<1> QED  BY <1>2, RespondsChanges

\* Every other step of a handler is a publication, an answer to a POST, or leaves them alone.
LEMMA HandlerMoves ==
  ASSUME IInv, NEW r \in Requests, Proceed(r) \/ Fail(r)
  PROVE  /\ req[r].pc \notin {"idle", "done", "crashed"}
         /\ \A q \in Requests \ {r} : req'[q] = req[q]
         /\ req'[r].op = req[r].op /\ req'[r].mine = req[r].mine
         /\ Publish(r) \/ Confirm(r) \/ BatchFinish(r) \/ Leaves(r)
<1>0. TypeOK /\ req[r] \in Request  BY DEF IInv, TypeOK
<1>1. CASE Publish(r)
  <2>1. PICK t \in req[r].todo, n \in PCs :
          req' = [req EXCEPT ![r] = [@ EXCEPT !.todo = req[r].todo \ {t}, !.pc = n]]
    BY <1>1 DEF Publish, PCs
  <2>2. /\ \A q \in Requests \ {r} : req'[q] = req[q]
        /\ req'[r].op = req[r].op /\ req'[r].mine = req[r].mine
    BY <1>0, <2>1 DEF TypeOK, Request
  <2>3. req[r].pc = "publish"  BY <1>1 DEF Publish
  <2> QED  BY <1>1, <2>2, <2>3
<1>2. ASSUME NEW next, req' = [req EXCEPT ![r] = [@ EXCEPT !.pc = next]]
      PROVE  /\ \A q \in Requests \ {r} : req'[q] = req[q]
             /\ req'[r].op = req[r].op /\ req'[r].mine = req[r].mine
             /\ req'[r].todo = req[r].todo /\ req'[r].reply = req[r].reply
             /\ req'[r].pc = next
  <2>1. req'[r] = [req[r] EXCEPT !.pc = next]
    BY <1>0, <1>2 DEF TypeOK
  <2>2. req'[r].todo = req[r].todo  BY <1>0, <2>1 DEF Request
  <2> QED  BY <1>0, <1>2, <2>2, MovesOn
<1>3. CASE Confirm(r)  BY <1>0, <1>3, RespondsMoves DEF Confirm
<1>4. CASE BatchFinish(r)  BY <1>0, <1>4, RespondsMoves DEF BatchFinish
<1>5. CASE Write(r)
  BY <1>2, <1>5 DEF Write, Leaves, broker, meters
<1>6. CASE Check(r)
  <2>1. \/ Responds(r, 403, "none", "done")
        \/ Responds(r, 400, "none", "done")
        \/ Responds(r, 200, Reread(r), "commit")
    BY <1>6 DEF Check, Raises
  <2>2. /\ \A q \in Requests \ {r} : req'[q] = req[q]
        /\ req'[r].op = req[r].op /\ req'[r].mine = req[r].mine
        /\ req'[r].todo = req[r].todo /\ req'[r].pc \in {"done", "commit"}
    BY <1>0, <2>1, RespondsMoves
  <2>3. req[r].op \in {"update", "cancel"}  BY <1>6 DEF Check, IInv, StageOK
  <2>4. Leaves(r)  BY <1>6, <2>2, <2>3 DEF Check, Leaves
  <2> QED  BY <1>6, <2>2, <2>4 DEF Check
<1>7. CASE FinalCommit(r) \/ CommitFails(r) \/ Crash(r) \/ CrashConfirmed(r)
  <2>1. PICK next \in {"done", "crashed"} : req' = [req EXCEPT ![r] = [@ EXCEPT !.pc = next]]
    BY <1>7 DEF FinalCommit, CommitFails, Crash, CrashConfirmed
  <2>2. UNCHANGED <<broker, created>> /\ req[r].pc \notin {"idle", "done", "crashed"}
    BY <1>7 DEF FinalCommit, CommitFails, Crash, CrashConfirmed, meters
  <2> QED  BY <1>2, <2>1, <2>2 DEF Leaves
<1>8. CASE PublishFails(r) \/ StatementFails(r) \/ ConfirmFails(r)
  <2>1. Responds(r, 500, "none", "done")
    BY <1>8 DEF PublishFails, StatementFails, ConfirmFails, Raises
  <2>2. /\ req[r].pc \notin {"idle", "done", "crashed"} /\ UNCHANGED created
        /\ \/ UNCHANGED broker
           \/ /\ req[r].pc = "publish" /\ UNCHANGED <<lost, missed>>
              /\ \E t \in req[r].todo : queue' = queue \cup {t} /\ sent' = sent \cup {t}
    BY <1>8 DEF PublishFails, StatementFails, ConfirmFails, meters
  <2>3. req[r].pc \in {"publish", "confirm"} \/ req[r].op \in {"update", "cancel"}
    BY <1>8 DEF PublishFails, StatementFails, ConfirmFails, IInv, StageOK
  <2> QED  BY <1>0, <2>1, <2>2, <2>3, RespondsMoves DEF Leaves
<1> QED
  BY <1>1, <1>3, <1>4, <1>5, <1>6, <1>7, <1>8 DEF Proceed, Fail

\* The endpoint and the tasks of a request that has started stay what they are.
Kept ==
  \A q \in Requests : req[q].op # "none" =>
    req'[q].op = req[q].op /\ req'[q].mine = req[q].mine

\* A task of a batch remains one.
LEMMA BatchedKept ==
  ASSUME Kept, NEW t \in Tasks, Batched(t)
  PROVE  Batched(t)'
BY DEF Kept, Batched

\* Only its own steps change a request, and none of them those two fields.
LEMMA KeptStep ==
  ASSUME IInv, \A r \in Requests : Sending(r), [Next]_vars
  PROVE  Kept
<1>1. ASSUME NEW r \in Requests, Arrive(r)  PROVE Kept
  BY <1>1, ArriveMoves DEF Kept, Sending
<1>2. ASSUME NEW r \in Requests, Proceed(r) \/ Fail(r)  PROVE Kept
  BY <1>2, HandlerMoves DEF Kept
<1>3. ASSUME UNCHANGED req  PROVE Kept
  BY <1>3 DEF Kept
<1> QED
  BY <1>1, <1>2, <1>3 DEF Next, WorkerTake, WorkerFinish, BrokerRestart, Quiet, vars

-----------------------------------------------------------------------------
(* Messages and answers. *)

\* What a publication does.
LEMMA PublishMoves ==
  ASSUME IInv, NEW r \in Requests, Publish(r)
  PROVE  /\ req[r].pc = "publish"
         /\ \A q \in Requests \ {r} : req'[q] = req[q]
         /\ req'[r].op = req[r].op /\ req'[r].mine = req[r].mine
         /\ req'[r].reply = req[r].reply
         /\ UNCHANGED <<row, lock, lost, missed, announced, created, canceled>>
         /\ \E t \in req[r].todo :
              /\ queue' = queue \cup {t} /\ sent' = sent \cup {t}
              /\ req'[r].todo = req[r].todo \ {t}
              /\ req'[r].pc \in {"publish", "confirm", "finish"}
              /\ req'[r].pc # "publish" => req[r].todo = {t}
<1>0. TypeOK /\ req[r] \in Request  BY DEF IInv, TypeOK
<1>1. PICK t \in req[r].todo, n \in {"publish", "confirm", "finish"} :
        /\ queue' = queue \cup {t} /\ sent' = sent \cup {t}
        /\ req' = [req EXCEPT ![r] = [@ EXCEPT !.todo = req[r].todo \ {t}, !.pc = n]]
        /\ n # "publish" => req[r].todo = {t}
  BY DEF Publish
<1>2. req'[r] = [req[r] EXCEPT !.todo = req[r].todo \ {t}, !.pc = n]
      /\ \A q \in Requests \ {r} : req'[q] = req[q]
  BY <1>0, <1>1 DEF TypeOK
<1>3. /\ req'[r].op = req[r].op /\ req'[r].mine = req[r].mine
      /\ req'[r].reply = req[r].reply /\ req'[r].pc = n
      /\ req'[r].todo = req[r].todo \ {t}
  BY <1>0, <1>2 DEF Request
<1> QED  BY <1>1, <1>2, <1>3 DEF Publish, db, meters

\* Every step keeps what is known of the requests that publish and of their messages.
LEMMA SendingStep ==
  ASSUME IInv, \A q \in Requests : Sending(q), Addressed, [Next]_vars
  PROVE  (\A q \in Requests : Sending(q))' /\ Addressed'
<1> DEFINE Goal == (\A q \in Requests : Sending(q))' /\ Addressed'
<1>1. ASSUME NEW q \in Requests, req'[q] = req[q], sent \subseteq sent'
      PROVE  Sending(q)'
  BY <1>1 DEF Sending, Creates
<1>2. ASSUME Kept, queue' \subseteq sent', lost' \subseteq sent',
             \A t \in sent' : t \in sent \/ \E r \in Requests : Creates(r) /\ t \in req[r].mine
      PROVE  Addressed'
  <2>1. ASSUME NEW t \in sent'  PROVE \E r \in Requests : Creates(r)' /\ t \in req'[r].mine
    BY <1>2, <2>1 DEF Addressed, Kept, Creates
  <2> QED  BY <1>2, <2>1 DEF Addressed
<1>3. Kept  BY KeptStep
<1>4. ASSUME NEW r \in Requests, Arrive(r)  PROVE Goal
  <2>1. UNCHANGED <<queue, sent, lost>>  BY <1>4, ArriveMoves
  <2>2. Sending(r)'
    <3>1. CASE EndsAtOnce(r)  BY <3>1 DEF EndsAtOnce, Sending, Creates
    <3>5. CASE FailsAtInsert(r)
      <4>1. req'[r].pc = "done" /\ req'[r].reply = 500 /\ req'[r].todo = {}
        BY <3>5 DEF FailsAtInsert
      <4> QED  BY <4>1 DEF Sending
    <3>2. CASE StartsCreate(r)
      <4>1. /\ req'[r].pc = "publish" /\ req'[r].reply = 0
            /\ req'[r].todo = req'[r].mine
        BY <3>2 DEF StartsCreate
      <4> QED  BY <4>1 DEF Sending
    <3>3. CASE StartsBatch(r)  BY <3>3 DEF StartsBatch, Sending, Creates
    <3>4. CASE GoesOn(r)  BY <3>4 DEF GoesOn, Sending, Creates
    <3> QED  BY <1>4, <3>1, <3>2, <3>3, <3>4, <3>5, ArriveMoves
  <2>3. \A q \in Requests \ {r} : Sending(q)'
    BY <1>1, <1>4, <2>1, ArriveMoves
  <2>4. Addressed'  BY <1>2, <1>3, <2>1 DEF Addressed
  <2> QED  BY <2>2, <2>3, <2>4
<1>5. ASSUME NEW r \in Requests, Publish(r)  PROVE Goal
  <2>1. PICK t \in req[r].todo :
          /\ queue' = queue \cup {t} /\ sent' = sent \cup {t}
          /\ req'[r].todo = req[r].todo \ {t}
          /\ req'[r].pc \in {"publish", "confirm", "finish"}
          /\ req'[r].pc # "publish" => req[r].todo = {t}
    BY <1>5, PublishMoves
  <2>2. Creates(r) /\ req[r].pc = "publish"
    BY <1>5, PublishMoves DEF IInv, StageOK, Creates
  <2>3. t \in req[r].mine /\ req[r].mine \ req[r].todo \subseteq sent /\ req[r].reply = 0
        /\ req[r].todo \subseteq req[r].mine
    BY <2>1, <2>2 DEF Sending
  <2>4. Sending(r)'
    BY <1>5, <2>1, <2>2, <2>3, PublishMoves DEF Sending, Creates
  <2>5. \A q \in Requests \ {r} : Sending(q)'
    BY <1>1, <1>5, <2>1, PublishMoves
  <2>6. Addressed'
    <3>1. queue' \subseteq sent' /\ lost' \subseteq sent'
      BY <1>5, <2>1, PublishMoves DEF Addressed
    <3>2. \A x \in sent' : x \in sent \/ \E q \in Requests : Creates(q) /\ x \in req[q].mine
      BY <2>1, <2>2, <2>3
    <3> QED  BY <1>2, <1>3, <3>1, <3>2
  <2> QED  BY <2>4, <2>5, <2>6
<1>6. ASSUME NEW r \in Requests, Confirm(r) \/ BatchFinish(r)  PROVE Goal
  <2>1. /\ req[r].pc \in {"confirm", "finish"} /\ UNCHANGED <<queue, sent, lost>>
        /\ \/ Responds(r, 200, InitialStatus, "done")
           \/ Responds(r, 200, "pending", "commit")
    BY <1>6 DEF Confirm, BatchFinish, broker
  <2>2. Creates(r) /\ req[r].mine \subseteq sent
    BY <2>1 DEF IInv, StageOK, Sending, Creates
  <2>3. /\ req'[r].op = req[r].op /\ req'[r].mine = req[r].mine
        /\ req'[r].todo = req[r].todo /\ req'[r].pc \in {"done", "commit"}
        /\ \A q \in Requests \ {r} : req'[q] = req[q]
    BY <2>1, RespondsMoves DEF IInv
  <2>5. Sending(r)'  BY <2>1, <2>2, <2>3 DEF Sending, Creates
  <2>6. \A q \in Requests \ {r} : Sending(q)'  BY <1>1, <2>1, <2>3
  <2>7. Addressed'  BY <1>2, <1>3, <2>1 DEF Addressed
  <2> QED  BY <2>5, <2>6, <2>7
<1>7. ASSUME NEW r \in Requests, Proceed(r) \/ Fail(r), Leaves(r)  PROVE Goal
  <2>1. sent \subseteq sent'  BY <1>7 DEF Leaves, broker
  <2>2. /\ req'[r].op = req[r].op /\ req'[r].mine = req[r].mine
        /\ \A q \in Requests \ {r} : req'[q] = req[q]
    BY <1>7, HandlerMoves
  <2>3. Sending(r)'
    BY <1>7, <2>1, <2>2 DEF Leaves, Sending, Creates
  <2>4. \A q \in Requests \ {r} : Sending(q)'  BY <1>1, <2>1, <2>2
  <2>5. \A t \in sent' : t \in sent \/ \E q \in Requests : Creates(q) /\ t \in req[q].mine
    BY <1>7 DEF Leaves, broker, IInv, StageOK, Sending, Creates
  <2>6. queue' \subseteq sent' /\ lost' \subseteq sent'
    BY <1>7 DEF Leaves, broker, Addressed
  <2>7. Addressed'  BY <1>2, <1>3, <2>5, <2>6
  <2> QED  BY <2>3, <2>4, <2>7
<1>8. ASSUME UNCHANGED <<req, sent>>, queue' \subseteq queue, lost' \subseteq lost \cup queue
      PROVE  Goal
  <2>1. Addressed'  BY <1>2, <1>3, <1>8 DEF Addressed
  <2> QED  BY <1>1, <1>8, <2>1
<1> HIDE DEF Goal
<1>9. Goal
  <2>1. ASSUME NEW t \in Tasks, WorkerTake(t) \/ WorkerFinish(t)  PROVE Goal
    BY <1>8, <2>1 DEF WorkerTake, WorkerFinish, broker
  <2>2. CASE BrokerRestart  BY <1>8, <2>2 DEF BrokerRestart, Persistent
  <2>3. CASE UNCHANGED vars  BY <1>8, <2>3 DEF vars
  <2> QED
    BY <1>4, <1>5, <1>6, <1>7, <2>1, <2>2, <2>3, HandlerMoves DEF Next, Quiet
<1> QED  BY <1>9 DEF Goal

\* No task is answered for twice, and the counter has counted them all.
LEMMA AnswersStep ==
  ASSUME IInv, \A q \in Requests : Sending(q), \A p, q \in Requests : Apart(p, q),
         created = Cardinality(Answered), [Next]_vars
  PROVE  (\A p, q \in Requests : Apart(p, q))' /\ (created = Cardinality(Answered))'
<1> DEFINE Goal == (\A p, q \in Requests : Apart(p, q))' /\ (created = Cardinality(Answered))'
<1>1. ASSUME NEW r \in Requests, \A q \in Requests \ {r} : req'[q] = req[q],
             \A q \in Requests \ {r} : Apart(r, q)' /\ Apart(q, r)'
      PROVE  (\A p, q \in Requests : Apart(p, q))'
  <2>1. ASSUME NEW p \in Requests \ {r}, NEW q \in Requests \ {r}  PROVE Apart(p, q)'
    BY <1>1 DEF Apart, Creates
  <2>2. Apart(r, r)'  BY DEF Apart
  <2> QED  BY <1>1, <2>1, <2>2
<1>2. ASSUME NEW r \in Requests, \A q \in Requests \ {r} : req'[q] = req[q],
             Creates(r) /\ req[r].reply = 200 <=> Creates(r)' /\ req'[r].reply = 200,
             Creates(r) => req'[r].mine = req[r].mine
      PROVE  Answered' = Answered
  BY <1>2 DEF Answered, Creates
<1>3. ASSUME NEW r \in Requests, Arrive(r)  PROVE Goal
  <2>1. /\ ~Creates(r) /\ UNCHANGED created
        /\ \A q \in Requests \ {r} : req'[q] = req[q]
        /\ \/ EndsAtOnce(r) \/ FailsAtInsert(r) \/ StartsCreate(r) \/ StartsBatch(r)
           \/ GoesOn(r)
    BY <1>3, ArriveMoves DEF Sending, Creates
  <2>2. /\ ~(Creates(r)' /\ req'[r].reply = 200)
        /\ Creates(r)' /\ req'[r].reply \in {0, 200} => \A t \in req'[r].mine : Fresh(t)
    <3>1. CASE EndsAtOnce(r)  BY <3>1 DEF EndsAtOnce, Creates
    <3>5. CASE FailsAtInsert(r)
      <4>1. req'[r].reply = 500  BY <3>5 DEF FailsAtInsert
      <4> QED  BY <4>1
    <3>2. CASE StartsCreate(r)
      <4>1. req'[r].reply = 0 /\ \E t \in Tasks : req'[r].mine = {t} /\ Fresh(t)
        BY <3>2 DEF StartsCreate
      <4> QED  BY <4>1
    <3>3. CASE StartsBatch(r)
      <4>1. req'[r].reply = 0 /\ \A t \in req'[r].mine : Fresh(t)
        BY <3>3 DEF StartsBatch
      <4> QED  BY <4>1
    <3>4. CASE GoesOn(r)  BY <3>4 DEF GoesOn, Creates
    <3> QED  BY <2>1, <3>1, <3>2, <3>3, <3>4, <3>5
  <2>3. Answered' = Answered  BY <1>2, <2>1, <2>2
  <2>4. ASSUME NEW q \in Requests \ {r}  PROVE Apart(r, q)' /\ Apart(q, r)'
    <3>1. req'[q] = req[q]  BY <2>1
    <3> QED  BY <2>2, <3>1 DEF Apart, Fresh, Creates
  <2> QED  BY <1>1, <2>1, <2>3, <2>4
<1>4. ASSUME NEW r \in Requests, Publish(r)  PROVE Goal
  <2>1. Answered' = Answered /\ UNCHANGED created
    BY <1>2, <1>4, PublishMoves DEF Creates
  <2>2. \A q \in Requests \ {r} : Apart(r, q)' /\ Apart(q, r)'
    BY <1>4, PublishMoves DEF Apart, Creates
  <2> QED  BY <1>1, <1>4, <2>1, <2>2, PublishMoves
<1>5. ASSUME NEW r \in Requests, Confirm(r) \/ BatchFinish(r)  PROVE Goal
  <2>1. /\ req[r].pc \in {"confirm", "finish"}
        /\ \/ Responds(r, 200, InitialStatus, "done")
           \/ Responds(r, 200, "pending", "commit")
    BY <1>5 DEF Confirm, BatchFinish
  <2>2. Creates(r) /\ req[r].reply = 0
    BY <2>1 DEF IInv, StageOK, Sending, Creates
  <2>3. /\ req'[r].op = req[r].op /\ req'[r].mine = req[r].mine /\ req'[r].reply = 200
        /\ \A q \in Requests \ {r} : req'[q] = req[q]
    BY <2>1, RespondsMoves DEF IInv
  <2>4. \A q \in Requests \ {r} : Apart(r, q)' /\ Apart(q, r)'
    BY <2>2, <2>3 DEF Apart, Creates
  <2>5. Answered' = Answered \cup req[r].mine
    <3>1. req[r].mine \subseteq Tasks  BY DEF IInv, TypeOK, Request
    <3> QED  BY <2>2, <2>3, <3>1 DEF Answered, Creates
  <2>6. Answered \cap req[r].mine = {}
    BY <2>2 DEF Answered, Apart, Creates
  <2>7. /\ IsFiniteSet(Answered) /\ IsFiniteSet(req[r].mine)
        /\ Cardinality(Answered) \in Nat /\ Cardinality(req[r].mine) \in Nat
    <3>1. Answered \subseteq Tasks /\ req[r].mine \subseteq Tasks
      BY DEF Answered, IInv, TypeOK, Request
    <3> QED  BY <3>1, ConstantsAssumption, FS_Subset, FS_CardinalityType
  <2>8. Cardinality(Answered') = Cardinality(Answered) + Cardinality(req[r].mine)
    <3>1. Cardinality(Answered \cap req[r].mine) = 0  BY <2>6, FS_EmptySet
    <3>2. Cardinality(Answered \cup req[r].mine)
            = Cardinality(Answered) + Cardinality(req[r].mine)
              - Cardinality(Answered \cap req[r].mine)
      BY <2>7, FS_Union
    <3> QED  BY <2>5, <2>7, <3>1, <3>2
  <2>9. created' = created + Cardinality(req[r].mine)
    <3>1. CASE Confirm(r)
      <4>1. PICK t \in Tasks : req[r].mine = {t}
        BY <3>1 DEF Confirm, IInv, StageOK
      <4>2. Cardinality(req[r].mine) = 1  BY <4>1, FS_Singleton
      <4> QED  BY <3>1, <4>2 DEF Confirm
    <3>2. CASE BatchFinish(r)  BY <3>2 DEF BatchFinish
    <3> QED  BY <1>5, <3>1, <3>2
  <2> QED  BY <1>1, <2>3, <2>4, <2>8, <2>9
<1>6. ASSUME NEW r \in Requests, Proceed(r) \/ Fail(r), Leaves(r)  PROVE Goal
  <2>1. /\ req'[r].op = req[r].op /\ req'[r].mine = req[r].mine /\ UNCHANGED created
        /\ \A q \in Requests \ {r} : req'[q] = req[q]
        /\ Creates(r) => \/ req'[r].reply = req[r].reply
                         \/ req'[r].reply = 500 /\ req[r].reply = 0
    BY <1>6, HandlerMoves DEF Leaves, Sending, Creates
  <2>2. Answered' = Answered  BY <1>2, <2>1 DEF Creates
  <2>3. \A q \in Requests \ {r} : Apart(r, q)' /\ Apart(q, r)'
    BY <2>1 DEF Apart, Creates
  <2> QED  BY <1>1, <2>1, <2>2, <2>3
<1>7. ASSUME UNCHANGED <<req, created>>  PROVE Goal
  BY <1>7 DEF Apart, Answered, Creates
<1> HIDE DEF Goal
<1>8. Goal
  <2>1. ASSUME NEW t \in Tasks, WorkerTake(t) \/ WorkerFinish(t)  PROVE Goal
    BY <1>7, <2>1 DEF WorkerTake, WorkerFinish, meters
  <2>2. CASE BrokerRestart \/ UNCHANGED vars
    BY <1>7, <2>2 DEF BrokerRestart, meters, vars
  <2> QED
    BY <1>3, <1>4, <1>5, <1>6, <2>1, <2>2, HandlerMoves DEF Next, Quiet
<1> QED  BY <1>8 DEF Goal

-----------------------------------------------------------------------------
(* What a step does to one row. *)

RowMoves(t) ==
  \/ row'[t] = row[t]
  \/ /\ row[t] = Absent /\ row'[t] # Absent
     /\ \/ row'[t].status = "BEFORE RMQ" /\ Fresh(t)
        \/ /\ row'[t].status = "pending"
           /\ \E r \in Requests :
                req[r].op = "batch" /\ req[r].pc = "commit" /\ t \in req[r].mine
  \/ /\ row[t] # Absent /\ row'[t] # Absent
     /\ \/ row'[t].status = row[t].status
        \/ /\ row[t].status = "BEFORE RMQ" /\ row'[t].status = "pending"
           /\ \E r \in Requests : req[r].pc = "confirm" /\ t \in req[r].mine
        \/ row'[t].status \in {"running", "done", "failed"}
        \/ row'[t].status = "canceled" /\ t \in Cancelling

\* The change a statement makes to the status of a row.
LEMMA StatusChange ==
  ASSUME IInv, NEW x \in Tasks, row[x] # Absent, NEW s \in Status,
         row' = [row EXCEPT ![x].status = s]
  PROVE  /\ row'[x] # Absent /\ row'[x].status = s
         /\ \A t \in Tasks \ {x} : row'[t] = row[t]
<1>1. row[x] \in Row /\ row \in [Tasks -> Row \cup {Absent}]
  BY RowType DEF IInv, TypeOK
<1> DEFINE new == [row[x] EXCEPT !.status = s]
<1>2. new \in Row /\ new.status = s  BY <1>1 DEF Row
<1>3. row' = [row EXCEPT ![x] = new]  OBVIOUS
<1> HIDE DEF new
<1>4. new # Absent  BY <1>2, ConstantsAssumption
<1> QED  BY <1>1, <1>2, <1>3, <1>4

\* A commit after the response inserts a batch's row, edits a row or cancels one.
LEMMA CommitMoves ==
  ASSUME IInv, NEW r \in Requests, req[r].pc = "commit", Commit(r), NEW t \in Tasks
  PROVE  RowMoves(t)
<1>0. row \in [Tasks -> Row \cup {Absent}] /\ r # Nobody
  BY ConstantsAssumption DEF IInv, TypeOK
<1>1. CASE /\ req[r].op = "batch" /\ req[r].user \in Users /\ req[r].arg \in Contents
           /\ \A x \in Tasks : lock[x] = r => row[x] = Absent
           /\ row' = [x \in Tasks |-> IF lock[x] = r
                        THEN Owned(req[r].user, req[r].arg, "pending") ELSE row[x]]
  <2>1. CASE lock[t] # r  BY <1>1, <2>1 DEF RowMoves
  <2>2. CASE lock[t] = r
    <3> DEFINE new == Owned(req[r].user, req[r].arg, "pending")
    <3>1. new \in Row /\ new.status = "pending"  BY <1>1 DEF Owned, Row, Status
    <3>2. row[t] = Absent /\ row'[t] = new  BY <1>1, <2>2
    <3> HIDE DEF new
    <3>3. new # Absent  BY <3>1, ConstantsAssumption
    <3>4. t \in req[r].mine  BY <1>0, <2>2 DEF IInv, DraftOK
    <3> QED  BY <1>1, <3>1, <3>2, <3>3, <3>4 DEF RowMoves
  <2> QED  BY <2>1, <2>2
<1>2. ASSUME NEW x \in Tasks,
             /\ req[r].op \in {"update", "cancel"} /\ req[r].mine = {x}
             /\ req[r].op = "update" => req[r].arg \in Contents
             /\ row[x] \in Row /\ row[x] # Absent
             /\ row' = [row EXCEPT ![x] = Written(r, row[x])]
      PROVE  RowMoves(t)
  <2>1. CASE t # x  BY <1>0, <1>2, <2>1 DEF RowMoves
  <2>2. CASE t = x
    <3>1. row'[t] = Written(r, row[t])  BY <1>0, <1>2, <2>2
    <3>2. Written(r, row[t]) \in Row  BY <1>2, <2>2, WrittenType DEF IInv
    <3>3. row'[t] # Absent  BY <3>1, <3>2, ConstantsAssumption
    <3>4. CASE req[r].op = "update"
      <4>1. Written(r, row[t]).status = row[t].status
        BY <1>2, <2>2, <3>4 DEF Written, Row
      <4> QED  BY <1>2, <2>2, <3>1, <3>3, <4>1 DEF RowMoves
    <3>5. CASE req[r].op = "cancel"
      <4>1. Written(r, row[t]).status = "canceled"
        BY <1>2, <2>2, <3>5 DEF Written, Row
      <4>2. lock[t] = r  BY <1>2, <2>2 DEF IInv, StageOK
      <4>3. t \in Cancelling  BY <1>0, <3>5, <4>2 DEF Cancelling
      <4> QED  BY <1>2, <2>2, <3>1, <3>3, <4>1, <4>3 DEF RowMoves
    <3> QED  BY <1>2, <3>4, <3>5
  <2> QED  BY <2>1, <2>2
<1> QED  BY <1>1, <1>2, CommittingWriter

\* A confirmation takes a staged row of its own request to pending.
LEMMA ConfirmationMoves ==
  ASSUME IInv, NEW r \in Requests, req[r].pc = "confirm", Confirmation(r), NEW t \in Tasks
  PROVE  RowMoves(t)
<1>1. PICK x \in Tasks : /\ x \in req[r].mine /\ row[x] # Absent
                         /\ row' = [row EXCEPT ![x].status = ConfirmedStatus(row[x].status)]
  <2>1. PICK y \in Tasks : req[r].mine = {y} /\ row[y] # Absent  BY DEF IInv, StageOK
  <2> QED  BY <2>1 DEF Confirmation
<1>2. ConfirmedStatus(row[x].status) \in Status
  BY <1>1, RowType DEF IInv, ConfirmedStatus, Status
<1>3. /\ row'[x] # Absent /\ row'[x].status = ConfirmedStatus(row[x].status)
      /\ \A y \in Tasks \ {x} : row'[y] = row[y]
  BY <1>1, <1>2, StatusChange
<1> QED  BY <1>1, <1>3 DEF RowMoves, ConfirmedStatus

\* Every step changes a row in one of these ways.
LEMMA RowStep ==
  ASSUME IInv, [Next]_vars, NEW t \in Tasks
  PROVE  RowMoves(t)
<1>0. row \in [Tasks -> Row \cup {Absent}]  BY DEF IInv, TypeOK
<1>1. CASE UNCHANGED row  BY <1>1 DEF RowMoves
<1>2. ASSUME NEW r \in Requests, Arrive(r)  PROVE RowMoves(t)
  <2>1. CASE UNCHANGED row  BY <1>1, <2>1
  <2>2. CASE StartsCreate(r) \/ FailsAtInsert(r)
    <3>1. PICK x \in Tasks, u \in Users, c \in Contents :
            Fresh(x) /\ row' = [row EXCEPT ![x] = Owned(u, c, "BEFORE RMQ")]
      BY <2>2 DEF StartsCreate, FailsAtInsert
    <3> DEFINE new == Owned(u, c, "BEFORE RMQ")
    <3>2. new \in Row /\ new.status = "BEFORE RMQ"  BY DEF Owned, Row, Status
    <3>3. row' = [row EXCEPT ![x] = new] /\ row[x] = Absent  BY <3>1 DEF Fresh
    <3> HIDE DEF new
    <3>4. new # Absent  BY <3>2, ConstantsAssumption
    <3>5. t # x => row'[t] = row[t]  BY <1>0, <3>3
    <3>6. row'[x] = new  BY <1>0, <3>3
    <3> QED  BY <3>1, <3>2, <3>3, <3>4, <3>5, <3>6 DEF RowMoves
  <2> QED
    BY <1>2, <2>1, <2>2, ArriveMoves DEF EndsAtOnce, StartsBatch, GoesOn
<1>3. ASSUME NEW r \in Requests, Proceed(r) \/ Fail(r), ~UNCHANGED row
      PROVE  \/ req[r].pc = "confirm" /\ Confirmation(r)
             \/ req[r].pc = "commit" /\ Commit(r)
  BY <1>3 DEF Proceed, Publish, Confirm, BatchFinish, Write, Check, FinalCommit, Fail,
              PublishFails, StatementFails, CommitFails, ConfirmFails, Crash,
              CrashConfirmed, Raises, Rollback, db
<1>4. ASSUME NEW x \in Tasks, WorkerTake(x) \/ WorkerFinish(x)  PROVE RowMoves(t)
  <2>1. CASE UNCHANGED row  BY <1>1, <2>1
  <2>2. ASSUME NEW s \in {"running", "done", "failed"}, row[x] # Absent,
               row' = [row EXCEPT ![x].status = s]
        PROVE  RowMoves(t)
    <3>1. s \in Status  BY DEF Status
    <3>2. /\ row'[x] # Absent /\ row'[x].status = s
          /\ \A y \in Tasks \ {x} : row'[y] = row[y]
      BY <2>2, <3>1, StatusChange
    <3> QED  BY <2>2, <3>2 DEF RowMoves
  <2> QED  BY <1>4, <2>1, <2>2 DEF WorkerTake, WorkerFinish
<1> QED
  BY <1>1, <1>2, <1>3, <1>4, CommitMoves, ConfirmationMoves
     DEF Next, BrokerRestart, Quiet, vars, db

-----------------------------------------------------------------------------
(* Rows and their messages. *)

\* A message comes from a request that has it to publish, and disappears into the
\* history or into a worker that leaves the row in no state to be run again.
LEMMA QueueStep ==
  ASSUME IInv, [Next]_vars, NEW t \in Tasks
  PROVE  /\ t \in sent => t \in sent'
         /\ t \in sent' => t \in sent \/ t \in queue'
         /\ t \in queue' \ queue =>
              \E r \in Requests : req[r].pc = "publish" /\ t \in req[r].todo
         /\ t \in missed' \ missed => t \in queue
         /\ t \in queue \cup lost \cup missed =>
              \/ t \in queue' \cup lost' \cup missed'
              \/ row'[t] # Absent /\ row'[t].status \notin {"BEFORE RMQ", "pending"}
<1> DEFINE Goal ==
         /\ t \in sent => t \in sent'
         /\ t \in sent' => t \in sent \/ t \in queue'
         /\ t \in queue' \ queue =>
              \E r \in Requests : req[r].pc = "publish" /\ t \in req[r].todo
         /\ t \in missed' \ missed => t \in queue
         /\ t \in queue \cup lost \cup missed =>
              \/ t \in queue' \cup lost' \cup missed'
              \/ row'[t] # Absent /\ row'[t].status \notin {"BEFORE RMQ", "pending"}
<1>1. ASSUME UNCHANGED <<queue, sent, lost, missed>>  PROVE Goal
  BY <1>1
<1>2. ASSUME NEW r \in Requests, req[r].pc = "publish", UNCHANGED <<lost, missed>>,
             NEW x \in req[r].todo, queue' = queue \cup {x}, sent' = sent \cup {x}
      PROVE  Goal
  BY <1>2
<1>3. ASSUME NEW r \in Requests, Arrive(r)  PROVE Goal
  BY <1>1, <1>3, ArriveMoves
<1>4. ASSUME NEW r \in Requests, Publish(r)  PROVE Goal
  BY <1>2, <1>4 DEF Publish
<1>5. ASSUME NEW r \in Requests, Confirm(r) \/ BatchFinish(r)  PROVE Goal
  BY <1>1, <1>5 DEF Confirm, BatchFinish, broker
<1>6. ASSUME NEW r \in Requests, Leaves(r)  PROVE Goal
  BY <1>1, <1>2, <1>6 DEF Leaves, broker
<1>7. ASSUME NEW x \in Tasks, WorkerTake(x)  PROVE Goal
  <2>1. /\ x \in queue /\ queue' = queue \ {x} /\ UNCHANGED <<sent, lost>>
        /\ missed' = IF row[x] = Absent THEN missed \cup {x} ELSE missed
    BY <1>7 DEF WorkerTake
  <2>2. CASE row[x] # Absent /\ row[x].status \in Runnable
    <3>1. row' = [row EXCEPT ![x].status = "running"]  BY <1>7, <2>2 DEF WorkerTake
    <3>2. row'[x] # Absent /\ row'[x].status = "running"
      BY <2>2, <3>1, StatusChange DEF Status
    <3> QED  BY <2>1, <3>2
  <2>3. CASE row[x] = Absent \/ row[x].status \notin Runnable
    <3>1. UNCHANGED row  BY <1>7, <2>3 DEF WorkerTake
    <3> QED  BY <2>1, <2>3, <3>1 DEF Runnable
  <2> QED  BY <2>2, <2>3
<1>8. ASSUME BrokerRestart  PROVE Goal
  <2>1. queue' = {} /\ lost' = lost \cup queue /\ UNCHANGED <<sent, missed>>
    BY <1>8 DEF BrokerRestart, Persistent
  <2> QED  BY <2>1
<1>9. ASSUME NEW x \in Tasks, WorkerFinish(x)  PROVE Goal
  BY <1>1, <1>9 DEF WorkerFinish, broker
<1>10. ASSUME UNCHANGED vars  PROVE Goal
  BY <1>1, <1>10 DEF vars
<1>11. ASSUME NEW r \in Requests, Proceed(r) \/ Fail(r)  PROVE Goal
  BY <1>4, <1>5, <1>6, <1>11, HandlerMoves
<1> HIDE DEF Goal
<1>12. Goal
  BY <1>3, <1>7, <1>8, <1>9, <1>10, <1>11 DEF Next, Quiet
<1> QED  BY <1>12 DEF Goal

\* A row that waits for a worker keeps its message, and a message keeps its row.
LEMMA MessagesStep ==
  ASSUME IInv, MInv, [Next]_vars
  PROVE  /\ \A t \in Tasks : Heard(t)'
         /\ (\A t \in queue \cup missed : row[t] # Absent \/ Batched(t))'
<1>0. Kept  BY KeptStep DEF MInv
<1>1. ASSUME NEW t \in Tasks, t \in sent'
      PROVE  \/ t \in queue' \cup lost' \cup missed'
             \/ row'[t] # Absent /\ row'[t].status \notin {"BEFORE RMQ", "pending"}
  <2>1. CASE t \in queue \cup lost \cup missed  BY <2>1, QueueStep
  <2>2. CASE t \notin sent  BY <1>1, <2>2, QueueStep
  <2>3. CASE t \in sent /\ t \notin queue \cup lost \cup missed
    <3>1. row[t] # Absent /\ row[t].status \notin {"BEFORE RMQ", "pending"}
      BY <2>3 DEF MInv, Heard
    <3>2. RowMoves(t)  BY RowStep
    <3> QED  BY <3>1, <3>2 DEF RowMoves
  <2> QED  BY <2>1, <2>2, <2>3
<1>2. ASSUME NEW t \in Tasks, row'[t] # Absent, row'[t].status = "pending"
      PROVE  t \in sent'
  <2>1. CASE row[t] # Absent /\ row[t].status = "pending"
    BY <2>1, QueueStep DEF MInv, Heard
  <2>2. CASE ~(row[t] # Absent /\ row[t].status = "pending")
    <3>1. RowMoves(t)  BY RowStep
    <3>2. PICK r \in Requests :
            /\ t \in req[r].mine
            /\ req[r].pc = "confirm" \/ (req[r].op = "batch" /\ req[r].pc = "commit")
      BY <1>2, <2>2, <3>1 DEF RowMoves
    <3>3. Creates(r)  BY <3>2 DEF IInv, StageOK, Creates
    <3>4. t \in sent  BY <3>2, <3>3 DEF MInv, Sending
    <3> QED  BY <3>4, QueueStep
  <2> QED  BY <2>1, <2>2
<1>3. ASSUME NEW t \in queue' \cup missed'  PROVE row'[t] # Absent \/ Batched(t)'
  <2>0. t \in Tasks  BY TypeStep DEF TypeOK
  <2>1. row[t] # Absent => row'[t] # Absent
    BY <2>0, RowStep DEF RowMoves
  <2>2. row[t] # Absent \/ Batched(t)
    <3>1. CASE t \in queue \cup missed  BY <3>1 DEF MInv
    <3>2. CASE t \notin queue \cup missed
      <4>1. PICK r \in Requests : req[r].pc = "publish" /\ t \in req[r].todo
        BY <1>3, <2>0, <3>2, QueueStep
      <4>2. t \in req[r].mine
        BY <4>1 DEF MInv, Sending, IInv, StageOK, Creates
      <4> QED  BY <4>1, <4>2 DEF IInv, StageOK, Batched
    <3> QED  BY <3>1, <3>2
  <2> QED  BY <1>0, <2>0, <2>1, <2>2, BatchedKept
<1> QED  BY <1>1, <1>2, <1>3 DEF Heard

-----------------------------------------------------------------------------
(* Cancellations and their counter. *)

\* The step of cancel_task that counts.
Counts(r) ==
  /\ req[r].pc = "check" /\ req[r].op = "cancel"
  /\ Responds(r, 200, Reread(r), "commit")
  /\ canceled' = canceled + 1
  /\ UNCHANGED db

\* No other step of a handler brings a cancellation to its commit.
LEMMA HandlerCancels ==
  ASSUME IInv, NEW r \in Requests, Proceed(r) \/ Fail(r)
  PROVE  \/ Counts(r)
         \/ /\ \A t \in Tasks : lock'[t] \in {lock[t], Nobody, r}
            /\ req'[r].pc # "commit" \/ req'[r].op # "cancel"
            /\ canceled' = canceled
<1>0. TypeOK  BY DEF IInv
<1>1. CASE Publish(r)
  BY <1>1, PublishMoves
<1>2. ASSUME NEW code, NEW shown, Responds(r, code, shown, "done"),
             UNCHANGED lock \/ Release(r), UNCHANGED canceled
      PROVE  /\ \A t \in Tasks : lock'[t] \in {lock[t], Nobody, r}
             /\ req'[r].pc # "commit" /\ canceled' = canceled
  BY <1>0, <1>2, RespondsMoves DEF Release
<1>3. ASSUME NEW next \in {"check", "done", "crashed"},
             req' = [req EXCEPT ![r] = [@ EXCEPT !.pc = next]]
      PROVE  req'[r].pc # "commit"
  BY <1>0, <1>3, MovesOn
<1>4. CASE Confirm(r)  BY <1>2, <1>4 DEF Confirm
<1>5. CASE BatchFinish(r)
  <2>1. req[r].op = "batch"  BY <1>5 DEF BatchFinish, IInv, StageOK
  <2>2. req'[r].op = "batch"  BY <1>0, <1>5, <2>1, RespondsMoves DEF BatchFinish
  <2> QED  BY <1>5, <2>2 DEF BatchFinish, db
<1>6. CASE Write(r)
  <2>1. \A t \in Tasks : lock'[t] \in {lock[t], r}
    BY <1>0, <1>6 DEF Write, TypeOK
  <2> QED  BY <1>3, <1>6, <2>1 DEF Write, meters
<1>7. CASE Check(r)
  <2>1. CASE UNCHANGED canceled /\ (Raises(r, 403) \/ Raises(r, 400))
    BY <1>2, <2>1 DEF Raises, Rollback
  <2>2. CASE /\ canceled' = IF req[r].op = "cancel" THEN canceled + 1 ELSE canceled
             /\ Responds(r, 200, Reread(r), "commit")
             /\ UNCHANGED db
    <3>1. CASE req[r].op = "cancel"  BY <1>7, <2>2, <3>1 DEF Check, Counts
    <3>2. CASE req[r].op # "cancel"
      <4>1. req'[r].op # "cancel"  BY <1>0, <2>2, <3>2, RespondsMoves
      <4> QED  BY <2>2, <3>2, <4>1 DEF db
    <3> QED  BY <3>1, <3>2
  <2> QED  BY <1>7, <2>1, <2>2 DEF Check
<1>8. CASE FinalCommit(r) \/ CommitFails(r) \/ Crash(r)
  <2>1. Release(r) /\ UNCHANGED canceled
    BY <1>8 DEF FinalCommit, CommitFails, Crash, Commit, Rollback, meters
  <2>2. req'[r].pc # "commit"
    BY <1>3, <1>8 DEF FinalCommit, CommitFails, Crash
  <2> QED  BY <2>1, <2>2 DEF Release
<1>9. CASE PublishFails(r) \/ StatementFails(r) \/ ConfirmFails(r)
  BY <1>2, <1>9 DEF PublishFails, StatementFails, ConfirmFails, Raises, Rollback, meters
<1>10. CASE CrashConfirmed(r)
  BY <1>3, <1>10 DEF CrashConfirmed, meters
<1> QED
  BY <1>1, <1>4, <1>5, <1>6, <1>7, <1>8, <1>9, <1>10 DEF Proceed, Fail

\* The counter of cancellations is ahead of the table and of the commits to come.
LEMMA CancelsStep ==
  ASSUME IInv, Cardinality(Cancelled \cup Cancelling) <= canceled, [Next]_vars
  PROVE  (Cardinality(Cancelled \cup Cancelling) <= canceled)'
<1> DEFINE C == Cancelled \cup Cancelling
           Goal == Cardinality(C') <= canceled'
<1>0. /\ C \subseteq Tasks /\ C' \subseteq Tasks /\ IsFiniteSet(C) /\ IsFiniteSet(C')
      /\ Cardinality(C) \in Nat /\ Cardinality(C') \in Nat /\ canceled \in Nat
  <2>1. C \subseteq Tasks /\ C' \subseteq Tasks  BY DEF Cancelled, Cancelling
  <2> QED
    BY <2>1, ConstantsAssumption, FS_Subset, FS_CardinalityType DEF IInv, TypeOK
<1>1. Cancelled' \subseteq C
  BY RowStep DEF Cancelled, RowMoves
<1>2. ASSUME Cancelling' \subseteq Cancelling, canceled' = canceled  PROVE Goal
  <2>1. C' \subseteq C  BY <1>1, <1>2
  <2>2. Cardinality(C') <= Cardinality(C)  BY <1>0, <2>1, FS_Subset
  <2> HIDE DEF C
  <2> QED  BY <1>0, <1>2, <2>2 DEF C
<1>3. ASSUME NEW r \in Requests, \A q \in Requests \ {r} : req'[q] = req[q],
             \A t \in Tasks : lock'[t] \in {lock[t], Nobody, r},
             req'[r].pc # "commit" \/ req'[r].op # "cancel"
      PROVE  Cancelling' \subseteq Cancelling
  <2>1. lock' \in [Tasks -> Requests \cup {Nobody}]  BY TypeStep DEF TypeOK
  <2>2. ASSUME NEW t \in Tasks, lock'[t] # Nobody,
               req'[lock'[t]].pc = "commit" /\ req'[lock'[t]].op = "cancel"
        PROVE  t \in Cancelling
    <3>1. lock'[t] # r  BY <1>3, <2>2
    <3>2. lock'[t] = lock[t] /\ req'[lock[t]] = req[lock[t]]
      BY <1>3, <2>1, <2>2, <3>1
    <3> QED  BY <2>2, <3>2 DEF Cancelling
  <2> QED  BY <2>2 DEF Cancelling
<1>4. ASSUME NEW r \in Requests, Arrive(r)  PROVE Goal
  <2>1. canceled' = canceled /\ \A q \in Requests \ {r} : req'[q] = req[q]
    BY <1>4, ArriveMoves
  <2>2. /\ \A t \in Tasks : lock'[t] \in {lock[t], Nobody, r}
        /\ req'[r].pc # "commit" \/ req'[r].op # "cancel"
    BY <1>4, ArriveMoves DEF EndsAtOnce, FailsAtInsert, StartsCreate, StartsBatch, GoesOn
  <2> QED  BY <1>2, <1>3, <2>1, <2>2
<1>5. ASSUME NEW r \in Requests, Counts(r)  PROVE Goal
  <2>1. PICK x \in Tasks : req[r].mine = {x}
    BY <1>5 DEF Counts, IInv, StageOK, Reading
  <2>2. \A q \in Requests \ {r} : req'[q] = req[q]
    BY <1>5, RespondsMoves DEF Counts, IInv
  <2>3. C' \subseteq C \cup {x}
    <3>1. ASSUME NEW t \in Cancelling', t # x  PROVE t \in Cancelling
      <4>1. t \in Tasks /\ lock'[t] = lock[t] /\ lock[t] # Nobody
        BY <1>5, <3>1 DEF Counts, db, Cancelling
      <4>2. lock[t] # r  BY <2>1, <3>1, <4>1 DEF IInv, DraftOK
      <4>3. req'[lock[t]] = req[lock[t]]
        BY <2>2, <4>1, <4>2 DEF IInv, TypeOK
      <4> QED  BY <3>1, <4>1, <4>3 DEF Cancelling
    <3> QED  BY <1>1, <3>1
  <2>4. canceled' = canceled + 1  BY <1>5 DEF Counts
  <2> HIDE DEF C
  <2>5. IsFiniteSet(C \cup {x}) /\ Cardinality(C \cup {x}) <= Cardinality(C) + 1
    <3>1. IsFiniteSet(C) /\ Cardinality(C) \in Nat  BY <1>0
    <3>2. /\ IsFiniteSet(C \cup {x})
          /\ Cardinality(C \cup {x}) = IF x \in C THEN Cardinality(C) ELSE Cardinality(C) + 1
      BY ONLY <3>1, FS_AddElement
    <3> QED  BY ONLY <3>1, <3>2
  <2>6. Cardinality(C') <= Cardinality(C \cup {x}) /\ Cardinality(C \cup {x}) \in Nat
    BY <2>3, <2>5, FS_Subset, FS_CardinalityType
  <2> QED  BY <1>0, <2>4, <2>5, <2>6 DEF C
<1>6. ASSUME NEW r \in Requests, Proceed(r) \/ Fail(r), ~Counts(r)  PROVE Goal
  BY <1>2, <1>3, <1>6, HandlerCancels, HandlerMoves
<1>7. ASSUME UNCHANGED <<lock, req, canceled>>  PROVE Goal
  BY <1>2, <1>7 DEF Cancelling
<1> HIDE DEF Goal
<1>8. Goal
  <2>1. ASSUME NEW t \in Tasks, WorkerTake(t) \/ WorkerFinish(t)  PROVE Goal
    BY <1>7, <2>1 DEF WorkerTake, WorkerFinish, meters
  <2>2. CASE BrokerRestart \/ UNCHANGED vars
    BY <1>7, <2>2 DEF BrokerRestart, db, meters, vars
  <2> QED  BY <1>4, <1>5, <1>6, <2>1, <2>2 DEF Next, Quiet
<1> QED  BY <1>8 DEF Goal

-----------------------------------------------------------------------------
(* The theorems. *)

\* Nothing is asked for, sent, answered or counted at first.
LEMMA MessagesInit == Init => MInv
<1> SUFFICES ASSUME Init PROVE MInv  OBVIOUS
<1>1. \A r \in Requests : req[r] = Unused  BY DEF Init
<1>2. ASSUME NEW r \in Requests  PROVE Sending(r) /\ ~Creates(r)
  BY <1>1 DEF Sending, Creates, Unused
<1>3. Answered = {}  BY <1>2 DEF Answered, Creates
<1>4. Cancelled \cup Cancelling = {}  BY DEF Init, Cancelled, Cancelling
<1>5. Cardinality({}) = 0  BY FS_EmptySet
<1>6. created = Cardinality(Answered) /\ Cardinality(Cancelled \cup Cancelling) <= canceled
  BY <1>3, <1>4, <1>5 DEF Init
<1>7. Addressed /\ (\A t \in Tasks : Heard(t)) /\ queue \cup missed = {}
  BY DEF Init, Addressed, Heard
<1> QED
  BY <1>2, <1>6, <1>7 DEF MInv, Apart

\* Every step keeps the second invariant, given the first.
LEMMA MessagesNext ==
  ASSUME IInv, MInv, [Next]_vars
  PROVE  MInv'
<1>1. /\ \A q \in Requests : Sending(q)
      /\ Addressed
      /\ \A p, q \in Requests : Apart(p, q)
      /\ created = Cardinality(Answered)
      /\ Cardinality(Cancelled \cup Cancelling) <= canceled
  BY DEF MInv
<1>2. (\A q \in Requests : Sending(q))' /\ Addressed'  BY <1>1, SendingStep
<1>3. (\A p, q \in Requests : Apart(p, q))' /\ (created = Cardinality(Answered))'
  BY <1>1, AnswersStep
<1>4. (Cardinality(Cancelled \cup Cancelling) <= canceled)'  BY <1>1, CancelsStep
<1>5. /\ \A t \in Tasks : Heard(t)'
      /\ (\A t \in queue \cup missed : row[t] # Absent \/ Batched(t))'
  BY MessagesStep
<1> QED  BY <1>2, <1>3, <1>4, <1>5 DEF MInv

\* The second inductive invariant: requests, messages, answers and counters agree.
THEOREM MessagesInvariant == Spec => []MInv
BY Invariant, MessagesInit, MessagesNext, PTL DEF Spec

\* A POST answered 200 has published a message for each of its tasks: see
\* AcceptedIsPublished.
THEOREM PublishedWhenAccepted == Spec => []AcceptedIsPublished
<1>1. MInv => AcceptedIsPublished
  BY DEF MInv, Sending, Creates, AcceptedIsPublished
<1> QED  BY <1>1, MessagesInvariant, PTL

\* No row waits as pending without a message to come, lost or taken too early: see
\* PendingIsQueued.
THEOREM PendingQueued == Spec => []PendingIsQueued
<1>1. MInv => PendingIsQueued
  BY DEF MInv, Heard, PendingIsQueued
<1> QED  BY <1>1, MessagesInvariant, PTL

\* No worker is told of a task of POST / that is not in the table: see QueuedIsStored.
THEOREM QueuedStored == Spec => []QueuedIsStored
<1>1. MInv => QueuedIsStored
  BY DEF MInv, QueuedIsStored
<1> QED  BY <1>1, MessagesInvariant, PTL

\* tasks_created_total counts exactly the tasks of the POSTs answered 200, and no
\* cancellation is in the table uncounted: see CountersKeepUp.
THEOREM CountersAgree == Spec => []CountersKeepUp
<1>1. IInv /\ MInv => CountersKeepUp
  <2> SUFFICES ASSUME IInv, MInv PROVE CountersKeepUp  OBVIOUS
  <2>1. created = Cardinality({t \in Tasks : \E r \in Requests :
                    req[r].op \in {"create", "batch"} /\ req[r].reply = 200 /\ t \in req[r].mine})
    BY DEF MInv, Answered
  <2>2. /\ IsFiniteSet(Cancelled \cup Cancelling)
        /\ Cancelled \in SUBSET (Cancelled \cup Cancelling)
    <3>1. Cancelled \cup Cancelling \in SUBSET Tasks  BY DEF Cancelled, Cancelling
    <3> QED  BY <3>1, ConstantsAssumption, FS_Subset
  <2>3. /\ Cardinality(Cancelled) <= Cardinality(Cancelled \cup Cancelling)
        /\ Cardinality(Cancelled) \in Nat /\ Cardinality(Cancelled \cup Cancelling) \in Nat
    BY <2>2, FS_Subset, FS_CardinalityType
  <2>4. Cardinality(Cancelled) <= canceled
    BY <2>3 DEF MInv, IInv, TypeOK
  <2> QED  BY <2>1, <2>4 DEF CountersKeepUp, Cancelled
<1> QED  BY <1>1, Invariant, MessagesInvariant, PTL

\* A status update_task announces is the committed one of that moment, because the
\* handler that announces it has the row locked: see AnnouncedIsCommitted.
THEOREM AnnouncementsTrue == Spec => AnnouncedIsCommitted
<1>1. ASSUME IInv, [Next]_vars, NEW e \in announced' \ announced
      PROVE  row[e.task] # Absent /\ row[e.task].status = e.status
  <2>1. PICK r \in Requests : Check(r) /\ Announce(r)
    <3>1. ASSUME NEW r \in Requests, Arrive(r)  PROVE FALSE
      BY <1>1, <3>1, ArriveMoves
    <3>2. ASSUME NEW r \in Requests, Proceed(r), ~Check(r)  PROVE FALSE
      BY <1>1, <3>2 DEF Proceed, Publish, Confirm, BatchFinish, Write, FinalCommit
    <3>3. ASSUME NEW r \in Requests, Fail(r)  PROVE FALSE
      BY <1>1, <3>3 DEF Fail, PublishFails, StatementFails, CommitFails, ConfirmFails,
                        Crash, CrashConfirmed
    <3> QED
      BY <1>1, <3>1, <3>2, <3>3
         DEF Next, WorkerTake, WorkerFinish, BrokerRestart, Quiet, vars, Check
  <2>2. /\ req[r].op = "update"
        /\ e = [task |-> Current(r), status |-> Reread(r)]
    BY <1>1, <2>1 DEF Announce, AnnouncedStatus
  <2>3. PICK t \in Tasks : req[r].mine = {t} /\ row[t] # Absent
    BY <1>1, <2>1 DEF Check, IInv, StageOK, Reading
  <2>4. Current(r) = t  BY <2>3, CurrentIs
  <2>5. lock[t] = r
    BY <1>1, <2>1, <2>2, <2>3 DEF Check, IInv, StageOK, Writes
  <2>6. r # Nobody  BY ConstantsAssumption
  <2>7. draft[t] = Written(r, row[t])
    BY <1>1, <2>2, <2>5, <2>6 DEF IInv, DraftOK
  <2>8. row[t] \in Row  BY <1>1, <2>3, RowType DEF IInv
  <2>9. draft[t].status = row[t].status
    BY <2>2, <2>7, <2>8 DEF Written, Row
  <2> QED  BY <2>2, <2>3, <2>4, <2>5, <2>9 DEF Reread, Visible
<1>2. IInv /\ [Next]_vars =>
        [\A e \in announced' \ announced :
           row[e.task] # Absent /\ row[e.task].status = e.status]_vars
  BY <1>1
<1> QED  BY <1>2, Invariant, PTL DEF Spec, AnnouncedIsCommitted

=============================================================================
