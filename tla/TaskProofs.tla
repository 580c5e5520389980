----------------------------- MODULE TaskProofs -----------------------------
(***************************************************************************)
(* Theorems of TaskProperties, for any numbers of requests, tasks, users   *)
(* and contents and any choice of endpoints and failures.                  *)
(***************************************************************************)
EXTENDS TaskProperties, FiniteSetTheorems, TLAPS

USE DEF Nothing

-----------------------------------------------------------------------------
(* Types *)

\* A present row is a record; an absent one is not.
LEMMA RowType ==
  ASSUME TypeOK, NEW t \in Tasks, row[t] # Absent
  PROVE  /\ row[t] \in Row
         /\ row[t].owner \in Users /\ row[t].content \in Contents
         /\ row[t].status \in Status
BY DEF TypeOK, Row

\* Responding keeps the type of req.
LEMMA RespondsType ==
  ASSUME TypeOK, NEW r \in Requests, NEW code \in Replies,
         NEW shown \in Status \cup {"none"}, NEW next \in PCs,
         Responds(r, code, shown, next)
  PROVE  req' \in [Requests -> Request]
<1>1. req \in [Requests -> Request]  BY DEF TypeOK
<1>2. req[r] \in Request  BY <1>1
<1> DEFINE new == [req[r] EXCEPT !.pc = next, !.reply = code, !.body = shown]
<1>3. new \in Request  BY <1>2 DEF Request
<1>4. req' = [req EXCEPT ![r] = new]
  BY DEF Responds
<1> QED  BY <1>1, <1>3, <1>4

\* Starting a request keeps the type of req.
LEMMA StartsType ==
  ASSUME TypeOK, NEW r \in Requests, NEW op \in Endpoints, NEW u \in Users,
         NEW c \in Contents \cup {Nobody}, NEW ts \in SUBSET Tasks,
         NEW before \in Seen, NEW next \in PCs,
         Starts(r, op, u, c, ts, before, next)
  PROVE  req' \in [Requests -> Request]
<1> DEFINE new == [pc |-> next, op |-> op, user |-> u, arg |-> c, mine |-> ts,
                   todo |-> IF op \in {"create", "batch"} THEN ts ELSE {},
                   seen |-> before, reply |-> 0, body |-> "none"]
<1>1. new \in Request  BY DEF Request, Replies
<1>2. req' = [req EXCEPT ![r] = new]  BY DEF Starts
<1> QED  BY <1>1, <1>2 DEF TypeOK

LEMMA StartsAndEndsType ==
  ASSUME TypeOK, NEW r \in Requests, NEW op \in Endpoints, NEW u \in Users,
         NEW ts \in SUBSET Tasks, NEW code \in Replies,
         NEW shown \in Status \cup {"none"},
         StartsAndEnds(r, op, u, ts, code, shown)
  PROVE  req' \in [Requests -> Request]
<1> DEFINE new == [Unused EXCEPT !.pc = "done", !.op = op, !.user = u,
                     !.mine = ts, !.reply = code, !.body = shown]
<1>1. new \in Request  BY DEF Unused, Request, PCs, Seen
<1>2. req' = [req EXCEPT ![r] = new]  BY DEF StartsAndEnds
<1> QED  BY <1>1, <1>2 DEF TypeOK

\* Ending a transaction either way keeps the types of the database.
LEMMA CommitType ==
  ASSUME TypeOK, NEW r \in Requests, Commit(r) \/ Rollback(r)
  PROVE  /\ row' \in [Tasks -> Row \cup {Absent}]
         /\ lock' \in [Tasks -> Requests \cup {Nobody}]
         /\ draft' \in [Tasks -> Row \cup {Absent}]
BY DEF TypeOK, Commit, Rollback, Release, Visible

\* What an update or a cancellation writes over a row is a row.
LEMMA WrittenType ==
  ASSUME TypeOK, NEW r \in Requests, NEW old \in Row,
         req[r].op \in {"update", "cancel"},
         req[r].op = "update" => req[r].arg \in Contents
  PROVE  Written(r, old) \in Row
BY DEF TypeOK, Written, Row, Status

\* The one task of a request is the one CHOOSE picks.
LEMMA CurrentIs ==
  ASSUME NEW r \in Requests, NEW t \in Tasks, req[r].mine = {t}
  PROVE  Current(r) = t
BY DEF Current

\* The second SELECT of update_task and cancel_task finds the row.
LEMMA RereadType ==
  ASSUME IInv, NEW r \in Requests, req[r].pc = "check"
  PROVE  Current(r) \in Tasks /\ Reread(r) \in Status
<1>1. PICK t \in Tasks : req[r].mine = {t} /\ row[t] # Absent
  BY DEF IInv, StageOK, Reading
<1>2. Current(r) = t  BY <1>1, CurrentIs
<1>3. row[t] \in Row  BY <1>1, RowType DEF IInv
<1>4. lock[t] = r => draft[t] \in Row
  <2>1. SUFFICES ASSUME lock[t] = r PROVE draft[t] \in Row  OBVIOUS
  <2>2. r # Nobody  BY ConstantsAssumption
  <2>3. draft[t] = Written(r, row[t])
    BY <2>1, <2>2 DEF IInv, DraftOK, StageOK
  <2> QED
    BY <1>3, <2>3, WrittenType DEF IInv, StageOK
<1> QED  BY <1>2, <1>3, <1>4 DEF Reread, Visible, Row

\* Every step keeps the types.
LEMMA TypeStep ==
  ASSUME IInv, [Next]_vars
  PROVE  TypeOK'
<1> USE DEF db, broker, meters
<1>0. TypeOK  BY DEF IInv
<1>1. ASSUME NEW r \in Requests, Arrive(r)  PROVE TypeOK'
  <2>1. PICK u \in Users, t \in Tasks, c \in Contents :
          \/ CreateInsert(r, u, c, t) \/ InsertFails(r, u, c, t)
          \/ Get(r, u, t)
          \/ \E op \in Endpoints :
              NotFound(r, op, u, t) \/ Select(r, op, u, c, t) \/ StartFails(r, op, u)
          \/ \E S \in SUBSET Tasks : BatchRejected(r, u, S) \/ BatchInsert(r, u, c, S)
    BY <1>1 DEF Arrive
  <2>2. CASE CreateInsert(r, u, c, t)
    <3>1. Owned(u, c, InitialStatus) \in Row  BY DEF Owned, InitialStatus, Row, Status
    <3>2. req' \in [Requests -> Request]
      BY <1>0, <2>2, StartsType DEF CreateInsert, Seen, PCs, Endpoints
    <3> QED  BY <1>0, <2>2, <3>1, <3>2 DEF CreateInsert, TypeOK
  <2>3. CASE Get(r, u, t)
    <3>1. {t} \in SUBSET Tasks /\ row[t].status \in Status  BY <1>0, <2>3, RowType DEF Get
    <3>2. \/ StartsAndEnds(r, "get", u, {t}, 200, row[t].status)
          \/ StartsAndEnds(r, "get", u, {t}, 403, "none")
      BY <2>3 DEF Get
    <3>3. {200, 403} \subseteq Replies /\ "get" \in Endpoints  BY DEF Replies, Endpoints
    <3>4. req' \in [Requests -> Request]
      BY <1>0, <3>1, <3>2, <3>3, StartsAndEndsType
    <3> QED  BY <1>0, <2>3, <3>4 DEF Get, TypeOK
  <2>4. ASSUME NEW op \in Endpoints, NotFound(r, op, u, t)  PROVE TypeOK'
    <3>1. {t} \in SUBSET Tasks /\ 404 \in Replies  BY DEF Replies
    <3>2. StartsAndEnds(r, op, u, {t}, 404, "none")  BY <2>4 DEF NotFound
    <3>3. req' \in [Requests -> Request]  BY <1>0, <3>1, <3>2, StartsAndEndsType
    <3> QED  BY <1>0, <2>4, <3>3 DEF NotFound, TypeOK
  <2>5. ASSUME NEW op \in Endpoints, Select(r, op, u, c, t)  PROVE TypeOK'
    <3>1. [owner |-> row[t].owner, status |-> row[t].status] \in Seen
      BY <1>0, <2>5, RowType DEF Select, Seen
    <3>2. req' \in [Requests -> Request]
      BY <1>0, <2>5, <3>1, StartsType DEF Select, PCs
    <3> QED  BY <1>0, <2>5, <3>2 DEF Select, TypeOK
  <2>6. ASSUME NEW S \in SUBSET Tasks, BatchRejected(r, u, S)  PROVE TypeOK'
    <3>1. PICK code \in {400, 500} : StartsAndEnds(r, "batch", u, S, code, "none")
      BY <2>6 DEF BatchRejected
    <3>2. code \in Replies /\ "batch" \in Endpoints  BY DEF Replies, Endpoints
    <3>3. req' \in [Requests -> Request]  BY <1>0, <3>1, <3>2, StartsAndEndsType
    <3> QED  BY <1>0, <2>6, <3>3 DEF BatchRejected, TypeOK
  <2>7. ASSUME NEW S \in SUBSET Tasks, BatchInsert(r, u, c, S)  PROVE TypeOK'
    <3>1. Owned(u, c, "pending") \in Row  BY DEF Owned, Row, Status
    <3>2. req' \in [Requests -> Request]
      BY <1>0, <2>7, StartsType DEF BatchInsert, Seen, PCs, Endpoints
    <3> QED  BY <1>0, <2>7, <3>1, <3>2 DEF BatchInsert, TypeOK
  <2>8. ASSUME NEW op \in Endpoints, StartFails(r, op, u)  PROVE TypeOK'
    <3>1. {} \in SUBSET Tasks /\ 500 \in Replies  BY DEF Replies
    <3>2. StartsAndEnds(r, op, u, {}, 500, "none")  BY <2>8 DEF StartFails
    <3>3. req' \in [Requests -> Request]  BY <1>0, <3>1, <3>2, StartsAndEndsType
    <3> QED  BY <1>0, <2>8, <3>3 DEF StartFails, TypeOK
  <2>9. CASE InsertFails(r, u, c, t)
    <3>1. Owned(u, c, InitialStatus) \in Row  BY DEF Owned, InitialStatus, Row, Status
    <3>2. /\ {t} \in SUBSET Tasks /\ 500 \in Replies /\ "create" \in Endpoints
          /\ "none" \in Status \cup {"none"}
      BY DEF Replies, Endpoints
    <3>3. StartsAndEnds(r, "create", u, {t}, 500, "none")  BY <2>9 DEF InsertFails
    <3>4. req' \in [Requests -> Request]  BY <1>0, <3>2, <3>3, StartsAndEndsType
    <3> QED  BY <1>0, <2>9, <3>1, <3>4 DEF InsertFails, TypeOK
  <2> QED  BY <2>1, <2>2, <2>3, <2>4, <2>5, <2>6, <2>7, <2>8, <2>9
<1>2. ASSUME NEW r \in Requests, Publish(r)  PROVE TypeOK'
  <2>1. PICK t \in req[r].todo :
          /\ queue' = queue \cup {t} /\ sent' = sent \cup {t}
          /\ req' = [req EXCEPT ![r] = [@ EXCEPT
               !.todo = req[r].todo \ {t},
               !.pc   = IF req[r].todo # {t} THEN "publish"
                        ELSE IF req[r].op = "create" THEN "confirm" ELSE "finish"]]
    BY <1>2 DEF Publish
  <2>2. req[r] \in Request /\ t \in Tasks  BY <1>0 DEF TypeOK, Request
  <2>3. req' \in [Requests -> Request]
    <3> DEFINE new == [req[r] EXCEPT
               !.todo = req[r].todo \ {t},
               !.pc   = IF req[r].todo # {t} THEN "publish"
                        ELSE IF req[r].op = "create" THEN "confirm" ELSE "finish"]
    <3>1. new \in Request  BY <2>2 DEF Request, PCs
    <3>2. req' = [req EXCEPT ![r] = new]  BY <2>1
    <3> QED  BY <1>0, <3>1, <3>2 DEF TypeOK
  <2> QED  BY <1>0, <1>2, <2>1, <2>2, <2>3 DEF Publish, TypeOK
<1>3. ASSUME NEW r \in Requests, req[r].pc = "confirm", Confirmation(r)
      PROVE  row' \in [Tasks -> Row \cup {Absent}]
  <2>1. PICK t \in req[r].mine : row' = [row EXCEPT ![t].status = ConfirmedStatus(@)]
    BY <1>3 DEF Confirmation
  <2>2. t \in Tasks /\ row[t] \in Row
    BY <1>0, <1>3, RowType DEF IInv, StageOK
  <2>3. [row[t] EXCEPT !.status = ConfirmedStatus(row[t].status)] \in Row
    BY <2>2 DEF Row, Status, ConfirmedStatus
  <2> QED  BY <1>0, <2>1, <2>2, <2>3 DEF TypeOK
<1>4. ASSUME NEW r \in Requests, Confirm(r)  PROVE TypeOK'
  <2>1. req' \in [Requests -> Request]
    <3>1. Responds(r, 200, "BEFORE RMQ", "done")  BY <1>4 DEF Confirm, InitialStatus
    <3>2. 200 \in Replies /\ "BEFORE RMQ" \in Status /\ "done" \in PCs
      BY DEF Status, Replies, PCs
    <3> QED  BY <1>0, <3>1, <3>2, RespondsType
  <2> QED  BY <1>0, <1>3, <1>4, <2>1 DEF Confirm, TypeOK
<1>5. ASSUME NEW r \in Requests, BatchFinish(r)  PROVE TypeOK'
  <2>1. req' \in [Requests -> Request]
    <3>1. Responds(r, 200, "pending", "commit")  BY <1>5 DEF BatchFinish
    <3>2. 200 \in Replies /\ "pending" \in Status /\ "commit" \in PCs
      BY DEF Status, Replies, PCs
    <3> QED  BY <1>0, <3>1, <3>2, RespondsType
  <2>2. Cardinality(req[r].mine) \in Nat
    <3>1. req[r].mine \subseteq Tasks  BY <1>0 DEF TypeOK, Request
    <3> QED  BY <3>1, ConstantsAssumption, FS_Subset, FS_CardinalityType
  <2> QED  BY <1>0, <1>5, <2>1, <2>2 DEF BatchFinish, TypeOK
<1>6. ASSUME NEW r \in Requests, Write(r)  PROVE TypeOK'
  <2>1. PICK t \in Tasks :
          /\ lock' = [lock EXCEPT ![t] = r]
          /\ draft' = [draft EXCEPT ![t] = Written(r, row[t])]
          /\ row[t] # Absent
    <3>1. PICK t \in Tasks : req[r].mine = {t} /\ row[t] # Absent
      BY <1>6 DEF Write, IInv, StageOK, Reading
    <3> QED  BY <1>6, <3>1 DEF Write
  <2>2. Written(r, row[t]) \in Row
    BY <1>0, <1>6, <2>1, RowType, WrittenType DEF Write, IInv, StageOK
  <2>3. req' \in [Requests -> Request]
    <3>1. [req[r] EXCEPT !.pc = "check"] \in Request
      BY <1>0 DEF TypeOK, Request, PCs
    <3> QED  BY <1>0, <1>6, <3>1 DEF Write, TypeOK
  <2> QED  BY <1>0, <1>6, <2>1, <2>2, <2>3 DEF Write, TypeOK
<1>7. ASSUME NEW r \in Requests, Check(r)  PROVE TypeOK'
  <2>1. Current(r) \in Tasks /\ Reread(r) \in Status
    BY <1>7, RereadType DEF Check
  <2>2. announced' \subseteq [task : Tasks, status : Status]
    BY <1>0, <1>7, <2>1 DEF Check, Announce, AnnouncedStatus, TypeOK
  <2>3. CASE Raises(r, 403) /\ UNCHANGED canceled
    BY <1>0, <1>7, <2>2, <2>3, RespondsType, CommitType
       DEF Check, Raises, Rollback, Replies, PCs, TypeOK
  <2>4. CASE Raises(r, 400) /\ UNCHANGED canceled
    BY <1>0, <1>7, <2>2, <2>4, RespondsType, CommitType
       DEF Check, Raises, Rollback, Replies, PCs, TypeOK
  <2>5. CASE /\ canceled' = IF req[r].op = "cancel" THEN canceled + 1 ELSE canceled
             /\ Responds(r, 200, Reread(r), "commit")
             /\ UNCHANGED db
    <3>1. req' \in [Requests -> Request]
      BY <1>0, <2>1, <2>5, RespondsType DEF Replies, PCs
    <3> QED  BY <1>0, <1>7, <2>2, <2>5, <3>1 DEF Check, TypeOK
  <2> QED  BY <1>7, <2>3, <2>4, <2>5 DEF Check
<1>8. ASSUME NEW r \in Requests, NEW next \in PCs,
             Commit(r) \/ Rollback(r),
             req' = [req EXCEPT ![r] = [@ EXCEPT !.pc = next]],
             UNCHANGED <<broker, announced, meters>>
      PROVE  TypeOK'
  <2>1. [req[r] EXCEPT !.pc = next] \in Request
    BY <1>0 DEF TypeOK, Request
  <2>2. req' \in [Requests -> Request]  BY <1>0, <1>8, <2>1 DEF TypeOK
  <2> QED  BY <1>0, <1>8, <2>2, CommitType DEF TypeOK
<1>9. ASSUME NEW r \in Requests, FinalCommit(r) \/ CommitFails(r) \/ Crash(r)
      PROVE  TypeOK'
  BY <1>8, <1>9 DEF FinalCommit, CommitFails, Crash, PCs
<1>10. ASSUME NEW r \in Requests, PublishFails(r)  PROVE TypeOK'
  <2>1. req' \in [Requests -> Request]
    BY <1>0, <1>10, RespondsType DEF PublishFails, Raises, Replies, PCs
  <2>2. queue' \subseteq Tasks /\ sent' \subseteq Tasks
    BY <1>0, <1>10 DEF PublishFails, TypeOK, Request
  <2> QED
    BY <1>0, <1>10, <2>1, <2>2, CommitType DEF PublishFails, Raises, TypeOK
<1>11. ASSUME NEW r \in Requests, StatementFails(r)  PROVE TypeOK'
  <2>1. req' \in [Requests -> Request]
    BY <1>0, <1>11, RespondsType DEF StatementFails, Raises, Replies, PCs
  <2> QED  BY <1>0, <1>11, <2>1, CommitType DEF StatementFails, Raises, TypeOK
<1>12. ASSUME NEW r \in Requests, ConfirmFails(r)  PROVE TypeOK'
  <2>1. req' \in [Requests -> Request]
    BY <1>0, <1>12, RespondsType DEF ConfirmFails, Replies, PCs
  <2> QED  BY <1>0, <1>3, <1>12, <2>1 DEF ConfirmFails, TypeOK
<1>17. ASSUME NEW r \in Requests, CrashConfirmed(r)  PROVE TypeOK'
  <2>1. [req[r] EXCEPT !.pc = "crashed"] \in Request
    BY <1>0 DEF TypeOK, Request, PCs
  <2>2. req' \in [Requests -> Request]  BY <1>0, <1>17, <2>1 DEF CrashConfirmed, TypeOK
  <2> QED  BY <1>0, <1>3, <1>17, <2>2 DEF CrashConfirmed, TypeOK
<1>13. ASSUME NEW t \in Tasks, WorkerTake(t)  PROVE TypeOK'
  <2>1. row' \in [Tasks -> Row \cup {Absent}]
    <3>1. row[t] # Absent => [row[t] EXCEPT !.status = "running"] \in Row
      BY <1>0, RowType DEF Row, Status
    <3> QED  BY <1>0, <1>13, <3>1 DEF WorkerTake, TypeOK
  <2> QED  BY <1>0, <1>13, <2>1 DEF WorkerTake, TypeOK
<1>14. ASSUME NEW t \in Tasks, WorkerFinish(t)  PROVE TypeOK'
  <2>1. PICK s \in {"done", "failed"} : row' = [row EXCEPT ![t].status = s]
    BY <1>14 DEF WorkerFinish
  <2>2. [row[t] EXCEPT !.status = s] \in Row
    BY <1>0, <1>14, RowType DEF WorkerFinish, Row, Status
  <2> QED  BY <1>0, <1>14, <2>1, <2>2 DEF WorkerFinish, TypeOK
<1>15. CASE BrokerRestart  BY <1>0, <1>15 DEF BrokerRestart, TypeOK
<1>16. CASE UNCHANGED vars  BY <1>0, <1>16 DEF vars, TypeOK
<1> QED
  BY <1>1, <1>2, <1>4, <1>5, <1>6, <1>7, <1>9, <1>10, <1>11, <1>12, <1>13, <1>14,
     <1>15, <1>16, <1>17 DEF Next, Proceed, Fail, Quiet

-----------------------------------------------------------------------------
(* Frames: what a step leaves alone. *)

\* No row disappears, changes owner or goes back to its first status.
RowsKept ==
  \A t \in Tasks : row[t] # Absent =>
    /\ row'[t] # Absent
    /\ row'[t].owner = row[t].owner
    /\ row[t].status # "BEFORE RMQ" => row'[t].status # "BEFORE RMQ"

\* A request whose own state, locks and drafts a step leaves alone stays consistent
\* with the table.
LEMMA StageFrame ==
  ASSUME NEW q \in Requests, StageOK(q), RowsKept, req'[q] = req[q],
         req[q].mine \subseteq Tasks,
         \A t \in Tasks : lock[t] = q => lock'[t] = q /\ draft'[t] = draft[t]
  PROVE  StageOK(q)'
<1>1. Reading(q) => Reading(q)'
  BY DEF Reading, RowsKept
<1>2. Writes(q)' = Writes(q)  BY DEF Writes
<1>3. req[q].op = "create" /\ (\E t \in Tasks : req[q].mine = {t} /\ row[t] # Absent)
      => \E t \in Tasks : req[q].mine = {t} /\ row'[t] # Absent
  BY DEF RowsKept
<1> QED  BY <1>1, <1>2, <1>3 DEF StageOK

\* An unlocked row and a row locked by a request that stands still keep their drafts.
LEMMA DraftFrame ==
  ASSUME NEW t \in Tasks, DraftOK(t), lock'[t] = lock[t], draft'[t] = draft[t],
         lock[t] # Nobody => row'[t] = row[t] /\ req'[lock[t]] = req[lock[t]]
  PROVE  DraftOK(t)'
BY DEF DraftOK, Writes, Written

\* A step of one request: what is left to show is about that request.
LEMMA HandlerFrame ==
  ASSUME IInv, NEW r \in Requests, RowsKept,
         \A q \in Requests \ {r} : req'[q] = req[q],
         \A t \in Tasks : lock[t] \notin {r, Nobody} =>
           lock'[t] = lock[t] /\ draft'[t] = draft[t] /\ row'[t] = row[t],
         StageOK(r)',
         \A t \in Tasks : lock[t] \in {r, Nobody} => DraftOK(t)'
  PROVE  (\A q \in Requests : StageOK(q))' /\ (\A t \in Tasks : DraftOK(t))'
<1>1. ASSUME NEW q \in Requests \ {r}  PROVE StageOK(q)'
  <2>1. q # Nobody  BY ConstantsAssumption
  <2>2. req[q].mine \subseteq Tasks  BY DEF IInv, TypeOK, Request
  <2> QED  BY <2>1, <2>2, StageFrame DEF IInv
<1>2. ASSUME NEW t \in Tasks, lock[t] \notin {r, Nobody}  PROVE DraftOK(t)'
  <2>1. lock[t] \in Requests \ {r}  BY <1>2 DEF IInv, TypeOK
  <2> QED  BY <1>2, <2>1, DraftFrame DEF IInv
<1> QED  BY <1>1, <1>2

\* A request that is not in a transaction that wrote holds no lock.
LEMMA NoLock ==
  ASSUME IInv, NEW r \in Requests,
         \/ req[r].pc \notin {"publish", "finish", "check", "commit"}
         \/ req[r].op \notin {"batch", "update", "cancel"},
         NEW t \in Tasks
  PROVE  lock[t] # r
BY ConstantsAssumption DEF IInv, DraftOK

\* A fresh identifier is not locked.
LEMMA FreshUnlocked ==
  ASSUME IInv, NEW t \in Tasks, Fresh(t)
  PROVE  lock[t] = Nobody /\ draft[t] = Absent
BY DEF IInv, TypeOK, DraftOK, Fresh

\* A step of a request that ends, or has not begun, its transaction, and leaves the
\* database alone.
LEMMA ReadOnlyStep ==
  ASSUME IInv, NEW r \in Requests, UNCHANGED db,
         \A q \in Requests \ {r} : req'[q] = req[q],
         \A t \in Tasks : lock[t] # r,
         StageOK(r)'
  PROVE  (\A q \in Requests : StageOK(q))' /\ (\A t \in Tasks : DraftOK(t))'
<1>1. RowsKept  BY DEF RowsKept, db
<1>2. ASSUME NEW t \in Tasks, lock[t] \in {r, Nobody}  PROVE DraftOK(t)'
  BY <1>2, DraftFrame DEF IInv, db
<1> QED  BY <1>1, <1>2, HandlerFrame DEF db

\* Committing or rolling back leaves every row and every other request consistent.
LEMMA SessionEnds ==
  ASSUME IInv, NEW r \in Requests, Commit(r) \/ Rollback(r),
         \A q \in Requests \ {r} : req'[q] = req[q],
         req'[r].pc \in {"done", "crashed"}
  PROVE  (\A q \in Requests : StageOK(q))' /\ (\A t \in Tasks : DraftOK(t))'
<1>1. \A t \in Tasks : lock[t] # r =>
        row'[t] = row[t] /\ lock'[t] = lock[t] /\ draft'[t] = draft[t]
  BY DEF IInv, TypeOK, Commit, Rollback, Release, Visible
<1>2. \A t \in Tasks : lock[t] = r =>
        /\ lock'[t] = Nobody /\ draft'[t] = Absent
        /\ row'[t] = row[t] \/ row'[t] = draft[t]
  BY DEF IInv, TypeOK, Commit, Rollback, Release, Visible
<1>3. RowsKept
  <2>1. SUFFICES ASSUME NEW t \in Tasks, row[t] # Absent, lock[t] = r, row'[t] = draft[t]
                 PROVE  /\ row'[t] # Absent
                        /\ row'[t].owner = row[t].owner
                        /\ row[t].status # "BEFORE RMQ" => row'[t].status # "BEFORE RMQ"
    BY <1>1, <1>2 DEF RowsKept
  <2>2. r # Nobody  BY ConstantsAssumption
  <2>3. req[r].op \in {"update", "cancel"} /\ row'[t] = Written(r, row[t])
    BY <2>1, <2>2 DEF IInv, DraftOK
  <2>4. row[t] \in Row  BY <2>1, RowType DEF IInv
  <2>5. row'[t] # Absent
    <3>1. req[r].pc \in {"check", "commit"}  BY <2>1, <2>2, <2>3 DEF IInv, DraftOK
    <3>2. req[r].op = "update" => req[r].arg \in Contents
      BY <2>3, <3>1 DEF IInv, StageOK
    <3>3. Written(r, row[t]) \in Row  BY <2>3, <2>4, <3>2, WrittenType DEF IInv
    <3> QED  BY <2>3, <3>3, ConstantsAssumption
  <2> QED  BY <2>3, <2>4, <2>5 DEF Written, Row
<1>4. StageOK(r)'  BY DEF StageOK
<1>5. ASSUME NEW t \in Tasks, lock[t] \in {r, Nobody}  PROVE DraftOK(t)'
  BY <1>1, <1>2, <1>5 DEF DraftOK, IInv
<1> QED  BY <1>1, <1>3, <1>4, <1>5, HandlerFrame

\* A statement of its own that only touches rows no transaction has written.
LEMMA UnlockedWrite ==
  ASSUME IInv, RowsKept, UNCHANGED <<lock, draft, req>>,
         \A t \in Tasks : lock[t] # Nobody => row'[t] = row[t]
  PROVE  (\A q \in Requests : StageOK(q))' /\ (\A t \in Tasks : DraftOK(t))'
<1>1. ASSUME NEW q \in Requests  PROVE StageOK(q)'
  <2>1. req[q].mine \subseteq Tasks  BY DEF IInv, TypeOK, Request
  <2> QED  BY <2>1, StageFrame DEF IInv
<1>2. ASSUME NEW t \in Tasks  PROVE DraftOK(t)'
  BY DraftFrame DEF IInv
<1> QED  BY <1>1, <1>2

-----------------------------------------------------------------------------
(* Every step keeps the invariant. *)

Agreement == (\A q \in Requests : StageOK(q)) /\ (\A t \in Tasks : DraftOK(t))

\* Responding changes three fields of one request.
LEMMA RespondsChanges ==
  ASSUME TypeOK, NEW r \in Requests, NEW code, NEW shown, NEW next,
         Responds(r, code, shown, next)
  PROVE  /\ \A q \in Requests \ {r} : req'[q] = req[q]
         /\ req'[r].pc = next /\ req'[r].reply = code /\ req'[r].body = shown
         /\ req'[r].op = req[r].op /\ req'[r].user = req[r].user
         /\ req'[r].arg = req[r].arg /\ req'[r].mine = req[r].mine
         /\ req'[r].seen = req[r].seen
<1>1. req \in [Requests -> Request]  BY DEF TypeOK
<1>2. req[r] \in Request  BY <1>1
<1>3. /\ \A q \in Requests \ {r} : req'[q] = req[q]
      /\ req'[r] = [req[r] EXCEPT !.pc = next, !.reply = code, !.body = shown]
  BY <1>1 DEF Responds
<1> QED  BY <1>2, <1>3 DEF Request

\* So does moving on.
LEMMA MovesOn ==
  ASSUME TypeOK, NEW r \in Requests, NEW next,
         req' = [req EXCEPT ![r] = [@ EXCEPT !.pc = next]]
  PROVE  /\ \A q \in Requests \ {r} : req'[q] = req[q]
         /\ req'[r].pc = next /\ req'[r].op = req[r].op /\ req'[r].user = req[r].user
         /\ req'[r].arg = req[r].arg /\ req'[r].mine = req[r].mine
         /\ req'[r].seen = req[r].seen /\ req'[r].reply = req[r].reply
         /\ req'[r].body = req[r].body
BY DEF TypeOK, Request

\* The confirmation writes no row that a transaction has written, and leaves every
\* row in a status other than "BEFORE RMQ" alone.
LEMMA ConfirmationKeeps ==
  ASSUME IInv, NEW r \in Requests, req[r].pc = "confirm", Confirmation(r)
  PROVE  /\ RowsKept
         /\ \A t \in Tasks : lock[t] # Nobody => row'[t] = row[t]
<1>1. PICK t \in Tasks : /\ lock[t] = Nobody \/ row[t].status # "BEFORE RMQ"
                         /\ row' = [row EXCEPT ![t].status = ConfirmedStatus(@)]
                         /\ row[t] \in Row
  <2>1. PICK x \in Tasks : req[r].mine = {x} /\ row[x] # Absent
    BY DEF IInv, StageOK
  <2>2. row[x] \in Row  BY <2>1, RowType DEF IInv
  <2> QED  BY <2>1, <2>2 DEF Confirmation
<1>2. row' = [row EXCEPT ![t] = [row[t] EXCEPT !.status = ConfirmedStatus(row[t].status)]]
  BY <1>1
<1> DEFINE new == [row[t] EXCEPT !.status = ConfirmedStatus(row[t].status)]
<1>3. new \in Row /\ new.owner = row[t].owner
      /\ (row[t].status # "BEFORE RMQ" => new = row[t]) /\ new.status # "BEFORE RMQ"
  BY <1>1 DEF Row, Status, ConfirmedStatus
<1>4. /\ row'[t] = new
      /\ \A x \in Tasks \ {t} : row'[x] = row[x]
  BY <1>2 DEF IInv, TypeOK
<1> HIDE DEF new
<1>5. new # Absent  BY <1>3, ConstantsAssumption
<1> QED  BY <1>1, <1>3, <1>4, <1>5 DEF RowsKept

LEMMA ArriveAgrees ==
  ASSUME IInv, NEW r \in Requests, Arrive(r)
  PROVE  Agreement'
<1> USE DEF db
<1>0. TypeOK /\ req[r] \in Request  BY DEF IInv, TypeOK
<1>1. PICK u \in Users, t \in Tasks, c \in Contents :
        \/ CreateInsert(r, u, c, t) \/ InsertFails(r, u, c, t)
        \/ Get(r, u, t)
        \/ \E op \in Endpoints :
            NotFound(r, op, u, t) \/ Select(r, op, u, c, t) \/ StartFails(r, op, u)
        \/ \E S \in SUBSET Tasks : BatchRejected(r, u, S) \/ BatchInsert(r, u, c, S)
  BY DEF Arrive
<1>2. req[r].pc = "idle"
  BY <1>1 DEF CreateInsert, InsertFails, Get, NotFound, Select, StartFails,
              BatchRejected, BatchInsert, Starts, StartsAndEnds
<1>3. \A x \in Tasks : lock[x] # r  BY <1>2, NoLock
<1>4. CASE CreateInsert(r, u, c, t)
  <2>1. req' = [req EXCEPT ![r] =
          [pc |-> "publish", op |-> "create", user |-> u, arg |-> c, mine |-> {t},
           todo |-> {t}, seen |-> Nothing, reply |-> 0, body |-> "none"]]
    BY <1>4 DEF CreateInsert, Starts
  <2>2. lock[t] = Nobody /\ draft[t] = Absent  BY <1>4, FreshUnlocked DEF CreateInsert
  <2>3. row' = [row EXCEPT ![t] = Owned(u, c, InitialStatus)] /\ row[t] = Absent
        /\ UNCHANGED <<lock, draft>>
    BY <1>4 DEF CreateInsert, Fresh
  <2>4. Owned(u, c, InitialStatus) # Absent
    <3>1. Owned(u, c, InitialStatus) \in Row  BY DEF Owned, InitialStatus, Row, Status
    <3> QED  BY <3>1, ConstantsAssumption
  <2>5. RowsKept  BY <1>0, <2>3 DEF RowsKept, TypeOK
  <2>6. StageOK(r)'  BY <1>0, <2>1, <2>3, <2>4 DEF StageOK, TypeOK
  <2>7. ASSUME NEW x \in Tasks, lock[x] \in {r, Nobody}  PROVE DraftOK(x)'
    BY <1>3, <2>3, <2>7 DEF IInv, DraftOK
  <2> QED  BY <1>0, <1>3, <2>1, <2>2, <2>3, <2>5, <2>6, <2>7, HandlerFrame
           DEF Agreement, TypeOK
<1>5. ASSUME NEW op \in Endpoints, Select(r, op, u, c, t)  PROVE Agreement'
  <2>1. PICK a \in Contents \cup {Nobody}, n \in {"write", "check"} :
          /\ req' = [req EXCEPT ![r] =
               [pc |-> n, op |-> op, user |-> u, arg |-> a, mine |-> {t}, todo |-> {},
                seen |-> [owner |-> row[t].owner, status |-> row[t].status],
                reply |-> 0, body |-> "none"]]
          /\ op = "update" => a = c
          /\ n = "write" <=> op = "update" \/ row[t].status = "pending"
    BY <1>5 DEF Select, Starts
  <2>2. op \in {"update", "cancel"} /\ row[t] # Absent /\ UNCHANGED db
    BY <1>5 DEF Select
  <2>3. req'[r] = [pc |-> n, op |-> op, user |-> u, arg |-> a, mine |-> {t}, todo |-> {},
                   seen |-> [owner |-> row[t].owner, status |-> row[t].status],
                   reply |-> 0, body |-> "none"]
    BY <1>0, <2>1 DEF TypeOK
  <2>4. Reading(r)'
    <3>1. /\ req'[r].mine = {t} /\ row'[t] = row[t] /\ row[t] # Absent
          /\ req'[r].seen.owner = row[t].owner
          /\ req'[r].seen.status = row[t].status
      BY <2>2, <2>3
    <3> QED  BY <3>1 DEF Reading
  <2>5. StageOK(r)'  BY <2>1, <2>2, <2>3, <2>4 DEF StageOK, Writes
  <2> QED  BY <1>0, <1>3, <2>1, <2>2, <2>5, ReadOnlyStep DEF Agreement, TypeOK
<1>6. ASSUME NEW S \in SUBSET Tasks, BatchInsert(r, u, c, S)  PROVE Agreement'
  <2>1. req' = [req EXCEPT ![r] =
          [pc |-> "publish", op |-> "batch", user |-> u, arg |-> c, mine |-> S,
           todo |-> S, seen |-> Nothing, reply |-> 0, body |-> "none"]]
    BY <1>6 DEF BatchInsert, Starts
  <2>2. /\ lock' = [x \in Tasks |-> IF x \in S THEN r ELSE lock[x]]
        /\ draft' = [x \in Tasks |-> IF x \in S THEN Owned(u, c, "pending") ELSE draft[x]]
        /\ UNCHANGED row
    BY <1>6 DEF BatchInsert
  <2>3. \A x \in S : row[x] = Absent /\ lock[x] = Nobody
    BY <1>6, FreshUnlocked DEF BatchInsert, Fresh
  <2>4. RowsKept  BY <2>2 DEF RowsKept
  <2>5. StageOK(r)'  BY <1>0, <2>1 DEF StageOK, TypeOK
  <2>6. r # Nobody  BY ConstantsAssumption
  <2>7. ASSUME NEW x \in S  PROVE DraftOK(x)'
    BY <1>0, <2>1, <2>2, <2>3, <2>6, <2>7 DEF DraftOK, TypeOK
  <2>8. ASSUME NEW x \in Tasks \ S, lock[x] \in {r, Nobody}  PROVE DraftOK(x)'
    BY <1>3, <2>2, <2>8 DEF IInv, DraftOK
  <2> QED  BY <1>0, <2>1, <2>2, <2>3, <2>4, <2>5, <2>7, <2>8, HandlerFrame
           DEF Agreement, TypeOK
<1>7. ASSUME NEW op, NEW S, NEW code, NEW shown, StartsAndEnds(r, op, u, S, code, shown),
             UNCHANGED db
      PROVE  Agreement'
  <2>1. /\ \A q \in Requests \ {r} : req'[q] = req[q]
        /\ req'[r].pc = "done"
    BY <1>0, <1>7 DEF StartsAndEnds, Unused, TypeOK
  <2>2. StageOK(r)'  BY <2>1 DEF StageOK
  <2> QED  BY <1>3, <1>7, <2>1, <2>2, ReadOnlyStep DEF Agreement
<1>8. CASE InsertFails(r, u, c, t) /\ ~UNCHANGED row
  <2>1. StartsAndEnds(r, "create", u, {t}, 500, "none")  BY <1>8 DEF InsertFails
  <2>2. /\ \A q \in Requests \ {r} : req'[q] = req[q]
        /\ req'[r].pc = "done"
    BY <1>0, <2>1 DEF StartsAndEnds, Unused, TypeOK
  <2>3. row' = [row EXCEPT ![t] = Owned(u, c, InitialStatus)] /\ row[t] = Absent
        /\ UNCHANGED <<lock, draft>>
    BY <1>8 DEF InsertFails, Fresh
  <2>4. lock[t] = Nobody /\ draft[t] = Absent  BY <1>8, FreshUnlocked DEF InsertFails
  <2>5. RowsKept  BY <1>0, <2>3 DEF RowsKept, TypeOK
  <2>6. StageOK(r)'  BY <2>2 DEF StageOK
  <2>7. ASSUME NEW x \in Tasks, lock[x] \in {r, Nobody}  PROVE DraftOK(x)'
    BY <1>3, <2>3, <2>7 DEF IInv, DraftOK
  <2> QED  BY <1>0, <1>3, <2>2, <2>3, <2>4, <2>5, <2>6, <2>7, HandlerFrame
           DEF Agreement, TypeOK
<1> QED
  BY <1>1, <1>4, <1>5, <1>6, <1>7, <1>8
     DEF Get, NotFound, BatchRejected, StartFails, InsertFails

LEMMA FailAgrees ==
  ASSUME IInv, NEW r \in Requests, Fail(r)
  PROVE  Agreement'
<1>0. TypeOK  BY DEF IInv
<1>1. CASE PublishFails(r) \/ StatementFails(r)
  <2>1. Rollback(r) /\ Responds(r, 500, "none", "done")
    BY <1>1 DEF PublishFails, StatementFails, Raises
  <2>2. req'[r].pc = "done" /\ \A q \in Requests \ {r} : req'[q] = req[q]
    BY <1>0, <2>1, RespondsChanges
  <2> QED  BY <2>1, <2>2, SessionEnds DEF Agreement
<1>2. CASE CommitFails(r) \/ Crash(r)
  <2>1. PICK next \in {"done", "crashed"} :
          /\ Commit(r) \/ Rollback(r)
          /\ req' = [req EXCEPT ![r] = [@ EXCEPT !.pc = next]]
    BY <1>2 DEF CommitFails, Crash
  <2> QED  BY <1>0, <2>1, SessionEnds, MovesOn DEF Agreement
<1>3. CASE ConfirmFails(r)
  <2>1. /\ req[r].pc = "confirm" /\ Confirmation(r) /\ UNCHANGED <<lock, draft>>
        /\ Responds(r, 500, "none", "done")
    BY <1>3 DEF ConfirmFails
  <2>2. StageOK(r)'  BY <1>0, <2>1, RespondsChanges DEF StageOK
  <2>3. ASSUME NEW t \in Tasks, lock[t] \in {r, Nobody}  PROVE DraftOK(t)'
    BY <2>1, <2>3, NoLock DEF DraftOK, IInv
  <2> QED
    BY <1>0, <2>1, <2>2, <2>3, ConfirmationKeeps, RespondsChanges, HandlerFrame DEF Agreement
<1>4. CASE CrashConfirmed(r)
  <2>1. /\ req[r].pc = "confirm" /\ Confirmation(r) /\ UNCHANGED <<lock, draft>>
        /\ req' = [req EXCEPT ![r] = [@ EXCEPT !.pc = "crashed"]]
    BY <1>4 DEF CrashConfirmed
  <2>2. req'[r].pc = "crashed" /\ \A q \in Requests \ {r} : req'[q] = req[q]
    BY <1>0, <2>1, MovesOn
  <2>3. StageOK(r)'  BY <2>2 DEF StageOK
  <2>4. ASSUME NEW t \in Tasks, lock[t] \in {r, Nobody}  PROVE DraftOK(t)'
    BY <2>1, <2>4, NoLock DEF DraftOK, IInv
  <2> QED
    BY <2>1, <2>2, <2>3, <2>4, ConfirmationKeeps, HandlerFrame DEF Agreement
<1> QED  BY <1>1, <1>2, <1>3, <1>4 DEF Fail

LEMMA ProceedAgrees ==
  ASSUME IInv, NEW r \in Requests, Proceed(r)
  PROVE  Agreement'
<1>0. TypeOK /\ r # Nobody  BY ConstantsAssumption DEF IInv
<1>1. CASE Publish(r)
  <2>1. PICK t \in req[r].todo, n \in {"publish", "confirm", "finish"} :
          /\ req' = [req EXCEPT ![r] = [@ EXCEPT !.todo = req[r].todo \ {t}, !.pc = n]]
          /\ n = "confirm" => req[r].op = "create"
          /\ n = "finish" => req[r].op # "create"
    BY <1>1 DEF Publish
  <2>2. req[r].pc = "publish" /\ UNCHANGED db  BY <1>1 DEF Publish
  <2>3. /\ \A q \in Requests \ {r} : req'[q] = req[q]
        /\ req'[r].pc = n /\ req'[r].op = req[r].op /\ req'[r].user = req[r].user
        /\ req'[r].arg = req[r].arg /\ req'[r].mine = req[r].mine
        /\ req'[r].seen = req[r].seen
    BY <1>0, <2>1 DEF TypeOK, Request
  <2>4. StageOK(r)'
    BY <2>1, <2>2, <2>3 DEF IInv, StageOK, db
  <2>5. ASSUME NEW x \in Tasks, lock[x] \in {r, Nobody}  PROVE DraftOK(x)'
    BY <1>0, <2>1, <2>2, <2>3, <2>5 DEF IInv, DraftOK, db
  <2>6. RowsKept  BY <2>2 DEF RowsKept, db
  <2> QED  BY <2>2, <2>3, <2>4, <2>5, <2>6, HandlerFrame DEF Agreement, db
<1>2. CASE Confirm(r)
  <2>1. /\ req[r].pc = "confirm" /\ Confirmation(r) /\ UNCHANGED <<lock, draft>>
        /\ Responds(r, 200, InitialStatus, "done")
    BY <1>2 DEF Confirm
  <2>2. StageOK(r)'  BY <1>0, <2>1, RespondsChanges DEF StageOK
  <2>3. ASSUME NEW t \in Tasks, lock[t] \in {r, Nobody}  PROVE DraftOK(t)'
    BY <2>1, <2>3, NoLock DEF DraftOK, IInv
  <2> QED
    BY <1>0, <2>1, <2>2, <2>3, ConfirmationKeeps, RespondsChanges, HandlerFrame DEF Agreement
<1>3. CASE BatchFinish(r)
  <2>1. /\ req[r].pc = "finish" /\ UNCHANGED db
        /\ Responds(r, 200, "pending", "commit")
    BY <1>3 DEF BatchFinish
  <2>2. req[r].op = "batch" /\ req[r].user \in Users /\ req[r].arg \in Contents
    BY <2>1 DEF IInv, StageOK
  <2>3. StageOK(r)'  BY <1>0, <2>1, <2>2, RespondsChanges DEF StageOK
  <2>4. ASSUME NEW x \in Tasks, lock[x] \in {r, Nobody}  PROVE DraftOK(x)'
    BY <1>0, <2>1, <2>2, <2>4, RespondsChanges DEF IInv, DraftOK, db
  <2>5. RowsKept  BY <2>1 DEF RowsKept, db
  <2> QED
    BY <1>0, <2>1, <2>3, <2>4, <2>5, RespondsChanges, HandlerFrame DEF Agreement, db
<1>4. CASE Write(r)
  <2>1. PICK t \in Tasks :
          /\ req[r].mine = {t} /\ row[t] # Absent /\ lock[t] = Nobody
          /\ lock' = [lock EXCEPT ![t] = r]
          /\ draft' = [draft EXCEPT ![t] = Written(r, row[t])]
    <3>1. PICK t \in Tasks : req[r].mine = {t} /\ row[t] # Absent
      BY <1>4 DEF Write, IInv, StageOK, Reading
    <3> QED  BY <1>4, <3>1 DEF Write
  <2>2. /\ req[r].pc = "write" /\ UNCHANGED row
        /\ req' = [req EXCEPT ![r] = [@ EXCEPT !.pc = "check"]]
    BY <1>4 DEF Write
  <2>3. /\ req[r].op \in {"update", "cancel"} /\ Reading(r) /\ Writes(r)
        /\ req[r].op = "update" => req[r].arg \in Contents
    BY <2>2 DEF IInv, StageOK
  <2>4. Reading(r)' /\ Writes(r)'
    BY <1>0, <2>2, <2>3, MovesOn DEF Reading, Writes
  <2>5. StageOK(r)'
    BY <1>0, <2>1, <2>2, <2>3, <2>4, MovesOn DEF StageOK, TypeOK
  <2>6. DraftOK(t)'
    <3>1. Written(r, row[t])' = Written(r, row[t])
      BY <1>0, <2>2, MovesOn DEF Written
    <3> QED
      BY <1>0, <2>1, <2>2, <2>3, <2>4, <3>1, MovesOn DEF DraftOK, TypeOK
  <2>7. ASSUME NEW x \in Tasks \ {t}, lock[x] \in {r, Nobody}  PROVE DraftOK(x)'
    <3>1. lock[x] = Nobody  BY <2>2, <2>7, NoLock
    <3> QED  BY <1>0, <2>1, <3>1 DEF IInv, DraftOK, TypeOK
  <2>8. RowsKept  BY <2>2 DEF RowsKept
  <2> QED
    BY <1>0, <2>1, <2>2, <2>5, <2>6, <2>7, <2>8, MovesOn, HandlerFrame
       DEF Agreement, TypeOK
<1>5. CASE Check(r)
  <2>1. CASE Raises(r, 403) \/ Raises(r, 400)
    <3>1. PICK code \in {403, 400} : Rollback(r) /\ Responds(r, code, "none", "done")
      BY <2>1 DEF Raises
    <3> QED  BY <1>0, <3>1, SessionEnds, RespondsChanges DEF Agreement
  <2>2. CASE /\ Allowed(r) /\ Pending(r) /\ Responds(r, 200, Reread(r), "commit")
             /\ UNCHANGED db
    <3>1. /\ req[r].pc = "check" /\ req[r].op \in {"update", "cancel"} /\ Reading(r)
          /\ req[r].op = "update" => req[r].arg \in Contents
          /\ Writes(r) => \A t \in req[r].mine : lock[t] = r
      BY <1>5 DEF Check, IInv, StageOK
    <3>2. PICK t \in Tasks : req[r].mine = {t}  BY <3>1 DEF Reading
    <3>3. lock[t] = r  BY <2>2, <3>1, <3>2 DEF Writes, Pending
    <3>4. Reread(r) = draft[t].status
      BY <3>2, <3>3, CurrentIs DEF Reread, Visible
    <3>5. Reading(r)'
      BY <1>0, <2>2, <3>1, RespondsChanges DEF Reading, db
    <3>6. StageOK(r)'
      BY <1>0, <2>2, <3>1, <3>2, <3>3, <3>4, <3>5, RespondsChanges
         DEF StageOK, Allowed, Pending, db
    <3>7. ASSUME NEW x \in Tasks, lock[x] \in {r, Nobody}  PROVE DraftOK(x)'
      <4>1. Writes(r)' = Writes(r) /\ Written(r, row[x])' = Written(r, row[x])
        BY <1>0, <2>2, RespondsChanges DEF Writes, Written, db
      <4> QED
        BY <1>0, <2>2, <3>1, <3>7, <4>1, RespondsChanges DEF IInv, DraftOK, db
    <3>8. RowsKept  BY <2>2 DEF RowsKept, db
    <3> QED
      BY <1>0, <2>2, <3>6, <3>7, <3>8, RespondsChanges, HandlerFrame DEF Agreement, db
  <2> QED  BY <1>5, <2>1, <2>2 DEF Check
<1>6. CASE FinalCommit(r)
  <2>1. Commit(r) /\ req' = [req EXCEPT ![r] = [@ EXCEPT !.pc = "done"]]
    BY <1>6 DEF FinalCommit
  <2> QED  BY <1>0, <2>1, SessionEnds, MovesOn DEF Agreement
<1> QED  BY <1>1, <1>2, <1>3, <1>4, <1>5, <1>6 DEF Proceed

LEMMA WorkerAgrees ==
  ASSUME IInv, NEW t \in Tasks, WorkerTake(t) \/ WorkerFinish(t)
  PROVE  Agreement'
<1>1. UNCHANGED <<lock, draft, req>>  BY DEF WorkerTake, WorkerFinish
<1>2. \/ UNCHANGED row
      \/ \E s \in {"running", "done", "failed"} :
           /\ row[t] # Absent /\ lock[t] = Nobody
           /\ row' = [row EXCEPT ![t].status = s]
  BY DEF WorkerTake, WorkerFinish
<1>3. RowsKept
  <2>1. CASE UNCHANGED row  BY <2>1 DEF RowsKept
  <2>2. ASSUME NEW s \in {"running", "done", "failed"}, row[t] # Absent,
               row' = [row EXCEPT ![t].status = s]
        PROVE  RowsKept
    <3>1. row[t] \in Row  BY <2>2, RowType DEF IInv
    <3> DEFINE new == [row[t] EXCEPT !.status = s]
    <3>2. new \in Row /\ new.owner = row[t].owner /\ new.status = s
      BY <3>1 DEF Row, Status
    <3>3. row' = [row EXCEPT ![t] = new]  BY <2>2
    <3> HIDE DEF new
    <3>4. new # Absent  BY <3>2, ConstantsAssumption
    <3> QED  BY <3>2, <3>3, <3>4 DEF RowsKept, IInv, TypeOK
  <2> QED  BY <1>2, <2>1, <2>2
<1>4. \A x \in Tasks : lock[x] # Nobody => row'[x] = row[x]
  BY <1>2 DEF IInv, TypeOK
<1> QED  BY <1>1, <1>3, <1>4, UnlockedWrite DEF Agreement

LEMMA InvariantStep ==
  ASSUME IInv, [Next]_vars
  PROVE  IInv'
<1>1. Agreement'
  <2>1. CASE UNCHANGED vars \/ BrokerRestart
    <3>1. UNCHANGED <<row, lock, draft, req>>  BY <2>1 DEF vars, BrokerRestart, db
    <3>2. RowsKept  BY <3>1 DEF RowsKept
    <3> QED  BY <3>1, <3>2, UnlockedWrite DEF Agreement
  <2> QED
    BY <2>1, ArriveAgrees, ProceedAgrees, FailAgrees, WorkerAgrees DEF Next, Quiet
<1> QED  BY <1>1, TypeStep DEF IInv, Agreement

LEMMA InvariantInit == Init => IInv
<1> SUFFICES ASSUME Init PROVE IInv  OBVIOUS
<1>1. Unused \in Request
  BY DEF Unused, Request, PCs, Replies, Seen
<1>2. TypeOK  BY <1>1 DEF Init, TypeOK
<1>3. Agreement  BY DEF Init, Agreement, StageOK, DraftOK, Unused
<1> QED  BY <1>2, <1>3 DEF IInv, Agreement

\* The inductive invariant holds throughout every behaviour of the service.
THEOREM Invariant == Spec => []IInv
BY InvariantInit, InvariantStep, PTL DEF Spec

\* Type correctness: no handler, worker or failure takes a row, a lock, a message
\* or a request out of its type.
THEOREM TypeCorrect == Spec => []TypeOK
<1>1. IInv => TypeOK  BY DEF IInv
<1> QED  BY <1>1, Invariant, PTL

\* No lock outlives its transaction: see LocksAreReleased.
THEOREM LocksReleased == Spec => []LocksAreReleased
<1>1. IInv => LocksAreReleased
  <2> SUFFICES ASSUME IInv, NEW t \in Tasks
               PROVE  /\ (lock[t] = Nobody) <=> (draft[t] = Absent)
                      /\ lock[t] # Nobody =>
                           /\ t \in req[lock[t]].mine
                           /\ \/ /\ req[lock[t]].op = "batch"
                                 /\ req[lock[t]].pc \in {"publish", "finish", "commit"}
                              \/ /\ req[lock[t]].op \in {"update", "cancel"}
                                 /\ req[lock[t]].pc \in {"check", "commit"}
    BY DEF LocksAreReleased
  <2>1. lock[t] # Nobody => draft[t] # Absent
    <3> SUFFICES ASSUME lock[t] # Nobody  PROVE draft[t] \in Row
      BY ConstantsAssumption
    <3>1. lock[t] \in Requests  BY DEF IInv, TypeOK
    <3>2. CASE req[lock[t]].op = "batch"
      <4>1. req[lock[t]].user \in Users /\ req[lock[t]].arg \in Contents
        BY <3>1, <3>2 DEF IInv, DraftOK, StageOK
      <4>2. Owned(req[lock[t]].user, req[lock[t]].arg, "pending") \in Row
        BY <4>1 DEF Owned, Row, Status
      <4> QED  BY <3>1, <3>2, <4>2 DEF IInv, DraftOK
    <3>3. CASE req[lock[t]].op \in {"update", "cancel"}
      <4>1. req[lock[t]].op = "update" => req[lock[t]].arg \in Contents
        BY <3>1, <3>3 DEF IInv, DraftOK, StageOK
      <4>2. row[t] # Absent /\ draft[t] = Written(lock[t], row[t])
        BY <3>1, <3>3 DEF IInv, DraftOK
      <4> QED  BY <3>1, <3>3, <4>1, <4>2, RowType, WrittenType DEF IInv
    <3> QED  BY <3>2, <3>3 DEF IInv, DraftOK
  <2> QED  BY <2>1 DEF IInv, DraftOK
<1> QED  BY <1>1, Invariant, PTL

-----------------------------------------------------------------------------
(* What reaches the table. *)

\* The request that commits an update or a cancellation, its task and its answer.
LEMMA CommittingWriter ==
  ASSUME IInv, NEW r \in Requests, req[r].pc = "commit", Commit(r)
  PROVE  \/ /\ req[r].op = "batch" /\ req[r].user \in Users /\ req[r].arg \in Contents
            /\ \A t \in Tasks : lock[t] = r => row[t] = Absent
            /\ row' = [t \in Tasks |-> IF lock[t] = r
                         THEN Owned(req[r].user, req[r].arg, "pending") ELSE row[t]]
         \/ \E t \in Tasks :
              /\ req[r].op \in {"update", "cancel"} /\ req[r].mine = {t}
              /\ lock[t] = r
              /\ req[r].op = "update" => req[r].arg \in Contents
              /\ row[t] \in Row /\ row[t] # Absent
              /\ row[t].status # "BEFORE RMQ"
              /\ req[r].seen.owner = row[t].owner /\ req[r].user = row[t].owner
              /\ req[r].seen.status = "pending" /\ req[r].reply = 200
              /\ req[r].body = Written(r, row[t]).status
              /\ row' = [row EXCEPT ![t] = Written(r, row[t])]
<1>0. r # Nobody /\ row \in [Tasks -> Row \cup {Absent}]
  BY ConstantsAssumption DEF IInv, TypeOK
<1>1. row' = [t \in Tasks |-> IF lock[t] = r THEN draft[t] ELSE row[t]]
  BY DEF Commit, Visible
<1>2. CASE req[r].op = "batch"
  <2>1. req[r].user \in Users /\ req[r].arg \in Contents
    BY <1>2 DEF IInv, StageOK
  <2>2. \A t \in Tasks : lock[t] = r =>
          row[t] = Absent /\ draft[t] = Owned(req[r].user, req[r].arg, "pending")
    BY <1>0, <1>2 DEF IInv, DraftOK
  <2> QED  BY <1>1, <1>2, <2>1, <2>2
<1>3. CASE req[r].op # "batch"
  <2>1. /\ req[r].op \in {"update", "cancel"} /\ Reading(r)
        /\ req[r].op = "update" => req[r].arg \in Contents
        /\ req[r].seen.owner = req[r].user /\ req[r].seen.status = "pending"
        /\ req[r].reply = 200
        /\ \A t \in req[r].mine : lock[t] = r /\ req[r].body = draft[t].status
    BY <1>3 DEF IInv, StageOK
  <2>2. PICK t \in Tasks :
          /\ req[r].mine = {t} /\ row[t] # Absent
          /\ req[r].seen.owner = row[t].owner
          /\ row[t].status # "BEFORE RMQ"
    BY <2>1 DEF Reading
  <2>3. \A x \in Tasks : lock[x] = r <=> x = t
    <3>1. ASSUME NEW x \in Tasks, lock[x] = r  PROVE x \in req[r].mine
      <4>1. DraftOK(x)  BY DEF IInv
      <4> QED  BY ONLY <1>0, <3>1, <4>1 DEF DraftOK
    <3>2. \A x \in req[r].mine : lock[x] = r  BY <2>1
    <3> QED  BY ONLY <2>2, <3>1, <3>2
  <2>4. draft[t] = Written(r, row[t])
    BY <1>0, <2>1, <2>3 DEF IInv, DraftOK
  <2>5. row[t] \in Row  BY <2>2, RowType DEF IInv
  <2>6. row' = [row EXCEPT ![t] = Written(r, row[t])]
    BY <1>0, <1>1, <2>3, <2>4
  <2>7. req[r].body = Written(r, row[t]).status
    <3>1. t \in req[r].mine  BY <2>2
    <3>2. req[r].body = draft[t].status  BY <2>1, <3>1
    <3> QED  BY <2>4, <3>2
  <2> QED  BY <2>1, <2>2, <2>3, <2>5, <2>6, <2>7
<1> QED  BY <1>2, <1>3

\* A step that does not commit changes no content, and cancels nothing.
LEMMA OthersOnlyMove ==
  ASSUME IInv, [Next]_vars,
         ~ \E r \in Requests : FinalCommit(r) \/ CommitFails(r),
         NEW t \in Tasks, row[t] # Absent
  PROVE  /\ row'[t].content = row[t].content
         /\ row'[t].status = "canceled" => row[t].status = "canceled"
<1>0. row \in [Tasks -> Row \cup {Absent}] /\ row[t] \in Row
  BY RowType DEF IInv, TypeOK
<1>1. CASE UNCHANGED row  BY <1>1
<1>2. ASSUME NEW r \in Requests, NEW u \in Users, NEW x \in Tasks, NEW c \in Contents,
             CreateInsert(r, u, c, x) \/ InsertFails(r, u, c, x)
      PROVE  row'[t] = row[t]
  BY <1>0, <1>2 DEF CreateInsert, InsertFails, Fresh
<1>3. ASSUME NEW r \in Requests, req[r].pc = "confirm", Confirmation(r)
      PROVE  /\ row'[t].content = row[t].content
             /\ row'[t].status = "canceled" => row[t].status = "canceled"
  <2>1. PICK x \in Tasks : row' = [row EXCEPT ![x].status = ConfirmedStatus(@)]
    <3>1. req[r].mine \subseteq Tasks  BY DEF IInv, TypeOK, Request
    <3> QED  BY <1>3, <3>1 DEF Confirmation
  <2> DEFINE new == [row[t] EXCEPT !.status = ConfirmedStatus(row[t].status)]
  <2>2. new.content = row[t].content /\ new.status = ConfirmedStatus(row[t].status)
    BY <1>0 DEF Row
  <2>3. row'[t] = row[t] \/ row'[t] = new  BY <1>0, <2>1
  <2>4. ConfirmedStatus(row[t].status) = "canceled" => row[t].status = "canceled"
    BY DEF ConfirmedStatus
  <2> HIDE DEF new
  <2> QED  BY <2>2, <2>3, <2>4
<1>4. ASSUME NEW x \in Tasks, NEW s \in {"running", "done", "failed"},
             row' = [row EXCEPT ![x].status = s]
      PROVE  /\ row'[t].content = row[t].content
             /\ row'[t].status = "canceled" => row[t].status = "canceled"
  <2> DEFINE new == [row[t] EXCEPT !.status = s]
  <2>1. new.content = row[t].content /\ new.status = s  BY <1>0 DEF Row
  <2>2. row'[t] = row[t] \/ row'[t] = new  BY <1>0, <1>4
  <2> QED  BY <2>1, <2>2
<1>5. ASSUME NEW r \in Requests, Arrive(r), ~UNCHANGED row
      PROVE  row'[t] = row[t]
  BY <1>2, <1>5
     DEF Arrive, Get, NotFound, Select, StartFails, BatchRejected, BatchInsert, db
<1>6. ASSUME NEW r \in Requests, Proceed(r), ~UNCHANGED row
      PROVE  req[r].pc = "confirm" /\ Confirmation(r)
  BY <1>6 DEF Proceed, Publish, Confirm, BatchFinish, Write, Check, FinalCommit,
              Raises, Rollback, db
<1>7. ASSUME NEW r \in Requests, Fail(r), ~UNCHANGED row
      PROVE  req[r].pc = "confirm" /\ Confirmation(r)
  BY <1>7 DEF Fail, PublishFails, StatementFails, ConfirmFails, Crash, CrashConfirmed,
              Raises, Rollback
<1>8. ASSUME NEW x \in Tasks, WorkerTake(x) \/ WorkerFinish(x), ~UNCHANGED row
      PROVE  \E s \in {"running", "done", "failed"} : row' = [row EXCEPT ![x].status = s]
  BY <1>8 DEF WorkerTake, WorkerFinish
<1> QED
  BY <1>1, <1>3, <1>4, <1>5, <1>6, <1>7, <1>8 DEF Next, BrokerRestart, Quiet, vars, db

\* A durable change of content is the commit of the update of the task's owner that
\* asked for it, and a cancellation that of the owner's DELETE: see OnlyOwnersWrite.
THEOREM OwnersOnly == Spec => OnlyOwnersWrite
<1> DEFINE Updates(r, t) ==
             CommitsOwners(r, t) /\ req[r].op = "update" /\ row'[t].content = req[r].arg
           Cancels(r, t) == CommitsOwners(r, t) /\ req[r].op = "cancel"
           Edited(t) == row'[t].content # row[t].content
           Ended(t) == row'[t].status = "canceled" /\ row[t].status # "canceled"
<1>1. ASSUME IInv, [Next]_vars, NEW t \in Tasks, row[t] # Absent, Edited(t) \/ Ended(t)
      PROVE  \E r \in Requests :
               (Edited(t) => Updates(r, t)) /\ (Ended(t) => Cancels(r, t))
  <2>1. PICK r \in Requests : FinalCommit(r) \/ CommitFails(r)
    BY <1>1, OthersOnlyMove
  <2>2. row \in [Tasks -> Row \cup {Absent}] /\ TypeOK  BY <1>1 DEF IInv, TypeOK
  <2>3. row'[t] # row[t]  BY <1>1
  <2>4. req[r].pc = "commit" /\ Commit(r)
    BY <2>1, <2>3 DEF FinalCommit, CommitFails, Rollback
  <2>5. req'[r].pc = "done"
    <3>1. req' = [req EXCEPT ![r] = [@ EXCEPT !.pc = "done"]]
      BY <2>1 DEF FinalCommit, CommitFails
    <3> QED  BY <2>2, <3>1, MovesOn
  <2>6. ~ /\ \A x \in Tasks : lock[x] = r => row[x] = Absent
          /\ row' = [x \in Tasks |-> IF lock[x] = r
                        THEN Owned(req[r].user, req[r].arg, "pending") ELSE row[x]]
    BY <1>1, <2>3
  <2>7. PICK x \in Tasks :
          /\ req[r].op \in {"update", "cancel"} /\ req[r].mine = {x} /\ lock[x] = r
          /\ req[r].user = row[x].owner
          /\ req[r].seen.status = "pending" /\ req[r].reply = 200
          /\ row' = [row EXCEPT ![x] = Written(r, row[x])]
    BY <1>1, <2>4, <2>6, CommittingWriter
  <2>8. x = t /\ row[t] \in Row  BY <1>1, <2>2, <2>3, <2>7, RowType
  <2>9. CommitsOwners(r, t)  BY <2>4, <2>5, <2>7, <2>8 DEF CommitsOwners
  <2>10. row'[t] = Written(r, row[t])  BY <2>2, <2>7, <2>8
  <2>11. Edited(t) => req[r].op = "update" /\ row'[t].content = req[r].arg
    BY <2>7, <2>8, <2>10 DEF Written, Row
  <2>12. Ended(t) => req[r].op = "cancel"
    BY <2>7, <2>8, <2>10 DEF Written, Row
  <2> QED  BY <2>9, <2>11, <2>12
<1>2. IInv /\ [Next]_vars =>
        [\A t \in Tasks : row[t] # Absent =>
           /\ Edited(t) => \E r \in Requests : Updates(r, t)
           /\ Ended(t) => \E r \in Requests : Cancels(r, t)]_vars
  BY <1>1
<1> QED  BY <1>2, Invariant, PTL DEF Spec, OnlyOwnersWrite

\* If the commits after the response do not fail, the row they leave is the one
\* the response showed: see AnswerIsCommitted.
THEOREM AnswersCommitted ==
  ASSUME "commit" \notin Faults
  PROVE  Spec => AnswerIsCommitted
<1>1. ASSUME IInv, [Next]_vars, NEW r \in Requests,
             req[r].pc = "commit", req'[r].pc = "done",
             req[r].op \in {"update", "cancel"}, NEW t \in req[r].mine
      PROVE  /\ row'[t].status = req[r].body
             /\ req[r].op = "update" => row'[t].content = req[r].arg
  <2>1. Commit(r)
    <3>1. req'[r] # req[r]  BY <1>1
    <3>2. ASSUME NEW q \in Requests, Arrive(q)  PROVE FALSE
      <4>1. req[q].pc = "idle" /\ \E n : req' = [req EXCEPT ![q] = n]
        <5>1. ASSUME NEW op, NEW u, NEW c, NEW S, NEW b, NEW n, Starts(q, op, u, c, S, b, n)
              PROVE  req[q].pc = "idle" /\ \E m : req' = [req EXCEPT ![q] = m]
          BY <5>1 DEF Starts
        <5>2. ASSUME NEW op, NEW u, NEW S, NEW code, NEW shown,
                     StartsAndEnds(q, op, u, S, code, shown)
              PROVE  req[q].pc = "idle" /\ \E m : req' = [req EXCEPT ![q] = m]
          BY <5>2 DEF StartsAndEnds
        <5> QED
          BY ONLY <3>2, <5>1, <5>2 DEF Arrive, CreateInsert, InsertFails, Get, NotFound,
             Select, StartFails, BatchRejected, BatchInsert
      <4>2. \A p \in Requests \ {q} : req'[p] = req[p]
        BY <1>1, <4>1 DEF IInv, TypeOK
      <4> QED  BY <1>1, <3>1, <4>1, <4>2
    <3>3. ASSUME NEW q \in Requests, Proceed(q), ~FinalCommit(q)  PROVE FALSE
      <4>1. \A p \in Requests \ {q} : req'[p] = req[p]
        BY <1>1, <3>3 DEF Proceed, Publish, Confirm, BatchFinish, Write, Check, Raises,
                          Responds, IInv, TypeOK
      <4>2. req[q].pc # "commit"
        BY <3>3 DEF Proceed, Publish, Confirm, BatchFinish, Write, Check
      <4> QED  BY <1>1, <3>1, <4>1, <4>2
    <3>4. ASSUME NEW q \in Requests, Fail(q)  PROVE FALSE
      <4>1. ~CommitFails(q) /\ ~ConfirmFails(q)  BY DEF CommitFails, ConfirmFails
      <4>2. CASE Crash(q) \/ CrashConfirmed(q)
        <5>1. req' = [req EXCEPT ![q] = [@ EXCEPT !.pc = "crashed"]]
          BY <4>2 DEF Crash, CrashConfirmed
        <5> QED  BY <1>1, <3>1, <5>1, MovesOn DEF IInv
      <4>3. CASE PublishFails(q) \/ StatementFails(q)
        <5>1. \A p \in Requests \ {q} : req'[p] = req[p]
          BY <1>1, <4>3 DEF PublishFails, StatementFails, Raises, Responds, IInv, TypeOK
        <5>2. req[q].pc # "commit"  BY <4>3 DEF PublishFails, StatementFails
        <5> QED  BY <1>1, <3>1, <5>1, <5>2
      <4> QED  BY <3>4, <4>1, <4>2, <4>3 DEF Fail
    <3>5. ASSUME NEW q \in Requests, FinalCommit(q)  PROVE q = r
      <4>1. req' = [req EXCEPT ![q] = [@ EXCEPT !.pc = "done"]]
        BY <3>5 DEF FinalCommit
      <4> QED  BY <1>1, <3>1, <4>1, MovesOn DEF IInv
    <3>6. ~UNCHANGED req  BY <3>1
    <3> QED
      BY <1>1, <3>2, <3>3, <3>4, <3>5, <3>6
         DEF Next, Quiet, vars, BrokerRestart, WorkerTake, WorkerFinish, FinalCommit
  <2>2. PICK x \in Tasks :
          /\ req[r].mine = {x}
          /\ row[x] \in Row
          /\ req[r].body = Written(r, row[x]).status
          /\ row' = [row EXCEPT ![x] = Written(r, row[x])]
    BY <1>1, <2>1, CommittingWriter
  <2>3. row'[t] = Written(r, row[t]) /\ req[r].body = Written(r, row[t]).status
        /\ row[t] \in Row
    BY <1>1, <2>2 DEF IInv, TypeOK
  <2>4. req[r].op = "update" => Written(r, row[t]).content = req[r].arg
    BY <2>3 DEF Written, Row
  <2> QED  BY <2>3, <2>4
<1>2. IInv /\ [Next]_vars =>
        [\A r \in Requests :
           /\ req[r].pc = "commit" /\ req'[r].pc = "done"
           /\ req[r].op \in {"update", "cancel"}
           => \A t \in req[r].mine :
                /\ row'[t].status = req[r].body
                /\ req[r].op = "update" => row'[t].content = req[r].arg]_vars
  BY <1>1
<1> QED  BY <1>2, Invariant, PTL DEF Spec, AnswerIsCommitted

-----------------------------------------------------------------------------
(* The table implements the ledger: every step is a step of TaskLedger or    *)
(* leaves the table alone.                                                    *)

LEMMA ArriveRefines ==
  ASSUME IInv, NEW r \in Requests, Arrive(r)
  PROVE  UNCHANGED row \/ \E t \in Tasks : Ledger!Insert({t}, "BEFORE RMQ")
<1>1. ASSUME NEW u \in Users, NEW t \in Tasks, NEW c \in Contents,
             CreateInsert(r, u, c, t) \/ InsertFails(r, u, c, t), ~UNCHANGED row
      PROVE  Ledger!Insert({t}, "BEFORE RMQ")
  <2>1. row[t] = Absent /\ row' = [row EXCEPT ![t] = Owned(u, c, "BEFORE RMQ")]
    BY <1>1 DEF CreateInsert, InsertFails, Fresh, InitialStatus
  <2>2. row' = [x \in Tasks |-> IF x \in {t}
                  THEN [owner |-> u, content |-> c, status |-> "BEFORE RMQ"] ELSE row[x]]
    BY <2>1 DEF Owned, IInv, TypeOK
  <2> QED  BY <2>1, <2>2 DEF Ledger!Insert
<1>2. \/ UNCHANGED row
      \/ \E u \in Users, t \in Tasks, c \in Contents :
           CreateInsert(r, u, c, t) \/ InsertFails(r, u, c, t)
  BY DEF Arrive, Get, NotFound, Select, StartFails, BatchRejected, BatchInsert, db
<1> QED  BY <1>1, <1>2

\* A commit after the response inserts a batch, edits a row or cancels one.
LEMMA CommitRefines ==
  ASSUME IInv, NEW r \in Requests, req[r].pc = "commit", Commit(r)
  PROVE  \/ UNCHANGED row
         \/ \E S \in SUBSET Tasks : Ledger!Insert(S, "pending")
         \/ \E t \in Tasks :
              \/ Ledger!Moves(t, {"pending", "running", "done", "failed"}, {"canceled"})
              \/ Ledger!Edit(t)
<1>1. CASE /\ req[r].user \in Users /\ req[r].arg \in Contents
           /\ \A t \in Tasks : lock[t] = r => row[t] = Absent
           /\ row' = [t \in Tasks |-> IF lock[t] = r
                        THEN Owned(req[r].user, req[r].arg, "pending") ELSE row[t]]
  <2> DEFINE S == {t \in Tasks : lock[t] = r}
  <2>1. row' = [t \in Tasks |-> IF t \in S
                  THEN [owner |-> req[r].user, content |-> req[r].arg, status |-> "pending"]
                  ELSE row[t]]
    BY <1>1 DEF Owned
  <2>2. \A t \in S : row[t] = Absent  BY <1>1
  <2>3. Ledger!Insert(S, "pending")  BY <1>1, <2>1, <2>2 DEF Ledger!Insert
  <2> QED  BY <2>3
<1>2. ASSUME NEW t \in Tasks, req[r].op \in {"update", "cancel"},
             req[r].op = "update" => req[r].arg \in Contents,
             row[t] \in Row, row[t] # Absent, row[t].status # "BEFORE RMQ",
             row' = [row EXCEPT ![t] = Written(r, row[t])]
      PROVE  \/ UNCHANGED row
             \/ Ledger!Moves(t, {"pending", "running", "done", "failed"}, {"canceled"})
             \/ Ledger!Edit(t)
  <2>1. CASE req[r].op = "update"
    <3>1. row' = [row EXCEPT ![t].content = req[r].arg]
      BY <1>2, <2>1 DEF Written
    <3> QED  BY <1>2, <2>1, <3>1 DEF Ledger!Edit
  <2>2. CASE req[r].op = "cancel" /\ row[t].status # "canceled"
    <3>1. row' = [row EXCEPT ![t].status = "canceled"]
      BY <1>2, <2>2 DEF Written
    <3>2. row[t].status \in {"pending", "running", "done", "failed"}
      BY <1>2, <2>2 DEF Row, Status
    <3> QED  BY <1>2, <3>1, <3>2 DEF Ledger!Moves
  <2>3. CASE req[r].op = "cancel" /\ row[t].status = "canceled"
    <3>1. Written(r, row[t]) = row[t]  BY <1>2, <2>3 DEF Written, Row
    <3> QED  BY <1>2, <3>1 DEF IInv, TypeOK
  <2> QED  BY <1>2, <2>1, <2>2, <2>3
<1> QED  BY <1>1, <1>2, CommittingWriter

LEMMA ConfirmationRefines ==
  ASSUME IInv, NEW r \in Requests, req[r].pc = "confirm", Confirmation(r)
  PROVE  UNCHANGED row \/ \E t \in Tasks : Ledger!Moves(t, {"BEFORE RMQ"}, {"pending"})
<1>1. PICK t \in Tasks : /\ row' = [row EXCEPT ![t].status = ConfirmedStatus(@)]
                         /\ row[t] # Absent /\ row[t] \in Row
  <2>1. PICK x \in Tasks : req[r].mine = {x} /\ row[x] # Absent
    BY DEF IInv, StageOK
  <2>2. row[x] \in Row  BY <2>1, RowType DEF IInv
  <2> QED  BY <2>1, <2>2 DEF Confirmation
<1>2. CASE row[t].status = "BEFORE RMQ"
  <2>1. row' = [row EXCEPT ![t].status = "pending"]
    BY <1>1, <1>2 DEF ConfirmedStatus
  <2> QED  BY <1>1, <1>2, <2>1 DEF Ledger!Moves
<1>3. CASE row[t].status # "BEFORE RMQ"
  <2>1. [row[t] EXCEPT !.status = ConfirmedStatus(row[t].status)] = row[t]
    BY <1>1, <1>3 DEF ConfirmedStatus, Row
  <2> QED  BY <1>1, <2>1 DEF IInv, TypeOK
<1> QED  BY <1>2, <1>3

LEMMA WorkerRefines ==
  ASSUME NEW t \in Tasks, WorkerTake(t) \/ WorkerFinish(t)
  PROVE  \/ UNCHANGED row
         \/ Ledger!Moves(t, {"BEFORE RMQ", "pending"}, {"running"})
         \/ Ledger!Moves(t, {"running"}, {"done", "failed"})
BY DEF WorkerTake, WorkerFinish, Runnable, Ledger!Moves

\* Row by row, the table only ever does what the ledger allows: see ImplementsLedger.
THEOREM LedgerImplemented == Spec => ImplementsLedger
<1>1. Init => Ledger!LedgerInit  BY DEF Init, Ledger!LedgerInit
<1>2. ASSUME IInv, [Next]_vars
      PROVE  UNCHANGED row \/ Ledger!LedgerNext
  <2>1. ASSUME NEW r \in Requests, Arrive(r)  PROVE UNCHANGED row \/ Ledger!LedgerNext
    BY <1>2, <2>1, ArriveRefines DEF Ledger!LedgerNext
  <2>2. ASSUME NEW r \in Requests, req[r].pc = "commit", Commit(r)
        PROVE  UNCHANGED row \/ Ledger!LedgerNext
    BY <1>2, <2>2, CommitRefines DEF Ledger!LedgerNext
  <2>3. ASSUME NEW r \in Requests, req[r].pc = "confirm", Confirmation(r)
        PROVE  UNCHANGED row \/ Ledger!LedgerNext
    BY <1>2, <2>3, ConfirmationRefines DEF Ledger!LedgerNext
  <2>4. ASSUME NEW t \in Tasks, WorkerTake(t) \/ WorkerFinish(t)
        PROVE  UNCHANGED row \/ Ledger!LedgerNext
    BY <2>4, WorkerRefines DEF Ledger!LedgerNext
  <2>5. ASSUME NEW r \in Requests, Proceed(r) \/ Fail(r)
        PROVE  UNCHANGED row \/ Ledger!LedgerNext
    BY <2>2, <2>3, <2>5
       DEF Proceed, Publish, Confirm, BatchFinish, Write, Check, FinalCommit, Fail,
           PublishFails, StatementFails, CommitFails, ConfirmFails, Crash,
           CrashConfirmed, Raises, Rollback, db
  <2> QED
    BY <1>2, <2>1, <2>4, <2>5 DEF Next, BrokerRestart, Quiet, vars, db
<1>3. IInv /\ [Next]_vars => [Ledger!LedgerNext]_row  BY <1>2
<1> QED
  BY <1>1, <1>3, Invariant, PTL DEF Spec, ImplementsLedger, Ledger!LedgerSpec

=============================================================================
