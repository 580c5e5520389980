----------------------------- MODULE TaskLedger -----------------------------
(***************************************************************************)
(* What the `tasks` table promises to whoever reads it, sessions, brokers  *)
(* and workers put aside: a row is never deleted and never changes owner,  *)
(* its status only moves along the arrows below, `canceled` is for good,   *)
(* and one step changes one row, except for the insertion of a batch.      *)
(*                                                                         *)
(*   BEFORE RMQ --> pending --> running --> done | failed                  *)
(*        |_______________________^                                        *)
(*   pending | running | done | failed --> canceled                        *)
(*                                                                         *)
(* That a running or finished task can still be canceled is what the code  *)
(* promises, not what the API's documentation does: see TaskClaims.        *)
(***************************************************************************)
CONSTANTS Tasks, Users, Contents, Absent

VARIABLE tasks

LedgerStatus == {"BEFORE RMQ", "pending", "running", "done", "failed", "canceled"}

LedgerInit == tasks = [t \in Tasks |-> Absent]

\* New rows, all of one owner and with the status s.
Insert(S, s) ==
  /\ \A t \in S : tasks[t] = Absent
  /\ \E u \in Users, c \in Contents :
       tasks' = [t \in Tasks |->
         IF t \in S THEN [owner |-> u, content |-> c, status |-> s] ELSE tasks[t]]

Moves(t, from, to) ==
  /\ tasks[t] # Absent
  /\ tasks[t].status \in from
  /\ \E s \in to : tasks' = [tasks EXCEPT ![t].status = s]

Edit(t) ==
  /\ tasks[t] # Absent
  /\ \E c \in Contents : tasks' = [tasks EXCEPT ![t].content = c]

LedgerNext ==
  \/ \E t \in Tasks : Insert({t}, "BEFORE RMQ")
  \/ \E S \in SUBSET Tasks : Insert(S, "pending")
  \/ \E t \in Tasks :
       \/ Moves(t, {"BEFORE RMQ"}, {"pending"})
       \/ Moves(t, {"BEFORE RMQ", "pending"}, {"running"})
       \/ Moves(t, {"running"}, {"done", "failed"})
       \/ Moves(t, {"pending", "running", "done", "failed"}, {"canceled"})
       \/ Edit(t)

LedgerSpec == LedgerInit /\ [][LedgerNext]_tasks

=============================================================================
