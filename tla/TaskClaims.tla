----------------------------- MODULE TaskClaims -----------------------------
(***************************************************************************)
(* What the documentation says of the task half of the API and the code    *)
(* does not keep.  Each definition quotes the sentence it formalises; each  *)
(* has a configuration under which TLC shows a run that contradicts it.     *)
(***************************************************************************)
EXTENDS TaskProperties

\* api/v1/requests.py:143: "Only tasks with 'pending' status can be canceled."
\* The UPDATE of cancel_task does not repeat the condition its SELECT checked, and
\* a worker can start, or even finish, the task between the two statements.
OnlyPendingIsCanceled ==
  [][\A t \in Tasks :
       /\ row[t] # Absent
       /\ row'[t].status = "canceled" /\ row[t].status # "canceled"
       => row[t].status = "pending"]_vars

\* api/v1/requests.py:237: "Accepts a JSON array of task objects and returns the
\* created tasks."  create_tasks_batch binds the HttpUrl object itself, which the
\* driver refuses as a TEXT parameter, so no batch is ever accepted.
BatchIsAccepted ==
  \A r \in Requests :
    req[r].op = "batch" /\ req[r].mine # {} => req[r].reply \in {0, 200}

\* README.md:56: "User creates HTTP request task → saved to PostgreSQL + published
\* to RabbitMQ".  If publish_task raises, the row that is already committed stays
\* in status "BEFORE RMQ", and nothing ever publishes or removes it.
SavedIsPublished ==
  \A t \in Tasks : row[t] # Absent ~> t \in sent

=============================================================================
