------------------------------- MODULE Listing -------------------------------
(***************************************************************************)
(* GET /v1/requests/: a client walks through its list page by page, each   *)
(* page a query of its own, while requests and workers insert and update   *)
(* its rows.                                                               *)
(*                                                                         *)
(* The list is ordered by COALESCE(updated_at, created_at).  Both columns  *)
(* get NOW(), which in PostgreSQL is the START of the transaction, so rows *)
(* do not become visible in the order of their stamps.  Rows with equal    *)
(* stamps come in any order, a different one at every query.               *)
(***************************************************************************)
EXTENDS Naturals, FiniteSets, Sequences, SequencesExt

CONSTANTS
  Tasks,    \* the identifiers of one user's tasks
  Writers,  \* transactions that insert or update one of them
  Limit,    \* the query parameter `limit`
  MaxTime   \* bound on the clock

ASSUME ListingAssumption == Limit \in Nat \ {0} /\ MaxTime \in Nat \ {0}

VARIABLES
  clock,    \* PostgreSQL's
  row,      \* the committed table
  since,    \* when each writer's transaction began; 0: not yet, or over
  pages,    \* what the client has received
  skip,     \* the query parameter `skip` of its next page
  walking,  \* does it still ask?
  stored,   \* history: the tasks there were before the first page
  touched,  \* history: tasks inserted or updated since the first page
  tied,     \* history: tasks that shared a stamp when a page was cut
  older     \* history: tasks that an update since then has given an earlier stamp

client  == <<pages, skip, walking>>
history == <<stored, touched, tied, older>>
vars    == <<clock, row, since, client, history>>

Time   == 1 .. MaxTime
Null   == 0
Absent == [created |-> Null, updated |-> Null]

Stored == {t \in Tasks : row[t] # Absent}

TypeOK ==
  /\ clock   \in Time
  /\ row     \in [Tasks -> [created : Time, updated : Time \cup {Null}] \cup {Absent}]
  /\ since   \in [Writers -> Time \cup {Null}]
  /\ pages   \in Seq(Tasks) /\ Len(pages) <= skip
  /\ skip    \in Nat
  /\ walking \in BOOLEAN
  /\ stored \cup touched \cup tied \cup older \subseteq Stored

Init ==
  /\ clock   = 1
  /\ row     = [t \in Tasks |-> Absent]
  /\ since   = [w \in Writers |-> Null]
  /\ pages = <<>> /\ skip = 0 /\ walking = TRUE
  /\ stored = {} /\ touched = {} /\ tied = {} /\ older = {}

-----------------------------------------------------------------------------
(* The query of get_user_tasks *)

Stamp(t) == IF row[t].updated = Null THEN row[t].created ELSE row[t].updated

\* Mutant: ascending order.
OldestFirst(order) ==
  \A i, j \in DOMAIN order : i < j => Stamp(order[i]) <= Stamp(order[j])

NewestFirst(order) ==
  \A i, j \in DOMAIN order : i < j => Stamp(order[i]) >= Stamp(order[j])

Rows(order, first, last) ==
  SubSeq(order, first, IF last <= Len(order) THEN last ELSE Len(order))

\* Mutant: OFFSET is taken for the number of the row to begin with.
FromSkip(order) == Rows(order, IF skip = 0 THEN 1 ELSE skip, skip + Limit)

\* Mutant: one row too many.
LongPage(order) == Rows(order, skip + 1, skip + Limit + 1)

Page(order) == Rows(order, skip + 1, skip + Limit)

Tied == {t \in Stored : \E u \in Stored \ {t} : Stamp(u) = Stamp(t)}

\* One request of the client, which goes on until a page is not full.
List ==
  /\ walking
  /\ \E order \in SetToSeqs(Stored) :
       /\ NewestFirst(order)
       /\ pages' = pages \o Page(order)
       /\ walking' = (Len(Page(order)) >= Limit)
  /\ skip' = skip + Limit
  /\ stored' = IF skip = 0 THEN Stored ELSE stored
  /\ tied' = tied \cup Tied
  /\ UNCHANGED <<clock, row, since, touched, older>>

-----------------------------------------------------------------------------
(* Transactions that write the table *)

Begin(w) ==
  /\ since[w] = Null
  /\ since' = [since EXCEPT ![w] = clock]
  /\ UNCHANGED <<clock, row, client, history>>

\* The commit: what the transaction wrote shows, under the time it began.
Shows(w, t, new) ==
  /\ row' = [row EXCEPT ![t] = new]
  /\ since' = [since EXCEPT ![w] = Null]
  /\ touched' = IF skip > 0 THEN touched \cup {t} ELSE {}
  /\ UNCHANGED <<clock, client, stored, tied>>

Insert(w, t) ==
  /\ since[w] # Null
  /\ t \notin Stored
  /\ Shows(w, t, [created |-> since[w], updated |-> Null])
  /\ UNCHANGED older

Update(w, t) ==
  /\ since[w] # Null
  /\ t \in Stored
  /\ Shows(w, t, [row[t] EXCEPT !.updated = since[w]])
  /\ older' = IF skip > 0 /\ since[w] < Stamp(t) THEN older \cup {t} ELSE older

Tick ==
  /\ clock < MaxTime
  /\ clock' = clock + 1
  /\ UNCHANGED <<row, since, client, history>>

Next ==
  \/ List
  \/ Tick
  \/ \E w \in Writers : Begin(w) \/ \E t \in Tasks : Insert(w, t) \/ Update(w, t)

Spec == Init /\ [][Next]_vars

-----------------------------------------------------------------------------
(* Properties *)

Times(t) == Cardinality({i \in DOMAIN pages : pages[i] = t})

\* A finished walk has shown every task that was there before it and that nobody
\* wrote meanwhile, although other rows moved between its pages.  A row can slip
\* through in two cases only: it shared its stamp with another, or an update took some
\* row backwards in the list, having begun before the update it overwrote.
QuietTasksAreListed ==
  ~walking => \A t \in stored \ (touched \cup tied) : older # {} \/ Times(t) > 0

\* A task is shown more than once only because of others written since the first page,
\* at most once more for each of them: a page never repeats what an earlier one had
\* if nothing changed in between.  Not so for a task that an update has moved back: late
\* commits can take it along with the walk, and it alone was written.
RepeatsAreWrites ==
  \A t \in Tasks \ (tied \cup older) : Times(t) <= 1 + Cardinality(touched \ {t})

=============================================================================
