------------------------------- MODULE Broker -------------------------------
(***************************************************************************)
(* The RabbitMQ side of services/rabbitmq.py: the exchanges, queues and    *)
(* bindings that each API process declares before it serves               *)
(* (application.py), the messages it publishes, and their way through the  *)
(* retry queues.                                                           *)
(*                                                                         *)
(* The consumers of tasks.queue are not in the repository.  Here they do   *)
(* what ADR-005 asks of them: a failed attempt is published to the retry   *)
(* queue of its number and the message acknowledged afterwards.            *)
(***************************************************************************)
EXTENDS Naturals, Sequences, FiniteSets

CONSTANTS
  Processes,    \* API processes (granian --workers)
  Workers,      \* consumers of tasks.queue
  Messages,     \* tasks that can be published
  Levels,       \* the number of RETRY_QUEUES
  MaxAttempts,  \* the header x-attempts
  Idle,         \* "no job"
  Faults,       \* the failures admitted, a subset of FaultKinds
  MaxFaults     \* bound on their number

\* process: an API process stops, in its start-up or later, and is started again;
\* worker: a consumer dies; broker: RabbitMQ restarts; reject: a consumer rejects a
\* message (basic.reject, no requeue) instead of publishing it to a retry queue.
FaultKinds == {"process", "worker", "broker", "reject"}

\* 0 is tasks.queue, n > 0 the n-th of RETRY_QUEUES.
Queues == 0 .. Levels

Copy == [msg : Messages, done : 0 .. MaxAttempts - 1, age : Nat]
Job  == [msg : Messages, done : 0 .. MaxAttempts - 1, sent : BOOLEAN]

ASSUME BrokerAssumption ==
  /\ Levels \in Nat \ {0}
  /\ MaxAttempts \in Nat \ {0}
  /\ Idle \notin Job
  /\ Faults \subseteq FaultKinds
  /\ MaxFaults \in Nat

VARIABLES
  declared,     \* what the broker has: exchanges, queues, bindings
  setup,        \* how many declarations each process has made since its start
  waiting,      \* the messages in each queue; age: seconds since they came in
  job,          \* the delivery each worker has not acknowledged
  published,    \* history: messages published
  settled,      \* history: messages whose task succeeded or used up its attempts
  rejected,     \* history: messages rejected
  redelivered,  \* history: messages whose worker died
  lost,         \* history: messages that were in flight when the broker restarted
  faults        \* how many failures have happened

history == <<published, settled, rejected, redelivered, lost>>
vars    == <<declared, setup, waiting, job, history, faults>>

-----------------------------------------------------------------------------
(* setup_rabbitmq_with_retries *)

\* Every queue is bound under its own name.
Key(q) == <<"name", q>>

\* The dead-letter routing key of tasks.queue: "retry.1s", no queue's name.
RejectKey == <<"retry", 1>>

\* Mutant: the retry queues dead-letter each to the next, as ADR-005 draws them.
ChainKey(q) == Key((q + 1) % (Levels + 1))

\* Mutant: the retry queues dead-letter with the key of tasks.queue.
UnboundKey(q) == RejectKey

\* Mutant: the retry queues dead-letter to themselves.
OwnKey(q) == Key(q)

\* The dead-letter routing key of a retry queue.
ExpiryKey(q) == Key(0)

Ttl(q) == 2 ^ (q - 1)

MainDeclarations ==
  << <<"exchange", "tasks.exchange">>, <<"exchange", "tasks.dlx">>, <<"queue", 0>>,
     <<"bind", 0, "tasks.exchange", Key(0)>>, <<"bind", 0, "tasks.dlx", Key(0)>> >>

\* Mutant: the loop repeats the first binding of tasks.queue.
BoundToMain(n) == << <<"queue", n>>, <<"bind", n, "tasks.exchange", Key(0)>> >>

RetryDeclarations(n) == << <<"queue", n>>, <<"bind", n, "tasks.dlx", Key(n)>> >>

\* The declarations in their order: each is awaited before the next.
Steps == 5 + 2 * Levels

Declaration(i) ==
  IF i <= 5 THEN MainDeclarations[i]
            ELSE RetryDeclarations((i - 4) \div 2)[((i - 4) % 2) + 1]

\* pre_check is over, and the server accepts requests.
Serving(p) == setup[p] = Steps

\* The queues a message with this key gets into.
Route(x, k) ==
  {q \in Queues : {<<"exchange", x>>, <<"queue", q>>, <<"bind", q, x, k>>} \subseteq declared}

\* A message no binding matches is dropped without a word.
Delivered(before, x, k, c) ==
  [q \in Queues |-> IF q \in Route(x, k) THEN Append(before[q], c) ELSE before[q]]

Entering(m, n) == [msg |-> m, done |-> n, age |-> 0]

TypeOK ==
  /\ declared \subseteq {Declaration(i) : i \in 1 .. Steps}
  /\ setup    \in [Processes -> 0 .. Steps]
  /\ waiting  \in [Queues -> Seq(Copy)]
  /\ job      \in [Workers -> Job \cup {Idle}]
  /\ settled \cup rejected \cup redelivered \cup lost \subseteq published
  /\ published \subseteq Messages
  /\ faults   \in 0 .. MaxFaults

Init ==
  /\ declared = {}
  /\ setup    = [p \in Processes |-> 0]
  /\ waiting  = [q \in Queues |-> <<>>]
  /\ job      = [w \in Workers |-> Idle]
  /\ published = {} /\ settled = {} /\ rejected = {} /\ redelivered = {} /\ lost = {}
  /\ faults   = 0

Declare(p) ==
  /\ ~Serving(p)
  /\ declared' = declared \cup {Declaration(setup[p] + 1)}
  /\ setup' = [setup EXCEPT ![p] = @ + 1]
  /\ UNCHANGED <<waiting, job, history, faults>>

\* Mutant: the values of the two headers are swapped.
AttemptsUsedUp(m) == Entering(m, MaxAttempts)

\* x-attempts-done starts at 0.
Untried(m) == Entering(m, 0)

\* publish_task, which declares only the exchange again.
Publish(p, m) ==
  /\ Serving(p) /\ m \notin published
  /\ declared' = declared \cup {<<"exchange", "tasks.exchange">>}
  /\ published' = published \cup {m}
  /\ waiting' = Delivered(waiting, "tasks.exchange", Key(0), Untried(m))
  /\ UNCHANGED <<setup, job, settled, rejected, redelivered, lost, faults>>

-----------------------------------------------------------------------------
(* The broker and its clock *)

Expired(q) == q > 0 /\ waiting[q] # <<>> /\ Head(waiting[q]).age >= Ttl(q)

\* Only the head of a queue expires; it goes where the queue's arguments say.
Expire(q) ==
  /\ Expired(q)
  /\ LET c == Head(waiting[q])
     IN waiting' = Delivered([waiting EXCEPT ![q] = Tail(@)], "tasks.dlx", ExpiryKey(q),
                             Entering(c.msg, c.done))
  /\ UNCHANGED <<declared, setup, job, history, faults>>

\* A second goes by, while something waits for its end and nothing is due.
Tick ==
  /\ \E q \in Queues \ {0} : waiting[q] # <<>>
  /\ \A q \in Queues : ~Expired(q)
  /\ waiting' = [q \in Queues |->
       IF q = 0 THEN waiting[q]
       ELSE [i \in DOMAIN waiting[q] |-> [waiting[q][i] EXCEPT !.age = @ + 1]]]
  /\ UNCHANGED <<declared, setup, job, history, faults>>

-----------------------------------------------------------------------------
(* The workers *)

Take(w) ==
  /\ job[w] = Idle
  /\ waiting[0] # <<>>
  /\ LET c == Head(waiting[0])
     IN job' = [job EXCEPT ![w] = [msg |-> c.msg, done |-> c.done, sent |-> FALSE]]
  /\ waiting' = [waiting EXCEPT ![0] = Tail(@)]
  /\ UNCHANGED <<declared, setup, history, faults>>

Working(w) == job[w] # Idle /\ ~job[w].sent

\* The attempt succeeds, or was the last one.
Settle(w) ==
  /\ Working(w)
  /\ settled' = settled \cup {job[w].msg}
  /\ job' = [job EXCEPT ![w] = Idle]
  /\ UNCHANGED <<declared, setup, waiting, published, rejected, redelivered, lost, faults>>

\* The attempt fails; from the last level on the delay no longer grows.
Retry(w) ==
  /\ Working(w) /\ job[w].done + 1 < MaxAttempts
  /\ LET n == job[w].done + 1
     IN waiting' = Delivered(waiting, "tasks.dlx", Key(IF n <= Levels THEN n ELSE Levels),
                             Entering(job[w].msg, n))
  /\ job' = [job EXCEPT ![w].sent = TRUE]
  /\ UNCHANGED <<declared, setup, history, faults>>

Acknowledge(w) ==
  /\ job[w] # Idle /\ job[w].sent
  /\ job' = [job EXCEPT ![w] = Idle]
  /\ UNCHANGED <<declared, setup, waiting, history, faults>>

-----------------------------------------------------------------------------
(* Failures *)

Fails(kind) ==
  /\ kind \in Faults
  /\ faults < MaxFaults
  /\ faults' = faults + 1

Stop(p) ==
  /\ Fails("process")
  /\ setup[p] > 0
  /\ setup' = [setup EXCEPT ![p] = 0]
  /\ UNCHANGED <<declared, waiting, job, history>>

\* What a worker has not acknowledged comes first again, whether or not the worker
\* had already published the next attempt.
WorkerDies(w) ==
  /\ Fails("worker")
  /\ job[w] # Idle
  /\ waiting' = [waiting EXCEPT ![0] = <<Entering(job[w].msg, job[w].done)>> \o @]
  /\ redelivered' = redelivered \cup {job[w].msg}
  /\ job' = [job EXCEPT ![w] = Idle]
  /\ UNCHANGED <<declared, setup, published, settled, rejected, lost>>

\* The message is dead-lettered by tasks.queue.
Reject(w) ==
  /\ Fails("reject")
  /\ Working(w)
  /\ rejected' = rejected \cup {job[w].msg}
  /\ waiting' = Delivered(waiting, "tasks.dlx", RejectKey, Entering(job[w].msg, job[w].done))
  /\ job' = [job EXCEPT ![w] = Idle]
  /\ UNCHANGED <<declared, setup, published, settled, redelivered, lost>>

InQueue(m)  == \E q \in Queues : \E i \in DOMAIN waiting[q] : waiting[q][i].msg = m
InFlight(m) == InQueue(m) \/ \E w \in Workers : job[w] # Idle /\ job[w].msg = m

\* Mutant: durable=True is left out.
Transient == FALSE

Durable == TRUE

\* Exchanges, queues and bindings survive a restart; publish_task's messages, sent
\* without delivery_mode, do not.  A serving process reconnects (connect_robust); one
\* that is starting fails in pre_check and starts again.
BrokerRestart ==
  /\ Fails("broker")
  /\ declared' = IF Durable THEN declared ELSE {}
  /\ waiting' = [q \in Queues |-> <<>>]
  /\ job' = [w \in Workers |-> Idle]
  /\ lost' = lost \cup {m \in Messages : InFlight(m)}
  /\ setup' = [p \in Processes |-> IF Serving(p) THEN Steps ELSE 0]
  /\ UNCHANGED <<published, settled, rejected, redelivered>>

\* The one state in which the system may rest.
Quiet ==
  /\ \A p \in Processes : Serving(p)
  /\ published = Messages
  /\ \A m \in Messages : ~InFlight(m)
  /\ UNCHANGED vars

Work(w) == Take(w) \/ Settle(w) \/ Retry(w) \/ Acknowledge(w)

Next ==
  \/ \E p \in Processes : Declare(p) \/ Stop(p) \/ \E m \in Messages : Publish(p, m)
  \/ \E q \in Queues : Expire(q)
  \/ Tick
  \/ \E w \in Workers : Work(w) \/ WorkerDies(w) \/ Reject(w)
  \/ BrokerRestart
  \/ Quiet

Spec == Init /\ [][Next]_vars

\* Time goes by and RabbitMQ expires what is due; workers take and finish their jobs.
\* No process need ever start or publish.
FairSpec ==
  /\ Spec
  /\ WF_vars(Tick)
  /\ \A q \in Queues : WF_vars(Expire(q))
  /\ \A w \in Workers : WF_vars(Work(w))

-----------------------------------------------------------------------------
(* Properties *)

\* As long as one process serves, a task it publishes gets to tasks.queue and nowhere
\* else, and so do an expired retry and an attempt sent to its retry queue, whatever
\* other processes have declared so far and whoever has restarted since.
ServingIsRouted ==
  (\E p \in Processes : Serving(p)) =>
    /\ Route("tasks.exchange", Key(0)) = {0}
    /\ \A q \in Queues : Route("tasks.dlx", Key(q)) = {q}

\* A published task is in a queue or being tried until it is settled.  Two things get
\* it lost: a restart of the broker, since messages are transient, and a worker that
\* rejects it, since no queue is bound under the key that tasks.queue dead-letters with.
NothingElseIsLost ==
  \A m \in published :
    \/ InQueue(m)
    \/ \E w \in Workers : Working(w) /\ job[w].msg = m
    \/ m \in settled \cup rejected \cup lost

Copies(m) ==
  Cardinality(UNION {{<<q, i>> : i \in {j \in DOMAIN waiting[q] : waiting[q][j].msg = m}}
                       : q \in Queues})
  + Cardinality({w \in Workers : Working(w) /\ job[w].msg = m})

\* A task is never in two places, or worked on after it was settled, unless a worker
\* died with it: no message is routed to two queues.
OnlyDeathsDuplicate ==
  \A m \in published \ redelivered :
    Copies(m) + (IF m \in settled THEN 1 ELSE 0) <= 1

\* The n-th retry waits exactly 2^(n-1) seconds, at most 2^(Levels-1), in one queue
\* only: no message leaves early, none is held up by those in front of it.  These are
\* the delays of RETRY_QUEUES (1s, 2s, 4s, ...) and of docs/adr/005.  src/README.md:59
\* says otherwise, "exponential backoff retry (5s, 10s, 20s, 40s)", and so does :115,
\* "exponential retry (5s -> 40s)": no queue has such a delay.
BackoffDoubles ==
  [][\A q \in Queues \ {0} :
       waiting[q] # <<>> /\ waiting'[q] = Tail(waiting[q]) /\ faults' = faults
       => LET c == Head(waiting[q])
          IN /\ c.age = Ttl(IF c.done <= Levels THEN c.done ELSE Levels)
             /\ waiting'[0] = Append(waiting[0], Entering(c.msg, c.done))]_vars

\* Every published task is settled in the end, if it is not rejected or lost.
PublishedIsSettled ==
  \A m \in Messages : m \in published ~> m \in settled \cup rejected \cup lost

=============================================================================
