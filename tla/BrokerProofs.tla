---------------------------- MODULE BrokerProofs ----------------------------
(***************************************************************************)
(* Theorems of Broker, for any number of processes, workers, messages,     *)
(* retry queues and attempts, and any number of failures.                  *)
(***************************************************************************)
EXTENDS Broker, TLAPS

\* What a process has declared since it started is there, and once anything has been
\* published, so is everything.
DeclaredOK ==
  /\ \A p \in Processes : \A i \in 1 .. setup[p] : Declaration(i) \in declared
  /\ published # {} => \A i \in 1 .. Steps : Declaration(i) \in declared

\* The messages of a queue.
Msgs(s) == {s[i].msg : i \in DOMAIN s}

\* Queues and workers have published messages only.
KnownOK ==
  /\ \A q \in Queues : Msgs(waiting[q]) \subseteq published
  /\ \A w \in Workers : job[w] # Idle => job[w].msg \in published

IInv ==
  /\ TypeOK
  /\ DeclaredOK
  /\ KnownOK
  /\ NothingElseIsLost

-----------------------------------------------------------------------------
(* The declarations *)

LEMMA Numbers ==
  /\ Levels \in Nat /\ Levels >= 1
  /\ Steps \in Nat /\ Steps = 5 + 2 * Levels
  /\ MaxAttempts \in Nat /\ MaxAttempts >= 1
  /\ 0 \in Queues
BY BrokerAssumption DEF Steps, Queues

LEMMA First ==
  /\ Declaration(1) = <<"exchange", "tasks.exchange">>
  /\ Declaration(2) = <<"exchange", "tasks.dlx">>
  /\ Declaration(3) = <<"queue", 0>>
  /\ Declaration(4) = <<"bind", 0, "tasks.exchange", Key(0)>>
  /\ Declaration(5) = <<"bind", 0, "tasks.dlx", Key(0)>>
BY DEF Declaration, MainDeclarations

LEMMA Level ==
  ASSUME NEW q \in 1 .. Levels
  PROVE  /\ Declaration(2 * q + 4) = <<"queue", q>>
         /\ Declaration(2 * q + 5) = <<"bind", q, "tasks.dlx", Key(q)>>
<1>1. q \in Nat /\ q >= 1  BY Numbers
<1>2. /\ (2 * q + 4 - 4) \div 2 = q /\ (2 * q + 4 - 4) % 2 = 0 /\ ~(2 * q + 4 <= 5)
      /\ (2 * q + 5 - 4) \div 2 = q /\ (2 * q + 5 - 4) % 2 = 1 /\ ~(2 * q + 5 <= 5)
  BY <1>1
<1>3. Declaration(2 * q + 4) = RetryDeclarations(q)[1]
  BY <1>2 DEF Declaration
<1>4. Declaration(2 * q + 5) = RetryDeclarations(q)[2]
  BY <1>2 DEF Declaration
<1> QED  BY <1>3, <1>4 DEF RetryDeclarations

\* There are no others.
LEMMA Others ==
  ASSUME NEW i \in 1 .. Steps
  PROVE  \/ i \in 1 .. 5
         \/ \E q \in 1 .. Levels : i = 2 * q + 4 \/ i = 2 * q + 5
<1> SUFFICES ASSUME i > 5
             PROVE  \E q \in 1 .. Levels : i = 2 * q + 4 \/ i = 2 * q + 5
  BY Numbers
<1>1. i \in Nat /\ i <= 5 + 2 * Levels  BY Numbers
<1> DEFINE q == (i - 4) \div 2
<1>2. q \in Nat /\ q >= 1 /\ q <= Levels /\ (i = 2 * q + 4 \/ i = 2 * q + 5)
  BY <1>1, Numbers
<1> QED  BY <1>2, Numbers

\* What a binding can be.
LEMMA Bindings ==
  ASSUME NEW i \in 1 .. Steps, NEW q \in Queues, NEW k \in Queues, NEW x,
         Declaration(i) = <<"bind", q, x, Key(k)>>
  PROVE  q = k /\ (x = "tasks.exchange" => q = 0)
<1>1. CASE i \in 1 .. 5
  <2>1. i = 1 \/ i = 2 \/ i = 3 \/ i = 4 \/ i = 5  BY <1>1
  <2> QED  BY <2>1, First DEF Key
<1>2. CASE \E n \in 1 .. Levels : i = 2 * n + 4 \/ i = 2 * n + 5
  <2>1. PICK n \in 1 .. Levels : i = 2 * n + 4 \/ i = 2 * n + 5  BY <1>2
  <2>2. Declaration(i) = <<"queue", n>> \/ Declaration(i) = <<"bind", n, "tasks.dlx", Key(n)>>
    BY <2>1, Level
  <2> QED  BY <2>2 DEF Key
<1> QED  BY <1>1, <1>2, Others

\* Once everything is declared, every key has one way to go.
LEMMA Routing ==
  ASSUME declared \subseteq {Declaration(i) : i \in 1 .. Steps},
         \A i \in 1 .. Steps : Declaration(i) \in declared
  PROVE  /\ Route("tasks.exchange", Key(0)) = {0}
         /\ \A q \in Queues : Route("tasks.dlx", Key(q)) = {q}
<1>1. /\ <<"exchange", "tasks.exchange">> \in declared
      /\ <<"exchange", "tasks.dlx">> \in declared
      /\ <<"queue", 0>> \in declared
      /\ <<"bind", 0, "tasks.exchange", Key(0)>> \in declared
      /\ <<"bind", 0, "tasks.dlx", Key(0)>> \in declared
  <2>1. 1 \in 1 .. Steps /\ 2 \in 1 .. Steps /\ 3 \in 1 .. Steps /\ 4 \in 1 .. Steps
        /\ 5 \in 1 .. Steps
    BY Numbers
  <2> QED  BY <2>1, First
<1>2. ASSUME NEW q \in 1 .. Levels
      PROVE  <<"queue", q>> \in declared /\ <<"bind", q, "tasks.dlx", Key(q)>> \in declared
  <2>1. 2 * q + 4 \in 1 .. Steps /\ 2 * q + 5 \in 1 .. Steps  BY Numbers
  <2> QED  BY <2>1, Level
<1>3. ASSUME NEW q \in Queues, NEW k \in Queues, NEW x, <<"bind", q, x, Key(k)>> \in declared
      PROVE  q = k /\ (x = "tasks.exchange" => q = 0)
  <2>1. PICK i \in 1 .. Steps : Declaration(i) = <<"bind", q, x, Key(k)>>  BY <1>3
  <2> QED  BY <2>1, Bindings
<1>4. Route("tasks.exchange", Key(0)) = {0}
  BY <1>1, <1>3, Numbers DEF Route
<1>5. ASSUME NEW q \in Queues
      PROVE  Route("tasks.dlx", Key(q)) = {q}
  <2>1. <<"queue", q>> \in declared /\ <<"bind", q, "tasks.dlx", Key(q)>> \in declared
    <3>1. q = 0 \/ q \in 1 .. Levels  BY Numbers DEF Queues
    <3> QED  BY <1>1, <1>2, <3>1
  <2>2. \A p \in Queues : p \in Route("tasks.dlx", Key(q)) => p = q
    BY <1>3 DEF Route
  <2> QED  BY <1>1, <2>1, <2>2 DEF Route
<1> QED  BY <1>4, <1>5

-----------------------------------------------------------------------------
(* Queues *)

LEMMA Appending ==
  ASSUME NEW s \in Seq(Copy), NEW c \in Copy
  PROVE  Append(s, c) \in Seq(Copy) /\ Msgs(Append(s, c)) = Msgs(s) \cup {c.msg}
<1> DEFINE a == Append(s, c)
<1>1. a \in Seq(Copy)  OBVIOUS
<1>2. /\ Len(s) \in Nat /\ DOMAIN s = 1 .. Len(s) /\ DOMAIN a = 1 .. (Len(s) + 1)
      /\ \A i \in DOMAIN s : a[i] = s[i]
      /\ a[Len(s) + 1] = c
  OBVIOUS
<1> HIDE DEF a
<1>3. \A i \in DOMAIN a : i \in DOMAIN s \/ i = Len(s) + 1  BY <1>2
<1>4. DOMAIN s \subseteq DOMAIN a /\ Len(s) + 1 \in DOMAIN a  BY <1>2
<1>5. Msgs(a) = Msgs(s) \cup {c.msg}
  <2>1. ASSUME NEW m \in Msgs(a) PROVE m \in Msgs(s) \cup {c.msg}
    BY <2>1, <1>2, <1>3 DEF Msgs
  <2>2. ASSUME NEW m \in Msgs(s) PROVE m \in Msgs(a)
    BY <2>2, <1>2, <1>4 DEF Msgs
  <2>3. c.msg \in Msgs(a)  BY <1>2, <1>4 DEF Msgs
  <2> QED  BY <2>1, <2>2, <2>3
<1> QED  BY <1>1, <1>5 DEF a

LEMMA Prepending ==
  ASSUME NEW s \in Seq(Copy), NEW c \in Copy
  PROVE  <<c>> \o s \in Seq(Copy) /\ Msgs(<<c>> \o s) = Msgs(s) \cup {c.msg}
<1> DEFINE a == <<c>> \o s
<1>1. a \in Seq(Copy)  OBVIOUS
<1>2. /\ Len(s) \in Nat /\ DOMAIN s = 1 .. Len(s) /\ DOMAIN a = 1 .. (Len(s) + 1)
      /\ \A i \in DOMAIN s : a[i + 1] = s[i]
      /\ a[1] = c
  OBVIOUS
<1> HIDE DEF a
<1>3. \A i \in DOMAIN a : i = 1 \/ (i - 1 \in DOMAIN s /\ a[i] = s[i - 1])
  <2> SUFFICES ASSUME NEW i \in DOMAIN a, i # 1
               PROVE  i - 1 \in DOMAIN s /\ a[i] = s[i - 1]
    OBVIOUS
  <2>1. i - 1 \in DOMAIN s /\ (i - 1) + 1 = i  BY <1>2
  <2> QED  BY <1>2, <2>1
<1>4. \A i \in DOMAIN s : i + 1 \in DOMAIN a  BY <1>2
<1>5. Msgs(a) = Msgs(s) \cup {c.msg}
  <2>1. ASSUME NEW m \in Msgs(a) PROVE m \in Msgs(s) \cup {c.msg}
    <3>1. PICK i \in DOMAIN a : m = a[i].msg  BY DEF Msgs
    <3> QED  BY <3>1, <1>2, <1>3 DEF Msgs
  <2>2. ASSUME NEW m \in Msgs(s) PROVE m \in Msgs(a)
    <3>1. PICK i \in DOMAIN s : m = s[i].msg  BY DEF Msgs
    <3>2. i + 1 \in DOMAIN a /\ a[i + 1] = s[i]  BY <1>2, <1>4
    <3> QED  BY <3>1, <3>2 DEF Msgs
  <2>3. c.msg \in Msgs(a)
    <3>1. 1 \in DOMAIN a  BY <1>2
    <3> QED  BY <3>1, <1>2 DEF Msgs
  <2> QED  BY <2>1, <2>2, <2>3
<1> QED  BY <1>1, <1>5 DEF a

LEMMA Removing ==
  ASSUME NEW s \in Seq(Copy), s # <<>>
  PROVE  /\ Head(s) \in Copy
         /\ Tail(s) \in Seq(Copy)
         /\ Msgs(s) = Msgs(Tail(s)) \cup {Head(s).msg}
<1>1. Head(s) \in Copy /\ Tail(s) \in Seq(Copy)  OBVIOUS
<1>2. /\ Len(s) \in Nat /\ Len(s) >= 1 /\ DOMAIN s = 1 .. Len(s)
      /\ DOMAIN Tail(s) = 1 .. (Len(s) - 1)
      /\ \A i \in DOMAIN Tail(s) : Tail(s)[i] = s[i + 1]
      /\ s[1] = Head(s)
  OBVIOUS
<1> DEFINE t == Tail(s)
           h == Head(s)
<1>3. /\ DOMAIN t = 1 .. (Len(s) - 1)
      /\ \A i \in DOMAIN t : i + 1 \in DOMAIN s /\ t[i] = s[i + 1]
      /\ \A i \in DOMAIN s : i = 1 \/ i - 1 \in DOMAIN t
      /\ s[1] = h /\ 1 \in DOMAIN s
  BY <1>2
<1> HIDE DEF t, h
<1>4. ASSUME NEW m \in Msgs(s) PROVE m \in Msgs(t) \cup {h.msg}
  <2>1. PICK i \in DOMAIN s : m = s[i].msg  BY DEF Msgs
  <2>2. CASE i = 1  BY <2>1, <2>2, <1>3
  <2>3. CASE i # 1
    <3>1. i - 1 \in DOMAIN t /\ t[i - 1] = s[(i - 1) + 1]  BY <1>3, <2>3
    <3>2. (i - 1) + 1 = i  BY <1>2
    <3> QED  BY <2>1, <3>1, <3>2 DEF Msgs
  <2> QED  BY <2>2, <2>3
<1>5. ASSUME NEW m \in Msgs(t) PROVE m \in Msgs(s)
  <2>1. PICK i \in DOMAIN t : m = t[i].msg  BY DEF Msgs
  <2> QED  BY <2>1, <1>3 DEF Msgs
<1>6. h.msg \in Msgs(s)  BY <1>3 DEF Msgs
<1>7. Msgs(s) = Msgs(t) \cup {h.msg}  BY <1>4, <1>5, <1>6
<1> QED  BY <1>1, <1>7 DEF t, h

\* Waiting leaves a queue's messages as they are.
LEMMA Aging ==
  ASSUME NEW s \in Seq(Copy)
  PROVE  LET a == [i \in DOMAIN s |-> [s[i] EXCEPT !.age = @ + 1]]
         IN  a \in Seq(Copy) /\ Msgs(a) = Msgs(s)
<1> DEFINE a == [i \in DOMAIN s |-> [s[i] EXCEPT !.age = @ + 1]]
<1>1. Len(s) \in Nat /\ DOMAIN s = 1 .. Len(s) /\ \A i \in DOMAIN s : s[i] \in Copy
  OBVIOUS
<1>2. ASSUME NEW c \in Copy
      PROVE  [c EXCEPT !.age = @ + 1] \in Copy /\ [c EXCEPT !.age = @ + 1].msg = c.msg
  <2>1. PICK m \in Messages, n \in 0 .. MaxAttempts - 1, t \in Nat :
          c = [msg |-> m, done |-> n, age |-> t]
    BY DEF Copy
  <2>2. [c EXCEPT !.age = @ + 1] = [msg |-> m, done |-> n, age |-> t + 1]  BY <2>1
  <2>3. t + 1 \in Nat  OBVIOUS
  <2> QED  BY <2>1, <2>2, <2>3 DEF Copy
<1>3. a \in [1 .. Len(s) -> Copy] /\ DOMAIN a = DOMAIN s
      /\ \A i \in DOMAIN s : a[i].msg = s[i].msg
  BY <1>1, <1>2
<1> HIDE DEF a
<1>4. a \in Seq(Copy)  BY <1>1, <1>3
<1>5. Msgs(a) = Msgs(s)  BY <1>3 DEF Msgs
<1> QED  BY <1>4, <1>5 DEF a

-----------------------------------------------------------------------------
(* What the invariant says, by messages *)

Queued == UNION {Msgs(waiting[q]) : q \in Queues}
Tried  == {job[w].msg : w \in {v \in Workers : Working(v)}}
Ended  == settled \cup rejected \cup lost

LEMMA Known ==
  ASSUME IInv
  PROVE  /\ Queued \subseteq published
         /\ published \subseteq Queued \cup Tried \cup Ended
         /\ \A q \in Queues : Msgs(waiting[q]) \subseteq Queued
<1>1. Queued \subseteq published  BY DEF IInv, KnownOK, Queued
<1>2. \A m : InQueue(m) => m \in Queued  BY DEF InQueue, Queued, Msgs
<1>3. \A m : (\E w \in Workers : Working(w) /\ job[w].msg = m) => m \in Tried
  BY DEF Tried
<1>4. published \subseteq Queued \cup Tried \cup Ended
  BY <1>2, <1>3 DEF IInv, NothingElseIsLost, Ended
<1> QED  BY <1>1, <1>4 DEF Queued

LEMMA Assemble ==
  ASSUME TypeOK', DeclaredOK', Queued' \subseteq published',
         \A w \in Workers : job'[w] # Idle => job'[w].msg \in published',
         published' \subseteq Queued' \cup Tried' \cup Ended'
  PROVE  IInv'
<1>1. KnownOK'  BY DEF KnownOK, Queued
<1>2. \A m : m \in Queued' => InQueue(m)'  BY DEF InQueue, Queued, Msgs
<1>3. \A m : m \in Tried' => \E w \in Workers : Working(w)' /\ job'[w].msg = m
  BY DEF Tried
<1>4. NothingElseIsLost'  BY <1>2, <1>3 DEF NothingElseIsLost, Ended
<1> QED  BY <1>1, <1>4 DEF IInv

LEMMA CopyType ==
  ASSUME NEW m \in Messages, NEW n \in 0 .. MaxAttempts - 1
  PROVE  Entering(m, n) \in Copy /\ Entering(m, n).msg = m
BY DEF Entering, Copy

\* What a busy worker has.
LEMMA JobType ==
  ASSUME IInv, NEW w \in Workers, job[w] # Idle
  PROVE  /\ job[w] \in Job
         /\ job[w].msg \in Messages /\ job[w].msg \in published
         /\ job[w].done \in 0 .. MaxAttempts - 1 /\ job[w].sent \in BOOLEAN
<1>1. job[w] \in Job  BY DEF IInv, TypeOK
<1>2. job[w].msg \in published  BY DEF IInv, KnownOK
<1> QED  BY <1>1, <1>2 DEF Job

\* The next attempt has been sent.
LEMMA SentType ==
  ASSUME NEW j \in Job
  PROVE  [j EXCEPT !.sent = TRUE] \in Job /\ [j EXCEPT !.sent = TRUE].msg = j.msg
<1>1. [j EXCEPT !.sent = TRUE] \in Job
  BY DEF Job
<1>2. [j EXCEPT !.sent = TRUE].msg = j.msg
  BY DEF Job
<1> QED  BY <1>1, <1>2

\* When a worker becomes idle, the others go on with what they try.
LEMMA Freed ==
  ASSUME IInv, NEW w \in Workers, job' = [job EXCEPT ![w] = Idle]
  PROVE  /\ job' \in [Workers -> Job \cup {Idle}]
         /\ \A v \in Workers : job'[v] # Idle => job'[v].msg \in published
         /\ Tried \subseteq Tried' \cup (IF Working(w) THEN {job[w].msg} ELSE {})
<1>1. \A v \in Workers : job'[v] = IF v = w THEN Idle ELSE job[v]  BY DEF IInv, TypeOK
<1>2. job' \in [Workers -> Job \cup {Idle}]  BY DEF IInv, TypeOK
<1>3. \A v \in Workers : v # w /\ Working(v) => Working(v)' /\ job'[v].msg = job[v].msg
  BY <1>1 DEF Working
<1>4. Tried \subseteq Tried' \cup (IF Working(w) THEN {job[w].msg} ELSE {})
  BY <1>3 DEF Tried
<1> QED  BY <1>1, <1>2, <1>4 DEF IInv, KnownOK

\* A serving process finds everything declared.
LEMMA Declared ==
  ASSUME IInv, NEW p \in Processes, Serving(p)
  PROVE  /\ \A i \in 1 .. Steps : Declaration(i) \in declared
         /\ Route("tasks.exchange", Key(0)) = {0}
         /\ \A q \in Queues : Route("tasks.dlx", Key(q)) = {q}
<1>1. declared \subseteq {Declaration(i) : i \in 1 .. Steps}  BY DEF IInv, TypeOK
<1>2. \A i \in 1 .. Steps : Declaration(i) \in declared
  BY DEF IInv, DeclaredOK, Serving
<1> QED  BY <1>1, <1>2, Routing

LEMMA DeclaredKept ==
  ASSUME IInv, declared' = declared, published' = published,
         \A p \in Processes : setup'[p] = setup[p] \/ setup'[p] = 0
  PROVE  DeclaredOK'
<1>1. \A i : i \notin 1 .. 0  OBVIOUS
<1> QED  BY <1>1 DEF IInv, DeclaredOK

\* Once something has been published, dead letters with a queue's key get there.
LEMMA DeadLetters ==
  ASSUME IInv, published # {}, NEW q \in Queues
  PROVE  Route("tasks.dlx", Key(q)) = {q}
<1>1. declared \subseteq {Declaration(i) : i \in 1 .. Steps}  BY DEF IInv, TypeOK
<1>2. \A i \in 1 .. Steps : Declaration(i) \in declared  BY DEF IInv, DeclaredOK
<1> QED  BY <1>1, <1>2, Routing

\* A message comes into one queue.
LEMMA Arrives ==
  ASSUME IInv, NEW t \in Queues, NEW c \in Copy,
         waiting' = [q \in Queues |-> IF q = t THEN Append(waiting[q], c) ELSE waiting[q]]
  PROVE  waiting' \in [Queues -> Seq(Copy)] /\ Queued' = Queued \cup {c.msg}
<1>1. \A q \in Queues : waiting[q] \in Seq(Copy)  BY DEF IInv, TypeOK
<1>2. Append(waiting[t], c) \in Seq(Copy)
      /\ Msgs(Append(waiting[t], c)) = Msgs(waiting[t]) \cup {c.msg}
  BY <1>1, Appending
<1>3. \A q \in Queues :
        /\ waiting'[q] \in Seq(Copy)
        /\ Msgs(waiting'[q]) = IF q = t THEN Msgs(waiting[q]) \cup {c.msg} ELSE Msgs(waiting[q])
  BY <1>1, <1>2
<1>4. Queued' = Queued \cup {c.msg}  BY <1>3 DEF Queued
<1> QED  BY <1>3, <1>4

-----------------------------------------------------------------------------
(* The steps *)

LEMMA InitOK == Init => IInv
<1> SUFFICES ASSUME Init PROVE IInv
  OBVIOUS
<1>1. TypeOK
  <2>1. <<>> \in Seq(Copy)  OBVIOUS
  <2> QED  BY <2>1, Numbers, BrokerAssumption DEF Init, TypeOK
<1>2. DeclaredOK
  <2>1. \A i : i \notin 1 .. 0  OBVIOUS
  <2> QED  BY <2>1 DEF Init, DeclaredOK
<1>3. KnownOK
  <2>1. Msgs(<<>>) = {}  BY DEF Msgs
  <2> QED  BY <2>1 DEF Init, KnownOK
<1>4. NothingElseIsLost  BY DEF Init, NothingElseIsLost
<1> QED  BY <1>1, <1>2, <1>3, <1>4 DEF IInv

LEMMA DeclareStep ==
  ASSUME IInv, NEW p \in Processes, Declare(p)
  PROVE  IInv'
<1>1. setup[p] \in 0 .. Steps /\ setup[p] # Steps  BY DEF IInv, TypeOK, Declare, Serving
<1>2. setup[p] + 1 \in 1 .. Steps  BY <1>1, Numbers
<1>3. setup' \in [Processes -> 0 .. Steps]
  <2>1. setup[p] + 1 \in 0 .. Steps  BY <1>2
  <2> QED  BY <2>1 DEF IInv, TypeOK, Declare
<1>4. TypeOK'  BY <1>2, <1>3 DEF IInv, TypeOK, Declare, history
<1>5. DeclaredOK'
  <2>1. ASSUME NEW q \in Processes, NEW i \in 1 .. setup'[q]
        PROVE  Declaration(i) \in declared'
    <3>1. CASE q = p
      <4>1. setup'[q] = setup[p] + 1  BY <3>1 DEF IInv, TypeOK, Declare
      <4>2. i = setup[p] + 1 \/ i \in 1 .. setup[p]  BY <1>1, <4>1
      <4> QED  BY <4>2 DEF IInv, DeclaredOK, Declare
    <3>2. CASE q # p
      <4>1. setup'[q] = setup[q]  BY <3>2 DEF IInv, TypeOK, Declare
      <4> QED  BY <4>1 DEF IInv, DeclaredOK, Declare
    <3> QED  BY <3>1, <3>2
  <2> QED  BY <2>1 DEF IInv, DeclaredOK, Declare, history
<1>6. Queued' = Queued /\ Tried' = Tried /\ Ended' = Ended /\ published' = published
      /\ job' = job
  BY DEF Declare, Queued, Tried, Working, Ended, history
<1> QED  BY <1>4, <1>5, <1>6, Known, Assemble DEF IInv, KnownOK

LEMMA PublishStep ==
  ASSUME IInv, NEW p \in Processes, NEW m \in Messages, Publish(p, m)
  PROVE  IInv'
<1>1. /\ \A i \in 1 .. Steps : Declaration(i) \in declared
      /\ Route("tasks.exchange", Key(0)) = {0}
  BY Declared DEF Publish
<1>2. declared' = declared
  <2>1. 1 \in 1 .. Steps  BY Numbers
  <2> QED  BY <1>1, <2>1, First DEF Publish
<1>3. Untried(m) \in Copy /\ Untried(m).msg = m
  <2>1. 0 \in 0 .. MaxAttempts - 1  BY Numbers
  <2> QED  BY <2>1, CopyType DEF Untried
<1>4. waiting' \in [Queues -> Seq(Copy)] /\ Queued' = Queued \cup {m}
  <2>1. waiting' = [q \in Queues |->
                      IF q = 0 THEN Append(waiting[q], Untried(m)) ELSE waiting[q]]
    BY <1>1 DEF Publish, Delivered
  <2> QED  BY <1>3, <2>1, Arrives, Numbers
<1>5. TypeOK'  BY <1>2, <1>4 DEF IInv, TypeOK, Publish
<1>6. DeclaredOK'  BY <1>1, <1>2 DEF IInv, DeclaredOK, Publish
<1>7. Tried' = Tried /\ Ended' = Ended /\ job' = job /\ published' = published \cup {m}
  BY DEF Publish, Tried, Working, Ended
<1> QED  BY <1>4, <1>5, <1>6, <1>7, Known, Assemble DEF IInv, KnownOK

LEMMA ExpireStep ==
  ASSUME IInv, NEW q \in Queues, Expire(q)
  PROVE  IInv'
<1> DEFINE c == Head(waiting[q])
           b == [waiting EXCEPT ![q] = Tail(@)]
<1>1. waiting[q] \in Seq(Copy) /\ waiting[q] # <<>>
  BY DEF IInv, TypeOK, Expire, Expired
<1>2. c \in Copy /\ Tail(waiting[q]) \in Seq(Copy)
      /\ Msgs(waiting[q]) = Msgs(Tail(waiting[q])) \cup {c.msg}
  BY <1>1, Removing
<1>3. b \in [Queues -> Seq(Copy)]
      /\ \A k \in Queues : Msgs(b[k]) = IF k = q THEN Msgs(Tail(waiting[q])) ELSE Msgs(waiting[k])
  BY <1>2 DEF IInv, TypeOK
<1>4. c.msg \in Queued /\ c.msg \in published  BY <1>2, Known
<1>5. Route("tasks.dlx", Key(0)) = {0}  BY <1>4, DeadLetters, Numbers
<1>6. Entering(c.msg, c.done) \in Copy /\ Entering(c.msg, c.done).msg = c.msg
  <2>1. c.msg \in Messages /\ c.done \in 0 .. MaxAttempts - 1  BY <1>2 DEF Copy
  <2> QED  BY <2>1, CopyType
<1>7. waiting' = [k \in Queues |->
                    IF k = 0 THEN Append(b[k], Entering(c.msg, c.done)) ELSE b[k]]
  BY <1>5 DEF Expire, ExpiryKey, Delivered
<1> HIDE DEF b, c
<1>8. /\ waiting' \in [Queues -> Seq(Copy)]
      /\ \A k \in Queues :
           Msgs(waiting'[k]) = IF k = 0 THEN Msgs(b[k]) \cup {c.msg} ELSE Msgs(b[k])
  <2> DEFINE e == Entering(c.msg, c.done)
  <2>1. e \in Copy /\ e.msg = c.msg /\ 0 \in Queues  BY <1>6, Numbers
  <2>2. waiting' = [k \in Queues |-> IF k = 0 THEN Append(b[k], e) ELSE b[k]]
    BY <1>7
  <2>3. \A k \in Queues : waiting'[k] = IF k = 0 THEN Append(b[k], e) ELSE b[k]
    BY <2>2
  <2> HIDE DEF e
  <2>4. \A k \in Queues :
          /\ waiting'[k] \in Seq(Copy)
          /\ Msgs(waiting'[k]) = IF k = 0 THEN Msgs(b[k]) \cup {e.msg} ELSE Msgs(b[k])
    <3>1. \A k \in Queues : b[k] \in Seq(Copy)  BY <1>3
    <3>2. Append(b[0], e) \in Seq(Copy) /\ Msgs(Append(b[0], e)) = Msgs(b[0]) \cup {e.msg}
      BY <2>1, <3>1, Appending
    <3> QED  BY <2>3, <3>1, <3>2
  <2> QED  BY <2>1, <2>2, <2>4
<1>9. TypeOK'  BY <1>8 DEF IInv, TypeOK, Expire, history
<1>10. DeclaredOK'  BY DeclaredKept DEF Expire, history
<1>11. Queued' = Queued
  <2>1. \A k \in Queues : Msgs(waiting'[k]) \subseteq Msgs(waiting[k]) \cup {c.msg}
    BY <1>2, <1>3, <1>8
  <2>2. \A k \in Queues : Msgs(waiting[k]) \subseteq Msgs(waiting'[k]) \cup {c.msg}
    BY <1>2, <1>3, <1>8
  <2>3. c.msg \in Msgs(waiting'[0])  BY <1>8, Numbers
  <2>4. c.msg \in Queued'  BY <2>3, Numbers DEF Queued
  <2> QED  BY <1>4, <2>1, <2>2, <2>4 DEF Queued
<1>12. Tried' = Tried /\ Ended' = Ended /\ job' = job /\ published' = published
  BY DEF Expire, Tried, Working, Ended, history
<1> QED  BY <1>9, <1>10, <1>11, <1>12, Known, Assemble DEF IInv, KnownOK

LEMMA TickStep ==
  ASSUME IInv, Tick
  PROVE  IInv'
<1>1. \A q \in Queues : waiting[q] \in Seq(Copy)  BY DEF IInv, TypeOK
<1>2. ASSUME NEW q \in Queues
      PROVE  waiting'[q] \in Seq(Copy) /\ Msgs(waiting'[q]) = Msgs(waiting[q])
  BY <1>1, Aging DEF Tick
<1>3. waiting' \in [Queues -> Seq(Copy)]  BY <1>2 DEF Tick
<1>4. TypeOK'  BY <1>3 DEF IInv, TypeOK, Tick, history
<1>5. DeclaredOK'  BY DeclaredKept DEF Tick, history
<1>6. Queued' = Queued  BY <1>2 DEF Queued
<1>7. Tried' = Tried /\ Ended' = Ended /\ job' = job /\ published' = published
  BY DEF Tick, Tried, Working, Ended, history
<1> QED  BY <1>4, <1>5, <1>6, <1>7, Known, Assemble DEF IInv, KnownOK

LEMMA TakeStep ==
  ASSUME IInv, NEW w \in Workers, Take(w)
  PROVE  IInv'
<1> DEFINE c == Head(waiting[0])
           j == [msg |-> c.msg, done |-> c.done, sent |-> FALSE]
<1>1. waiting[0] \in Seq(Copy) /\ waiting[0] # <<>>  BY Numbers DEF IInv, TypeOK, Take
<1>2. c \in Copy /\ Tail(waiting[0]) \in Seq(Copy)
      /\ Msgs(waiting[0]) = Msgs(Tail(waiting[0])) \cup {c.msg}
  BY <1>1, Removing
<1>3. j \in Job /\ j # Idle
  <2>1. c.msg \in Messages /\ c.done \in 0 .. MaxAttempts - 1  BY <1>2 DEF Copy
  <2>2. j \in Job  BY <2>1 DEF Job
  <2> QED  BY <2>2, BrokerAssumption
<1>4. c.msg \in published /\ c.msg \in Queued  BY <1>2, Known, Numbers
<1>5. job' = [job EXCEPT ![w] = j] /\ waiting' = [waiting EXCEPT ![0] = Tail(waiting[0])]
  BY DEF Take
<1>6. j.msg = c.msg /\ j.sent = FALSE  OBVIOUS
<1> HIDE DEF j, c
<1>7. \A v \in Workers : job'[v] = IF v = w THEN j ELSE job[v]
  BY <1>5 DEF IInv, TypeOK
<1>8. waiting' \in [Queues -> Seq(Copy)]
      /\ \A q \in Queues :
           Msgs(waiting'[q]) = IF q = 0 THEN Msgs(Tail(waiting[0])) ELSE Msgs(waiting[q])
  BY <1>2, <1>5, Numbers DEF IInv, TypeOK
<1>9. TypeOK'  BY <1>3, <1>5, <1>8 DEF IInv, TypeOK, Take, history
<1>10. DeclaredOK'  BY DeclaredKept DEF Take, history
<1>11. Queued' \subseteq Queued /\ Queued \subseteq Queued' \cup {c.msg}
  BY <1>2, <1>8, Numbers DEF Queued
<1>12. Tried' = Tried \cup {c.msg}
  <2>1. \A v \in Workers : v # w => Working(v)' = Working(v)  BY <1>7 DEF Working
  <2>2. Working(w)' /\ ~Working(w)
    <3>1. job'[w] = j  BY <1>7
    <3> QED  BY <1>3, <1>6, <3>1, Zenon DEF Working, Take
  <2> QED  BY <1>6, <1>7, <2>1, <2>2 DEF Tried
<1>13. Ended' = Ended /\ published' = published  BY DEF Take, Ended, history
<1>14. \A v \in Workers : job'[v] # Idle => job'[v].msg \in published'
  BY <1>4, <1>6, <1>7, <1>13 DEF IInv, KnownOK
<1> QED  BY <1>9, <1>10, <1>11, <1>12, <1>13, <1>14, Known, Assemble

LEMMA SettleStep ==
  ASSUME IInv, NEW w \in Workers, Settle(w)
  PROVE  IInv'
<1>1. job[w] # Idle /\ Working(w)  BY DEF Settle, Working
<1>2. job[w].msg \in published  BY <1>1, JobType
<1>3. /\ job' \in [Workers -> Job \cup {Idle}]
      /\ \A v \in Workers : job'[v] # Idle => job'[v].msg \in published
      /\ Tried \subseteq Tried' \cup {job[w].msg}
  BY <1>1, Freed DEF Settle
<1>4. TypeOK'  BY <1>2, <1>3 DEF IInv, TypeOK, Settle
<1>5. DeclaredOK'  BY DeclaredKept DEF Settle
<1>6. Queued' = Queued /\ published' = published /\ Ended' = Ended \cup {job[w].msg}
  BY DEF Settle, Queued, Ended
<1> QED  BY <1>3, <1>4, <1>5, <1>6, Known, Assemble

LEMMA RetryStep ==
  ASSUME IInv, NEW w \in Workers, Retry(w)
  PROVE  IInv'
<1> DEFINE n == job[w].done + 1
           l == IF n <= Levels THEN n ELSE Levels
<1>1. job[w] # Idle /\ Working(w)  BY DEF Retry, Working
<1>2. /\ job[w] \in Job /\ job[w].msg \in Messages /\ job[w].msg \in published
      /\ job[w].done \in 0 .. MaxAttempts - 1
  BY <1>1, JobType
<1>3. n \in 0 .. MaxAttempts - 1 /\ l \in Queues  BY <1>2, Numbers DEF Retry, Queues
<1>4. Route("tasks.dlx", Key(l)) = {l}  BY <1>2, <1>3, DeadLetters
<1>5. Entering(job[w].msg, n) \in Copy /\ Entering(job[w].msg, n).msg = job[w].msg
  BY <1>2, <1>3, CopyType
<1>6. waiting' = Delivered(waiting, "tasks.dlx", Key(l), Entering(job[w].msg, n))
  BY DEF Retry
<1> HIDE DEF l, n
<1>7. waiting' = [q \in Queues |->
                    IF q = l THEN Append(waiting[q], Entering(job[w].msg, n)) ELSE waiting[q]]
  BY <1>4, <1>6 DEF Delivered
<1>8. waiting' \in [Queues -> Seq(Copy)] /\ Queued' = Queued \cup {job[w].msg}
  BY <1>3, <1>5, <1>7, Arrives
<1>9. PICK j \in Job : j.msg = job[w].msg /\ job' = [job EXCEPT ![w] = j]
  BY <1>2, SentType DEF Retry
<1>10. \A v \in Workers : job'[v] = IF v = w THEN j ELSE job[v]
  BY <1>9 DEF IInv, TypeOK
<1>11. job' \in [Workers -> Job \cup {Idle}]  BY <1>9 DEF IInv, TypeOK
<1>12. TypeOK'  BY <1>8, <1>11 DEF IInv, TypeOK, Retry, history
<1>13. DeclaredOK'  BY DeclaredKept DEF Retry, history
<1>14. Tried \subseteq Tried' \cup {job[w].msg}
  <2>1. \A v \in Workers : v # w => Working(v)' = Working(v) /\ job'[v] = job[v]
    BY <1>10 DEF Working
  <2> QED  BY <2>1 DEF Tried
<1>15. Ended' = Ended /\ published' = published  BY DEF Retry, Ended, history
<1>16. \A v \in Workers : job'[v] # Idle => job'[v].msg \in published'
  BY <1>2, <1>9, <1>10, <1>15 DEF IInv, KnownOK
<1> QED  BY <1>2, <1>8, <1>12, <1>13, <1>14, <1>15, <1>16, Known, Assemble

LEMMA AcknowledgeStep ==
  ASSUME IInv, NEW w \in Workers, Acknowledge(w)
  PROVE  IInv'
<1>1. ~Working(w)  BY DEF Acknowledge, Working
<1>2. /\ job' \in [Workers -> Job \cup {Idle}]
      /\ \A v \in Workers : job'[v] # Idle => job'[v].msg \in published
      /\ Tried \subseteq Tried'
  BY <1>1, Freed DEF Acknowledge
<1>3. TypeOK'  BY <1>2 DEF IInv, TypeOK, Acknowledge, history
<1>4. DeclaredOK'  BY DeclaredKept DEF Acknowledge, history
<1>5. Queued' = Queued /\ published' = published /\ Ended' = Ended
  BY DEF Acknowledge, Queued, Ended, history
<1> QED  BY <1>2, <1>3, <1>4, <1>5, Known, Assemble

LEMMA FailureCount ==
  ASSUME IInv, NEW kind, Fails(kind)
  PROVE  faults' \in 0 .. MaxFaults
<1>1. faults \in 0 .. MaxFaults /\ faults < MaxFaults /\ faults' = faults + 1 /\ MaxFaults \in Nat
  BY BrokerAssumption DEF IInv, TypeOK, Fails
<1> QED  BY <1>1

LEMMA StopStep ==
  ASSUME IInv, NEW p \in Processes, Stop(p)
  PROVE  IInv'
<1>1. \A q \in Processes : setup'[q] = setup[q] \/ setup'[q] = 0
  BY DEF IInv, TypeOK, Stop
<1>2. setup' \in [Processes -> 0 .. Steps]  BY Numbers DEF IInv, TypeOK, Stop
<1>3. TypeOK'  BY <1>2, FailureCount DEF IInv, TypeOK, Stop, history
<1>4. DeclaredOK'  BY <1>1, DeclaredKept DEF Stop, history
<1>5. Queued' = Queued /\ Tried' = Tried /\ Ended' = Ended /\ published' = published
      /\ job' = job
  BY DEF Stop, Queued, Tried, Working, Ended, history
<1> QED  BY <1>3, <1>4, <1>5, Known, Assemble DEF IInv, KnownOK

LEMMA WorkerDiesStep ==
  ASSUME IInv, NEW w \in Workers, WorkerDies(w)
  PROVE  IInv'
<1> DEFINE c == Entering(job[w].msg, job[w].done)
<1>1. job[w].msg \in Messages /\ job[w].msg \in published /\ job[w].done \in 0 .. MaxAttempts - 1
  BY JobType DEF WorkerDies
<1>2. c \in Copy /\ c.msg = job[w].msg  BY <1>1, CopyType
<1>3. waiting' = [waiting EXCEPT ![0] = <<c>> \o waiting[0]]  BY DEF WorkerDies
<1> HIDE DEF c
<1>4. waiting[0] \in Seq(Copy)  BY Numbers DEF IInv, TypeOK
<1>5. <<c>> \o waiting[0] \in Seq(Copy)
      /\ Msgs(<<c>> \o waiting[0]) = Msgs(waiting[0]) \cup {c.msg}
  BY <1>2, <1>4, Prepending
<1>6. waiting' \in [Queues -> Seq(Copy)]
      /\ \A q \in Queues :
           Msgs(waiting'[q]) = IF q = 0 THEN Msgs(waiting[0]) \cup {c.msg} ELSE Msgs(waiting[q])
  BY <1>3, <1>5, Numbers DEF IInv, TypeOK
<1>7. Queued' = Queued \cup {job[w].msg}  BY <1>2, <1>6, Numbers DEF Queued
<1>8. /\ job' \in [Workers -> Job \cup {Idle}]
      /\ \A v \in Workers : job'[v] # Idle => job'[v].msg \in published
      /\ Tried \subseteq Tried' \cup {job[w].msg}
  BY Freed DEF WorkerDies
<1>9. TypeOK'
  BY <1>1, <1>6, <1>8, FailureCount DEF IInv, TypeOK, WorkerDies
<1>10. DeclaredOK'  BY DeclaredKept DEF WorkerDies
<1>11. published' = published /\ Ended' = Ended  BY DEF WorkerDies, Ended
<1> QED  BY <1>1, <1>7, <1>8, <1>9, <1>10, <1>11, Known, Assemble

LEMMA RejectStep ==
  ASSUME IInv, NEW w \in Workers, Reject(w)
  PROVE  IInv'
<1> DEFINE c == Entering(job[w].msg, job[w].done)
<1>1. job[w] # Idle  BY DEF Reject, Working
<1>2. job[w].msg \in Messages /\ job[w].msg \in published /\ job[w].done \in 0 .. MaxAttempts - 1
  BY <1>1, JobType
<1>3. c \in Copy /\ c.msg = job[w].msg  BY <1>2, CopyType
<1>4. waiting' = [q \in Queues |-> IF q \in Route("tasks.dlx", RejectKey)
                                   THEN Append(waiting[q], c) ELSE waiting[q]]
  BY DEF Reject, Delivered
<1> HIDE DEF c
<1>5. \A q \in Queues : waiting[q] \in Seq(Copy)  BY DEF IInv, TypeOK
<1>6. \A q \in Queues : Append(waiting[q], c) \in Seq(Copy)
                        /\ Msgs(Append(waiting[q], c)) = Msgs(waiting[q]) \cup {c.msg}
  BY <1>3, <1>5, Appending
<1>7. \A q \in Queues : /\ waiting'[q] \in Seq(Copy)
                        /\ Msgs(waiting[q]) \subseteq Msgs(waiting'[q])
                        /\ Msgs(waiting'[q]) \subseteq Msgs(waiting[q]) \cup {c.msg}
  BY <1>4, <1>5, <1>6
<1>8. waiting' \in [Queues -> Seq(Copy)]  BY <1>4, <1>7
<1>9. Queued \subseteq Queued' /\ Queued' \subseteq Queued \cup {job[w].msg}
  BY <1>3, <1>7 DEF Queued
<1>10. /\ job' \in [Workers -> Job \cup {Idle}]
       /\ \A v \in Workers : job'[v] # Idle => job'[v].msg \in published
       /\ Tried \subseteq Tried' \cup {job[w].msg}
  BY <1>1, Freed DEF Reject
<1>11. TypeOK'
  BY <1>2, <1>8, <1>10, FailureCount DEF IInv, TypeOK, Reject
<1>12. DeclaredOK'  BY DeclaredKept DEF Reject
<1>13. published' = published /\ Ended' = Ended \cup {job[w].msg}  BY DEF Reject, Ended
<1> QED  BY <1>2, <1>9, <1>10, <1>11, <1>12, <1>13, Known, Assemble

LEMMA RestartStep ==
  ASSUME IInv, BrokerRestart
  PROVE  IInv'
<1>1. declared' = declared /\ published' = published
  BY DEF BrokerRestart, Durable
<1>2. \A p \in Processes : setup'[p] = setup[p] \/ setup'[p] = 0
  BY DEF IInv, TypeOK, BrokerRestart, Serving
<1>3. setup' \in [Processes -> 0 .. Steps]  BY Numbers DEF BrokerRestart
<1>4. waiting' \in [Queues -> Seq(Copy)]
  <2>1. <<>> \in Seq(Copy)  OBVIOUS
  <2> QED  BY <2>1 DEF BrokerRestart
<1>5. job' \in [Workers -> Job \cup {Idle}] /\ \A w \in Workers : job'[w] = Idle
  BY DEF BrokerRestart
<1>6. Queued \cup Tried \subseteq {m \in Messages : InFlight(m)}
  <2>1. Queued \subseteq published  BY Known
  <2>2. \A m \in Tried : m \in published /\ \E w \in Workers : job[w] # Idle /\ job[w].msg = m
    BY JobType DEF Tried, Working
  <2>3. \A m \in Queued : InQueue(m)  BY DEF Queued, InQueue, Msgs
  <2>4. published \subseteq Messages  BY DEF IInv, TypeOK
  <2> QED  BY <2>1, <2>2, <2>3, <2>4 DEF InFlight
<1>7. lost' = lost \cup {m \in Messages : InFlight(m)}  BY DEF BrokerRestart
<1>8. lost' \subseteq published
  <2>1. \A m : InQueue(m) => m \in published
    <3>1. \A m : InQueue(m) => m \in Queued  BY DEF InQueue, Queued, Msgs
    <3> QED  BY <3>1, Known
  <2>2. \A m : (\E w \in Workers : job[w] # Idle /\ job[w].msg = m) => m \in published
    BY JobType
  <2>3. lost \subseteq published  BY DEF IInv, TypeOK
  <2> QED  BY <1>7, <2>1, <2>2, <2>3 DEF InFlight
<1>9. TypeOK'
  BY <1>1, <1>3, <1>4, <1>5, <1>8, FailureCount DEF IInv, TypeOK, BrokerRestart
<1>10. DeclaredOK'  BY <1>1, <1>2, DeclaredKept
<1>11. Queued' = {}
  <2>1. Msgs(<<>>) = {}  BY DEF Msgs
  <2> QED  BY <2>1 DEF Queued, BrokerRestart
<1>12. Ended \cup {m \in Messages : InFlight(m)} \subseteq Ended'
  BY <1>7 DEF Ended, BrokerRestart
<1> QED  BY <1>1, <1>5, <1>6, <1>9, <1>10, <1>11, <1>12, Known, Assemble

LEMMA Inductive == IInv /\ [Next]_vars => IInv'
<1> SUFFICES ASSUME IInv, [Next]_vars PROVE IInv'
  OBVIOUS
<1>1. CASE \E p \in Processes : Declare(p)  BY <1>1, DeclareStep
<1>2. CASE \E p \in Processes : Stop(p)  BY <1>2, StopStep
<1>3. CASE \E p \in Processes : \E m \in Messages : Publish(p, m)  BY <1>3, PublishStep
<1>4. CASE \E q \in Queues : Expire(q)  BY <1>4, ExpireStep
<1>5. CASE Tick  BY <1>5, TickStep
<1>6. CASE \E w \in Workers : Work(w)
  BY <1>6, TakeStep, SettleStep, RetryStep, AcknowledgeStep DEF Work
<1>7. CASE \E w \in Workers : WorkerDies(w)  BY <1>7, WorkerDiesStep
<1>8. CASE \E w \in Workers : Reject(w)  BY <1>8, RejectStep
<1>9. CASE BrokerRestart  BY <1>9, RestartStep
<1>10. CASE UNCHANGED vars
  <2>1. UNCHANGED <<declared, setup, waiting, job, published, settled, rejected, redelivered,
                    lost, faults>>
    BY <1>10 DEF vars, history
  <2>2. TypeOK'  BY <2>1 DEF IInv, TypeOK
  <2>3. DeclaredOK'  BY <2>1, DeclaredKept
  <2>4. Queued' = Queued /\ Tried' = Tried /\ Ended' = Ended
    BY <2>1 DEF Queued, Tried, Working, Ended
  <2> QED  BY <2>1, <2>2, <2>3, <2>4, Known, Assemble DEF IInv, KnownOK
<1> QED
  BY <1>1, <1>2, <1>3, <1>4, <1>5, <1>6, <1>7, <1>8, <1>9, <1>10 DEF Next, Quiet

-----------------------------------------------------------------------------
(* Theorems *)

\* The invariant holds in every reachable state.
THEOREM Invariant == Spec => []IInv
<1>1. Init => IInv  BY InitOK
<1>2. IInv /\ [Next]_vars => IInv'  BY Inductive
<1> QED  BY <1>1, <1>2, PTL DEF Spec

\* Every variable has its type.
THEOREM TypeCorrect == Spec => []TypeOK
<1>1. IInv => TypeOK  BY DEF IInv
<1> QED  BY <1>1, Invariant, PTL

\* While a process serves, every key in use leads to exactly one queue.
THEOREM ServingRoutes == Spec => []ServingIsRouted
<1>1. IInv => ServingIsRouted
  <2> SUFFICES ASSUME IInv, NEW p \in Processes, Serving(p)
               PROVE  /\ Route("tasks.exchange", Key(0)) = {0}
                      /\ \A q \in Queues : Route("tasks.dlx", Key(q)) = {q}
    BY DEF ServingIsRouted
  <2> QED  BY Declared
<1> QED  BY <1>1, Invariant, PTL

\* A published task is queued, tried, or over, but for restarts and rejections.
THEOREM OnlyNamedLosses == Spec => []NothingElseIsLost
<1>1. IInv => NothingElseIsLost  BY DEF IInv
<1> QED  BY <1>1, Invariant, PTL

=============================================================================
