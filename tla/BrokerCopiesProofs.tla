-------------------------- MODULE BrokerCopiesProofs --------------------------
(***************************************************************************)
(* More theorems of Broker: where the copies of a message can be, and how  *)
(* long they wait there, for any number of processes, workers, messages,   *)
(* retry queues and attempts, and any number of failures.                  *)
(***************************************************************************)
EXTENDS BrokerProofs, FiniteSetTheorems

\* A queue has a message at most once.
Once(s, m) == \A i, j \in DOMAIN s : s[i].msg = m /\ s[j].msg = m => i = j

Held(w, m) == Working(w) /\ job[w].msg = m

\* The message is in one queue, or with one worker, or settled.
Alone(m) ==
  /\ \A q \in Queues : Once(waiting[q], m)
  /\ \A q, k \in Queues : m \in Msgs(waiting[q]) /\ m \in Msgs(waiting[k]) => q = k
  /\ \A v, w \in Workers : Held(v, m) /\ Held(w, m) => v = w
  /\ m \in Queued => m \notin Tried
  /\ m \in settled => m \notin Queued \cup Tried

PlacesInv == \A m \in published \ redelivered : Alone(m)

\* The retry queue of the n-th attempt.
LevelOf(n) == IF n <= Levels THEN n ELSE Levels

\* A retry queue has the attempts of its level, the oldest first, and none that is overdue.
Due(q, s) ==
  /\ \A i \in DOMAIN s : LevelOf(s[i].done) = q /\ s[i].age <= Ttl(q)
  /\ \A i, j \in DOMAIN s : i < j => s[i].age >= s[j].age

DueInv == \A q \in 1 .. Levels : Due(q, waiting[q])

-----------------------------------------------------------------------------
(* What each step does to the queues *)

LEMMA PublishMoves ==
  ASSUME IInv, NEW p \in Processes, NEW m \in Messages, Publish(p, m)
  PROVE  /\ \A q \in Queues :
              waiting'[q] = IF q = 0 THEN Append(waiting[q], Untried(m)) ELSE waiting[q]
         /\ Untried(m) \in Copy /\ Untried(m).msg = m
<1>1. Route("tasks.exchange", Key(0)) = {0}
  BY Declared DEF Publish
<1>2. 0 \in 0 .. MaxAttempts - 1  BY Numbers
<1> QED  BY <1>1, <1>2, CopyType DEF Publish, Delivered, Untried

LEMMA ExpireMoves ==
  ASSUME IInv, NEW q \in Queues, Expire(q)
  PROVE  LET c == Head(waiting[q])
             e == Entering(c.msg, c.done)
         IN  /\ waiting[q] \in Seq(Copy) /\ waiting[q] # <<>> /\ q # 0
             /\ c \in Copy /\ c.age >= Ttl(q)
             /\ e \in Copy /\ e.msg = c.msg
             /\ \A k \in Queues :
                  waiting'[k] = IF k = 0 THEN Append(waiting[k], e)
                                ELSE IF k = q THEN Tail(waiting[k]) ELSE waiting[k]
<1> DEFINE c == Head(waiting[q])
           e == Entering(c.msg, c.done)
<1>1. waiting[q] \in Seq(Copy) /\ waiting[q] # <<>> /\ q # 0 /\ c.age >= Ttl(q)
  BY Numbers DEF IInv, TypeOK, Expire, Expired, Queues
<1>2. c \in Copy /\ Msgs(waiting[q]) = Msgs(Tail(waiting[q])) \cup {c.msg}
  BY <1>1, Removing
<1>3. e \in Copy /\ e.msg = c.msg
  <2>1. c.msg \in Messages /\ c.done \in 0 .. MaxAttempts - 1  BY <1>2 DEF Copy
  <2> QED  BY <2>1, CopyType
<1>4. c.msg \in published  BY <1>2, Known
<1>5. Route("tasks.dlx", Key(0)) = {0}  BY <1>4, DeadLetters, Numbers
<1>6. waiting' = Delivered([waiting EXCEPT ![q] = Tail(waiting[q])], "tasks.dlx", Key(0), e)
  BY DEF Expire, ExpiryKey
<1> HIDE DEF e, c
<1>7. waiting' = [k \in Queues |->
        IF k = 0 THEN Append([waiting EXCEPT ![q] = Tail(waiting[q])][k], e)
                 ELSE [waiting EXCEPT ![q] = Tail(waiting[q])][k]]
  BY <1>5, <1>6 DEF Delivered
<1>8. \A k \in Queues : [waiting EXCEPT ![q] = Tail(waiting[q])][k]
                          = IF k = q THEN Tail(waiting[k]) ELSE waiting[k]
  BY DEF IInv, TypeOK
<1>9. \A k \in Queues :
        waiting'[k] = IF k = 0 THEN Append(waiting[k], e)
                      ELSE IF k = q THEN Tail(waiting[k]) ELSE waiting[k]
  BY <1>1, <1>7, <1>8
<1> QED  BY <1>1, <1>2, <1>3, <1>9 DEF e, c

LEMMA RetryMoves ==
  ASSUME IInv, NEW w \in Workers, Retry(w)
  PROVE  LET n == job[w].done + 1
             e == Entering(job[w].msg, n)
         IN  /\ n \in 0 .. MaxAttempts - 1 /\ LevelOf(n) \in Queues
             /\ e \in Copy /\ e.msg = job[w].msg
             /\ \A q \in Queues :
                  waiting'[q] = IF q = LevelOf(n) THEN Append(waiting[q], e) ELSE waiting[q]
<1> DEFINE n == job[w].done + 1
           e == Entering(job[w].msg, n)
<1>1. /\ job[w].msg \in Messages /\ job[w].msg \in published
      /\ job[w].done \in 0 .. MaxAttempts - 1
  BY JobType DEF Retry, Working
<1>2. n \in 0 .. MaxAttempts - 1 /\ LevelOf(n) \in Queues
  BY <1>1, Numbers DEF Retry, Queues, LevelOf
<1>3. Route("tasks.dlx", Key(LevelOf(n))) = {LevelOf(n)}  BY <1>1, <1>2, DeadLetters
<1>4. e \in Copy /\ e.msg = job[w].msg  BY <1>1, <1>2, CopyType
<1>5. waiting' = Delivered(waiting, "tasks.dlx", Key(LevelOf(n)), e)
  BY DEF Retry, LevelOf
<1> HIDE DEF n, e
<1>6. \A q \in Queues :
        waiting'[q] = IF q = LevelOf(n) THEN Append(waiting[q], e) ELSE waiting[q]
  BY <1>3, <1>5 DEF Delivered
<1> QED  BY <1>2, <1>4, <1>6 DEF n, e

\* The key that tasks.queue dead-letters with is no queue's.
LEMMA RejectMoves ==
  ASSUME IInv, NEW w \in Workers, Reject(w)
  PROVE  \A q \in Queues : waiting'[q] = waiting[q]
<1>1. ASSUME NEW i \in 1 .. Steps, NEW q, NEW x
      PROVE  Declaration(i) # <<"bind", q, x, RejectKey>>
  <2>1. CASE i \in 1 .. 5
    <3>1. i = 1 \/ i = 2 \/ i = 3 \/ i = 4 \/ i = 5  BY <2>1
    <3> QED  BY <3>1, First DEF Key, RejectKey
  <2>2. CASE \E n \in 1 .. Levels : i = 2 * n + 4 \/ i = 2 * n + 5
    <3>1. PICK n \in 1 .. Levels : i = 2 * n + 4 \/ i = 2 * n + 5  BY <2>2
    <3>2. Declaration(i) = <<"queue", n>>
          \/ Declaration(i) = <<"bind", n, "tasks.dlx", Key(n)>>
      BY <3>1, Level
    <3> QED  BY <3>2 DEF Key, RejectKey
  <2> QED  BY <2>1, <2>2, Others
<1>2. declared \subseteq {Declaration(i) : i \in 1 .. Steps}  BY DEF IInv, TypeOK
<1>3. Route("tasks.dlx", RejectKey) = {}  BY <1>1, <1>2 DEF Route
<1> QED  BY <1>3 DEF Reject, Delivered

\* Of the steps that are left, only these two touch the queues.
LEMMA TakeMoves ==
  ASSUME IInv, NEW w \in Workers, Take(w)
  PROVE  LET c == Head(waiting[0])
         IN  /\ waiting[0] \in Seq(Copy) /\ waiting[0] # <<>>
             /\ \A q \in Queues :
                  waiting'[q] = IF q = 0 THEN Tail(waiting[q]) ELSE waiting[q]
             /\ ~Working(w) /\ c.msg \in Queued
             /\ \A m : Held(w, m)' <=> m = c.msg
<1> DEFINE c == Head(waiting[0])
           j == [msg |-> c.msg, done |-> c.done, sent |-> FALSE]
<1>1. waiting[0] \in Seq(Copy) /\ waiting[0] # <<>>  BY Numbers DEF IInv, TypeOK, Take
<1>2. c \in Copy /\ Msgs(waiting[0]) = Msgs(Tail(waiting[0])) \cup {c.msg}
  BY <1>1, Removing
<1>3. j \in Job /\ j # Idle
  <2>1. c.msg \in Messages /\ c.done \in 0 .. MaxAttempts - 1  BY <1>2 DEF Copy
  <2>2. j \in Job  BY <2>1 DEF Job
  <2> QED  BY <2>2, BrokerAssumption
<1>4. c.msg \in Queued  BY <1>2, Known, Numbers
<1>5. job' = [job EXCEPT ![w] = j] /\ waiting' = [waiting EXCEPT ![0] = Tail(waiting[0])]
      /\ ~Working(w)
  BY DEF Take, Working
<1>6. j.msg = c.msg /\ j.sent = FALSE  OBVIOUS
<1> HIDE DEF j, c
<1>7. job'[w] = j  BY <1>5 DEF IInv, TypeOK
<1>8. Working(w)' /\ job'[w].msg = c.msg
  <2>1. job'[w].msg = c.msg  BY <1>6, <1>7
  <2>2. Working(w)'  BY <1>3, <1>6, <1>7, Zenon DEF Working
  <2> QED  BY <2>1, <2>2
<1>9. \A q \in Queues : waiting'[q] = IF q = 0 THEN Tail(waiting[q]) ELSE waiting[q]
  BY <1>5 DEF IInv, TypeOK
<1>10. \A m : Held(w, m)' <=> m = c.msg  BY <1>8 DEF Held
<1> QED  BY <1>1, <1>4, <1>5, <1>9, <1>10 DEF c

-----------------------------------------------------------------------------
(* One copy in a queue *)

\* A message that is not in the queue is there at most once, to be sure.
LEMMA OnceAbsent ==
  ASSUME NEW s, NEW m, m \notin Msgs(s)
  PROVE  Once(s, m)
BY DEF Once, Msgs

LEMMA OnceAppended ==
  ASSUME NEW s \in Seq(Copy), NEW c \in Copy, NEW m, Once(s, m),
         c.msg = m => m \notin Msgs(s)
  PROVE  Once(Append(s, c), m)
<1> DEFINE a == Append(s, c)
<1>1. /\ Len(s) \in Nat /\ DOMAIN s = 1 .. Len(s) /\ DOMAIN a = 1 .. (Len(s) + 1)
      /\ \A i \in DOMAIN s : a[i] = s[i]
      /\ a[Len(s) + 1] = c
  OBVIOUS
<1> HIDE DEF a
<1>2. \A i \in DOMAIN a : i \in DOMAIN s \/ i = Len(s) + 1  BY <1>1
<1>3. \A i \in DOMAIN s : s[i].msg = m => c.msg # m  BY DEF Msgs
<1>4. ASSUME NEW i \in DOMAIN a, NEW j \in DOMAIN a, a[i].msg = m, a[j].msg = m
      PROVE  i = j
  BY <1>1, <1>2, <1>3, <1>4 DEF Once
<1> QED  BY <1>4 DEF a, Once

LEMMA OncePrepended ==
  ASSUME NEW s \in Seq(Copy), NEW c \in Copy, NEW m, Once(s, m), c.msg # m
  PROVE  Once(<<c>> \o s, m)
<1> DEFINE a == <<c>> \o s
<1>1. /\ Len(s) \in Nat /\ DOMAIN s = 1 .. Len(s) /\ DOMAIN a = 1 .. (Len(s) + 1)
      /\ \A i \in DOMAIN s : a[i + 1] = s[i]
      /\ a[1] = c
  OBVIOUS
<1> HIDE DEF a
<1>2. ASSUME NEW i \in DOMAIN a, a[i].msg = m
      PROVE  i \in Nat /\ i - 1 \in DOMAIN s /\ s[i - 1].msg = m
  <2>1. i # 1 /\ i \in Nat  BY <1>1, <1>2
  <2>2. i - 1 \in DOMAIN s /\ (i - 1) + 1 = i  BY <1>1, <2>1
  <2>3. a[i] = s[i - 1]  BY <1>1, <2>2
  <2> QED  BY <1>2, <2>1, <2>2, <2>3
<1>3. ASSUME NEW i \in DOMAIN a, NEW j \in DOMAIN a, a[i].msg = m, a[j].msg = m
      PROVE  i = j
  <2>1. i - 1 = j - 1  BY <1>2, <1>3 DEF Once
  <2> QED  BY <1>2, <1>3, <2>1
<1> QED  BY <1>3 DEF a, Once

LEMMA OnceRemoved ==
  ASSUME NEW s \in Seq(Copy), s # <<>>, NEW m, Once(s, m)
  PROVE  /\ Once(Tail(s), m)
         /\ Head(s).msg = m => m \notin Msgs(Tail(s))
<1> DEFINE t == Tail(s)
<1>1. /\ Len(s) \in Nat /\ Len(s) >= 1 /\ DOMAIN s = 1 .. Len(s)
      /\ DOMAIN t = 1 .. (Len(s) - 1)
      /\ \A i \in DOMAIN t : t[i] = s[i + 1]
      /\ s[1] = Head(s)
  OBVIOUS
<1> HIDE DEF t
<1>2. \A i \in DOMAIN t : i \in Nat /\ i >= 1 /\ i + 1 \in DOMAIN s  BY <1>1
<1>3. ASSUME NEW i \in DOMAIN t, NEW j \in DOMAIN t, t[i].msg = m, t[j].msg = m
      PROVE  i = j
  <2>1. i + 1 = j + 1  BY <1>1, <1>2, <1>3 DEF Once
  <2> QED  BY <1>2, <2>1
<1>4. ASSUME Head(s).msg = m, NEW i \in DOMAIN t, t[i].msg = m
      PROVE  FALSE
  <2>1. 1 \in DOMAIN s /\ s[1].msg = m  BY <1>1, <1>4
  <2>2. i + 1 = 1  BY <1>1, <1>2, <1>4, <2>1 DEF Once
  <2> QED  BY <1>2, <2>2
<1> QED  BY <1>3, <1>4 DEF t, Once, Msgs

LEMMA OnceAged ==
  ASSUME NEW s \in Seq(Copy), NEW m, Once(s, m)
  PROVE  Once([i \in DOMAIN s |-> [s[i] EXCEPT !.age = @ + 1]], m)
<1> DEFINE a == [i \in DOMAIN s |-> [s[i] EXCEPT !.age = @ + 1]]
<1>1. ASSUME NEW c \in Copy  PROVE  [c EXCEPT !.age = @ + 1].msg = c.msg
  BY DEF Copy
<1>2. \A i \in DOMAIN s : s[i] \in Copy  OBVIOUS
<1>3. DOMAIN a = DOMAIN s /\ \A i \in DOMAIN s : a[i].msg = s[i].msg  BY <1>1, <1>2
<1> HIDE DEF a
<1>4. Once(a, m)  BY <1>3 DEF Once
<1> QED  BY <1>4 DEF a

-----------------------------------------------------------------------------
(* One place for a message *)

\* A step that brings the message nowhere.
LEMMA Fewer ==
  ASSUME NEW m, Alone(m),
         \A q \in Queues : Once(waiting'[q], m)
                          /\ (m \in Msgs(waiting'[q]) => m \in Msgs(waiting[q])),
         \A w \in Workers : Held(w, m)' => Held(w, m),
         m \in settled' => m \in settled
  PROVE  Alone(m)'
<1>1. m \in Queued' => m \in Queued  BY DEF Queued
<1>2. m \in Tried' => m \in Tried  BY DEF Tried, Held
<1> QED  BY <1>1, <1>2 DEF Alone

\* A step after which one queue has it.
LEMMA OnlyIn ==
  ASSUME NEW m, NEW t \in Queues, Once(waiting'[t], m),
         \A q \in Queues : q # t => m \notin Msgs(waiting'[q]),
         \A w \in Workers : ~Held(w, m)',
         m \notin settled'
  PROVE  Alone(m)'
<1>1. \A q \in Queues : Once(waiting'[q], m)  BY OnceAbsent
<1>2. m \notin Tried'  BY DEF Tried, Held
<1> QED  BY <1>1, <1>2 DEF Alone

\* A step after which one worker has it.
LEMMA OnlyWith ==
  ASSUME NEW m, NEW w \in Workers,
         \A q \in Queues : m \notin Msgs(waiting'[q]),
         \A v \in Workers : Held(v, m)' => v = w,
         m \notin settled'
  PROVE  Alone(m)'
<1>1. \A q \in Queues : Once(waiting'[q], m)  BY OnceAbsent
<1>2. m \notin Queued'  BY DEF Queued
<1> QED  BY <1>1, <1>2 DEF Alone

\* A step after which nobody has it.
LEMMA Nowhere ==
  ASSUME NEW m,
         \A q \in Queues : m \notin Msgs(waiting'[q]),
         \A v \in Workers : ~Held(v, m)'
  PROVE  Alone(m)'
<1>1. \A q \in Queues : Once(waiting'[q], m)  BY OnceAbsent
<1>2. m \notin Queued'  BY DEF Queued
<1>3. m \notin Tried'  BY DEF Tried, Held
<1> QED  BY <1>1, <1>2, <1>3 DEF Alone

\* What has not been published is nowhere.
LEMMA Unpublished ==
  ASSUME IInv, NEW m, m \notin published
  PROVE  /\ \A q \in Queues : m \notin Msgs(waiting[q])
         /\ \A w \in Workers : ~Held(w, m)
         /\ m \notin settled
BY DEF IInv, KnownOK, TypeOK, Held, Working

\* A step that moves no message, and makes no worker begin.
LEMMA Unmoved ==
  ASSUME PlacesInv, NEW m \in published \ redelivered,
         \A q \in Queues : waiting'[q] = waiting[q],
         \A w \in Workers : Held(w, m)' => Held(w, m),
         m \in settled' => m \in settled
  PROVE  Alone(m)'
<1>1. Alone(m)  BY DEF PlacesInv
<1>2. \A q \in Queues : Once(waiting'[q], m)
                       /\ (m \in Msgs(waiting'[q]) => m \in Msgs(waiting[q]))
  BY <1>1 DEF Alone
<1> QED  BY <1>1, <1>2, Fewer

\* A worker that becomes idle has nothing.
LEMMA Released ==
  ASSUME IInv, NEW w \in Workers, job' = [job EXCEPT ![w] = Idle], NEW m
  PROVE  \A v \in Workers : Held(v, m)' <=> (v # w /\ Held(v, m))
<1>1. \A v \in Workers : job'[v] = IF v = w THEN Idle ELSE job[v]  BY DEF IInv, TypeOK
<1> QED  BY <1>1 DEF Held, Working

LEMMA PublishPlaces ==
  ASSUME IInv, PlacesInv, NEW p \in Processes, NEW n \in Messages, Publish(p, n),
         NEW m \in (published \ redelivered)'
  PROVE  Alone(m)'
<1>1. /\ \A q \in Queues :
           waiting'[q] = IF q = 0 THEN Append(waiting[q], Untried(n)) ELSE waiting[q]
      /\ Untried(n) \in Copy /\ Untried(n).msg = n
  BY PublishMoves
<1>2. \A q \in Queues : waiting[q] \in Seq(Copy)  BY DEF IInv, TypeOK
<1>3. /\ published' = published \cup {n} /\ n \notin published
      /\ redelivered' = redelivered /\ settled' = settled /\ job' = job
  BY DEF Publish
<1>4. \A w \in Workers : Held(w, m)' <=> Held(w, m)  BY <1>3 DEF Held, Working
<1>5. 0 \in Queues  BY Numbers
<1>6. CASE m = n
  <2>1. /\ \A q \in Queues : m \notin Msgs(waiting[q])
        /\ \A w \in Workers : ~Held(w, m)
        /\ m \notin settled
    BY <1>3, <1>6, Unpublished
  <2>2. Once(waiting'[0], m)
    <3>1. Once(waiting[0], m)  BY <1>5, <2>1, OnceAbsent
    <3>2. Once(Append(waiting[0], Untried(n)), m)
      BY <1>1, <1>2, <1>5, <2>1, <3>1, OnceAppended
    <3> QED  BY <1>1, <1>5, <3>2
  <2>3. \A q \in Queues : q # 0 => m \notin Msgs(waiting'[q])  BY <1>1, <2>1
  <2> QED  BY <1>3, <1>4, <1>5, <2>1, <2>2, <2>3, OnlyIn
<1>7. CASE m # n
  <2>1. m \in published \ redelivered  BY <1>3, <1>7
  <2>2. Alone(m)  BY <2>1 DEF PlacesInv
  <2>3. ASSUME NEW q \in Queues
        PROVE  /\ Once(waiting'[q], m)
               /\ m \in Msgs(waiting'[q]) => m \in Msgs(waiting[q])
    <3>1. Once(waiting[q], m)  BY <2>2 DEF Alone
    <3>2. CASE q # 0  BY <1>1, <3>1, <3>2
    <3>3. CASE q = 0
      <4>1. waiting'[q] = Append(waiting[q], Untried(n))  BY <1>1, <3>3
      <4>2. Once(Append(waiting[q], Untried(n)), m)
        BY <1>1, <1>2, <1>7, <3>1, OnceAppended
      <4>3. Msgs(Append(waiting[q], Untried(n))) = Msgs(waiting[q]) \cup {n}
        BY <1>1, <1>2, Appending
      <4> QED  BY <1>7, <4>1, <4>2, <4>3
    <3> QED  BY <3>2, <3>3
  <2> QED  BY <1>3, <1>4, <2>2, <2>3, Fewer
<1> QED  BY <1>6, <1>7

LEMMA ExpirePlaces ==
  ASSUME IInv, PlacesInv, NEW q \in Queues, Expire(q), NEW m \in published \ redelivered
  PROVE  Alone(m)'
<1> DEFINE c == Head(waiting[q])
           e == Entering(c.msg, c.done)
<1>1. /\ waiting[q] \in Seq(Copy) /\ waiting[q] # <<>> /\ q # 0
      /\ c \in Copy /\ e \in Copy /\ e.msg = c.msg
      /\ \A k \in Queues :
           waiting'[k] = IF k = 0 THEN Append(waiting[k], e)
                         ELSE IF k = q THEN Tail(waiting[k]) ELSE waiting[k]
  BY ExpireMoves
<1>2. c.msg \in Msgs(waiting[q]) /\ Tail(waiting[q]) \in Seq(Copy)
      /\ Msgs(waiting[q]) = Msgs(Tail(waiting[q])) \cup {c.msg}
  BY <1>1, Removing
<1>3. Alone(m)  BY DEF PlacesInv
<1>4. \A k \in Queues : waiting[k] \in Seq(Copy) /\ Once(waiting[k], m)
  BY <1>3 DEF IInv, TypeOK, Alone
<1>5. /\ Once(Tail(waiting[q]), m)
      /\ c.msg = m => m \notin Msgs(Tail(waiting[q]))
  BY <1>1, <1>4, OnceRemoved
<1>6. /\ settled' = settled
      /\ \A w \in Workers : Held(w, m)' <=> Held(w, m)
  BY DEF Expire, history, Held, Working
<1>7. 0 \in Queues  BY Numbers
<1> HIDE DEF c, e
<1>8. CASE c.msg = m
  <2>1. \A k \in Queues : m \in Msgs(waiting[k]) => k = q
    BY <1>2, <1>3, <1>8 DEF Alone
  <2>2. m \in Queued  BY <1>2, <1>8 DEF Queued
  <2>3. m \notin settled /\ \A w \in Workers : ~Held(w, m)
    BY <1>3, <2>2 DEF Alone, Tried, Held
  <2>4. m \notin Msgs(waiting[0])  BY <1>1, <1>7, <2>1
  <2>5. Once(Append(waiting[0], e), m)  BY <1>1, <1>4, <1>7, <2>4, OnceAppended
  <2>6. Once(waiting'[0], m)  BY <1>1, <1>7, <2>5
  <2>7. \A k \in Queues : k # 0 => m \notin Msgs(waiting'[k])
    BY <1>1, <1>5, <1>8, <2>1
  <2> QED  BY <1>6, <1>7, <2>3, <2>6, <2>7, OnlyIn
<1>9. CASE c.msg # m
  <2>1. ASSUME NEW k \in Queues
        PROVE  /\ Once(waiting'[k], m)
               /\ m \in Msgs(waiting'[k]) => m \in Msgs(waiting[k])
    <3>1. CASE k = 0
      <4>1. waiting'[k] = Append(waiting[k], e)  BY <1>1, <3>1
      <4>2. Once(Append(waiting[k], e), m)  BY <1>1, <1>4, <1>9, OnceAppended
      <4>3. Msgs(Append(waiting[k], e)) = Msgs(waiting[k]) \cup {e.msg}
        BY <1>1, <1>4, Appending
      <4> QED  BY <1>1, <1>9, <4>1, <4>2, <4>3
    <3>2. CASE k = q
      <4>1. waiting'[k] = Tail(waiting[q])  BY <1>1, <3>2
      <4> QED  BY <1>2, <1>5, <3>2, <4>1
    <3>3. CASE k # 0 /\ k # q  BY <1>1, <1>4, <3>3
    <3> QED  BY <3>1, <3>2, <3>3
  <2> QED  BY <1>3, <1>6, <2>1, Fewer
<1> QED  BY <1>8, <1>9

LEMMA TickPlaces ==
  ASSUME IInv, PlacesInv, Tick, NEW m \in published \ redelivered
  PROVE  Alone(m)'
<1>1. Alone(m)  BY DEF PlacesInv
<1>2. \A q \in Queues : waiting[q] \in Seq(Copy) /\ Once(waiting[q], m)
  BY <1>1 DEF IInv, TypeOK, Alone
<1>3. ASSUME NEW q \in Queues
      PROVE  Once(waiting'[q], m) /\ Msgs(waiting'[q]) = Msgs(waiting[q])
  <2>1. CASE q = 0  BY <1>2, <2>1 DEF Tick
  <2>2. CASE q # 0
    <3>1. waiting'[q] = [i \in DOMAIN waiting[q] |-> [waiting[q][i] EXCEPT !.age = @ + 1]]
      BY <2>2 DEF Tick
    <3> QED  BY <1>2, <3>1, Aging, OnceAged
  <2> QED  BY <2>1, <2>2
<1>4. settled' = settled /\ \A w \in Workers : Held(w, m)' => Held(w, m)
  BY DEF Tick, history, Held, Working
<1> QED  BY <1>1, <1>3, <1>4, Fewer

LEMMA TakePlaces ==
  ASSUME IInv, PlacesInv, NEW w \in Workers, Take(w), NEW m \in published \ redelivered
  PROVE  Alone(m)'
<1> DEFINE c == Head(waiting[0])
<1>1. /\ waiting[0] \in Seq(Copy) /\ waiting[0] # <<>>
      /\ \A q \in Queues :
           waiting'[q] = IF q = 0 THEN Tail(waiting[q]) ELSE waiting[q]
      /\ ~Working(w) /\ c.msg \in Queued
      /\ \A n : Held(w, n)' <=> n = c.msg
  BY TakeMoves
<1>2. /\ Tail(waiting[0]) \in Seq(Copy)
      /\ Msgs(waiting[0]) = Msgs(Tail(waiting[0])) \cup {c.msg}
  BY <1>1, Removing
<1>3. Alone(m)  BY DEF PlacesInv
<1>4. 0 \in Queues  BY Numbers
<1>5. /\ Once(Tail(waiting[0]), m)
      /\ c.msg = m => m \notin Msgs(Tail(waiting[0]))
  BY <1>1, <1>3, <1>4, OnceRemoved DEF Alone
<1>6. /\ settled' = settled
      /\ \A v \in Workers : v # w => (Held(v, m)' <=> Held(v, m))
  BY DEF Take, history, Held, Working, IInv, TypeOK
<1> HIDE DEF c
<1>7. CASE c.msg = m
  <2>1. m \notin settled /\ \A v \in Workers : ~Held(v, m)
    BY <1>1, <1>3, <1>7 DEF Alone, Tried, Held
  <2>2. \A q \in Queues : m \notin Msgs(waiting'[q])
    BY <1>1, <1>2, <1>3, <1>4, <1>5, <1>7 DEF Alone
  <2> QED  BY <1>6, <2>1, <2>2, OnlyWith
<1>8. CASE c.msg # m
  <2>1. \A q \in Queues : Once(waiting'[q], m)
                         /\ (m \in Msgs(waiting'[q]) => m \in Msgs(waiting[q]))
    BY <1>1, <1>2, <1>3, <1>5 DEF Alone
  <2>2. \A v \in Workers : Held(v, m)' => Held(v, m)  BY <1>1, <1>6, <1>8
  <2>3. m \in settled' => m \in settled  BY <1>6
  <2> QED  BY <1>3, <2>1, <2>2, <2>3, Fewer
<1> QED  BY <1>7, <1>8

LEMMA SettlePlaces ==
  ASSUME IInv, PlacesInv, NEW w \in Workers, Settle(w), NEW m \in published \ redelivered
  PROVE  Alone(m)'
<1>1. /\ job' = [job EXCEPT ![w] = Idle] /\ settled' = settled \cup {job[w].msg}
      /\ Working(w) /\ \A q \in Queues : waiting'[q] = waiting[q]
  BY DEF Settle
<1>2. \A v \in Workers : Held(v, m)' <=> (v # w /\ Held(v, m))  BY <1>1, Released
<1>3. CASE job[w].msg = m
  <2>1. Alone(m) /\ Held(w, m) /\ m \in Tried
    BY <1>1, <1>3 DEF PlacesInv, Held, Tried
  <2>2. \A v \in Workers : Held(v, m) => v = w  BY <2>1 DEF Alone
  <2>3. \A q \in Queues : m \notin Msgs(waiting[q])  BY <2>1 DEF Alone, Queued
  <2> QED  BY <1>1, <1>2, <2>2, <2>3, Nowhere
<1>4. CASE job[w].msg # m  BY <1>1, <1>2, <1>4, Unmoved
<1> QED  BY <1>3, <1>4

LEMMA RetryPlaces ==
  ASSUME IInv, PlacesInv, NEW w \in Workers, Retry(w), NEW m \in published \ redelivered
  PROVE  Alone(m)'
<1> DEFINE n == job[w].done + 1
           e == Entering(job[w].msg, n)
           l == LevelOf(n)
<1>1. /\ l \in Queues /\ e \in Copy /\ e.msg = job[w].msg
      /\ \A q \in Queues :
           waiting'[q] = IF q = l THEN Append(waiting[q], e) ELSE waiting[q]
  BY RetryMoves
<1>2. Working(w) /\ settled' = settled  BY DEF Retry, history
<1>3. Alone(m)  BY DEF PlacesInv
<1>4. \A q \in Queues : waiting[q] \in Seq(Copy) /\ Once(waiting[q], m)
  BY <1>3 DEF IInv, TypeOK, Alone
<1>5. \A v \in Workers : Held(v, m)' <=> (v # w /\ Held(v, m))
  <2>1. job[w] \in Job  BY <1>2, JobType DEF Working
  <2>2. job'[w].sent = TRUE  BY <2>1 DEF Retry, IInv, TypeOK, Job
  <2>3. \A v \in Workers : v # w => job'[v] = job[v]  BY DEF Retry, IInv, TypeOK
  <2> QED  BY <2>2, <2>3 DEF Held, Working
<1> HIDE DEF n, e, l
<1>6. CASE job[w].msg = m
  <2>1. Held(w, m) /\ m \in Tried  BY <1>2, <1>6 DEF Held, Tried
  <2>2. \A v \in Workers : Held(v, m) => v = w  BY <1>3, <2>1 DEF Alone
  <2>3. m \notin settled /\ \A q \in Queues : m \notin Msgs(waiting[q])
    BY <1>3, <2>1 DEF Alone, Queued
  <2>4. Once(Append(waiting[l], e), m)  BY <1>1, <1>4, <2>3, OnceAppended
  <2>5. Once(waiting'[l], m)  BY <1>1, <2>4
  <2>6. \A q \in Queues : q # l => m \notin Msgs(waiting'[q])  BY <1>1, <2>3
  <2> QED  BY <1>1, <1>2, <1>5, <2>2, <2>3, <2>5, <2>6, OnlyIn
<1>7. CASE job[w].msg # m
  <2>1. ASSUME NEW q \in Queues
        PROVE  /\ Once(waiting'[q], m)
               /\ m \in Msgs(waiting'[q]) => m \in Msgs(waiting[q])
    <3>1. CASE q = l
      <4>1. waiting'[q] = Append(waiting[q], e)  BY <1>1, <3>1
      <4>2. Once(Append(waiting[q], e), m)  BY <1>1, <1>4, <1>7, OnceAppended
      <4>3. Msgs(Append(waiting[q], e)) = Msgs(waiting[q]) \cup {e.msg}
        BY <1>1, <1>4, Appending
      <4> QED  BY <1>1, <1>7, <4>1, <4>2, <4>3
    <3>2. CASE q # l  BY <1>1, <1>4, <3>2
    <3> QED  BY <3>1, <3>2
  <2> QED  BY <1>2, <1>3, <1>5, <2>1, Fewer
<1> QED  BY <1>6, <1>7

LEMMA WorkerDiesPlaces ==
  ASSUME IInv, PlacesInv, NEW w \in Workers, WorkerDies(w),
         NEW m \in published \ redelivered, m # job[w].msg
  PROVE  Alone(m)'
<1> DEFINE c == Entering(job[w].msg, job[w].done)
<1>1. job[w].msg \in Messages /\ job[w].done \in 0 .. MaxAttempts - 1
  BY JobType DEF WorkerDies
<1>2. c \in Copy /\ c.msg = job[w].msg  BY <1>1, CopyType
<1>3. \A q \in Queues : waiting'[q] = IF q = 0 THEN <<c>> \o waiting[q] ELSE waiting[q]
  BY DEF WorkerDies, IInv, TypeOK
<1> HIDE DEF c
<1>4. Alone(m)  BY DEF PlacesInv
<1>5. \A q \in Queues : waiting[q] \in Seq(Copy) /\ Once(waiting[q], m)
  BY <1>4 DEF IInv, TypeOK, Alone
<1>6. ASSUME NEW q \in Queues
      PROVE  /\ Once(waiting'[q], m)
             /\ m \in Msgs(waiting'[q]) => m \in Msgs(waiting[q])
  <2>1. CASE q = 0
    <3>1. waiting'[q] = <<c>> \o waiting[q]  BY <1>3, <2>1
    <3>2. Once(<<c>> \o waiting[q], m)  BY <1>2, <1>5, OncePrepended
    <3>3. Msgs(<<c>> \o waiting[q]) = Msgs(waiting[q]) \cup {c.msg}
      BY <1>2, <1>5, Prepending
    <3> QED  BY <1>2, <3>1, <3>2, <3>3
  <2>2. CASE q # 0  BY <1>3, <1>5, <2>2
  <2> QED  BY <2>1, <2>2
<1>7. settled' = settled  BY DEF WorkerDies
<1>8. \A v \in Workers : Held(v, m)' => Held(v, m)  BY Released DEF WorkerDies
<1> QED  BY <1>4, <1>6, <1>7, <1>8, Fewer

LEMMA RestartPlaces ==
  ASSUME BrokerRestart, NEW m
  PROVE  Alone(m)'
<1>1. \A q \in Queues : m \notin Msgs(waiting'[q])  BY DEF BrokerRestart, Msgs
<1>2. \A w \in Workers : ~Held(w, m)'  BY DEF BrokerRestart, Held, Working
<1> QED  BY <1>1, <1>2, Nowhere

LEMMA PlacesKept == IInv /\ PlacesInv /\ [Next]_vars => PlacesInv'
<1> SUFFICES ASSUME IInv, PlacesInv, [Next]_vars, NEW m \in (published \ redelivered)'
             PROVE  Alone(m)'
  BY DEF PlacesInv
<1>1. ASSUME ~\E p \in Processes : \E n \in Messages : Publish(p, n),
             ~\E w \in Workers : WorkerDies(w)
      PROVE  published' = published /\ redelivered' = redelivered
  BY <1>1 DEF Next, Declare, Stop, Expire, Tick, Work, Take, Settle, Retry, Acknowledge,
              Reject, BrokerRestart, Quiet, vars, history
<1>2. CASE \E p \in Processes : \E n \in Messages : Publish(p, n)
  BY <1>2, PublishPlaces
<1>3. ASSUME NEW w \in Workers, WorkerDies(w)
      PROVE  Alone(m)'
  <2>1. published' = published /\ redelivered' = redelivered \cup {job[w].msg}
    BY <1>3 DEF WorkerDies
  <2>2. m \in published \ redelivered /\ m # job[w].msg  BY <2>1
  <2> QED  BY <1>3, <2>2, WorkerDiesPlaces
<1> SUFFICES ASSUME ~\E p \in Processes : \E n \in Messages : Publish(p, n),
                    ~\E w \in Workers : WorkerDies(w)
             PROVE  Alone(m)'
  BY <1>2, <1>3
<1>4. m \in published \ redelivered  BY <1>1
<1>5. ASSUME UNCHANGED <<waiting, job, settled>>
      PROVE  Alone(m)'
  BY <1>4, <1>5, Unmoved DEF Held, Working
<1>6. CASE \E p \in Processes : Declare(p) \/ Stop(p)
  BY <1>5, <1>6 DEF Declare, Stop, history
<1>7. CASE \E q \in Queues : Expire(q)  BY <1>4, <1>7, ExpirePlaces
<1>8. CASE Tick  BY <1>4, <1>8, TickPlaces
<1>9. CASE \E w \in Workers : Take(w)  BY <1>4, <1>9, TakePlaces
<1>10. CASE \E w \in Workers : Settle(w)  BY <1>4, <1>10, SettlePlaces
<1>11. CASE \E w \in Workers : Retry(w)  BY <1>4, <1>11, RetryPlaces
<1>12. ASSUME NEW w \in Workers, Acknowledge(w)
       PROVE  Alone(m)'
  <2>1. job' = [job EXCEPT ![w] = Idle] /\ waiting' = waiting /\ settled' = settled
    BY <1>12 DEF Acknowledge, history
  <2>2. \A v \in Workers : Held(v, m)' => Held(v, m)  BY <2>1, Released
  <2> QED  BY <1>4, <2>1, <2>2, Unmoved
<1>13. ASSUME NEW w \in Workers, Reject(w)
       PROVE  Alone(m)'
  <2>1. job' = [job EXCEPT ![w] = Idle] /\ settled' = settled  BY <1>13 DEF Reject
  <2>2. \A q \in Queues : waiting'[q] = waiting[q]  BY <1>13, RejectMoves
  <2>3. \A v \in Workers : Held(v, m)' => Held(v, m)  BY <2>1, Released
  <2> QED  BY <1>4, <2>1, <2>2, <2>3, Unmoved
<1>14. CASE BrokerRestart  BY <1>14, RestartPlaces
<1>15. CASE UNCHANGED vars  BY <1>5, <1>15 DEF vars, history
<1> QED
  BY <1>6, <1>7, <1>8, <1>9, <1>10, <1>11, <1>12, <1>13, <1>14, <1>15
  DEF Next, Work, Quiet

\* The copies of a message that is alone are counted: none, or one.
LEMMA Counted ==
  ASSUME IInv, NEW m, Alone(m)
  PROVE  Copies(m) + (IF m \in settled THEN 1 ELSE 0) <= 1
<1> DEFINE at(q) == {j \in DOMAIN waiting[q] : waiting[q][j].msg = m}
           P     == UNION {{<<q, i>> : i \in at(q)} : q \in Queues}
           H     == {w \in Workers : Working(w) /\ job[w].msg = m}
<1>1. Copies(m) = Cardinality(P) + Cardinality(H)  BY DEF Copies
<1>2. \A x : x \in P <=> \E q \in Queues : \E i \in at(q) : x = <<q, i>>
  OBVIOUS
<1>3. ASSUME NEW x \in P, NEW y \in P
      PROVE  x = y
  <2>1. PICK q \in Queues : \E i \in at(q) : x = <<q, i>>  BY <1>2
  <2>2. PICK k \in Queues : \E i \in at(k) : y = <<k, i>>  BY <1>2
  <2>3. PICK i \in at(q) : x = <<q, i>>  BY <2>1
  <2>4. PICK j \in at(k) : y = <<k, j>>  BY <2>2
  <2>5. m \in Msgs(waiting[q]) /\ m \in Msgs(waiting[k])  BY DEF Msgs
  <2>6. q = k  BY <2>5 DEF Alone
  <2>7. i = j  BY <2>6 DEF Alone, Once
  <2> QED  BY <2>3, <2>4, <2>6, <2>7
<1>4. P # {} => m \in Queued
  <2> SUFFICES ASSUME NEW x \in P  PROVE  m \in Queued
    OBVIOUS
  <2>1. PICK q \in Queues : \E i \in at(q) : x = <<q, i>>  BY <1>2
  <2> QED  BY <2>1 DEF Queued, Msgs
<1>5. \A v, w \in H : v = w  BY DEF Alone, Held
<1>6. H # {} => m \in Tried  BY DEF Tried
<1> HIDE DEF P, H
<1>7. P = {} \/ \E x : P = {x}
  <2>1. CASE P = {}  BY <2>1
  <2>2. CASE P # {}
    <3>1. PICK x : x \in P  BY <2>2
    <3>2. P = {x}  BY <1>3, <3>1
    <3> QED  BY <3>2
  <2> QED  BY <2>1, <2>2
<1>8. H = {} \/ \E x : H = {x}
  <2>1. CASE H = {}  BY <2>1
  <2>2. CASE H # {}
    <3>1. PICK x : x \in H  BY <2>2
    <3>2. H = {x}  BY <1>5, <3>1
    <3> QED  BY <3>2
  <2> QED  BY <2>1, <2>2
<1>9. /\ Cardinality(P) = 0 \/ (Cardinality(P) = 1 /\ P # {})
      /\ Cardinality(H) = 0 \/ (Cardinality(H) = 1 /\ H # {})
  BY <1>7, <1>8, FS_EmptySet, FS_Singleton
<1>10. /\ P # {} => H = {} /\ m \notin settled
       /\ H # {} => m \notin settled
  BY <1>4, <1>6 DEF Alone
<1>11. (P = {} => Cardinality(P) = 0) /\ (H = {} => Cardinality(H) = 0)
  BY FS_EmptySet
<1> QED  BY <1>1, <1>9, <1>10, <1>11

\* A task is in at most one place, or settled, whatever happens, unless a worker died
\* with it: neither routing nor retries ever duplicate a message.
THEOREM DeathsDuplicate == Spec => []OnlyDeathsDuplicate
<1>1. Init => PlacesInv  BY DEF Init, PlacesInv
<1>2. IInv /\ PlacesInv /\ [Next]_vars => PlacesInv'  BY PlacesKept
<1>3. IInv /\ PlacesInv => OnlyDeathsDuplicate
  BY Counted DEF PlacesInv, OnlyDeathsDuplicate
<1> QED  BY <1>1, <1>2, <1>3, Invariant, PTL DEF Spec

-----------------------------------------------------------------------------
(* How long a retry waits *)

\* A power of two is the number of subsets of a finite set.
LEMMA TtlType ==
  ASSUME NEW q \in 1 .. Levels
  PROVE  Ttl(q) \in Nat
<1> DEFINE n == q - 1
           S == 1 .. n
<1>1. n \in Nat  BY Numbers
<1>2. IsFiniteSet(S) /\ Cardinality(S) = n
  <2>1. 1 \in Int /\ n \in Int /\ (IF 1 > n THEN 0 ELSE n - 1 + 1) = n  BY <1>1
  <2> HIDE DEF n
  <2> QED  BY <2>1, FS_Interval
<1> HIDE DEF S
<1>3. IsFiniteSet(SUBSET S) /\ Cardinality(SUBSET S) = 2 ^ n
  BY <1>2, FS_SUBSET
<1>4. Cardinality(SUBSET S) \in Nat  BY <1>3, FS_CardinalityType
<1> QED  BY <1>3, <1>4 DEF Ttl

LEMMA CopyAge ==
  ASSUME NEW c \in Copy
  PROVE  c.age \in Nat /\ c.done \in Nat
BY Numbers DEF Copy

LEMMA DueEmpty ==
  ASSUME NEW q
  PROVE  Due(q, <<>>)
BY DEF Due

LEMMA DueAppended ==
  ASSUME NEW q \in 1 .. Levels, NEW s \in Seq(Copy), Due(q, s),
         NEW c \in Copy, c.age = 0, LevelOf(c.done) = q
  PROVE  Due(q, Append(s, c))
<1> DEFINE a == Append(s, c)
<1>1. /\ Len(s) \in Nat /\ DOMAIN s = 1 .. Len(s) /\ DOMAIN a = 1 .. (Len(s) + 1)
      /\ \A i \in DOMAIN s : a[i] = s[i] /\ s[i] \in Copy
      /\ a[Len(s) + 1] = c
  OBVIOUS
<1> HIDE DEF a
<1>2. \A i \in DOMAIN a : i \in DOMAIN s \/ i = Len(s) + 1  BY <1>1
<1>3. 0 <= Ttl(q)  BY TtlType
<1>4. \A i \in DOMAIN a : LevelOf(a[i].done) = q /\ a[i].age <= Ttl(q)
  BY <1>1, <1>2, <1>3 DEF Due
<1>5. ASSUME NEW i \in DOMAIN a, NEW j \in DOMAIN a, i < j
      PROVE  a[i].age >= a[j].age
  <2>1. i \in DOMAIN s  BY <1>1, <1>2, <1>5
  <2>2. CASE j \in DOMAIN s  BY <1>1, <1>5, <2>1, <2>2 DEF Due
  <2>3. CASE j = Len(s) + 1
    <3>1. a[j].age = 0 /\ a[i].age \in Nat  BY <1>1, <2>1, <2>3, CopyAge
    <3> QED  BY <3>1
  <2> QED  BY <1>2, <2>2, <2>3
<1> QED  BY <1>4, <1>5 DEF a, Due

LEMMA DueRemoved ==
  ASSUME NEW q \in 1 .. Levels, NEW s \in Seq(Copy), s # <<>>, Due(q, s)
  PROVE  Due(q, Tail(s)) /\ LevelOf(Head(s).done) = q /\ Head(s).age <= Ttl(q)
<1> DEFINE t == Tail(s)
<1>1. /\ Len(s) \in Nat /\ Len(s) >= 1 /\ DOMAIN s = 1 .. Len(s)
      /\ DOMAIN t = 1 .. (Len(s) - 1)
      /\ \A i \in DOMAIN t : t[i] = s[i + 1]
      /\ s[1] = Head(s)
  OBVIOUS
<1> HIDE DEF t
<1>2. \A i \in DOMAIN t : i \in Nat /\ i + 1 \in DOMAIN s  BY <1>1
<1>3. \A i \in DOMAIN t : LevelOf(t[i].done) = q /\ t[i].age <= Ttl(q)
  BY <1>1, <1>2 DEF Due
<1>4. \A i, j \in DOMAIN t : i < j => t[i].age >= t[j].age
  <2> SUFFICES ASSUME NEW i \in DOMAIN t, NEW j \in DOMAIN t, i < j
               PROVE  t[i].age >= t[j].age
    OBVIOUS
  <2>1. i + 1 < j + 1  BY <1>2
  <2> QED  BY <1>1, <1>2, <2>1 DEF Due
<1>5. 1 \in DOMAIN s  BY <1>1
<1>6. LevelOf(Head(s).done) = q /\ Head(s).age <= Ttl(q)  BY <1>1, <1>5 DEF Due
<1> QED  BY <1>3, <1>4, <1>6 DEF t, Due

\* A second that goes by makes none overdue, if the oldest was not due.
LEMMA DueAged ==
  ASSUME NEW q \in 1 .. Levels, NEW s \in Seq(Copy), Due(q, s),
         s # <<>> => ~(Head(s).age >= Ttl(q))
  PROVE  Due(q, [i \in DOMAIN s |-> [s[i] EXCEPT !.age = @ + 1]])
<1> DEFINE a == [i \in DOMAIN s |-> [s[i] EXCEPT !.age = @ + 1]]
<1>1. ASSUME NEW c \in Copy
      PROVE  [c EXCEPT !.age = @ + 1].age = c.age + 1
             /\ [c EXCEPT !.age = @ + 1].done = c.done
  BY DEF Copy
<1>2. \A i \in DOMAIN s : s[i] \in Copy /\ s[i].age \in Nat  BY CopyAge
<1>3. /\ DOMAIN a = DOMAIN s
      /\ \A i \in DOMAIN s : a[i].age = s[i].age + 1 /\ a[i].done = s[i].done
  BY <1>1, <1>2
<1>4. /\ Len(s) \in Nat /\ DOMAIN s = 1 .. Len(s)
      /\ s # <<>> => 1 \in DOMAIN s /\ Head(s) = s[1]
      /\ s = <<>> => DOMAIN s = {}
  OBVIOUS
<1> HIDE DEF a
<1>5. ASSUME NEW i \in DOMAIN s
      PROVE  s[i].age + 1 <= Ttl(q)
  <2>1. s # <<>> /\ 1 \in DOMAIN s /\ Head(s) = s[1]  BY <1>4
  <2>2. s[1].age \in Nat /\ Ttl(q) \in Nat /\ s[1].age < Ttl(q)
    BY <1>2, <2>1, TtlType
  <2>3. s[i].age <= s[1].age /\ s[i].age \in Nat
    <3>1. i = 1 \/ 1 < i  BY <1>4
    <3> QED  BY <1>2, <2>1, <3>1 DEF Due
  <2> QED  BY <2>2, <2>3
<1>6. \A i \in DOMAIN a : LevelOf(a[i].done) = q /\ a[i].age <= Ttl(q)
  BY <1>3, <1>5 DEF Due
<1>7. \A i, j \in DOMAIN a : i < j => a[i].age >= a[j].age
  <2> SUFFICES ASSUME NEW i \in DOMAIN s, NEW j \in DOMAIN s, i < j
               PROVE  s[i].age + 1 >= s[j].age + 1
    BY <1>3
  <2> QED  BY <1>2 DEF Due
<1> QED  BY <1>6, <1>7 DEF a, Due

LEMMA RetryQueues ==
  ASSUME NEW q \in 1 .. Levels
  PROVE  q \in Queues /\ q # 0
BY Numbers DEF Queues

LEMMA DueKept == IInv /\ DueInv /\ [Next]_vars => DueInv'
<1> SUFFICES ASSUME IInv, DueInv, [Next]_vars, NEW q \in 1 .. Levels
             PROVE  Due(q, waiting'[q])
  BY DEF DueInv
<1>1. q \in Queues /\ q # 0 /\ Due(q, waiting[q]) /\ waiting[q] \in Seq(Copy)
  BY RetryQueues DEF DueInv, IInv, TypeOK
<1>2. CASE waiting'[q] = waiting[q]  BY <1>1, <1>2
<1>3. ASSUME NEW p \in Processes, Declare(p) \/ Stop(p)
      PROVE  waiting'[q] = waiting[q]
  BY <1>3 DEF Declare, Stop
<1>4. ASSUME NEW p \in Processes, NEW m \in Messages, Publish(p, m)
      PROVE  waiting'[q] = waiting[q]
  BY <1>1, <1>4, PublishMoves
<1>5. ASSUME NEW k \in Queues, Expire(k)
      PROVE  Due(q, waiting'[q])
  <2>1. waiting[k] # <<>> /\ (waiting'[q] = IF q = k THEN Tail(waiting[q]) ELSE waiting[q])
    BY <1>1, <1>5, ExpireMoves
  <2> QED  BY <1>1, <2>1, DueRemoved
<1>6. ASSUME Tick
      PROVE  Due(q, waiting'[q])
  <2>1. /\ waiting[q] # <<>> => ~(Head(waiting[q]).age >= Ttl(q))
        /\ waiting'[q] = [i \in DOMAIN waiting[q] |-> [waiting[q][i] EXCEPT !.age = @ + 1]]
    BY <1>1, <1>6, Numbers DEF Tick, Expired
  <2> QED  BY <1>1, <2>1, DueAged
<1>7. ASSUME NEW w \in Workers, Take(w)
      PROVE  waiting'[q] = waiting[q]
  BY <1>1, <1>7, TakeMoves
<1>8. ASSUME NEW w \in Workers, Settle(w) \/ Acknowledge(w)
      PROVE  waiting'[q] = waiting[q]
  BY <1>8 DEF Settle, Acknowledge
<1>9. ASSUME NEW w \in Workers, Retry(w)
      PROVE  Due(q, waiting'[q])
  <2> DEFINE n == job[w].done + 1
             e == Entering(job[w].msg, n)
  <2>1. /\ e \in Copy
        /\ waiting'[q] = IF q = LevelOf(n) THEN Append(waiting[q], e) ELSE waiting[q]
    BY <1>1, <1>9, RetryMoves
  <2>2. e.age = 0 /\ e.done = n  BY DEF Entering
  <2> HIDE DEF e, n
  <2> QED  BY <1>1, <2>1, <2>2, DueAppended
<1>10. ASSUME NEW w \in Workers, WorkerDies(w)
       PROVE  waiting'[q] = waiting[q]
  BY <1>1, <1>10 DEF WorkerDies, IInv, TypeOK
<1>11. ASSUME NEW w \in Workers, Reject(w)
       PROVE  waiting'[q] = waiting[q]
  BY <1>1, <1>11, RejectMoves
<1>12. ASSUME BrokerRestart
       PROVE  Due(q, waiting'[q])
  <2>1. waiting'[q] = <<>>  BY <1>1, <1>12 DEF BrokerRestart
  <2> QED  BY <2>1, DueEmpty
<1>13. CASE UNCHANGED vars  BY <1>1, <1>13 DEF vars
<1> QED
  BY <1>2, <1>3, <1>4, <1>5, <1>6, <1>7, <1>8, <1>9, <1>10, <1>11, <1>12, <1>13
  DEF Next, Work, Quiet

\* A queue that has lost its first message and nothing else has had it expire.
LEMMA Leaves ==
  ASSUME IInv, [Next]_vars, faults' = faults, NEW q \in 1 .. Levels,
         waiting[q] # <<>>, waiting'[q] = Tail(waiting[q])
  PROVE  Expire(q)
<1>1. q \in Queues /\ q # 0 /\ waiting[q] \in Seq(Copy)
  BY RetryQueues DEF IInv, TypeOK
<1>2. /\ Len(waiting'[q]) = Len(waiting[q]) - 1
      /\ Len(waiting[q]) \in Nat
  BY <1>1
<1>3. waiting'[q] # waiting[q]
  <2> SUFFICES ASSUME waiting'[q] = waiting[q]  PROVE FALSE
    OBVIOUS
  <2>1. Len(waiting[q]) = Len(waiting[q]) - 1  BY <1>2
  <2> QED  BY <1>2, <2>1
<1>4. \A p \in Processes : ~Declare(p) /\ ~Stop(p)  BY <1>3 DEF Declare, Stop
<1>5. ASSUME NEW p \in Processes, NEW m \in Messages  PROVE ~Publish(p, m)
  BY <1>1, <1>3, PublishMoves
<1>6. ASSUME NEW k \in Queues, Expire(k)  PROVE k = q
  BY <1>1, <1>3, <1>6, ExpireMoves
<1>7. ~Tick
  <2> SUFFICES ASSUME Tick  PROVE FALSE
    OBVIOUS
  <2>1. waiting'[q] = [i \in DOMAIN waiting[q] |-> [waiting[q][i] EXCEPT !.age = @ + 1]]
    BY <1>1 DEF Tick
  <2>2. DOMAIN (waiting'[q]) = DOMAIN waiting[q]  BY <2>1
  <2>3. /\ DOMAIN waiting[q] = 1 .. Len(waiting[q])
        /\ DOMAIN Tail(waiting[q]) = 1 .. (Len(waiting[q]) - 1)
        /\ Len(waiting[q]) >= 1
    BY <1>1
  <2>4. Len(waiting[q]) \in 1 .. (Len(waiting[q]) - 1)  BY <1>2, <2>2, <2>3
  <2> QED  BY <1>2, <2>4
<1>8. ASSUME NEW w \in Workers
      PROVE  ~Take(w) /\ ~Settle(w) /\ ~Acknowledge(w)
  <2>1. ~Take(w)  BY <1>1, <1>3, TakeMoves
  <2> QED  BY <1>3, <2>1 DEF Settle, Acknowledge
<1>9. ASSUME NEW w \in Workers  PROVE ~Retry(w)
  <2> SUFFICES ASSUME Retry(w)  PROVE FALSE
    OBVIOUS
  <2> DEFINE n == job[w].done + 1
             e == Entering(job[w].msg, n)
  <2>1. /\ e \in Copy
        /\ waiting'[q] = IF q = LevelOf(n) THEN Append(waiting[q], e) ELSE waiting[q]
    BY <1>1, RetryMoves
  <2> HIDE DEF e, n
  <2>2. Len(Append(waiting[q], e)) = Len(waiting[q]) + 1  BY <1>1, <2>1
  <2>3. waiting'[q] = Append(waiting[q], e)  BY <1>3, <2>1
  <2>4. Len(waiting[q]) + 1 = Len(waiting[q]) - 1  BY <1>2, <2>2, <2>3
  <2> QED  BY <1>2, <2>4
<1>10. /\ \A w \in Workers : ~WorkerDies(w) /\ ~Reject(w)
       /\ ~BrokerRestart
  <2>1. ASSUME NEW kind, Fails(kind)  PROVE FALSE
    <3>1. faults \in 0 .. MaxFaults /\ faults' = faults + 1 /\ MaxFaults \in Nat
      BY <2>1, BrokerAssumption DEF Fails, IInv, TypeOK
    <3> QED  BY <3>1
  <2> QED  BY <2>1 DEF WorkerDies, Reject, BrokerRestart
<1>11. ~UNCHANGED vars  BY <1>3 DEF vars
<1> QED
  BY <1>4, <1>5, <1>6, <1>7, <1>8, <1>9, <1>10, <1>11 DEF Next, Work, Quiet

\* Every message of a retry queue is of its level and not overdue.
THEOREM RetriesAreDue == Spec => []DueInv
<1>1. Init => DueInv
  <2>1. \A q \in 1 .. Levels : Init => waiting[q] = <<>>  BY RetryQueues DEF Init
  <2> QED  BY <2>1, DueEmpty DEF DueInv
<1>2. IInv /\ DueInv /\ [Next]_vars => DueInv'  BY DueKept
<1> QED  BY <1>1, <1>2, Invariant, PTL DEF Spec

\* A retry waits as long as its number says, and for nothing else: the queues, each
\* with its own time to live, never hold a message up behind another.
THEOREM BackoffIsExact == Spec => BackoffDoubles
<1>1. IInv /\ DueInv /\ [Next]_vars =>
        [\A q \in Queues \ {0} :
           waiting[q] # <<>> /\ waiting'[q] = Tail(waiting[q]) /\ faults' = faults
           => LET c == Head(waiting[q])
              IN /\ c.age = Ttl(IF c.done <= Levels THEN c.done ELSE Levels)
                 /\ waiting'[0] = Append(waiting[0], Entering(c.msg, c.done))]_vars
  <2> SUFFICES ASSUME IInv, DueInv, [Next]_vars, NEW q \in Queues \ {0},
                      waiting[q] # <<>>, waiting'[q] = Tail(waiting[q]), faults' = faults
               PROVE  LET c == Head(waiting[q])
                      IN /\ c.age = Ttl(IF c.done <= Levels THEN c.done ELSE Levels)
                         /\ waiting'[0] = Append(waiting[0], Entering(c.msg, c.done))
    OBVIOUS
  <2> DEFINE c == Head(waiting[q])
             e == Entering(c.msg, c.done)
  <2>1. q \in 1 .. Levels  BY Numbers DEF Queues
  <2>2. Expire(q)  BY <2>1, Leaves
  <2>3. /\ waiting[q] \in Seq(Copy) /\ c \in Copy /\ c.age >= Ttl(q)
        /\ waiting'[0] = Append(waiting[0], e)
    BY <2>2, Numbers, ExpireMoves
  <2>4. LevelOf(c.done) = q /\ c.age <= Ttl(q)  BY <2>1, <2>3, DueRemoved DEF DueInv
  <2>5. c.age = Ttl(q)
    <3>1. c.age \in Nat /\ Ttl(q) \in Nat  BY <2>1, <2>3, CopyAge, TtlType
    <3> QED  BY <2>3, <2>4, <3>1
  <2> QED  BY <2>3, <2>4, <2>5 DEF LevelOf
<1> QED  BY <1>1, Invariant, RetriesAreDue, PTL DEF Spec, BackoffDoubles

=============================================================================
