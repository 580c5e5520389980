---------------------------- MODULE GatewayProofs ----------------------------
(***************************************************************************)
(* Theorems of Gateway, for any number of requests, any size of the pool   *)
(* and any choice of failures.                                             *)
(***************************************************************************)
EXTENDS Gateway, FiniteSetTheorems, TLAPS

-----------------------------------------------------------------------------
(* Sizes *)

\* The connections in use, the requests inside and those that have come can be counted.
LEMMA Finite ==
  ASSUME NEW S, S \subseteq Requests
  PROVE  IsFiniteSet(S) /\ Cardinality(S) \in Nat
BY GatewayAssumption, FS_Subset, FS_CardinalityType

LEMMA Adding ==
  ASSUME NEW S, S \subseteq Requests, NEW r \in Requests
  PROVE  Cardinality(S \cup {r}) = IF r \in S THEN Cardinality(S) ELSE Cardinality(S) + 1
BY Finite, FS_AddElement

LEMMA Removing ==
  ASSUME NEW S, S \subseteq Requests, NEW r \in Requests
  PROVE  Cardinality(S \ {r}) = IF r \in S THEN Cardinality(S) - 1 ELSE Cardinality(S)
BY Finite, FS_RemoveElement

\* The requests on which the gauge and the counters depend.
Within == {r \in Requests : Inside(r)}
Came   == {r \in Requests : at[r] # "absent"}

-----------------------------------------------------------------------------
(* The kinds of steps, as far as the metrics see them *)

\* Nobody comes, and nobody leaves the middlewares.
LEMMA MetricsRest ==
  ASSUME IInv, UNCHANGED metrics, Within' = Within, Came' = Came
  PROVE  MetricsAddUp'
BY DEF IInv, MetricsAddUp, metrics, Within, Came

\* A request moves between two points, both inside or both outside.
LEMMA MetricsMove ==
  ASSUME IInv, UNCHANGED metrics, NEW r \in Requests, NEW x \in Points,
         at' = [at EXCEPT ![r] = x], at[r] # "absent", x # "absent",
         at[r] \in {"commit", "done"} <=> x \in {"commit", "done"}
  PROVE  MetricsAddUp'
<1>1. \A q \in Requests : at'[q] = IF q = r THEN x ELSE at[q]
  BY DEF IInv, TypeOK
<1>2. Within' = Within  BY <1>1 DEF Within, Inside
<1>3. Came' = Came  BY <1>1 DEF Came
<1> QED  BY <1>2, <1>3, MetricsRest

\* A request leaves them, counted.
LEMMA MetricsAnswer ==
  ASSUME IInv, NEW r \in Requests, Answer(r)
  PROVE  MetricsAddUp'
<1>1. \A q \in Requests :
        at'[q] = IF q = r THEN (IF r \in held THEN "commit" ELSE "done") ELSE at[q]
  BY DEF IInv, TypeOK, Answer, Goes
<1>2. r \in Within /\ Within \subseteq Requests  BY DEF Answer, Within, Inside
<1>3. Within' = Within \ {r}  BY <1>1 DEF Within, Inside
<1>4. Came' = Came  BY <1>1 DEF Came, Answer
<1>5. Cardinality(Within') = Cardinality(Within) - 1 /\ Cardinality(Within) \in Nat
  BY <1>2, <1>3, Removing, Finite
<1>6. /\ gauge = Cardinality(Within) /\ gauge' = gauge - 1
      /\ counted' = counted + 1 /\ raised' = raised
      /\ counted + gauge + Cardinality(raised) = Cardinality(Came)
  BY DEF IInv, MetricsAddUp, Within, Came, Answer
<1>7. counted \in Nat /\ gauge \in Nat /\ Cardinality(raised) \in Nat
  BY Finite DEF IInv, TypeOK
<1>8. gauge' = Cardinality(Within')  BY <1>5, <1>6, <1>7
<1>9. counted' + gauge' + Cardinality(raised') = Cardinality(Came')
  BY <1>4, <1>6, <1>7
<1> QED  BY <1>8, <1>9 DEF MetricsAddUp, Within, Came

\* A request leaves them as an exception.
LEMMA MetricsRaise ==
  ASSUME IInv, NEW r \in Requests, Raise(r), at' = [at EXCEPT ![r] = "done"],
         at[r] \notin {"absent", "commit", "done"}
  PROVE  MetricsAddUp'
<1>1. \A q \in Requests : at'[q] = IF q = r THEN "done" ELSE at[q]
  BY DEF IInv, TypeOK
<1>2. r \in Within /\ Within \subseteq Requests  BY DEF Within, Inside
<1>3. Within' = Within \ {r}  BY <1>1 DEF Within, Inside
<1>4. Came' = Came  BY <1>1 DEF Came
<1>5. r \notin raised /\ raised \subseteq Requests  BY DEF IInv, TypeOK
<1>6. Cardinality(Within') = Cardinality(Within) - 1
  BY <1>2, <1>3, Removing
<1>7. raised' = raised \cup {r} /\ Cardinality(raised') = Cardinality(raised) + 1
  BY <1>5, Adding DEF Raise
<1>8. /\ gauge = Cardinality(Within) /\ gauge' = gauge - 1 /\ counted' = counted
      /\ counted + gauge + Cardinality(raised) = Cardinality(Came)
  BY DEF IInv, MetricsAddUp, Within, Came, Raise
<1>9. counted \in Nat /\ gauge \in Nat /\ Cardinality(raised) \in Nat
  BY <1>5, Finite DEF IInv, TypeOK
<1>10. gauge' = Cardinality(Within')  BY <1>6, <1>8
<1>11. counted' + gauge' + Cardinality(raised') = Cardinality(Came')
  BY <1>4, <1>7, <1>8, <1>9
<1> QED  BY <1>10, <1>11 DEF MetricsAddUp, Within, Came

\* A request enters.
LEMMA MetricsEnter ==
  ASSUME IInv, NEW r \in Requests, NEW k \in Kinds, Enter(r, k)
  PROVE  MetricsAddUp'
<1>1. \A q \in Requests : at'[q] = IF q = r THEN "limit" ELSE at[q]
  BY DEF IInv, TypeOK, Enter, Goes
<1>2. /\ r \notin Within /\ Within \subseteq Requests
      /\ r \notin Came /\ Came \subseteq Requests
  BY DEF Enter, Within, Inside, Came
<1>3. Within' = Within \cup {r}  BY <1>1 DEF Within, Inside
<1>4. Came' = Came \cup {r}  BY <1>1 DEF Came
<1>5. /\ Cardinality(Within') = Cardinality(Within) + 1
      /\ Cardinality(Came') = Cardinality(Came) + 1
  BY <1>2, <1>3, <1>4, Adding
<1>6. /\ gauge = Cardinality(Within) /\ gauge' = gauge + 1
      /\ counted' = counted /\ raised' = raised
      /\ counted + gauge + Cardinality(raised) = Cardinality(Came)
  BY DEF IInv, MetricsAddUp, Within, Came, Enter
<1>7. counted \in Nat /\ gauge \in Nat /\ Cardinality(raised) \in Nat
  BY Finite DEF IInv, TypeOK
<1>8. gauge' = Cardinality(Within')  BY <1>5, <1>6
<1>9. counted' + gauge' + Cardinality(raised') = Cardinality(Came')
  BY <1>5, <1>6, <1>7
<1> QED  BY <1>8, <1>9 DEF MetricsAddUp, Within, Came

\* The lifespan moves.
LEMMA MetricsMain ==
  ASSUME IInv, UNCHANGED metrics, NEW x, at' = [at EXCEPT ![Main] = x]
  PROVE  MetricsAddUp'
<1>1. \A q \in Requests : at'[q] = at[q]
  BY GatewayAssumption DEF IInv, TypeOK
<1>2. Within' = Within /\ Came' = Came  BY <1>1 DEF Within, Inside, Came
<1> QED  BY <1>2, MetricsRest

-----------------------------------------------------------------------------
(* The invariant in three parts, by the variables they are about *)

\* Where the requests and the lifespan are, and the RabbitMQ connection.
AtOK ==
  /\ at \in [Requests \cup {Main} -> Stages \cup Points]
  /\ at[Main] \in Stages /\ \A r \in Requests : at[r] \in Points
  /\ kind \in [Requests -> Kinds \cup {"none"}]
  /\ connected \in BOOLEAN
  /\ open \in Nat
  /\ LifecycleOK

\* The pool and the row lock.
PoolOK ==
  /\ held \subseteq Requests /\ Cardinality(held) <= PoolSize
  /\ waiting \subseteq Requests
  /\ lock \in Requests \cup {Nobody}
  /\ WaitersHoldNothing
  /\ lock # Nobody => lock \in held

\* The metrics.
CountOK ==
  /\ gauge \in Nat /\ counted \in Nat
  /\ raised \subseteq Requests
  /\ \A r \in raised : at[r] = "done"
  /\ MetricsAddUp

LEMMA Parts == IInv <=> AtOK /\ PoolOK /\ CountOK
BY DEF IInv, TypeOK, AtOK, PoolOK, CountOK

LEMMA PartsAfter == (AtOK /\ PoolOK /\ CountOK)' => IInv'
BY DEF IInv, TypeOK, AtOK, PoolOK, CountOK

-----------------------------------------------------------------------------
(* The pool *)

LEMMA PoolKept ==
  ASSUME IInv, UNCHANGED pool
  PROVE  PoolOK'
<1>1. PoolOK  BY Parts
<1> QED  BY <1>1 DEF PoolOK, WaitersHoldNothing, pool

LEMMA PoolReleased ==
  ASSUME IInv, NEW r \in Requests, GivesBack(r)
  PROVE  PoolOK'
<1>1. PoolOK  BY Parts
<1>2. Cardinality(held \ {r}) <= PoolSize
  <2>1. held \subseteq Requests /\ Cardinality(held) <= PoolSize  BY <1>1 DEF PoolOK
  <2>2. Cardinality(held) \in Nat /\ PoolSize \in Nat  BY <2>1, Finite, GatewayAssumption
  <2> QED  BY <2>1, <2>2, Removing
<1> QED  BY <1>1, <1>2, GatewayAssumption DEF PoolOK, WaitersHoldNothing, GivesBack

LEMMA PoolObtained ==
  ASSUME IInv, NEW r \in Requests, Obtain(r)
  PROVE  PoolOK'
<1>1. PoolOK  BY Parts
<1>2. Cardinality(held \cup {r}) <= PoolSize
  <2>1. held \subseteq Requests /\ Cardinality(held) < PoolSize
    BY <1>1 DEF PoolOK, Obtain, Room
  <2>2. Cardinality(held) \in Nat /\ PoolSize \in Nat  BY <2>1, Finite, GatewayAssumption
  <2> QED  BY <2>1, <2>2, Adding
<1> QED  BY <1>1, <1>2 DEF PoolOK, WaitersHoldNothing, Obtain

\* A request asks only if it has no connection, and so no lock.
LEMMA PoolAsked ==
  ASSUME IInv, NEW r \in Requests, Ask(r)
  PROVE  PoolOK'
<1>1. PoolOK  BY Parts
<1>2. r \notin held /\ lock # r  BY <1>1, GatewayAssumption DEF PoolOK, Ask, Wants
<1> QED  BY <1>1, <1>2 DEF PoolOK, WaitersHoldNothing, Ask

LEMMA PoolLocked ==
  ASSUME IInv, NEW r \in Requests, Lock(r)
  PROVE  PoolOK'
<1>1. PoolOK  BY Parts
<1> QED  BY <1>1 DEF PoolOK, WaitersHoldNothing, Lock, HasSession

-----------------------------------------------------------------------------
(* Moves *)

\* Whoever moves, the kinds stay kinds.
LEMMA KindMoves ==
  ASSUME IInv, NEW a, NEW x, Goes(a, x)
  PROVE  kind' \in [Requests -> Kinds \cup {"none"}]
BY DEF IInv, TypeOK, Goes

\* A request under way goes on, or ends.
LEMMA RequestMoves ==
  ASSUME IInv, UNCHANGED rabbit, NEW r \in Requests, NEW x \in Points,
         Goes(r, x), ~Over(r), x \notin {"absent", "connecting"}
  PROVE  /\ AtOK'
         /\ raised' = raised => \A q \in raised' : at'[q] = "done"
<1>1. AtOK /\ \A q \in raised : at[q] = "done"  BY Parts DEF CountOK
<1>2. /\ at' \in [Requests \cup {Main} -> Stages \cup Points]
      /\ at'[Main] = at[Main] /\ at'[r] = x
      /\ \A q \in Requests : q # r => at'[q] = at[q]
  BY <1>1, GatewayAssumption DEF AtOK, Goes
<1>3. LifecycleOK'
  <2>1. at[Main] \in {"serving", "draining"}  BY <1>1 DEF AtOK, LifecycleOK
  <2> QED  BY <1>1, <1>2, <2>1 DEF AtOK, LifecycleOK, Over, rabbit
<1>4. AtOK'  BY <1>1, <1>2, <1>3, KindMoves DEF AtOK, rabbit
<1>5. raised' = raised => \A q \in raised' : at'[q] = "done"
  <2>1. raised \subseteq Requests  BY Parts DEF CountOK
  <2> QED  BY <1>1, <1>2, <2>1 DEF Over
<1> QED  BY <1>4, <1>5

\* One that stays inside the middlewares, or outside, keeps the invariant if it keeps
\* the pool's part.
LEMMA MoveStep ==
  ASSUME IInv, UNCHANGED <<rabbit, metrics>>, PoolOK',
         NEW r \in Requests, NEW x \in Points, Goes(r, x),
         ~Over(r), x \notin {"absent", "connecting"},
         at[r] = "commit" <=> x = "done", x # "commit"
  PROVE  IInv'
<1>1. AtOK' /\ \A q \in raised' : at'[q] = "done"
  BY RequestMoves DEF metrics
<1>2. MetricsAddUp'
  <2>1. at[r] # "absent" /\ x # "absent"
        /\ (at[r] \in {"commit", "done"} <=> x \in {"commit", "done"})
        /\ UNCHANGED metrics
    BY DEF Over
  <2> QED  BY <2>1, MetricsMove DEF Goes
<1>3. CountOK  BY Parts
<1>4. CountOK'  BY <1>1, <1>2, <1>3 DEF CountOK, metrics
<1> QED  BY <1>1, <1>4, PartsAfter

LEMMA RaiseStep ==
  ASSUME IInv, UNCHANGED rabbit, PoolOK', NEW r \in Requests, Raise(r),
         Goes(r, "done"), at[r] \notin {"absent", "commit", "done"}
  PROVE  IInv'
<1>1. AtOK'
  <2>1. "done" \in Points /\ ~Over(r) /\ "done" \notin {"absent", "connecting"}
    BY DEF Points, Over
  <2> QED  BY <2>1, RequestMoves
<1>2. MetricsAddUp'  BY MetricsRaise DEF Goes
<1>3. CountOK  BY Parts
<1>4. gauge' \in Nat /\ counted' \in Nat
  <2>1. gauge' = Cardinality({q \in Requests : Inside(q)'})
    BY <1>2 DEF MetricsAddUp
  <2>2. Cardinality({q \in Requests : Inside(q)'}) \in Nat
    <3>1. {q \in Requests : Inside(q)'} \subseteq Requests  OBVIOUS
    <3> QED  BY <3>1, Finite
  <2> QED  BY <1>3, <2>1, <2>2 DEF CountOK, Raise
<1>5. raised' \subseteq Requests /\ \A q \in raised' : at'[q] = "done"
  <2>1. \A q \in Requests : at[q] = "done" \/ q = r => at'[q] = "done"
    BY DEF IInv, TypeOK, Goes
  <2> QED  BY <1>3, <2>1 DEF CountOK, Raise
<1>6. CountOK'  BY <1>2, <1>4, <1>5 DEF CountOK
<1> QED  BY <1>1, <1>6, PartsAfter

\* The lifespan moves, and the connection with it.
LEMMA MainStep ==
  ASSUME IInv, UNCHANGED <<pool, metrics>>, NEW x \in Stages,
         Goes(Main, x),
         x \notin {"serving", "draining"} => \A r \in Requests : Over(r),
         connected' \in BOOLEAN, open' = IF connected' THEN 1 ELSE 0,
         x \in {"redis", "database", "rabbitmq", "connecting", "stopped"} => ~connected',
         x \in {"structure", "serving", "draining"} => connected'
  PROVE  IInv'
<1>1. AtOK /\ CountOK  BY Parts
<1>2. /\ at' \in [Requests \cup {Main} -> Stages \cup Points]
      /\ at'[Main] = x /\ \A q \in Requests : at'[q] = at[q]
  BY <1>1, GatewayAssumption DEF AtOK, Goes
<1>3. LifecycleOK'  BY <1>1, <1>2 DEF AtOK, LifecycleOK, Over
<1>4. AtOK'  BY <1>1, <1>2, <1>3, KindMoves DEF AtOK
<1>5. UNCHANGED metrics /\ UNCHANGED pool  OBVIOUS
<1>6. MetricsAddUp'  BY <1>5, MetricsMain DEF Goes
<1>7. CountOK'  BY <1>1, <1>2, <1>5, <1>6 DEF CountOK, metrics
<1>8. PoolOK'  BY <1>5, PoolKept
<1> QED  BY <1>4, <1>7, <1>8, PartsAfter

-----------------------------------------------------------------------------
(* The steps *)

LEMMA InitOK == Init => IInv
<1> SUFFICES ASSUME Init PROVE IInv
  OBVIOUS
<1>1. Within = {} /\ Came = {}
  BY GatewayAssumption DEF Init, Within, Came, Inside
<1>2. Cardinality({}) = 0  BY FS_EmptySet
<1>3. at[Main] = "redis" /\ \A r \in Requests : at[r] = "absent"
  BY GatewayAssumption DEF Init, PreChecks
<1>4. AtOK
  BY <1>3 DEF Init, AtOK, LifecycleOK, PreChecks, Stages, Starting, Points, Over
<1>5. PoolOK  BY <1>2, GatewayAssumption DEF Init, PoolOK, WaitersHoldNothing
<1>6. CountOK  BY <1>1, <1>2 DEF Init, CountOK, MetricsAddUp, Within, Came
<1> QED  BY <1>4, <1>5, <1>6, Parts

LEMMA PreCheckStep ==
  ASSUME IInv, PreCheck
  PROVE  IInv'
<1>1. AtOK  BY Parts
<1>2. \/ at[Main] = "redis"     /\ Goes(Main, "database")
      \/ at[Main] = "database"  /\ Goes(Main, "rabbitmq")
      \/ at[Main] = "rabbitmq"  /\ Goes(Main, IF connected THEN "structure" ELSE "connecting")
      \/ at[Main] = "structure" /\ Goes(Main, "serving")
  BY DEF PreCheck, PreChecks, GetRabbitmq
<1>3. UNCHANGED <<pool, metrics, rabbit>>
  BY DEF PreCheck, GetRabbitmq
<1>4. UNCHANGED <<pool, metrics>> /\ connected' = connected /\ open' = open
  BY <1>3 DEF rabbit
<1>5. /\ connected \in BOOLEAN /\ open = IF connected THEN 1 ELSE 0
      /\ at[Main] \in {"redis", "database", "rabbitmq"} => ~connected
      /\ at[Main] = "structure" => connected
      /\ at[Main] \notin {"serving", "draining"} => \A r \in Requests : Over(r)
  BY <1>1 DEF AtOK, LifecycleOK
<1>6. CASE at[Main] = "redis"
  <2>1. Goes(Main, "database") /\ "database" \in Stages
    BY <1>2, <1>6 DEF Stages, Starting
  <2> QED  BY <1>4, <1>5, <1>6, <2>1, MainStep
<1>7. CASE at[Main] = "database"
  <2>1. Goes(Main, "rabbitmq") /\ "rabbitmq" \in Stages
    BY <1>2, <1>7 DEF Stages, Starting
  <2> QED  BY <1>4, <1>5, <1>7, <2>1, MainStep
<1>8. CASE at[Main] = "rabbitmq"
  <2>1. Goes(Main, "connecting") /\ "connecting" \in Stages
    BY <1>2, <1>5, <1>8 DEF Stages, Starting
  <2> QED  BY <1>4, <1>5, <1>8, <2>1, MainStep
<1>9. CASE at[Main] = "structure"
  <2>1. Goes(Main, "serving") /\ "serving" \in Stages
    BY <1>2, <1>9 DEF Stages, Starting
  <2> QED  BY <1>4, <1>5, <1>9, <2>1, MainStep
<1> QED  BY <1>2, <1>6, <1>7, <1>8, <1>9

\* A connection is opened by the lifespan only, when there is none.
LEMMA ConnectedStep ==
  ASSUME IInv, NEW a \in Requests \cup {Main}, Connected(a)
  PROVE  IInv'
<1>1. AtOK  BY Parts
<1>2. a = Main /\ at[Main] = "connecting"  BY <1>1 DEF AtOK, LifecycleOK, Connected
<1>3. Goes(Main, "structure") /\ "structure" \in Stages
  BY <1>2 DEF Connected, Stages, Starting
<1>4. /\ open = 0 /\ \A r \in Requests : Over(r)
  BY <1>1, <1>2 DEF AtOK, LifecycleOK, Connected
<1>5. connected' = TRUE /\ open' = 1  BY <1>4 DEF Connected
<1>6. UNCHANGED <<pool, metrics>>  BY DEF Connected
<1> QED  BY <1>3, <1>4, <1>5, <1>6, MainStep

LEMMA StopStep ==
  ASSUME IInv, Stop
  PROVE  IInv'
<1>1. AtOK  BY Parts
<1>2. Goes(Main, "draining") /\ "draining" \in Stages
  BY DEF Stop, Stages
<1>3. connected /\ connected' = connected /\ open' = open /\ open = 1 /\ connected \in BOOLEAN
  BY <1>1 DEF AtOK, LifecycleOK, Stop, rabbit
<1>4. UNCHANGED <<pool, metrics>>  BY DEF Stop
<1> QED  BY <1>2, <1>3, <1>4, MainStep

LEMMA ShutdownStep ==
  ASSUME IInv, PreShutdown
  PROVE  IInv'
<1>1. AtOK  BY Parts
<1>2. connected /\ open = 1 /\ connected \in BOOLEAN /\ \A r \in Requests : Over(r)
  BY <1>1 DEF AtOK, LifecycleOK, PreShutdown, Drained
<1>3. UNCHANGED <<pool, metrics>>  BY DEF PreShutdown
<1>4. CASE CloseRabbitmq /\ Goes(Main, "stopped")
  <2>1. Goes(Main, "stopped") /\ "stopped" \in Stages
    BY <1>4 DEF Stages
  <2>2. open' = 0 /\ connected' = FALSE  BY <1>2, <1>4 DEF CloseRabbitmq
  <2> QED  BY <1>2, <1>3, <2>1, <2>2, MainStep
<1>5. CASE UNCHANGED rabbit /\ Goes(Main, "uncleaned")
  <2>1. Goes(Main, "uncleaned") /\ "uncleaned" \in Stages
    BY <1>5 DEF Stages
  <2>2. open' = open /\ connected' = connected  BY <1>5 DEF rabbit
  <2> QED  BY <1>2, <1>3, <2>1, <2>2, MainStep
<1> QED  BY <1>4, <1>5 DEF PreShutdown

LEMMA EnterStep ==
  ASSUME IInv, NEW r \in Requests, NEW k \in Kinds, Enter(r, k)
  PROVE  IInv'
<1>1. AtOK /\ CountOK  BY Parts
<1>2. /\ at' \in [Requests \cup {Main} -> Stages \cup Points]
      /\ at'[Main] = "serving" /\ at'[r] = "limit"
      /\ \A q \in Requests : q # r => at'[q] = at[q]
  BY <1>1, GatewayAssumption DEF AtOK, Enter, Goes, Points
<1>3. LifecycleOK'
  BY <1>1, <1>2 DEF AtOK, LifecycleOK, Enter, Over, rabbit
<1>4. AtOK'
  BY <1>1, <1>2, <1>3 DEF AtOK, Enter, rabbit, Points, Stages, Starting
<1>5. MetricsAddUp'  BY MetricsEnter
<1>6. CountOK'  BY <1>1, <1>2, <1>5 DEF CountOK, Enter
<1>7. PoolOK'  BY PoolKept DEF Enter
<1> QED  BY <1>4, <1>6, <1>7, PartsAfter

LEMMA AnswerStep ==
  ASSUME IInv, NEW r \in Requests, Answer(r)
  PROVE  IInv'
<1>1. PICK x \in {"commit", "done"} : Goes(r, x)
  BY DEF Answer
<1>2. x \in Points /\ ~Over(r) /\ x \notin {"absent", "connecting"}
  BY <1>1 DEF Answer, Points, Over
<1>3. raised' = raised /\ UNCHANGED rabbit /\ UNCHANGED pool  BY DEF Answer
<1>4. AtOK' /\ \A q \in raised' : at'[q] = "done"
  BY <1>1, <1>2, <1>3, RequestMoves
<1>5. MetricsAddUp'  BY MetricsAnswer
<1>6. CountOK  BY Parts
<1>7. gauge' \in Nat
  <2>1. gauge' = Cardinality({q \in Requests : Inside(q)'})  BY <1>5 DEF MetricsAddUp
  <2>2. {q \in Requests : Inside(q)'} \subseteq Requests  OBVIOUS
  <2> QED  BY <2>1, <2>2, Finite
<1>8. CountOK'  BY <1>3, <1>4, <1>5, <1>6, <1>7 DEF CountOK, Answer
<1>9. PoolOK'  BY <1>3, PoolKept
<1> QED  BY <1>4, <1>8, <1>9, PartsAfter

\* Asking and obtaining change nothing but the pool.
LEMMA StayStep ==
  ASSUME IInv, UNCHANGED <<at, kind, rabbit, metrics>>, PoolOK'
  PROVE  IInv'
<1>1. AtOK /\ CountOK  BY Parts
<1>2. AtOK'  BY <1>1 DEF AtOK, LifecycleOK, Over, rabbit
<1>3. MetricsAddUp'
  <2>1. Within' = Within /\ Came' = Came  BY DEF Within, Came, Inside
  <2> QED  BY <2>1, MetricsRest
<1>4. CountOK'  BY <1>1, <1>3 DEF CountOK, metrics
<1> QED  BY <1>2, <1>4, PartsAfter

\* A request moves on inside the middlewares, or from its commit to its end.
LEMMA ProceedStep ==
  ASSUME IInv, NEW r \in Requests, Proceed(r) \/ Malformed(r) \/ EmptyBatch(r)
  PROVE  IInv'
<1> USE DEF Points, Over
<1>1. CASE Limit(r)
  <2>1. UNCHANGED pool /\ UNCHANGED <<rabbit, metrics>>  BY <1>1 DEF Limit
  <2>2. PICK x \in {"answer", "handle", "auth"} : Goes(r, x)
    BY <1>1 DEF Limit
  <2> QED  BY <1>1, <2>1, <2>2, PoolKept, MoveStep DEF Limit
<1>2. CASE Ask(r)
  BY <1>2, PoolAsked, StayStep DEF Ask
<1>3. CASE Obtain(r)
  BY <1>3, PoolObtained, StayStep DEF Obtain
<1>4. CASE Authorize(r)
  <2>1. PICK x \in {"handle", "answer"} : Goes(r, x)
    BY <1>4 DEF Authorize
  <2> QED  BY <1>4, <2>1, PoolReleased, MoveStep DEF Authorize
<1>5. CASE Handle(r)
  <2>1. PICK x \in {"publish", "lock", "answer"} : Goes(r, x)
    BY <1>5 DEF Handle
  <2>2. UNCHANGED pool \/ GivesBack(r)  BY <1>5 DEF Handle
  <2>3. PoolOK'  BY <2>2, PoolKept, PoolReleased
  <2> QED  BY <1>5, <2>1, <2>3, MoveStep DEF Handle
<1>6. CASE Publish(r)
  <2>1. connected
    <3>1. AtOK  BY Parts
    <3> QED  BY <1>6, <3>1 DEF AtOK, LifecycleOK, Publish
  <2>2. PICK x \in {"confirm", "publish", "answer"} : Goes(r, x)
    BY <1>6, <2>1 DEF Publish, AfterPublish, GetRabbitmq
  <2>3. UNCHANGED <<rabbit, metrics>> /\ UNCHANGED pool
    BY <1>6 DEF Publish, GetRabbitmq
  <2> QED  BY <1>6, <2>2, <2>3, PoolKept, MoveStep DEF Publish
<1>7. CASE Connected(r)
  BY <1>7, ConnectedStep
<1>8. CASE Confirm(r)
  BY <1>8, PoolReleased, MoveStep DEF Confirm
<1>9. CASE Lock(r)
  BY <1>9, PoolLocked, MoveStep DEF Lock
<1>10. CASE Check(r)
  <2>1. PoolOK'  BY <1>10, PoolKept, PoolReleased DEF Check
  <2> QED  BY <1>10, <2>1, MoveStep DEF Check
<1>11. CASE Answer(r)
  BY <1>11, AnswerStep
<1>12. CASE Finish(r)
  BY <1>12, PoolReleased, MoveStep DEF Finish
<1>13. CASE Malformed(r)
  <2>1. UNCHANGED pool  BY <1>13 DEF Malformed
  <2> QED  BY <1>13, <2>1, PoolKept, MoveStep DEF Malformed
<1>14. CASE EmptyBatch(r)
  <2>1. UNCHANGED pool  BY <1>14 DEF EmptyBatch
  <2> QED  BY <1>14, <2>1, PoolKept, MoveStep DEF EmptyBatch
<1> QED
  BY <1>1, <1>2, <1>3, <1>4, <1>5, <1>6, <1>7, <1>8, <1>9, <1>10, <1>11, <1>12, <1>13,
     <1>14
  DEF Proceed

LEMMA FailStep ==
  ASSUME IInv, NEW r \in Requests, Fail(r)
  PROVE  IInv'
<1> USE DEF Points, Over
<1>1. CASE LimiterFails(r)
  <2>1. UNCHANGED pool  BY <1>1 DEF LimiterFails
  <2> QED  BY <1>1, <2>1, PoolKept, RaiseStep DEF LimiterFails
<1>2. CASE PublishFails(r)
  <2>1. PoolOK'  BY <1>2, PoolReleased DEF PublishFails
  <2> QED  BY <1>2, <2>1, MoveStep DEF PublishFails
<1>3. CASE DatabaseFails(r)
  <2>1. PoolOK'  BY <1>3, PoolReleased DEF DatabaseFails
  <2>2. /\ UNCHANGED rabbit
        /\ at[r] \in {"auth", "handle", "confirm", "lock", "check"}
    BY <1>3 DEF DatabaseFails
  <2>3. CASE Goes(r, "answer") /\ UNCHANGED metrics
    BY <2>1, <2>2, <2>3, MoveStep
  <2>4. CASE Goes(r, "done") /\ Raise(r)
    BY <2>1, <2>2, <2>4, RaiseStep
  <2> QED  BY <1>3, <2>3, <2>4 DEF DatabaseFails
<1> QED  BY <1>1, <1>2, <1>3 DEF Fail

LEMMA Inductive == IInv /\ [Next]_vars => IInv'
<1> SUFFICES ASSUME IInv, [Next]_vars PROVE IInv'
  OBVIOUS
<1>1. CASE PreCheck  BY <1>1, PreCheckStep
<1>2. CASE Connected(Main)  BY <1>2, ConnectedStep
<1>3. CASE Stop  BY <1>3, StopStep
<1>4. CASE PreShutdown  BY <1>4, ShutdownStep
<1>5. CASE \E r \in Requests : Proceed(r) \/ Malformed(r) \/ EmptyBatch(r)
  BY <1>5, ProceedStep
<1>6. CASE \E r \in Requests : Fail(r)  BY <1>6, FailStep
<1>7. CASE \E r \in Requests : \E k \in Kinds : Enter(r, k)  BY <1>7, EnterStep
<1>8. CASE UNCHANGED vars
  <2>1. UNCHANGED pool /\ UNCHANGED <<at, kind, rabbit, metrics>>  BY <1>8 DEF vars
  <2> QED  BY <2>1, PoolKept, StayStep
<1> QED
  BY <1>1, <1>2, <1>3, <1>4, <1>5, <1>6, <1>7, <1>8 DEF Next, Quiet

-----------------------------------------------------------------------------
(* Theorems *)

\* The invariant holds in every reachable state.
THEOREM Invariant == Spec => []IInv
<1>1. Init => IInv  BY InitOK
<1>2. IInv /\ [Next]_vars => IInv'  BY Inductive
<1> QED  BY <1>1, <1>2, PTL DEF Spec

\* Every variable has its type; the pool is never overdrawn.
THEOREM TypeCorrect == Spec => []TypeOK
<1>1. IInv => TypeOK  BY DEF IInv
<1> QED  BY <1>1, Invariant, PTL

\* The gauge and the counter of requests add up, whatever fails and wherever.
THEOREM MetricsAreRight == Spec => []MetricsAddUp
<1>1. IInv => MetricsAddUp  BY DEF IInv
<1> QED  BY <1>1, Invariant, PTL

\* Who waits for a connection has neither a connection nor a row lock.
THEOREM NoHoldAndWait == Spec => []WaitersHoldNothing
<1>1. IInv => WaitersHoldNothing  BY DEF IInv
<1> QED  BY <1>1, Invariant, PTL

\* A process has at most one RabbitMQ connection, and none after a clean shutdown.
THEOREM SingleConnection == Spec => []OneConnection
<1>1. IInv => OneConnection  BY DEF IInv, LifecycleOK, OneConnection
<1> QED  BY <1>1, Invariant, PTL

=============================================================================
