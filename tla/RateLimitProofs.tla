--------------------------- MODULE RateLimitProofs ---------------------------
(***************************************************************************)
(* Theorems of RateLimit, for any limit, any length of the window, any     *)
(* number of requests in flight and any time they take.                    *)
(***************************************************************************)
EXTENDS RateLimit, TLAPS

-----------------------------------------------------------------------------
(* Windows *)

LEMMA Dividing ==
  ASSUME NEW W \in Nat \ {0}, NEW t \in Nat
  PROVE  /\ t \div W \in Nat
         /\ (t \div W) * W <= t
         /\ t < (t \div W + 1) * W
         /\ t % W \in 0 .. (W - 1)
OBVIOUS

LEMMA Scaling ==
  ASSUME NEW W \in Nat \ {0}, NEW a \in Nat, NEW b \in Nat
  PROVE  a <= b <=> a * W <= b * W
OBVIOUS

\* The script's total is under the limit only if the current counter is.
LEMMA Weighing ==
  ASSUME NEW W \in Nat \ {0}, NEW a \in Nat, NEW b \in Nat, NEW c \in Nat,
         NEW e \in 0 .. (W - 1)
  PROVE  a * W + b * (W - e) < c * W => a < c
OBVIOUS

\* The total does not grow when the counters do not.
LEMMA Weaker ==
  ASSUME NEW W \in Nat \ {0}, NEW a \in Nat, NEW b \in Nat, NEW c \in 0 .. a,
         NEW d \in 0 .. b, NEW e \in 0 .. (W - 1)
  PROVE  c * W + d * (W - e) <= a * W + b * (W - e)
<1>1. c * W <= a * W /\ d * (W - e) <= b * (W - e)
  OBVIOUS
<1>2. /\ c * W \in Nat /\ a * W \in Nat
      /\ d * (W - e) \in Nat /\ b * (W - e) \in Nat
  OBVIOUS
<1> QED  BY <1>1, <1>2

\* The window of a time the clock reaches is one of Windows, and the time is in it.
LEMMA WindowOfTime ==
  ASSUME NEW t \in Times
  PROVE  /\ t \in Nat
         /\ WindowOf(t) \in Windows /\ WindowOf(t) \in Nat
         /\ WindowOf(t) * Window <= t
         /\ t < (WindowOf(t) + 1) * Window
         /\ t % Window \in 0 .. (Window - 1)
<1>1. t \in Nat /\ t <= MaxTime /\ MaxTime \in Nat /\ Window \in Nat \ {0}
  BY RateLimitAssumption DEF Times
<1> DEFINE w == t \div Window
           m == MaxTime \div Window
<1>2. /\ w \in Nat /\ w * Window <= t /\ t < (w + 1) * Window
      /\ t % Window \in 0 .. (Window - 1)
  BY <1>1, Dividing
<1>3. m \in Nat /\ MaxTime < (m + 1) * Window  BY <1>1, Dividing
<1> HIDE DEF w, m
<1>4. w <= m
  <2>1. (m + 1) * Window \in Nat /\ w * Window \in Nat  BY <1>1, <1>2, <1>3
  <2>2. ~((m + 1) * Window <= w * Window)  BY <1>1, <1>2, <1>3, <2>1
  <2>3. ~(m + 1 <= w)  BY <1>1, <1>2, <1>3, <2>2, Scaling
  <2> QED  BY <1>2, <1>3, <2>3
<1>5. w \in 0 .. m  BY <1>2, <1>3, <1>4
<1> QED  BY <1>1, <1>2, <1>5 DEF w, m, WindowOf, Windows

\* Windows are numbers, and their ends are ordered as they are.
LEMMA WindowsOrder ==
  ASSUME NEW w \in Windows
  PROVE  /\ w \in Nat
         /\ (w + 2) * Window \in Nat
         /\ (w + 2) * Window = w * Window + 2 * Window
         /\ (w + 1) * Window = w * Window + Window
<1>1. w \in Nat /\ Window \in Nat  BY RateLimitAssumption DEF Windows
<1> QED  BY <1>1

\* The window before one of Windows is one of them too.
LEMMA BeforeType ==
  ASSUME TypeOK, NEW w \in Windows
  PROVE  /\ Before(w) \in Nat
         /\ w # 0 => w - 1 \in Windows /\ Before(w) = count[w - 1]
<1>1. WindowOf(MaxTime) \in Nat
  BY RateLimitAssumption, Dividing DEF WindowOf
<1>2. w # 0 => w - 1 \in Windows  BY <1>1 DEF Windows
<1> QED  BY <1>2 DEF Before, TypeOK

-----------------------------------------------------------------------------
(* Steps *)

\* A step that only moves requests, and stamps none but now.
LEMMA RequestStep ==
  ASSUME IInv, UNCHANGED <<now, redis, history>>, NEW r \in Requests,
         NEW q \in [pc : {"idle", "sent"}, stamp : Times, reply : Replies],
         q.pc = "sent" => q.stamp = now,
         req' = [req EXCEPT ![r] = q]
  PROVE  IInv'
<1>1. TypeOK'  BY DEF IInv, TypeOK, redis, history
<1>2. \A w \in Windows : Complete(w)' /\ Lasting(w)'
  BY DEF IInv, Complete, Lasting, redis, history
<1>3. ASSUME NEW s \in Requests, req'[s].pc = "sent"
      PROVE  req'[s].stamp <= now' /\ now' <= req'[s].stamp + MaxDelay
  <2>1. CASE s = r
    BY <1>3, <2>1, RateLimitAssumption DEF IInv, TypeOK, Times
  <2>2. CASE s # r
    BY <1>3, <2>2 DEF IInv, TypeOK
  <2> QED  BY <2>1, <2>2
<1> QED  BY <1>1, <1>2, <1>3 DEF IInv, redis, history

LEMMA StampStep ==
  ASSUME IInv, NEW r \in Requests, Stamp(r)
  PROVE  IInv'
<1>1. PICK q : q = [pc |-> "sent", stamp |-> now, reply |-> "none"]
  OBVIOUS
<1>2. q \in [pc : {"idle", "sent"}, stamp : Times, reply : Replies]
  BY <1>1 DEF IInv, TypeOK, Replies
<1> QED  BY <1>1, <1>2, RequestStep DEF Stamp

LEMMA IdleRecord ==
  ASSUME NEW reply \in Replies
  PROVE  /\ [Unused EXCEPT !.reply = reply]
              \in [pc : {"idle", "sent"}, stamp : Times, reply : Replies]
         /\ [Unused EXCEPT !.reply = reply].pc = "idle"
BY RateLimitAssumption DEF Unused, Times, Replies

LEMMA RefuseStep ==
  ASSUME IInv, NEW r \in Requests, Refuse(r)
  PROVE  IInv'
<1>1. PICK q : q = [Unused EXCEPT !.reply = "429"]
  OBVIOUS
<1>2. /\ q \in [pc : {"idle", "sent"}, stamp : Times, reply : Replies]
      /\ q.pc = "idle"
  BY <1>1, IdleRecord DEF Replies
<1> QED  BY <1>1, <1>2, RequestStep DEF Refuse, Replied

LEMMA FailStep ==
  ASSUME IInv, NEW r \in Requests, Fail(r)
  PROVE  IInv'
<1>1. PICK q : q = [Unused EXCEPT !.reply = "500"]
  OBVIOUS
<1>2. /\ q \in [pc : {"idle", "sent"}, stamp : Times, reply : Replies]
      /\ q.pc = "idle"
  BY <1>1, IdleRecord DEF Replies
<1> QED  BY <1>1, <1>2, RequestStep DEF Fail, Replied

LEMMA AdmitStep ==
  ASSUME IInv, NEW r \in Requests, Admit(r)
  PROVE  IInv'
<1> DEFINE t == req[r].stamp
           w == WindowOf(t)
<1>1. /\ count    \in [Windows -> Nat] /\ deadline \in [Windows -> Nat]
      /\ accepted \in [Windows -> Nat] /\ served \in [Times -> Nat]
      /\ now \in Nat /\ latest \in Nat /\ latest <= now /\ Window \in Nat \ {0}
      /\ now \in Times
  BY RateLimitAssumption DEF IInv, TypeOK, Times
<1>2. t \in Times /\ t <= now
  BY DEF Admit, IInv, TypeOK
<1>3. t \in Nat /\ w \in Windows /\ w \in Nat /\ w * Window <= t
  BY <1>2, WindowOfTime
<1> HIDE DEF w, t
<1>4. /\ now' = now /\ latest' = now
      /\ count' = [count EXCEPT ![w] = @ + 1]
      /\ accepted' = [accepted EXCEPT ![w] = @ + 1]
      /\ served' = [served EXCEPT ![t] = @ + 1]
  BY DEF Admit, w, t
<1>5. deadline' = [v \in Windows |->
        IF v = w \/ (v + 1 = w /\ count[v] > 0) THEN now + Ttl ELSE deadline[v]]
  BY DEF Admit, Expire, w, t
<1>6. Ttl = 2 * Window /\ now + Ttl \in Nat  BY <1>1 DEF Ttl
<1>7. TypeOK'
  <2>1. req' \in [Requests -> [pc : {"idle", "sent"}, stamp : Times, reply : Replies]]
    BY IdleRecord DEF Admit, Replied, Replies, IInv, TypeOK
  <2>2. deadline' \in [Windows -> Nat]  BY <1>1, <1>5, <1>6
  <2>3. count' \in [Windows -> Nat] /\ accepted' \in [Windows -> Nat]
    BY <1>1, <1>3, <1>4
  <2>4. served' \in [Times -> Nat]  BY <1>1, <1>2, <1>4
  <2>5. now' \in Times /\ latest' \in Nat  BY <1>1, <1>4
  <2>6. late' \in BOOLEAN  BY Zenon DEF Admit, IInv, TypeOK
  <2> QED  BY <2>1, <2>2, <2>3, <2>4, <2>5, <2>6 DEF TypeOK
<1>8. ASSUME NEW v \in Windows  PROVE  Complete(v)' /\ Lasting(v)'
  <2>1. /\ v \in Nat /\ (v + 2) * Window \in Nat
        /\ (v + 2) * Window = v * Window + 2 * Window
        /\ (w + 1) * Window = w * Window + Window
        /\ w * Window \in Nat /\ v * Window \in Nat
    BY <1>1, <1>3, WindowsOrder
  <2>2. Complete(v) /\ Lasting(v)  BY DEF IInv
  <2>3. /\ count[v] \in Nat /\ accepted[v] \in Nat /\ deadline[v] \in Nat
    BY <1>1
  <2>4. CASE v = w
    <3>1. /\ count'[v] = count[v] + 1 /\ accepted'[v] = accepted[v] + 1
          /\ deadline'[v] = now + 2 * Window
      BY <1>1, <1>4, <1>5, <1>6, <2>4
    <3>2. deadline'[v] >= (v + 2) * Window
      BY <1>1, <1>2, <1>3, <2>1, <2>4, <3>1
    <3>3. Complete(v)'  BY <1>4, <2>2, <3>1, <3>2 DEF Complete
    <3>4. Lasting(v)'  BY <1>1, <1>4, <2>2, <2>3, <3>1 DEF Lasting
    <3> QED  BY <3>3, <3>4
  <2>5. CASE v # w
    <3>1. count'[v] = count[v] /\ accepted'[v] = accepted[v]
      BY <1>1, <1>4, <2>5
    <3>2. CASE v + 1 = w /\ count[v] > 0
      <4>1. deadline'[v] = now + 2 * Window  BY <1>5, <1>6, <3>2
      <4>2. v * Window <= w * Window
        BY <1>1, <1>3, <2>1, <3>2, Scaling
      <4>3. deadline'[v] >= (v + 2) * Window
        BY <1>1, <1>2, <1>3, <2>1, <4>1, <4>2
      <4>4. Complete(v)'  BY <1>4, <2>2, <3>1, <4>3 DEF Complete
      <4>5. Lasting(v)'  BY <1>1, <1>4, <2>2, <2>3, <3>1, <4>1 DEF Lasting
      <4> QED  BY <4>4, <4>5
    <3>3. CASE ~(v + 1 = w /\ count[v] > 0)
      <4>1. deadline'[v] = deadline[v]  BY <1>5, <2>5, <3>3
      <4>2. Complete(v)'  BY <1>4, <2>2, <3>1, <4>1 DEF Complete
      <4>3. Lasting(v)'  BY <1>1, <1>4, <2>2, <2>3, <3>1, <4>1 DEF Lasting
      <4> QED  BY <4>2, <4>3
    <3> QED  BY <3>2, <3>3
  <2> QED  BY <2>4, <2>5
<1>9. ASSUME NEW s \in Requests, req'[s].pc = "sent"
      PROVE  req'[s].stamp <= now' /\ now' <= req'[s].stamp + MaxDelay
  <2>1. s # r
    <3>1. PICK reply \in {"next", "500"} : req'[r] = [Unused EXCEPT !.reply = reply]
      BY DEF Admit, Replied, IInv, TypeOK
    <3>2. req'[r].pc = "idle"  BY <3>1, IdleRecord DEF Replies
    <3> QED  BY <1>9, <3>2
  <2>2. req'[s] = req[s]  BY <2>1 DEF Admit, Replied, IInv, TypeOK
  <2> QED  BY <1>4, <1>9, <2>2 DEF IInv
<1>10. latest' <= now'  BY <1>1, <1>4
<1> QED  BY <1>7, <1>8, <1>9, <1>10 DEF IInv

LEMMA TickStep ==
  ASSUME IInv, Tick
  PROVE  IInv'
<1>1. /\ count    \in [Windows -> Nat] /\ deadline \in [Windows -> Nat]
      /\ accepted \in [Windows -> Nat]
      /\ now \in Nat /\ latest \in Nat /\ latest <= now /\ Window \in Nat \ {0}
  BY RateLimitAssumption DEF IInv, TypeOK, Times
<1>2. now' = now + 1 /\ now' \in Times /\ accepted' = accepted /\ latest' = latest
  BY <1>1, RateLimitAssumption DEF Tick, Times, history
<1>3. TypeOK'
  BY <1>1, <1>2 DEF Tick, IInv, TypeOK, history
<1>4. ASSUME NEW w \in Windows  PROVE  Complete(w)' /\ Lasting(w)'
  <2>1. w \in Nat /\ (w + 2) * Window \in Nat  BY WindowsOrder
  <2>2. Complete(w) /\ Lasting(w)  BY DEF IInv
  <2>3. count[w] \in Nat /\ accepted[w] \in Nat /\ deadline[w] \in Nat  BY <1>1
  <2>4. CASE deadline[w] <= now + 1
    <3>1. count'[w] = 0 /\ deadline'[w] = 0  BY <2>4 DEF Tick
    <3>2. Complete(w)'
      BY <1>1, <1>2, <2>1, <2>2, <2>3, <2>4, <3>1 DEF Complete
    <3> QED  BY <1>2, <2>3, <3>1, <3>2 DEF Lasting
  <2>5. CASE ~(deadline[w] <= now + 1)
    <3>1. count'[w] = count[w] /\ deadline'[w] = deadline[w]  BY <2>5 DEF Tick
    <3>2. Complete(w)'  BY <1>1, <1>2, <2>1, <2>2, <3>1 DEF Complete
    <3>3. Lasting(w)'  BY <1>1, <1>2, <2>2, <2>3, <2>5, <3>1 DEF Lasting
    <3> QED  BY <3>2, <3>3
  <2> QED  BY <2>4, <2>5
<1>5. ASSUME NEW r \in Requests, req'[r].pc = "sent"
      PROVE  req'[r].stamp <= now' /\ now' <= req'[r].stamp + MaxDelay
  <2>1. req' = req  BY DEF Tick
  <2>2. req[r].stamp \in Nat  BY RateLimitAssumption DEF IInv, TypeOK, Times
  <2>3. req[r].stamp <= now /\ now < req[r].stamp + MaxDelay
    BY <1>5, <2>1 DEF Tick, IInv
  <2> QED  BY <1>1, <1>2, <2>1, <2>2, <2>3, RateLimitAssumption
<1>6. latest' <= now'  BY <1>1, <1>2
<1> QED  BY <1>3, <1>4, <1>5, <1>6 DEF IInv

-----------------------------------------------------------------------------

\* Counters are complete for as long as they matter, and keys die in time.
THEOREM Invariant == Spec => []IInv
<1>1. Init => IInv
  <2> SUFFICES ASSUME Init  PROVE  IInv
    OBVIOUS
  <2>1. TypeOK
    <3>1. Unused \in [pc : {"idle", "sent"}, stamp : Times, reply : Replies]
      BY RateLimitAssumption DEF Unused, Times, Replies
    <3>2. 0 \in Times  BY RateLimitAssumption DEF Times
    <3> QED  BY <3>1, <3>2 DEF Init, TypeOK
  <2>2. \A w \in Windows : Complete(w) /\ Lasting(w)
    BY DEF Init, Complete, Lasting
  <2>3. \A r \in Requests : req[r].pc # "sent"  BY DEF Init, Unused
  <2> QED  BY <2>1, <2>2, <2>3 DEF Init, IInv
<1>2. IInv /\ [Next]_vars => IInv'
  <2> SUFFICES ASSUME IInv, [Next]_vars  PROVE  IInv'
    OBVIOUS
  <2>1. CASE UNCHANGED vars
    BY <2>1
    DEF vars, redis, history, IInv, TypeOK, Complete, Lasting
  <2> QED  BY <2>1, StampStep, RefuseStep, AdmitStep, FailStep, TickStep DEF Next
<1> QED  BY <1>1, <1>2, PTL DEF Spec

\* Every variable keeps its type.
THEOREM TypeCorrect == Spec => []TypeOK
<1>1. IInv => TypeOK  BY DEF IInv
<1> QED  BY <1>1, Invariant, PTL

\* EXPIRE's two windows are enough for the script to see every request that counts,
\* however long the window and however late requests are counted.
THEOREM NothingForgotten == Spec => []NothingThatCountsIsForgotten
<1>1. IInv => NothingThatCountsIsForgotten
  <2> SUFFICES ASSUME IInv, NEW w \in Windows,
                      w = WindowOf(now) \/ w + 1 = WindowOf(now)
               PROVE  count[w] = accepted[w]
    BY DEF NothingThatCountsIsForgotten
  <2>1. now \in Times  BY DEF IInv, TypeOK
  <2> DEFINE n == WindowOf(now)
  <2>2. now \in Nat /\ n \in Nat /\ now < (n + 1) * Window
    BY <2>1, WindowOfTime
  <2>3. w \in Nat /\ Window \in Nat \ {0}  BY WindowsOrder, RateLimitAssumption
  <2>4. n = w \/ n = w + 1  BY <2>2, <2>3
  <2> HIDE DEF n
  <2>5. (n + 1) * Window <= (w + 2) * Window
    <3>1. n + 1 <= w + 2 /\ n + 1 \in Nat /\ w + 2 \in Nat  BY <2>2, <2>3, <2>4
    <3> QED  BY <2>3, <3>1, Scaling
  <2>6. (n + 1) * Window \in Nat /\ (w + 2) * Window \in Nat  BY <2>2, <2>3
  <2>7. now < (w + 2) * Window  BY <2>2, <2>5, <2>6
  <2> QED  BY <2>7 DEF IInv, Complete
<1> QED  BY <1>1, Invariant, PTL

\* A client that is no longer admitted is forgotten two windows later.
THEOREM Retained == Spec => []RetainedTwoWindows
<1>1. IInv => RetainedTwoWindows
  <2> SUFFICES ASSUME IInv, NEW w \in Windows, count[w] > 0
               PROVE  now < latest + 2 * Window
    BY DEF RetainedTwoWindows
  <2>1. now \in Nat /\ latest \in Nat /\ deadline[w] \in Nat /\ Window \in Nat
    BY RateLimitAssumption DEF IInv, TypeOK, Times
  <2> QED  BY <2>1 DEF IInv, Lasting
<1> QED  BY <1>1, Invariant, PTL

\* If no request takes longer than a window from its stamp to its script, no window
\* admits more than the limit.
THEOREM LimitKept ==
  ASSUME MaxDelay <= Window
  PROVE  Spec => []LimitPerWindow
<1>1. Init => LimitPerWindow
  BY RateLimitAssumption DEF Init, LimitPerWindow
<1>2. IInv /\ LimitPerWindow /\ [Next]_vars => LimitPerWindow'
  <2> SUFFICES ASSUME IInv, LimitPerWindow, [Next]_vars, NEW v \in Windows,
                      accepted'[v] # accepted[v]
               PROVE  accepted'[v] <= Limit
    BY DEF LimitPerWindow
  <2>1. PICK r \in Requests : Admit(r)
    BY DEF Next, Stamp, Refuse, Fail, Tick, vars, history
  <2> DEFINE t == req[r].stamp
             w == WindowOf(t)
             b == Before(w)
             e == t % Window
  <2>2. t \in Times /\ now <= t + MaxDelay  BY <2>1 DEF Admit, IInv, TypeOK
  <2>3. /\ t \in Nat /\ w \in Windows /\ w \in Nat /\ t < (w + 1) * Window
        /\ e \in 0 .. (Window - 1)
    BY <2>2, WindowOfTime
  <2>4. ~Refused(w, e)  BY <2>1 DEF Admit
  <2>5. accepted' = [accepted EXCEPT ![w] = @ + 1]  BY <2>1 DEF Admit
  <2>6. /\ count \in [Windows -> Nat] /\ accepted \in [Windows -> Nat]
        /\ now \in Nat /\ Window \in Nat \ {0} /\ Limit \in Nat /\ MaxDelay \in Nat
    BY RateLimitAssumption DEF IInv, TypeOK, Times
  <2>7. b \in Nat  BY <2>3, BeforeType DEF IInv
  <2>8. ~(count[w] * Window + b * (Window - e) >= Limit * Window)
    BY <2>4 DEF Refused, Total
  <2> HIDE DEF w, t, b, e
  <2>9. now < (w + 2) * Window
    <3>1. /\ (w + 2) * Window = (w + 1) * Window + Window
          /\ (w + 1) * Window \in Nat
      BY <2>3, <2>6, WindowsOrder
    <3> QED  BY <2>2, <2>3, <2>6, <3>1
  <2>10. count[w] = accepted[w] /\ count[w] \in Nat
    BY <2>3, <2>6, <2>9 DEF IInv, Complete
  <2>11. count[w] < Limit
    <3>1. count[w] * Window + b * (Window - e) < Limit * Window
      BY <2>3, <2>6, <2>7, <2>8, <2>10
    <3> QED  BY <2>3, <2>6, <2>7, <2>10, <3>1, Weighing
  <2>12. v = w /\ accepted'[v] = accepted[v] + 1  BY <2>3, <2>5, <2>6
  <2> QED  BY <2>6, <2>10, <2>11, <2>12
<1> QED  BY <1>1, <1>2, Invariant, PTL DEF Spec

\* A refusal always means that what was admitted weighs the limit.
THEOREM RefusalsAreDue == Spec => NoFalseRefusal
<1>1. IInv /\ [Next]_vars =>
        [\A r \in Requests :
           req[r].pc = "sent" /\ req'[r].pc = "idle" /\ req'[r].reply = "429"
           => Admitted(WindowOf(req[r].stamp), req[r].stamp % Window) >= Limit * Window]_vars
  <2> SUFFICES ASSUME IInv, [Next]_vars, NEW r \in Requests,
                      req[r].pc = "sent", req'[r].pc = "idle", req'[r].reply = "429"
               PROVE  Admitted(WindowOf(req[r].stamp), req[r].stamp % Window)
                        >= Limit * Window
    OBVIOUS
  <2> DEFINE w == WindowOf(req[r].stamp)
             e == req[r].stamp % Window
  <2>1. Refuse(r)
    <3>1. ASSUME NEW s \in Requests, Stamp(s) \/ Refuse(s) \/ Admit(s) \/ Fail(s)
          PROVE  s = r
      BY <3>1 DEF Stamp, Refuse, Admit, Fail, Replied, IInv, TypeOK
    <3>2. ~Stamp(r)  BY DEF Stamp
    <3>3. ~Admit(r) /\ ~Fail(r)
      <4>1. ASSUME Admit(r) \/ Fail(r)
            PROVE  \E reply \in {"next", "500"} : req'[r] = [Unused EXCEPT !.reply = reply]
        BY <4>1 DEF Admit, Fail, Replied, IInv, TypeOK
      <4>2. \A reply \in {"next", "500"} : [Unused EXCEPT !.reply = reply].reply = reply
        BY DEF Unused
      <4> QED  BY <4>1, <4>2
    <3>4. ~Tick /\ ~UNCHANGED vars  BY DEF Tick, vars
    <3> QED  BY <3>1, <3>2, <3>3, <3>4 DEF Next
  <2>2. req[r].stamp \in Times  BY DEF IInv, TypeOK
  <2>3. w \in Windows /\ e \in 0 .. (Window - 1)  BY <2>2, WindowOfTime
  <2>4. Total(w, e) >= Limit * Window  BY <2>1 DEF Refuse, Refused
  <2> HIDE DEF w, e
  <2>5. Total(w, e) <= Admitted(w, e)
    <3>1. /\ count[w] \in 0 .. accepted[w] /\ accepted[w] \in Nat
          /\ Window \in Nat \ {0}
      BY <2>3, RateLimitAssumption DEF IInv, TypeOK, Lasting
    <3>2. Before(w) \in 0 .. AdmittedBefore(w) /\ AdmittedBefore(w) \in Nat
      <4>1. CASE w = 0  BY <4>1 DEF Before, AdmittedBefore
      <4>2. CASE w # 0
        <5>1. w - 1 \in Windows /\ Before(w) = count[w - 1]
          BY <2>3, <4>2, BeforeType DEF IInv
        <5> QED  BY <4>2, <5>1 DEF IInv, TypeOK, Lasting, AdmittedBefore
      <4> QED  BY <4>1, <4>2
    <3> QED  BY <2>3, <3>1, <3>2, Weaker DEF Total, Admitted
  <2>6. Total(w, e) \in Nat /\ Admitted(w, e) \in Nat /\ Limit * Window \in Nat
    <3>1. /\ count[w] \in Nat /\ Before(w) \in Nat /\ accepted[w] \in Nat
          /\ Window \in Nat /\ Limit \in Nat
      BY <2>3, BeforeType, RateLimitAssumption DEF IInv, TypeOK
    <3>2. AdmittedBefore(w) \in Nat
      <4>1. w # 0 => w - 1 \in Windows  BY <2>3, BeforeType DEF IInv
      <4> QED  BY <4>1 DEF AdmittedBefore, IInv, TypeOK
    <3>3. Window - e \in Nat  BY <2>3, <3>1
    <3> HIDE DEF w, e
    <3> QED  BY <3>1, <3>2, <3>3 DEF Total, Admitted
  <2>7. Admitted(w, e) >= Limit * Window  BY <2>4, <2>5, <2>6
  <2> QED  BY <2>7 DEF w, e
<1> QED  BY <1>1, Invariant, PTL DEF Spec, NoFalseRefusal

-----------------------------------------------------------------------------
(* The remaining quota that is reported. *)

\* No request counted so far has a stamp after t.
Latest(t) == \A u \in Times : served[u] > 0 => u <= t

\* A window that has admitted a request has one with a stamp in it; and while scripts
\* run in the order of their stamps, the script's total is below one more than the
\* limit, for the stamp of any request that can still be judged in that order.
RInv ==
  /\ \A w \in Windows : accepted[w] > 0 => \E u \in Times : WindowOf(u) = w /\ served[u] > 0
  /\ ~late => \A t \in Times :
       Latest(t) => Total(WindowOf(t), t % Window) < (Limit + 1) * Window

LEMMA Remainder ==
  ASSUME NEW W \in Nat \ {0}, NEW t \in Nat
  PROVE  t = (t \div W) * W + (t % W)
OBVIOUS

\* Later times are in later windows, or later in the same one.
LEMMA WindowsGrow ==
  ASSUME NEW s \in Times, NEW t \in Times, s <= t
  PROVE  /\ WindowOf(s) <= WindowOf(t)
         /\ WindowOf(s) = WindowOf(t) => s % Window <= t % Window
<1> DEFINE v == s \div Window
           w == t \div Window
<1>1. s \in Nat /\ t \in Nat /\ Window \in Nat \ {0}
  BY RateLimitAssumption DEF Times
<1>2. /\ v \in Nat /\ w \in Nat /\ v * Window <= s /\ t < (w + 1) * Window
      /\ s = v * Window + (s % Window) /\ t = w * Window + (t % Window)
      /\ s % Window \in Nat /\ t % Window \in Nat
  <2>1. /\ v \in Nat /\ v * Window <= s
        /\ s % Window \in 0 .. (Window - 1)
    BY <1>1, Dividing
  <2>2. /\ w \in Nat /\ t < (w + 1) * Window
        /\ t % Window \in 0 .. (Window - 1)
    BY <1>1, Dividing
  <2>3. s = (s \div Window) * Window + (s % Window)  BY <1>1, Remainder, Zenon
  <2>4. t = (t \div Window) * Window + (t % Window)  BY <1>1, Remainder, Zenon
  <2> HIDE DEF v, w
  <2>5. s % Window \in Nat /\ t % Window \in Nat  BY <1>1, <2>1, <2>2
  <2> QED  BY ONLY <2>1, <2>2, <2>3, <2>4, <2>5, Zenon DEF v, w
<1> HIDE DEF v, w
<1>3. v <= w
  <2>1. v * Window \in Nat /\ (w + 1) * Window \in Nat  BY <1>1, <1>2
  <2>2. ~((w + 1) * Window <= v * Window)  BY <1>1, <1>2, <2>1
  <2>3. ~(w + 1 <= v)  BY <1>1, <1>2, <2>2, Scaling
  <2> QED  BY <1>2, <2>3
<1>4. v = w => s % Window <= t % Window
  <2>1. v * Window \in Nat  BY <1>1, <1>2
  <2> QED  BY <1>1, <1>2, <2>1
<1> QED  BY <1>3, <1>4 DEF v, w, WindowOf

\* One request more in the current window, judged no earlier than the last one; it
\* counts in the next window with what is left of its weight.
LEMMA OneMore ==
  ASSUME NEW W \in Nat \ {0}, NEW a \in Nat, NEW b \in Nat, NEW c \in Nat,
         NEW d \in 0 .. (W - 1), a * W + b * (W - d) < c * W,
         NEW e \in 0 .. (W - 1)
  PROVE  /\ d <= e => (a + 1) * W + b * (W - e) < (c + 1) * W
         /\ (a + 1) * (W - e) < (c + 1) * W
<1>1. d <= e => b * (W - e) <= b * (W - d)
  OBVIOUS
<1>2. (a + 1) * W = a * W + W /\ (c + 1) * W = c * W + W
  OBVIOUS
<1>3. (a + 1) * (W - e) <= (a + 1) * W
  OBVIOUS
<1>4. a * W < c * W
  OBVIOUS
<1>5. /\ a * W \in Nat /\ c * W \in Nat /\ (a + 1) * (W - e) \in Nat
      /\ b * (W - e) \in Nat /\ b * (W - d) \in Nat
  OBVIOUS
<1> QED  BY <1>1, <1>2, <1>3, <1>4, <1>5

\* A total that no counter contributes to, and the limit it is compared with.
LEMMA NoCounts ==
  ASSUME NEW W \in Nat \ {0}, NEW c \in Nat, NEW e \in 0 .. (W - 1)
  PROVE  0 * W + 0 * (W - e) < (c + 1) * W
OBVIOUS

LEMMA AdmitQuota ==
  ASSUME IInv, RInv, NEW r \in Requests, Admit(r)
  PROVE  RInv'
<1> DEFINE s == req[r].stamp
           w0 == WindowOf(s)
           d == s % Window
<1>1. /\ count \in [Windows -> Nat] /\ accepted \in [Windows -> Nat]
      /\ served \in [Times -> Nat]
      /\ Window \in Nat \ {0} /\ Limit \in Nat
  BY RateLimitAssumption DEF IInv, TypeOK
<1>2. s \in Times  BY DEF IInv, TypeOK
<1>3. s \in Nat /\ w0 \in Windows /\ w0 \in Nat /\ d \in 0 .. (Window - 1)
  BY <1>2, WindowOfTime
<1>4. /\ count' = [count EXCEPT ![w0] = @ + 1]
      /\ accepted' = [accepted EXCEPT ![w0] = @ + 1]
      /\ served' = [served EXCEPT ![s] = @ + 1]
      /\ late' = (late \/ \E u \in Times : u > s /\ served[u] > 0)
      /\ ~Refused(w0, d)
  BY DEF Admit
<1>5. Before(w0) \in Nat /\ count[w0] \in Nat  BY <1>1, <1>3, BeforeType DEF IInv
<1>6. count[w0] * Window + Before(w0) * (Window - d) < Limit * Window
  <2>1. ~(count[w0] * Window + Before(w0) * (Window - d) >= Limit * Window)
    BY <1>4 DEF Refused, Total
  <2> QED  BY <1>1, <1>3, <1>5, <2>1
<1>7. \A u \in Times : served[u] > 0 => served'[u] > 0  BY <1>1, <1>4
<1>8. served'[s] > 0  BY <1>1, <1>2, <1>4
<1>9. WindowOf(s) = w0  OBVIOUS
<1> HIDE DEF s, w0, d
<1>10. ASSUME NEW w \in Windows, accepted'[w] > 0
       PROVE  \E u \in Times : WindowOf(u) = w /\ served'[u] > 0
  <2>1. CASE w = w0  BY <1>2, <1>8, <1>9, <2>1
  <2>2. CASE w # w0
    <3>1. accepted[w] > 0  BY <1>1, <1>4, <1>10, <2>2
    <3> QED  BY <1>7, <3>1 DEF RInv
  <2> QED  BY <2>1, <2>2
<1>11. ASSUME ~late', NEW t \in Times, Latest(t)'
       PROVE  Total(WindowOf(t), t % Window)' < (Limit + 1) * Window
  <2> DEFINE w == WindowOf(t)
             e == t % Window
  <2>1. s <= t  BY <1>2, <1>8, <1>11 DEF Latest
  <2>2. w \in Windows /\ w \in Nat /\ e \in 0 .. (Window - 1)
    BY WindowOfTime
  <2>3. w0 <= w /\ (w0 = w => d <= e)  BY <1>2, <1>9, <2>1, WindowsGrow DEF d
  <2>4. Total(w, e)' = count'[w] * Window + (IF w = 0 THEN 0 ELSE count'[w - 1]) * (Window - e)
    BY DEF Total, Before
  <2>5. \A u \in Times : served[u] > 0 => ~(u > s)  BY <1>4, <1>11
  <2> HIDE DEF w, e
  <2>6. ASSUME NEW v \in Windows, v > w0
        PROVE  count[v] = 0 /\ count'[v] = 0
    <3>1. accepted[v] = 0
      <4>1. SUFFICES ASSUME accepted[v] > 0  PROVE  FALSE
        BY <1>1
      <4>2. PICK u \in Times : WindowOf(u) = v /\ served[u] > 0  BY <4>1 DEF RInv
      <4>3. u \in Nat /\ ~(u > s)  BY <2>5, <4>2, WindowOfTime
      <4>4. WindowOf(u) <= WindowOf(s)  BY <1>2, <1>3, <4>3, WindowsGrow
      <4> QED  BY <1>3, <1>9, <2>6, <4>2, <4>4, WindowsOrder
    <3>2. count[v] <= accepted[v] /\ count[v] \in Nat  BY <1>1 DEF IInv, Lasting
    <3>3. count[v] = 0  BY <3>1, <3>2
    <3>4. v # w0  BY <1>3, <2>6, WindowsOrder
    <3> QED  BY <1>1, <1>4, <3>3, <3>4
  <2>7. CASE w = w0
    <3>1. count'[w] = count[w0] + 1  BY <1>1, <1>3, <1>4, <2>7
    <3>2. (IF w = 0 THEN 0 ELSE count'[w - 1]) = Before(w0)
      <4>1. w # 0 => w - 1 \in Windows /\ w - 1 # w0
        <5>1. w # 0 => w - 1 \in Windows  BY <2>2, BeforeType DEF IInv
        <5> QED  BY <1>3, <2>2, <2>7, <5>1
      <4> QED  BY <1>1, <1>4, <2>7, <4>1 DEF Before
    <3>3. (count[w0] + 1) * Window + Before(w0) * (Window - e) < (Limit + 1) * Window
      BY <1>1, <1>3, <1>5, <1>6, <2>2, <2>3, <2>7, OneMore
    <3> QED  BY <2>4, <3>1, <3>2, <3>3 DEF w, e
  <2>8. CASE w = w0 + 1
    <3>1. count'[w] = 0  BY <1>3, <2>2, <2>6, <2>8
    <3>2. (IF w = 0 THEN 0 ELSE count'[w - 1]) = count[w0] + 1
      <4>1. w # 0 /\ w - 1 = w0  BY <1>3, <2>8
      <4> QED  BY <1>1, <1>3, <1>4, <4>1
    <3>3. (count[w0] + 1) * (Window - e) < (Limit + 1) * Window
      BY <1>1, <1>3, <1>5, <1>6, <2>2, OneMore
    <3>4. /\ 0 * Window = 0
          /\ (count[w0] + 1) * (Window - e) \in Nat
      BY <1>1, <1>5, <2>2
    <3>5. Total(w, e)' = 0 * Window + (count[w0] + 1) * (Window - e)
      BY <2>4, <3>1, <3>2
    <3>6. Total(w, e)' = (count[w0] + 1) * (Window - e)
      BY <3>4, <3>5
    <3> QED  BY <3>3, <3>6 DEF w, e
  <2>9. CASE w > w0 + 1
    <3>1. count'[w] = 0  BY <1>3, <2>2, <2>6, <2>9
    <3>2. w # 0 /\ w - 1 \in Windows /\ w - 1 > w0
      BY <1>3, <2>2, <2>9, BeforeType DEF IInv
    <3>3. (IF w = 0 THEN 0 ELSE count'[w - 1]) = 0  BY <2>6, <3>2
    <3>4. Total(w, e)' = 0 * Window + 0 * (Window - e)  BY <2>4, <3>1, <3>3
    <3> QED  BY <1>1, <2>2, <3>4, NoCounts DEF w, e
  <2> QED  BY <1>3, <2>2, <2>3, <2>7, <2>8, <2>9
<1> QED  BY <1>10, <1>11 DEF RInv

\* Redis forgetting keys takes counters out of the total, and adds nothing to it.
LEMMA TickQuota ==
  ASSUME IInv, RInv, Tick
  PROVE  RInv'
<1>1. /\ count \in [Windows -> Nat]
      /\ Window \in Nat \ {0} /\ Limit \in Nat
  BY RateLimitAssumption DEF IInv, TypeOK
<1>2. accepted' = accepted /\ served' = served /\ late' = late
  BY DEF Tick, history
<1>3. \A w \in Windows : count'[w] \in 0 .. count[w]
  BY <1>1 DEF Tick
<1>4. ASSUME ~late, NEW t \in Times, Latest(t)
      PROVE  Total(WindowOf(t), t % Window)' < (Limit + 1) * Window
  <2> DEFINE w == WindowOf(t)
             e == t % Window
             b == IF w = 0 THEN 0 ELSE count'[w - 1]
  <2>1. w \in Windows /\ w \in Nat /\ e \in 0 .. (Window - 1)
    BY WindowOfTime
  <2>2. Total(w, e) < (Limit + 1) * Window  BY <1>4 DEF RInv
  <2>3. /\ Total(w, e) = count[w] * Window + Before(w) * (Window - e)
        /\ Total(w, e)' = count'[w] * Window + b * (Window - e)
    BY DEF Total, Before
  <2> HIDE DEF w, e
  <2>4. b \in 0 .. Before(w) /\ Before(w) \in Nat
    BY <1>3, <2>1, BeforeType DEF IInv, Before
  <2>5. count'[w] \in 0 .. count[w] /\ count[w] \in Nat  BY <1>1, <1>3, <2>1
  <2> HIDE DEF b
  <2>6. Total(w, e)' <= Total(w, e)  BY <1>1, <2>1, <2>3, <2>4, <2>5, Weaker
  <2>7. /\ Total(w, e) \in Nat /\ Total(w, e)' \in Nat /\ (Limit + 1) * Window \in Nat
    BY <1>1, <2>1, <2>3, <2>4, <2>5
  <2> QED  BY <2>2, <2>6, <2>7 DEF w, e
<1>5. \A t \in Times : Latest(t)' <=> Latest(t)  BY <1>2 DEF Latest
<1> QED  BY <1>2, <1>4, <1>5 DEF RInv

\* While scripts run in order, no request finds more counted than the limit.
THEOREM QuotaInvariant == Spec => []RInv
<1>1. Init /\ IInv => RInv
  <2> SUFFICES ASSUME Init, IInv  PROVE  RInv
    OBVIOUS
  <2>1. ASSUME NEW t \in Times
        PROVE  Total(WindowOf(t), t % Window) < (Limit + 1) * Window
    <3> DEFINE w == WindowOf(t)
               e == t % Window
    <3>1. w \in Windows /\ w \in Nat /\ e \in 0 .. (Window - 1)
      BY WindowOfTime
    <3> HIDE DEF w, e
    <3>2. count[w] = 0  BY <3>1 DEF Init
    <3>3. Before(w) = 0  BY <3>1, BeforeType DEF Init, IInv, Before
    <3>4. Total(w, e) = 0 * Window + 0 * (Window - e)  BY <3>2, <3>3 DEF Total
    <3> QED  BY <3>1, <3>4, NoCounts, RateLimitAssumption DEF w, e
  <2>2. \A w \in Windows : accepted[w] = 0  BY DEF Init
  <2> QED  BY <2>1, <2>2 DEF RInv
<1>2. IInv /\ RInv /\ [Next]_vars => RInv'
  <2> SUFFICES ASSUME IInv, RInv, [Next]_vars  PROVE  RInv'
    OBVIOUS
  <2>1. ASSUME UNCHANGED <<now, redis, history>>  PROVE  RInv'
    BY <2>1 DEF redis, history, RInv, Total, Before, Latest
  <2>2. ASSUME NEW r \in Requests, Stamp(r) \/ Refuse(r) \/ Fail(r)  PROVE  RInv'
    BY <2>1, <2>2 DEF Stamp, Refuse, Fail
  <2>3. CASE UNCHANGED vars  BY <2>1, <2>3 DEF vars
  <2> QED  BY <2>2, <2>3, AdmitQuota, TickQuota DEF Next
<1> QED  BY <1>1, <1>2, Invariant, PTL DEF Spec

\* The remaining quota that a client is told is never negative, for any limit and any
\* window, if the scripts run in the order of their stamps.
THEOREM RemainingTold == Spec => []RemainingIsNotNegative
<1>1. IInv /\ RInv => RemainingIsNotNegative
  BY DEF IInv, TypeOK, RInv, Latest, RemainingIsNotNegative
<1> QED  BY <1>1, Invariant, QuotaInvariant, PTL

\* The most two counters can weigh.
LEMMA TwiceTheLimit ==
  ASSUME NEW W \in Nat \ {0}, NEW c \in Nat, NEW e \in 0 .. (W - 1)
  PROVE  c * W + c * (W - e) <= 2 * c * W
<1>1. c * (W - e) <= c * W  OBVIOUS
<1>2. c * W \in Nat /\ c * (W - e) \in Nat /\ 2 * c * W = c * W + c * W  OBVIOUS
<1> QED  BY <1>1, <1>2

\* Late or not, no request finds more than twice the limit, if none takes longer than a
\* window from its stamp to its script.
THEOREM QuotaBounded ==
  ASSUME MaxDelay <= Window
  PROVE  Spec => []RemainingIsBounded
<1>1. IInv /\ LimitPerWindow => RemainingIsBounded
  <2> SUFFICES ASSUME IInv, LimitPerWindow, NEW r \in Requests
               PROVE  Total(WindowOf(req[r].stamp), req[r].stamp % Window)
                        <= 2 * Limit * Window
    BY DEF RemainingIsBounded
  <2> DEFINE w == WindowOf(req[r].stamp)
             e == req[r].stamp % Window
  <2>1. req[r].stamp \in Times  BY DEF IInv, TypeOK
  <2>2. w \in Windows /\ e \in 0 .. (Window - 1)  BY <2>1, WindowOfTime
  <2> HIDE DEF w, e
  <2>3. Limit \in Nat /\ Window \in Nat \ {0}  BY RateLimitAssumption
  <2>4. \A v \in Windows : count[v] \in 0 .. Limit
    BY <2>3 DEF IInv, TypeOK, Lasting, LimitPerWindow
  <2>5. Before(w) \in 0 .. Limit
    <3>1. w # 0 => w - 1 \in Windows  BY <2>2, BeforeType DEF IInv
    <3> QED  BY <2>3, <2>4, <3>1 DEF Before
  <2>6. Total(w, e) <= Limit * Window + Limit * (Window - e)
    BY <2>2, <2>3, <2>4, <2>5, Weaker DEF Total
  <2>7. Limit * Window + Limit * (Window - e) <= 2 * Limit * Window
    BY <2>2, <2>3, TwiceTheLimit
  <2>8. /\ Total(w, e) \in Nat
        /\ Limit * Window + Limit * (Window - e) \in Nat /\ 2 * Limit * Window \in Nat
    <3>1. count[w] \in Nat /\ Before(w) \in Nat /\ Window - e \in Nat
      BY <2>2, <2>3, <2>4, <2>5
    <3>2. Total(w, e) \in Nat  BY <2>3, <3>1 DEF Total
    <3> QED  BY <2>3, <3>1, <3>2
  <2>9. Total(w, e) <= 2 * Limit * Window  BY <2>6, <2>7, <2>8
  <2> QED  BY <2>9 DEF w, e
<1> QED  BY <1>1, Invariant, LimitKept, PTL

=============================================================================
