------------------------------ MODULE RateLimit ------------------------------
(***************************************************************************)
(* The rate limiter: RateLimitMiddleware, check_rate_limit and the Lua     *)
(* script Redis runs for it, for one client address.                       *)
(*                                                                         *)
(* Time is cut into windows.  Redis keeps one counter for each window, and *)
(* forgets it two windows after the last request it admitted.  A request   *)
(* is stamped with the time in the API process and judged by that stamp    *)
(* when the script runs, which may be later and in another order.          *)
(*                                                                         *)
(* The script compares  current + previous * (1 - elapsed / window)  with  *)
(* the limit, here multiplied by the length of the window.                 *)
(***************************************************************************)
EXTENDS Naturals

CONSTANTS
  Requests,   \* requests that can be in flight at once
  Limit,      \* settings.rate_limit
  Window,     \* 60 seconds
  MaxTime,    \* the clock stops here
  MaxDelay    \* bound on the time between a request's stamp and its script

ASSUME RateLimitAssumption ==
  /\ Limit \in Nat
  /\ Window \in Nat \ {0}
  /\ MaxTime \in Nat
  /\ MaxDelay \in Nat

VARIABLES
  now,        \* the clock, in seconds
  count,      \* the counter of each window; 0: Redis has no such key
  deadline,   \* when Redis drops the key
  accepted,   \* history: requests counted with a stamp in the window
  served,     \* history: requests counted with this stamp
  latest,     \* history: when the last request was counted (0: none yet)
  late,       \* history: has one been counted after another of a later stamp?
  req         \* the requests in flight

redis   == <<count, deadline>>
history == <<accepted, served, latest, late>>
vars    == <<now, redis, history, req>>

Times       == 0 .. MaxTime
WindowOf(t) == t \div Window
Windows     == 0 .. WindowOf(MaxTime)
Replies     == {"none", "next", "429", "500"}

TypeOK ==
  /\ now      \in Times
  /\ count    \in [Windows -> Nat]
  /\ deadline \in [Windows -> Nat]
  /\ accepted \in [Windows -> Nat]
  /\ served   \in [Times -> Nat]
  /\ latest   \in Nat
  /\ late     \in BOOLEAN
  /\ req      \in [Requests -> [pc : {"idle", "sent"}, stamp : Times, reply : Replies]]

Unused == [pc |-> "idle", stamp |-> 0, reply |-> "none"]

Init ==
  /\ now      = 0
  /\ count    = [w \in Windows |-> 0]
  /\ deadline = [w \in Windows |-> 0]
  /\ accepted = [w \in Windows |-> 0]
  /\ served   = [t \in Times |-> 0]
  /\ latest   = 0
  /\ late     = FALSE
  /\ req      = [r \in Requests |-> Unused]

-----------------------------------------------------------------------------

\* The script reads an absent key as 0; the window before the first has none.
Before(w) == IF w = 0 THEN 0 ELSE count[w - 1]

\* Mutant: the whole of the window before counts, whatever time has passed.
Unweighted(w, elapsed) == count[w] * Window + Before(w) * Window

\* The script's `total`, times Window.
Total(w, elapsed) == count[w] * Window + Before(w) * (Window - elapsed)

\* Mutant: `>` for `>=`.
OverLimit(w, elapsed) == Total(w, elapsed) > Limit * Window

Refused(w, elapsed) == Total(w, elapsed) >= Limit * Window

\* Mutant: keys that live for one window.
OneWindow == Window

Ttl == 2 * Window

\* Mutant: INCR without EXPIRE; the key never goes.
NeverExpires(w) == deadline' = [deadline EXCEPT ![w] = MaxTime + 1]

\* EXPIRE on the keys of this window and of the one before; it does nothing to a
\* key that is not there.
Expire(w) ==
  deadline' = [v \in Windows |->
    IF v = w \/ (v + 1 = w /\ count[v] > 0) THEN now + Ttl ELSE deadline[v]]

\* Mutant: the time is rounded up instead of cut off by int().
StampRoundedUp(r) ==
  /\ req[r].pc = "idle"
  /\ req' = [req EXCEPT ![r] = [pc |-> "sent", stamp |-> now + 1, reply |-> "none"]]
  /\ UNCHANGED <<now, redis, history>>

\* check_rate_limit takes the time, then waits for the script and the connection.
Stamp(r) ==
  /\ req[r].pc = "idle"
  /\ req' = [req EXCEPT ![r] = [pc |-> "sent", stamp |-> now, reply |-> "none"]]
  /\ UNCHANGED <<now, redis, history>>

Replied(r, reply) ==
  req' = [req EXCEPT ![r] = [Unused EXCEPT !.reply = reply]]

\* Mutant: INCR comes before the comparison, and refused requests count too.
RefuseCounted(r) ==
  LET w == WindowOf(req[r].stamp)
  IN /\ req[r].pc = "sent"
     /\ Refused(w, req[r].stamp % Window)
     /\ count' = [count EXCEPT ![w] = @ + 1]
     /\ Expire(w)
     /\ Replied(r, "429")
     /\ UNCHANGED <<now, history>>

\* One run of the script is atomic; a refused request leaves no trace in Redis.
Refuse(r) ==
  /\ req[r].pc = "sent"
  /\ Refused(WindowOf(req[r].stamp), req[r].stamp % Window)
  /\ Replied(r, "429")
  /\ UNCHANGED <<now, redis, history>>

\* If Redis goes away before its answer arrives, the request is counted and not served.
Admit(r) ==
  LET t == req[r].stamp
      w == WindowOf(t)
  IN /\ req[r].pc = "sent"
     /\ ~Refused(w, t % Window)
     /\ count' = [count EXCEPT ![w] = @ + 1]
     /\ Expire(w)
     /\ accepted' = [accepted EXCEPT ![w] = @ + 1]
     /\ served' = [served EXCEPT ![t] = @ + 1]
     /\ latest' = now
     /\ late' = (late \/ \E u \in Times : u > t /\ served[u] > 0)
     /\ Replied(r, "next") \/ Replied(r, "500")
     /\ UNCHANGED now

\* Redis cannot be reached: the exception leaves the middleware.
Fail(r) ==
  /\ req[r].pc = "sent"
  /\ Replied(r, "500")
  /\ UNCHANGED <<now, redis, history>>

\* Redis drops the keys whose time is over.  MaxDelay bounds how long a stamped
\* request can be on its way.
Tick ==
  /\ now < MaxTime
  /\ \A r \in Requests : req[r].pc = "sent" => now < req[r].stamp + MaxDelay
  /\ now' = now + 1
  /\ count'    = [w \in Windows |-> IF deadline[w] <= now + 1 THEN 0 ELSE count[w]]
  /\ deadline' = [w \in Windows |-> IF deadline[w] <= now + 1 THEN 0 ELSE deadline[w]]
  /\ UNCHANGED <<history, req>>

Next ==
  \/ \E r \in Requests : Stamp(r) \/ Refuse(r) \/ Admit(r) \/ Fail(r)
  \/ Tick

Spec == Init /\ [][Next]_vars

-----------------------------------------------------------------------------
(* Properties *)

\* Redis has not forgotten any request that still counts: for a request stamped now,
\* the counters of its window and of the one before are those of all requests
\* admitted in them, however late some of these were counted.
NothingThatCountsIsForgotten ==
  \A w \in Windows :
    w = WindowOf(now) \/ w + 1 = WindowOf(now) => count[w] = accepted[w]

\* No window admits more requests than the limit, although stamps are judged late and
\* out of order.  This needs MaxDelay <= Window: a request on its way for longer can
\* find that Redis has dropped its window's counter, which then starts again.
LimitPerWindow == \A w \in Windows : accepted[w] <= Limit

\* What the script is to weigh, of the history and not of Redis: the requests admitted
\* in window w, and those of the window before by the share of it not yet over.
AdmittedBefore(w) == IF w = 0 THEN 0 ELSE accepted[w - 1]
Admitted(w, elapsed) == accepted[w] * Window + AdmittedBefore(w) * (Window - elapsed)

\* A request is refused only if the requests admitted in its window and, by their
\* weight, in the one before reach the limit: neither those that were refused nor the
\* part of the last window that is over count against the client.
NoFalseRefusal ==
  [][\A r \in Requests :
       req[r].pc = "sent" /\ req'[r].pc = "idle" /\ req'[r].reply = "429"
       => Admitted(WindowOf(req[r].stamp), req[r].stamp % Window) >= Limit * Window]_vars

\* description.md:7, of the address that is part of every key: "Retained for a maximum
\* of 2 minutes, then automatically and permanently deleted", that is, two windows
\* after the last admitted request; a client that is being refused does not prolong it.
RetainedTwoWindows ==
  \A w \in Windows : count[w] > 0 => now < latest + 2 * Window

\* X-RateLimit-Remaining, the limit minus the script's total (cut to an integer), is
\* never negative, as long as the scripts run in the order of their stamps.  A request
\* stamped in the window before that comes late still counts against the new one, and
\* can make the total anything up to twice the limit (RemainingIsBounded).
RemainingIsNotNegative ==
  ~late => \A r \in Requests :
    req[r].pc = "sent" /\ (\A t \in Times : served[t] > 0 => t <= req[r].stamp)
    => Total(WindowOf(req[r].stamp), req[r].stamp % Window) < (Limit + 1) * Window

\* In whatever order scripts run, the total that a request finds is at most twice the
\* limit, and X-RateLimit-Remaining at least the limit's negative.  Like LimitPerWindow
\* it needs MaxDelay <= Window.
RemainingIsBounded ==
  \A r \in Requests :
    req[r].pc = "sent"
    => Total(WindowOf(req[r].stamp), req[r].stamp % Window) <= 2 * Limit * Window

-----------------------------------------------------------------------------
(* The inductive invariant the theorems of RateLimitProofs rest on. *)

\* Until two windows after its start, a window's counter is complete, and will not be
\* dropped before.
Complete(w) ==
  now < (w + 2) * Window =>
    /\ count[w] = accepted[w]
    /\ count[w] > 0 => deadline[w] >= (w + 2) * Window

Lasting(w) ==
  /\ count[w] <= accepted[w]
  /\ count[w] > 0 => now < deadline[w] /\ deadline[w] <= latest + 2 * Window

\* When each counter can be dropped, which NothingThatCountsIsForgotten alone says
\* nothing of, and how old a stamp can be when it is judged.
IInv ==
  /\ TypeOK
  /\ latest <= now
  /\ \A w \in Windows : Complete(w) /\ Lasting(w)
  /\ \A r \in Requests :
       req[r].pc = "sent" => req[r].stamp <= now /\ now <= req[r].stamp + MaxDelay

-----------------------------------------------------------------------------

\* docs/adr/004-redis-distributed-rate-limiting.en.md:26: "no burst at boundaries
\* (unlike fixed window)".  The script does not keep timestamps: it takes the requests
\* of the last window for evenly spread, so a client that sent them at its end has
\* more than the limit admitted within one window's time.
NoBoundaryBurst ==
  \A s, t \in Times :
    s < t /\ t < s + Window => served[s] + served[t] <= Limit

=============================================================================
