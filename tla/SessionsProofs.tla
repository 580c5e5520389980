--------------------------- MODULE SessionsProofs ---------------------------
(***************************************************************************)
(* Theorems of Sessions, for any numbers of requests, users and tokens and *)
(* any lifetime.                                                           *)
(***************************************************************************)
EXTENDS Sessions, TLAPS

-----------------------------------------------------------------------------
(* What the four kinds of steps do to the tokens table *)

\* Held after the step, for what the request knew before it.
HeldNext(u, k) ==
  /\ u \in Users /\ k \in Tokens
  /\ k \in ended' \/ (session'[u] # NoSession /\ session'[u].token = k)

\* Nothing a request holds is lost, and nothing ended comes back.
TableKept ==
  /\ session' \in [Users -> Session \cup {NoSession}]
  /\ ended' \in SUBSET Tokens
  /\ ended \subseteq ended'
  /\ TokensOK'
  /\ \A v \in Users, k \in Tokens : Held(v, k) => HeldNext(v, k)

LEMMA Untouched ==
  ASSUME TypeOK, TokensOK, UNCHANGED <<session, ended>>
  PROVE  TableKept
<1>1. session' = session /\ ended' = ended  OBVIOUS
<1>2. TokensOK'  BY <1>1 DEF TokensOK, Open
<1>3. \A v \in Users, k \in Tokens : Held(v, k) => HeldNext(v, k)
  BY <1>1 DEF Held, HeldNext, Open
<1> QED  BY <1>1, <1>2, <1>3 DEF TableKept, TypeOK

LEMMA FreshSessionType ==
  ASSUME TypeOK, NEW k \in Tokens
  PROVE  FreshSession(k) \in Session /\ FreshSession(k) # NoSession
<1>1. now + Lifetime \in Nat  BY SessionsAssumption DEF TypeOK
<1>2. FreshSession(k) \in Session  BY <1>1 DEF FreshSession, Session
<1> QED  BY <1>2, SessionsAssumption

\* The row of u is inserted.
LEMMA Opened ==
  ASSUME TypeOK, TokensOK, NEW u \in Users, NEW k \in Tokens, Fresh(k), ~Open(u),
         session' = [session EXCEPT ![u] = FreshSession(k)], ended' = ended
  PROVE  TableKept
<1>1. FreshSession(k) \in Session /\ FreshSession(k) # NoSession
  BY FreshSessionType
<1>2. session' \in [Users -> Session \cup {NoSession}]  BY <1>1 DEF TypeOK
<1>3. session'[u] = FreshSession(k) /\ \A v \in Users \ {u} : session'[v] = session[v]
  BY DEF TypeOK
<1>4. FreshSession(k).token = k  BY DEF FreshSession
<1>5. TokensOK'  BY <1>1, <1>3, <1>4 DEF TokensOK, Fresh, Open
<1>6. \A v \in Users, j \in Tokens : Held(v, j) => HeldNext(v, j)
  BY <1>3 DEF Held, HeldNext, Open
<1> QED  BY <1>2, <1>5, <1>6 DEF TableKept, TypeOK

\* The row of u is deleted.
LEMMA Closed ==
  ASSUME TypeOK, TokensOK, NEW u \in Users, Open(u),
         session' = [session EXCEPT ![u] = NoSession],
         ended' = ended \cup {session[u].token}
  PROVE  TableKept
<1>1. session[u] \in Session /\ session[u].token \in Tokens
  BY DEF TypeOK, Open, Session
<1>2. session' \in [Users -> Session \cup {NoSession}]  BY DEF TypeOK
<1>3. session'[u] = NoSession /\ \A v \in Users \ {u} : session'[v] = session[v]
  BY DEF TypeOK
<1>4. TokensOK'  BY <1>3 DEF TokensOK, Open
<1>5. \A v \in Users, j \in Tokens : Held(v, j) => HeldNext(v, j)
  BY <1>3 DEF Held, HeldNext, Open
<1> QED  BY <1>1, <1>2, <1>4, <1>5 DEF TableKept, TypeOK

\* The row of u gets another token.
LEMMA Replaced ==
  ASSUME TypeOK, TokensOK, NEW u \in Users, NEW k \in Tokens, Fresh(k), Open(u),
         session' = [session EXCEPT ![u] = FreshSession(k)],
         ended' = ended \cup {session[u].token}
  PROVE  TableKept
<1>1. FreshSession(k) \in Session /\ FreshSession(k) # NoSession
  BY FreshSessionType
<1>2. session[u] \in Session /\ session[u].token \in Tokens
  BY DEF TypeOK, Open, Session
<1>3. session' \in [Users -> Session \cup {NoSession}]  BY <1>1 DEF TypeOK
<1>4. session'[u] = FreshSession(k) /\ \A v \in Users \ {u} : session'[v] = session[v]
  BY DEF TypeOK
<1>5. FreshSession(k).token = k  BY DEF FreshSession
<1>6. TokensOK'  BY <1>1, <1>4, <1>5 DEF TokensOK, Fresh, Open
<1>7. \A v \in Users, j \in Tokens : Held(v, j) => HeldNext(v, j)
  BY <1>4 DEF Held, HeldNext, Open
<1> QED  BY <1>2, <1>3, <1>6, <1>7 DEF TableKept, TypeOK

-----------------------------------------------------------------------------
(* The state of the request that moves *)

\* StageOK as a statement about a request record and the table after the step.
RecordOK(q) ==
  /\ q.pc # "done" => q.reply = 0
  /\ q.pc \in {"lookup", "insert"} => q.op = "login" /\ q.user \in Users
  /\ q.pc = "return" => q.op = "login" /\ HeldNext(q.user, q.token)
  /\ q.pc = "act" =>
       q.op \in {"logout", "refresh", "me"} /\ HeldNext(q.user, q.shown)
  /\ q.reply = 200 =>
       /\ q.op \in {"login", "refresh"} => HeldNext(q.user, q.token)
       /\ q.op \in {"logout", "refresh"} => q.shown \in ended'

\* If the table is kept and the request that moves is in order, everything is.
LEMMA Step ==
  ASSUME IInv, TableKept, NEW r \in Requests, NEW q \in Request, RecordOK(q),
         accounts' \in SUBSET Users, now' = now, req' = [req EXCEPT ![r] = q]
  PROVE  IInv'
<1>1. TypeOK'  BY DEF IInv, TypeOK, TableKept
<1>2. ASSUME NEW s \in Requests  PROVE  StageOK(s)'
  <2>1. CASE s = r
    <3>1. req'[s] = q  BY <2>1 DEF IInv, TypeOK
    <3> QED  BY <3>1 DEF RecordOK, StageOK, Held, HeldNext, Open
  <2>2. CASE s # r
    <3>1. req'[s] = req[s] /\ req[s] \in Request  BY <2>2 DEF IInv, TypeOK
    <3>2. \A u, k : Held(u, k) => HeldNext(u, k)
      BY DEF Held, TableKept
    <3>3. StageOK(s)  BY DEF IInv
    <3>4. ended \subseteq ended'  BY DEF TableKept
    <3>5. Held(req[s].user, req[s].token) => Held(req[s].user, req[s].token)'
      BY <3>1, <3>2 DEF Held, HeldNext, Open
    <3>6. Held(req[s].user, req[s].shown) => Held(req[s].user, req[s].shown)'
      BY <3>1, <3>2 DEF Held, HeldNext, Open
    <3> QED  BY <3>1, <3>3, <3>4, <3>5, <3>6 DEF StageOK, Held, Open
  <2> QED  BY <2>1, <2>2
<1> QED  BY <1>1, <1>2 DEF IInv, TableKept

-----------------------------------------------------------------------------
(* The ways a request moves *)

LEMMA StartsStep ==
  ASSUME IInv, UNCHANGED <<session, now, ended>>, accounts' \in SUBSET Users,
         NEW r \in Requests, NEW op \in Ops, NEW u \in Users \cup {Nobody},
         NEW k \in Tokens \cup {Nobody}, NEW next \in {"lookup", "act"},
         Starts(r, op, u, k, next),
         next = "lookup" => op = "login" /\ u \in Users,
         next = "act" => op \in {"logout", "refresh", "me"} /\ Held(u, k)
  PROVE  IInv'
<1> DEFINE q == [Unused EXCEPT !.pc = next, !.op = op, !.user = u, !.shown = k]
<1>1. TableKept  BY Untouched DEF IInv
<1>2. q \in Request  BY DEF Unused, Request, PCs, Replies
<1>3. next = "act" => HeldNext(u, k)  BY DEF Held, HeldNext, Open
<1>4. RecordOK(q)  BY <1>3 DEF RecordOK, Unused
<1>5. req' = [req EXCEPT ![r] = q]  BY DEF Starts
<1> HIDE DEF q
<1> QED  BY <1>1, <1>2, <1>4, <1>5, Step

LEMMA StartsAndEndsStep ==
  ASSUME IInv, UNCHANGED <<session, now, ended>>, accounts' \in SUBSET Users,
         NEW r \in Requests, NEW op \in Ops, NEW u \in Users \cup {Nobody},
         NEW k \in Tokens \cup {Nobody}, NEW code \in Replies,
         StartsAndEnds(r, op, u, k, code), code = 200 => op = "register"
  PROVE  IInv'
<1> DEFINE q == [Unused EXCEPT !.pc = "done", !.op = op, !.user = u,
                   !.shown = k, !.reply = code]
<1>1. TableKept  BY Untouched DEF IInv
<1>2. /\ q.pc = "done" /\ q.op = op /\ q.user = u /\ q.shown = k
      /\ q.reply = code
  BY DEF Unused
<1>3. req' = [req EXCEPT ![r] = q]  BY DEF StartsAndEnds
<1>4. Unused \in Request  BY DEF Unused, Request, PCs, Replies
<1>5. q \in Request
  <2>1. [Unused EXCEPT !.pc = "done", !.op = op] \in Request
    BY <1>4 DEF Request, PCs
  <2> QED  BY <2>1 DEF Request
<1> HIDE DEF q
<1>6. RecordOK(q)  BY <1>2 DEF RecordOK
<1> QED  BY <1>1, <1>3, <1>5, <1>6, Step

LEMMA GoesStep ==
  ASSUME IInv, UNCHANGED <<accounts, session, now, ended>>, NEW r \in Requests,
         req[r].pc = "lookup", NEW k \in Tokens \cup {Nobody},
         NEW next \in {"return", "insert"}, Goes(r, next, k),
         next = "return" => Held(req[r].user, k)
  PROVE  IInv'
<1> DEFINE q == [req[r] EXCEPT !.pc = next, !.token = k]
<1>1. TableKept  BY Untouched DEF IInv
<1>2. req[r] \in Request /\ StageOK(r)  BY DEF IInv, TypeOK
<1>3. q \in Request  BY <1>2 DEF Request, PCs
<1>4. /\ q.pc = next /\ q.token = k
      /\ q.op = req[r].op /\ q.user = req[r].user /\ q.reply = req[r].reply
  BY <1>2 DEF Request
<1>5. req' = [req EXCEPT ![r] = q]  BY DEF Goes
<1> HIDE DEF q
<1>6. next = "return" => HeldNext(req[r].user, k)
  BY DEF Held, HeldNext, Open
<1>7. next = "return" => HeldNext(q.user, q.token)
  BY <1>4, <1>6
<1>8. q.op = "login" /\ q.user \in Users /\ q.reply = 0
  BY <1>2, <1>4 DEF StageOK
<1>9. RecordOK(q)  BY <1>4, <1>7, <1>8 DEF RecordOK
<1>10. accounts' \in SUBSET Users /\ now' = now  BY DEF IInv, TypeOK
<1> QED  BY <1>1, <1>3, <1>5, <1>9, <1>10, Step

\* The end of a request that has left the table in order.
LEMMA EndsStep ==
  ASSUME IInv, TableKept, UNCHANGED <<accounts, now>>, NEW r \in Requests,
         req[r].user \in Users,
         NEW code \in Replies, NEW k \in Tokens \cup {Nobody}, Ends(r, code, k),
         code = 200 =>
           /\ req[r].op \in {"login", "refresh"} =>
                k \in Tokens /\ (k \in ended'
                                  \/ (session'[req[r].user] # NoSession
                                      /\ session'[req[r].user].token = k))
           /\ req[r].op \in {"logout", "refresh"} => req[r].shown \in ended'
  PROVE  IInv'
<1> DEFINE q == [req[r] EXCEPT !.pc = "done", !.reply = code, !.token = k]
<1>1. req[r] \in Request  BY DEF IInv, TypeOK
<1>2. q \in Request  BY <1>1 DEF Request, PCs
<1>3. /\ q.pc = "done" /\ q.reply = code /\ q.token = k
      /\ q.op = req[r].op /\ q.user = req[r].user /\ q.shown = req[r].shown
  BY <1>1 DEF Request
<1>4. req' = [req EXCEPT ![r] = q]  BY DEF Ends
<1> HIDE DEF q
<1>5. RecordOK(q)  BY <1>3 DEF RecordOK, HeldNext
<1>6. accounts' \in SUBSET Users /\ now' = now  BY DEF IInv, TypeOK
<1> QED  BY <1>2, <1>4, <1>5, <1>6, Step

-----------------------------------------------------------------------------
(* The actions *)

LEMMA ArriveStep ==
  ASSUME IInv, NEW r \in Requests, Arrive(r)
  PROVE  IInv'
<1> accounts \in SUBSET Users  BY DEF IInv, TypeOK
<1>1. ASSUME NEW u \in Users, Register(r, u)  PROVE  IInv'
  <2>1. accounts' \in SUBSET Users  BY <1>1 DEF Register
  <2>2. PICK code \in {200, 500} : StartsAndEnds(r, "register", u, Nobody, code)
    BY <1>1 DEF Register
  <2> QED  BY <1>1, <2>1, <2>2, StartsAndEndsStep DEF Register, Ops, Replies
<1>2. ASSUME NEW u \in Users, LoginRefused(r, u)  PROVE  IInv'
  <2>1. PICK code \in {401, 404} : StartsAndEnds(r, "login", u, Nobody, code)
    BY <1>2 DEF LoginRefused
  <2> QED  BY <1>2, <2>1, StartsAndEndsStep DEF LoginRefused, Ops, Replies
<1>3. ASSUME NEW u \in Users, LoginAccepted(r, u)  PROVE  IInv'
  BY <1>3, StartsStep DEF LoginAccepted, Ops
<1>4. ASSUME NEW op \in {"logout", "refresh", "me"}, NEW k \in Tokens,
             Unauthorized(r, op, k)
      PROVE  IInv'
  BY <1>4, StartsAndEndsStep DEF Unauthorized, Ops, Replies
<1>5. ASSUME NEW op \in {"logout", "refresh", "me"}, NEW k \in Tokens,
             Authorized(r, op, k)
      PROVE  IInv'
  <2>1. PICK u \in Users : Valid(u, k) /\ Starts(r, op, u, k, "act")
    BY <1>5 DEF Authorized
  <2>2. Held(u, k)  BY <2>1 DEF Valid, Held
  <2> QED  BY <1>5, <2>1, <2>2, StartsStep DEF Authorized, Ops
<1> QED  BY <1>1, <1>2, <1>3, <1>4, <1>5 DEF Arrive

\* A request under way knows its user, and what it holds.
LEMMA UnderWay ==
  ASSUME IInv, NEW r \in Requests, req[r].pc \notin {"idle", "done"}
  PROVE  /\ req[r].user \in Users
         /\ req[r].op \in Ops
         /\ req[r].pc \in {"lookup", "insert", "return"} => req[r].op = "login"
         /\ req[r].pc = "return" => Held(req[r].user, req[r].token)
         /\ req[r].pc = "act" => Held(req[r].user, req[r].shown)
<1>1. StageOK(r) /\ req[r] \in Request  BY DEF IInv, TypeOK
<1>2. req[r].pc \in {"lookup", "insert", "return", "act"}  BY <1>1 DEF Request, PCs
<1> QED  BY <1>1, <1>2 DEF StageOK, Held, Ops

LEMMA LookupStep ==
  ASSUME IInv, NEW r \in Requests, Lookup(r)
  PROVE  IInv'
<1>1. req[r].user \in Users  BY UnderWay DEF Lookup
<1>2. CASE Open(req[r].user)
  <2>1. session[req[r].user].token \in Tokens
    BY <1>1, <1>2 DEF IInv, TypeOK, Open, Session
  <2>2. Held(req[r].user, session[req[r].user].token)
    BY <1>1, <1>2, <2>1 DEF Held
  <2> QED  BY <1>2, <2>1, <2>2, GoesStep DEF Lookup
<1>3. CASE ~Open(req[r].user)
  BY <1>3, GoesStep DEF Lookup
<1> QED  BY <1>2, <1>3

LEMMA InsertStep ==
  ASSUME IInv, NEW r \in Requests, Insert(r)
  PROVE  IInv'
<1> DEFINE u == req[r].user
<1>1. u \in Users /\ req[r].op = "login"  BY UnderWay DEF Insert
<1>2. CASE Open(u) /\ Ends(r, 500, Nobody) /\ UNCHANGED session
  <2>1. TableKept  BY <1>2, Untouched DEF Insert, IInv
  <2> QED  BY <1>1, <1>2, <2>1, EndsStep DEF Insert, Replies
<1>3. ASSUME ~Open(u), NEW k \in Tokens, Fresh(k), Answers(r, k),
             session' = [session EXCEPT ![u] = FreshSession(k)]
      PROVE  IInv'
  <2>1. TableKept  BY <1>1, <1>3, Opened DEF Insert, IInv
  <2>2. session'[u] = FreshSession(k)  BY <1>1, <1>3 DEF IInv, TypeOK
  <2>3. session'[u] # NoSession /\ session'[u].token = k
    BY <2>2, FreshSessionType DEF IInv, FreshSession
  <2>4. CASE Ends(r, 200, k)
    BY <1>1, <2>1, <2>3, <2>4, EndsStep DEF Insert, Replies
  <2>5. CASE Ends(r, 500, Nobody)
    BY <1>1, <2>1, <2>5, EndsStep DEF Insert, Replies
  <2> QED  BY <1>3, <2>4, <2>5 DEF Answers
<1> QED  BY <1>2, <1>3 DEF Insert

LEMMA ReturnStep ==
  ASSUME IInv, NEW r \in Requests, Return(r)
  PROVE  IInv'
<1>1. /\ req[r].user \in Users /\ req[r].op = "login"
      /\ Held(req[r].user, req[r].token)
  BY UnderWay DEF Return
<1>2. TableKept  BY Untouched DEF Return, IInv
<1>3. CASE Ends(r, 200, req[r].token)
  BY <1>1, <1>2, <1>3, EndsStep DEF Return, Replies, Held, Open
<1>4. CASE Ends(r, 500, Nobody)
  BY <1>1, <1>2, <1>4, EndsStep DEF Return, Replies
<1> QED  BY <1>3, <1>4 DEF Return, Answers

LEMMA LogoutStep ==
  ASSUME IInv, NEW r \in Requests, Logout(r)
  PROVE  IInv'
<1> DEFINE u == req[r].user
<1>1. u \in Users /\ Held(u, req[r].shown) /\ req[r].op = "logout"
  BY UnderWay DEF Logout
<1>2. CASE Open(u)
  <2>1. /\ session' = [session EXCEPT ![u] = NoSession]
        /\ ended' = ended \cup {session[u].token}
        /\ Answers(r, Nobody)
    BY <1>2 DEF Logout
  <2>2. TableKept  BY <1>1, <1>2, <2>1, Closed DEF IInv
  <2>3. req[r].shown \in ended'  BY <1>1, <2>1 DEF Held
  <2>4. CASE Ends(r, 200, Nobody)
    BY <1>1, <2>2, <2>3, <2>4, EndsStep DEF Logout, Replies
  <2>5. CASE Ends(r, 500, Nobody)
    BY <1>1, <2>2, <2>5, EndsStep DEF Logout, Replies
  <2> QED  BY <2>1, <2>4, <2>5 DEF Answers
<1>3. CASE ~Open(u)
  <2>1. TableKept  BY <1>3, Untouched DEF Logout, IInv
  <2> QED  BY <1>1, <1>3, <2>1, EndsStep DEF Logout, Replies
<1> QED  BY <1>2, <1>3

LEMMA RefreshStep ==
  ASSUME IInv, NEW r \in Requests, Refresh(r)
  PROVE  IInv'
<1> DEFINE u == req[r].user
<1>1. u \in Users /\ Held(u, req[r].shown) /\ req[r].op = "refresh"
  BY UnderWay DEF Refresh
<1>2. CASE Open(u)
  <2>1. PICK k \in Tokens : /\ Fresh(k)
                            /\ session' = [session EXCEPT ![u] = FreshSession(k)]
                            /\ Answers(r, k)
    BY <1>2 DEF Refresh
  <2>2. ended' = ended \cup {session[u].token}  BY <1>2 DEF Refresh
  <2>3. TableKept  BY <1>1, <1>2, <2>1, <2>2, Replaced DEF IInv
  <2>4. session'[u] = FreshSession(k)  BY <1>1, <2>1 DEF IInv, TypeOK
  <2>5. session'[u] # NoSession /\ session'[u].token = k
    BY <2>4, FreshSessionType DEF IInv, FreshSession
  <2>6. CASE Ends(r, 200, k)
    <3> UNCHANGED <<accounts, now>>  BY DEF Refresh
    <3> HIDE DEF u
    <3>1. req[r].user \in Users /\ session'[req[r].user] # NoSession
          /\ session'[req[r].user].token = k
      BY <1>1, <2>5 DEF u
    <3>2. req[r].shown \in ended'  BY <1>1, <2>2 DEF Held, u
    <3> QED  BY <1>1, <2>3, <2>6, <3>1, <3>2, EndsStep DEF Replies
  <2>7. CASE Ends(r, 500, Nobody)
    BY <1>1, <2>3, <2>7, EndsStep DEF Refresh, Replies
  <2> QED  BY <2>1, <2>6, <2>7 DEF Answers
<1>3. CASE ~Open(u)
  <2>1. TableKept  BY <1>3, Untouched DEF Refresh, IInv
  <2> QED  BY <1>1, <1>3, <2>1, EndsStep DEF Refresh, Replies
<1> QED  BY <1>2, <1>3

LEMMA MeStep ==
  ASSUME IInv, NEW r \in Requests, Me(r)
  PROVE  IInv'
<1>1. req[r].user \in Users /\ req[r].op = "me"  BY UnderWay DEF Me
<1>2. TableKept  BY Untouched DEF Me, IInv
<1>3. PICK code \in {200, 500} : Ends(r, code, Nobody)  BY DEF Me, Answers
<1> QED  BY <1>1, <1>2, <1>3, EndsStep DEF Me, Replies

LEMMA FailsStep ==
  ASSUME IInv, NEW r \in Requests, Fails(r)
  PROVE  IInv'
<1>1. req[r].user \in Users  BY UnderWay DEF Fails
<1>2. TableKept  BY Untouched DEF Fails, IInv
<1> QED  BY <1>1, <1>2, EndsStep DEF Fails, Replies

-----------------------------------------------------------------------------

\* A step that leaves the table and the requests alone.
LEMMA IdleStep ==
  ASSUME IInv, UNCHANGED <<accounts, session, ended, req>>, now' \in Nat
  PROVE  IInv'
<1>1. TypeOK'  BY DEF IInv, TypeOK
<1>2. TokensOK'  BY DEF IInv, TokensOK, Open
<1>3. \A r \in Requests : StageOK(r)'  BY DEF IInv, StageOK, Held, Open
<1> QED  BY <1>1, <1>2, <1>3 DEF IInv

\* The agreement between what requests under way have read and the tokens table is
\* kept by every endpoint, failure and tick.
THEOREM Invariant == Spec => []IInv
<1>1. Init => IInv
  BY SessionsAssumption
  DEF Init, IInv, TypeOK, TokensOK, StageOK, Open, Unused, Request, PCs, Replies
<1>2. IInv /\ [Next]_vars => IInv'
  <2> SUFFICES ASSUME IInv, [Next]_vars  PROVE  IInv'
    OBVIOUS
  <2>1. ASSUME NEW r \in Requests, Arrive(r)  PROVE  IInv'
    BY <2>1, ArriveStep
  <2>2. ASSUME NEW r \in Requests, Proceed(r)  PROVE  IInv'
    BY <2>2, LookupStep, InsertStep, ReturnStep, LogoutStep, RefreshStep, MeStep
    DEF Proceed
  <2>3. ASSUME NEW r \in Requests, Fails(r)  PROVE  IInv'
    BY <2>3, FailsStep
  <2>4. CASE Tick
    <3>1. now' \in Nat  BY <2>4 DEF Tick, IInv, TypeOK
    <3> QED  BY <2>4, <3>1, IdleStep DEF Tick
  <2>5. CASE UNCHANGED vars
    <3>1. now' \in Nat  BY <2>5 DEF vars, IInv, TypeOK
    <3> QED  BY <2>5, <3>1, IdleStep DEF vars
  <2> QED  BY <2>1, <2>2, <2>3, <2>4, <2>5 DEF Next, Quiet
<1> QED  BY <1>1, <1>2, PTL DEF Spec

\* Every variable keeps its type.
THEOREM TypeCorrect == Spec => []TypeOK
<1>1. IInv => TypeOK  BY DEF IInv
<1> QED  BY <1>1, Invariant, PTL

\* A token whose logout or refresh was answered 200 is in no row, for any number of
\* concurrent logins, refreshes, logouts and failures.
THEOREM RevokedStayDead == Spec => []RevokedTokensAreDead
<1>1. IInv => RevokedTokensAreDead
  BY DEF IInv, StageOK, TokensOK, RevokedTokensAreDead
<1> QED  BY <1>1, Invariant, PTL

\* No client's token is displaced except by a logout or a refresh.
THEOREM HandedOutLast == Spec => []HandedOutTokensLast
<1>1. IInv => HandedOutTokensLast
  BY DEF IInv, StageOK, Held, HandedOutTokensLast
<1> QED  BY <1>1, Invariant, PTL

\* A refresh that comes after a logout does not open the session again.
THEOREM LoginsOpen == Spec => OnlyLoginOpens
<1>1. IInv /\ [Next]_vars =>
        [\A u \in Users :
           ~Open(u) /\ session'[u] # NoSession
           => \E r \in Requests :
                req[r].op = "login" /\ req[r].user = u /\ req[r].pc = "insert"]_vars
  <2> SUFFICES ASSUME IInv, [Next]_vars, NEW u \in Users,
                      ~Open(u), session'[u] # NoSession
               PROVE  \E r \in Requests :
                        req[r].op = "login" /\ req[r].user = u /\ req[r].pc = "insert"
    OBVIOUS
  <2>1. session' # session  BY DEF Open
  <2>2. PICK r \in Requests : Insert(r) \/ Logout(r) \/ Refresh(r)
    BY <2>1 DEF Next, Arrive, Proceed, Register, LoginRefused, LoginAccepted, Lookup,
                Return, Unauthorized, Authorized, Me, Fails, Tick, Quiet, vars
  <2>3. session \in [Users -> Session \cup {NoSession}]  BY DEF IInv, TypeOK
  <2>4. ~Logout(r)  BY <2>3 DEF Logout, Open
  <2>5. ~Refresh(r)  BY <2>3 DEF Refresh, Open
  <2>6. Insert(r)  BY <2>2, <2>4, <2>5
  <2>7. req[r].op = "login"  BY <2>6, UnderWay DEF Insert
  <2>8. req[r].user = u /\ req[r].pc = "insert"  BY <2>3, <2>6 DEF Insert, Open
  <2> QED  BY <2>7, <2>8
<1> QED  BY <1>1, Invariant, PTL DEF Spec, OnlyLoginOpens

=============================================================================
