------------------------------ MODULE Sessions ------------------------------
(***************************************************************************)
(* Accounts and session tokens: every request under /v1/auth, on the users *)
(* and tokens tables.  A user has at most one row in `tokens`, keyed by    *)
(* the user, with an opaque token and an expiry.                           *)
(*                                                                         *)
(* Each method of AuthRepository is a transaction of its own, although a   *)
(* request's dependencies and handler share one session: a request first   *)
(* resolves its token (or the user's name and password) and only later, in *)
(* a second transaction, reads or changes the row of that USER.  Between   *)
(* the two other requests run and time passes.                             *)
(***************************************************************************)
EXTENDS Naturals

CONSTANTS
  Requests,   \* HTTP requests; each is handled once
  Users,      \* user names
  Tokens,     \* the values gen_random_uuid() can hand out
  NoSession,  \* "no row in tokens"
  Nobody,     \* "no user" and "no token"
  Lifetime,   \* interval '7d', in ticks of the clock
  MaxTime,    \* the clock stops here
  Failing     \* may a transaction fail, or its outcome be lost?

Session == [token : Tokens, until : Nat]

ASSUME SessionsAssumption ==
  /\ Lifetime \in Nat \ {0}
  /\ MaxTime \in Nat
  /\ NoSession \notin Session
  /\ Nobody \notin Users \cup Tokens
  /\ Failing \in BOOLEAN

VARIABLES
  accounts,   \* the users table
  session,    \* the tokens table: one row or none for each user
  now,        \* PostgreSQL's clock
  ended,      \* history: tokens that a logout or a refresh took out of the table
  req         \* the state of every request

vars == <<accounts, session, now, ended, req>>

\* pc: what the request does next; user: whose row it works on, once known;
\* shown: the token it presented; reply: the HTTP status sent (0: none yet);
\* token: the token it found, and answers with if the reply is 200.
PCs     == {"idle", "lookup", "insert", "return", "act", "done"}
Ops     == {"register", "login", "logout", "refresh", "me"}
Replies == {0, 200, 400, 401, 404, 500}
Request == [pc    : PCs,
            op    : Ops \cup {"none"},
            user  : Users \cup {Nobody},
            shown : Tokens \cup {Nobody},
            reply : Replies,
            token : Tokens \cup {Nobody}]

TypeOK ==
  /\ accounts \subseteq Users
  /\ session  \in [Users -> Session \cup {NoSession}]
  /\ now      \in Nat
  /\ ended    \subseteq Tokens
  /\ req      \in [Requests -> Request]

Unused == [pc |-> "idle", op |-> "none", user |-> Nobody, shown |-> Nobody,
           reply |-> 0, token |-> Nobody]

\* Some accounts exist already, and nobody is logged in.
Init ==
  /\ accounts \in SUBSET Users
  /\ session  = [u \in Users |-> NoSession]
  /\ now      = 0
  /\ ended    = {}
  /\ req      = [r \in Requests |-> Unused]

-----------------------------------------------------------------------------

Open(u) == session[u] # NoSession

\* gen_random_uuid() never repeats a value.
Fresh(k) ==
  /\ k \notin ended
  /\ \A u \in Users : Open(u) => session[u].token # k

FreshSession(k) == [token |-> k, until |-> now + Lifetime]

Starts(r, op, u, k, next) ==
  /\ req[r].pc = "idle"
  /\ req' = [req EXCEPT ![r] = [Unused EXCEPT
       !.pc = next, !.op = op, !.user = u, !.shown = k]]

\* A request that its first transaction refuses, or that needs no second one.
StartsAndEnds(r, op, u, k, code) ==
  /\ req[r].pc = "idle"
  /\ req' = [req EXCEPT ![r] = [Unused EXCEPT
       !.pc = "done", !.op = op, !.user = u, !.shown = k, !.reply = code]]

Goes(r, next, k) == req' = [req EXCEPT ![r] = [@ EXCEPT !.pc = next, !.token = k]]

Ends(r, code, k) ==
  req' = [req EXCEPT ![r] = [@ EXCEPT !.pc = "done", !.reply = code, !.token = k]]

\* The answer after a commit; if the connection was lost during the commit, the
\* client gets a 500 for a change that is in the table.
Answers(r, k) == Ends(r, 200, k) \/ (Failing /\ Ends(r, 500, Nobody))

-----------------------------------------------------------------------------
(* POST /register *)

\* The unique constraint on the name decides.  SQLAlchemy wraps the driver's error,
\* so create_user does not recognise it and reports an unknown one.
Register(r, u) ==
  /\ \/ /\ u \notin accounts
        /\ accounts' = accounts \cup {u}
        /\ StartsAndEnds(r, "register", u, Nobody, 200)
     \/ /\ u \in accounts \/ Failing
        /\ accounts' \in {accounts, accounts \cup {u}}
        /\ StartsAndEnds(r, "register", u, Nobody, 500)
  /\ UNCHANGED <<session, now, ended>>

(* POST /login and POST /token *)

\* Mutant: a wrong password is answered 403, which the client takes for a session.
LoginForbidden(r, u) ==
  /\ StartsAndEnds(r, "login", u, Nobody, IF u \in accounts THEN 403 ELSE 404)
  /\ UNCHANGED <<accounts, session, now, ended>>

LoginRefused(r, u) ==
  /\ StartsAndEnds(r, "login", u, Nobody, IF u \in accounts THEN 401 ELSE 404)
  /\ UNCHANGED <<accounts, session, now, ended>>

\* get_user_id_password finds the account, and check_password agrees.
LoginAccepted(r, u) ==
  /\ u \in accounts
  /\ Starts(r, "login", u, Nobody, "lookup")
  /\ UNCHANGED <<accounts, session, now, ended>>

\* The SELECT of get_or_create_user_token, which does not look at valid_until.
Lookup(r) ==
  /\ req[r].pc = "lookup"
  /\ LET u == req[r].user
     IN IF Open(u) THEN Goes(r, "return", session[u].token)
                   ELSE Goes(r, "insert", Nobody)
  /\ UNCHANGED <<accounts, session, now, ended>>

\* Mutant: the INSERT overwrites a row it meets (ON CONFLICT DO UPDATE).
InsertOrReplace(r) ==
  /\ req[r].pc = "insert"
  /\ \E k \in Tokens :
       /\ Fresh(k)
       /\ session' = [session EXCEPT ![req[r].user] = FreshSession(k)]
       /\ Answers(r, k)
  /\ UNCHANGED <<accounts, now, ended>>

\* Its INSERT: a concurrent first login may have been faster, and then the primary
\* key raises an error that nobody catches.
Insert(r) ==
  /\ req[r].pc = "insert"
  /\ \/ /\ Open(req[r].user)
        /\ Ends(r, 500, Nobody)
        /\ UNCHANGED session
     \/ /\ ~Open(req[r].user)
        /\ \E k \in Tokens :
             /\ Fresh(k)
             /\ session' = [session EXCEPT ![req[r].user] = FreshSession(k)]
             /\ Answers(r, k)
  /\ UNCHANGED <<accounts, now, ended>>

\* The token found by the SELECT is returned after a commit.
Return(r) ==
  /\ req[r].pc = "return"
  /\ Answers(r, req[r].token)
  /\ UNCHANGED <<accounts, session, now, ended>>

-----------------------------------------------------------------------------
(* The `authorization` dependency of the other endpoints *)

Valid(u, k) == Open(u) /\ session[u].token = k /\ session[u].until > now

Unauthorized(r, op, k) ==
  /\ \A u \in Users : ~Valid(u, k)
  /\ StartsAndEnds(r, op, Nobody, k, 401)
  /\ UNCHANGED <<accounts, session, now, ended>>

\* From here on the request knows its user, and forgets the token.
Authorized(r, op, k) ==
  /\ \E u \in Users : Valid(u, k) /\ Starts(r, op, u, k, "act")
  /\ UNCHANGED <<accounts, session, now, ended>>

\* Mutant: delete_token without its commit; get_db's own finds an empty session.
LogoutUncommitted(r) ==
  /\ req[r].pc = "act" /\ req[r].op = "logout"
  /\ IF Open(req[r].user) THEN Answers(r, Nobody) ELSE Ends(r, 400, Nobody)
  /\ UNCHANGED <<accounts, session, now, ended>>

(* POST /logout *)
Logout(r) ==
  /\ req[r].pc = "act" /\ req[r].op = "logout"
  /\ LET u == req[r].user
     IN \/ /\ Open(u)
           /\ session' = [session EXCEPT ![u] = NoSession]
           /\ ended' = ended \cup {session[u].token}
           /\ Answers(r, Nobody)
        \/ /\ ~Open(u)
           /\ Ends(r, 400, Nobody)
           /\ UNCHANGED <<session, ended>>
  /\ UNCHANGED <<accounts, now>>

\* Mutant: refresh_user_token as an upsert.
RefreshOrInsert(r) ==
  /\ req[r].pc = "act" /\ req[r].op = "refresh"
  /\ LET u == req[r].user
     IN \E k \in Tokens :
          /\ Fresh(k)
          /\ session' = [session EXCEPT ![u] = FreshSession(k)]
          /\ ended' = ended \cup (IF Open(u) THEN {session[u].token} ELSE {})
          /\ Answers(r, k)
  /\ UNCHANGED <<accounts, now>>

(* POST /refresh *)
Refresh(r) ==
  /\ req[r].pc = "act" /\ req[r].op = "refresh"
  /\ LET u == req[r].user
     IN \/ /\ Open(u)
           /\ \E k \in Tokens :
                /\ Fresh(k)
                /\ session' = [session EXCEPT ![u] = FreshSession(k)]
                /\ Answers(r, k)
           /\ ended' = ended \cup {session[u].token}
        \/ /\ ~Open(u)
           /\ Ends(r, 404, Nobody)
           /\ UNCHANGED <<session, ended>>
  /\ UNCHANGED <<accounts, now>>

(* GET /me: users LEFT JOIN tokens, so a user without a session is still shown. *)
Me(r) ==
  /\ req[r].pc = "act" /\ req[r].op = "me"
  /\ Answers(r, Nobody)
  /\ UNCHANGED <<accounts, session, now, ended>>

-----------------------------------------------------------------------------

\* A statement or a connection fails before anything is committed; nothing handles
\* the exception, and the server answers 500.
Fails(r) ==
  /\ Failing
  /\ req[r].pc \notin {"idle", "done"}
  /\ Ends(r, 500, Nobody)
  /\ UNCHANGED <<accounts, session, now, ended>>

Tick ==
  /\ now < MaxTime
  /\ now' = now + 1
  /\ UNCHANGED <<accounts, session, ended, req>>

\* The one state in which the system may rest.
Quiet ==
  /\ now = MaxTime
  /\ \A r \in Requests : req[r].pc = "done"
  /\ UNCHANGED vars

Arrive(r) ==
  \/ \E u \in Users : Register(r, u) \/ LoginRefused(r, u) \/ LoginAccepted(r, u)
  \/ \E op \in {"logout", "refresh", "me"}, k \in Tokens :
       Unauthorized(r, op, k) \/ Authorized(r, op, k)

Proceed(r) ==
  Lookup(r) \/ Insert(r) \/ Return(r) \/ Logout(r) \/ Refresh(r) \/ Me(r)

Next ==
  \/ \E r \in Requests : Arrive(r) \/ Proceed(r) \/ Fails(r)
  \/ Tick
  \/ Quiet

Spec == Init /\ [][Next]_vars

-----------------------------------------------------------------------------
(* Properties *)

\* Once a logout or a refresh has answered 200, the token it was called with is in
\* no row and so authenticates nothing again, whoever else has logged in, refreshed
\* or logged out since that request read it.
RevokedTokensAreDead ==
  \A r \in Requests, u \in Users :
    req[r].op \in {"logout", "refresh"} /\ req[r].reply = 200 /\ Open(u)
    => session[u].token # req[r].shown

\* A token that a login or a refresh handed out is its user's session until a logout
\* or a refresh ends it: two first logins at once never give one of the two clients
\* a token that the other's INSERT has displaced.
HandedOutTokensLast ==
  \A r \in Requests :
    req[r].op \in {"login", "refresh"} /\ req[r].reply = 200
    => \/ Open(req[r].user) /\ session[req[r].user].token = req[r].token
       \/ req[r].token \in ended

\* Only a login that passed the password check opens a session: a refresh that was
\* authenticated before a logout and runs after it does not bring the session back.
OnlyLoginOpens ==
  [][\A u \in Users :
       ~Open(u) /\ session'[u] # NoSession
       => \E r \in Requests :
            req[r].op = "login" /\ req[r].user = u /\ req[r].pc = "insert"]_vars

-----------------------------------------------------------------------------
(* The inductive invariant the theorems of SessionsProofs rest on. *)

\* k was the token of u's session once, and if it is not any more, a logout or a
\* refresh has ended it.
Held(u, k) ==
  /\ u \in Users /\ k \in Tokens
  /\ k \in ended \/ (Open(u) /\ session[u].token = k)

StageOK(r) ==
  /\ req[r].pc # "done" => req[r].reply = 0
  /\ req[r].pc \in {"lookup", "insert"} => req[r].op = "login" /\ req[r].user \in Users
  /\ req[r].pc = "return" => req[r].op = "login" /\ Held(req[r].user, req[r].token)
  /\ req[r].pc = "act" =>
       req[r].op \in {"logout", "refresh", "me"} /\ Held(req[r].user, req[r].shown)
  /\ req[r].reply = 200 =>
       /\ req[r].op \in {"login", "refresh"} => Held(req[r].user, req[r].token)
       /\ req[r].op \in {"logout", "refresh"} => req[r].shown \in ended

TokensOK ==
  \A u \in Users : Open(u) =>
    /\ session[u].token \notin ended
    /\ \A v \in Users \ {u} : Open(v) => session[v].token # session[u].token

\* What a request under way has read of the table may be out of date, but only in one
\* way: the token it found has been ended since, and an ended token never comes back.
IInv ==
  /\ TypeOK
  /\ TokensOK
  /\ \A r \in Requests : StageOK(r)

-----------------------------------------------------------------------------

\* README.md:237, of login: "existing or new session token".  The SELECT of
\* get_or_create_user_token ignores valid_until, so after seven days the user is
\* given the token of the expired session again, which opens nothing.
LoginGivesValidToken ==
  [][\A r \in Requests :
       req[r].op = "login" /\ req[r].reply = 0 /\ req'[r].reply = 200
       => \E k \in Tokens : k = req'[r].token /\ Valid(req[r].user, k)']_vars

=============================================================================
