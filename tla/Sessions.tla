------------------------------ MODULE Sessions ------------------------------
(***************************************************************************)
(* Administrator sessions: GET /auth/discord, its callback, POST           *)
(* /auth/logout, authorizeAdmin, PostgresAuthStore and the API's cleanup   *)
(* timer.  A callback consumes its attempt, asks Discord who signed in,    *)
(* inserts the session and answers: four steps of which any may fail.      *)
(* A callback may come twice, late, or from a browser that was sent the    *)
(* link; a browser keeps one OAuth cookie and one session cookie.          *)
(***************************************************************************)
EXTENDS Integers, FiniteSets

CONSTANTS
  Browsers, Attempts,
  Callbacks,      \* callback requests; the session one makes is named after it
  SignedRequests, \* requests with a session cookie
  Stranger,       \* TRUE if Discord may answer with a user not in adminIds
  AttemptTtl,     \* 5 minutes
  SessionTtl,     \* 8 hours
  UsedTtl,        \* 1 hour: how long a used row is kept
  CleanupRows,    \* 100 batches of 1000 rows of each table
  MaxAuthTime     \* bound on the clock

ASSUME SessionsAssumption ==
  /\ {AttemptTtl, SessionTtl, UsedTtl, CleanupRows} \subseteq Nat \ {0}
  /\ Stranger \in BOOLEAN

VARIABLES
  attempts,   \* oauth_attempts by state
  sessions,   \* admin_sessions by token
  jar,        \* the cookies of each browser: "oauth" and "session"
  callback,   \* the callback requests
  asking,     \* the requests of a signed-in browser
  authTime    \* the API's clock

authTables == <<attempts, sessions>>
authVars == <<attempts, sessions, jar, callback, asking, authTime>>

NoRow == [standing |-> FALSE]
NoCookie == "none"
NotYet == -1

AuthInit ==
  /\ attempts = [a \in Attempts |-> NoRow]
  /\ sessions = [c \in Callbacks |-> NoRow]
  /\ jar = [b \in Browsers |-> [oauth |-> NoCookie, session |-> NoCookie]]
  /\ callback = [c \in Callbacks |-> [step |-> "Idle"]]
  /\ asking = [r \in SignedRequests |-> [step |-> "Idle"]]
  /\ authTime = 0

Unused(a) == attempts[a] = NoRow

-----------------------------------------------------------------------------
\* GET /auth/discord: storeAttempt, the binding cookie, the redirect; the answer may be lost
StartLogin(b, a, answered) ==
  /\ Unused(a)
  /\ attempts' = [attempts EXCEPT ![a] =
       [standing |-> TRUE, expires |-> authTime + AttemptTtl, consumed |-> NotYet, starter |-> b]]
  /\ jar' = IF answered THEN [jar EXCEPT ![b].oauth = a] ELSE jar
  /\ UNCHANGED <<sessions, callback, asking, authTime>>

\* the browser brings a state to the callback, with the cookie it has
Return(c, b, a) ==
  /\ callback[c].step = "Idle"
  /\ ~Unused(a)
  /\ callback' = [callback EXCEPT ![c] =
       [step |-> IF jar[b].oauth = NoCookie THEN "Refused" ELSE "Received",
        from |-> b, attempt |-> a, binding |-> jar[b].oauth]]
  /\ UNCHANGED <<attempts, sessions, jar, asking, authTime>>

\* mutant: the UPDATE does not compare the binding
ConsumableByAnyone(a, binding) ==
  attempts[a].standing /\ attempts[a].consumed = NotYet /\ attempts[a].expires > authTime

\* the WHERE of consumeAttempt
Consumable(a, binding) ==
  /\ attempts[a].standing
  /\ binding = a                     \* an attempt's binding goes to one browser only
  /\ attempts[a].consumed = NotYet
  /\ attempts[a].expires > authTime

Consume(c) ==
  LET a == callback[c].attempt
      found == Consumable(a, callback[c].binding)
  IN /\ callback[c].step = "Received"
     /\ attempts' = IF found THEN [attempts EXCEPT ![a].consumed = authTime] ELSE attempts
     /\ callback' = [callback EXCEPT ![c].step = IF found THEN "Consumed" ELSE "Refused"]
     /\ UNCHANGED <<sessions, jar, asking, authTime>>

\* exchangeDiscordCode and the test on adminIds
Exchange(c) ==
  /\ callback[c].step = "Consumed"
  /\ \E answer \in {"Admin", "Refused"} :
       /\ answer = "Refused" => Stranger
       /\ callback' = [callback EXCEPT ![c].step = answer]
  /\ UNCHANGED <<attempts, sessions, jar, asking, authTime>>

CreateSession(c) ==
  /\ callback[c].step = "Admin"
  /\ sessions' = [sessions EXCEPT ![c] =
       [standing |-> TRUE, expires |-> authTime + SessionTtl, revoked |-> NotYet]]
  /\ callback' = [callback EXCEPT ![c].step = "Created"]
  /\ UNCHANGED <<attempts, jar, asking, authTime>>

\* Discord or the database does not answer: 500
FailCallback(c) ==
  /\ callback[c].step \in {"Received", "Consumed", "Admin"}
  /\ callback' = [callback EXCEPT ![c].step = "Refused"]
  /\ UNCHANGED <<attempts, sessions, jar, asking, authTime>>

\* every answer clears the OAuth cookie, whatever attempt it is of by now
AnswerCallback(c, arrives) ==
  LET b == callback[c].from
      cookies == [oauth |-> NoCookie,
                  session |-> IF callback[c].step = "Created" THEN c ELSE jar[b].session]
  IN /\ callback[c].step \in {"Created", "Refused"}
     /\ jar' = IF arrives THEN [jar EXCEPT ![b] = cookies] ELSE jar
     /\ callback' = [callback EXCEPT ![c] =
          [step |-> "Done", from |-> b, attempt |-> callback[c].attempt]]
     /\ UNCHANGED <<attempts, sessions, asking, authTime>>

-----------------------------------------------------------------------------
\* sessionUser
SessionFound(s) ==
  /\ s # NoCookie
  /\ sessions[s].standing
  /\ sessions[s].expires > authTime
  /\ sessions[s].revoked = NotYet

\* authorizeAdmin of a request of browser b
AuthorizeAdmin(r, b) ==
  /\ asking[r].step = "Idle"
  /\ asking' = [asking EXCEPT ![r] =
       IF SessionFound(jar[b].session)
         THEN [step |-> "Authorized", from |-> b, session |-> jar[b].session]
         ELSE [step |-> "Done"]]
  /\ UNCHANGED <<attempts, sessions, jar, callback, authTime>>

\* POST /auth/logout: the UPDATE of revokeSession, and the answer that clears the cookie
Logout(r, arrives) ==
  LET s == asking[r].session
  IN /\ asking[r].step = "Authorized"
     /\ sessions' = IF sessions[s].standing
                      THEN [sessions EXCEPT ![s].revoked = authTime] ELSE sessions
     /\ jar' = IF arrives THEN [jar EXCEPT ![asking[r].from].session = NoCookie] ELSE jar
     /\ asking' = [asking EXCEPT ![r] = [step |-> "Done"]]
     /\ UNCHANGED <<attempts, callback, authTime>>

\* any other route; its action is another component's
ActSignedIn(r) ==
  /\ asking[r].step = "Authorized"
  /\ asking' = [asking EXCEPT ![r] = [step |-> "Done"]]
  /\ UNCHANGED <<attempts, sessions, jar, callback, authTime>>

-----------------------------------------------------------------------------
Stale(row, used) ==
  /\ row.standing
  /\ row.expires <= authTime \/ (used # NotYet /\ used <= authTime - UsedTtl)

\* ORDER BY expires_at ASC, as many as the batches of one run take
Removals(table, stale) ==
  {x \in SUBSET stale :
     /\ Cardinality(x) = IF Cardinality(stale) < CleanupRows THEN Cardinality(stale) ELSE CleanupRows
     /\ \A r \in x, s \in stale \ x : table[r].expires <= table[s].expires}

LeftOf(table, rows) ==
  [r \in DOMAIN table |-> IF r \in rows THEN [table[r] EXCEPT !.standing = FALSE] ELSE table[r]]

\* cleanupExpired, one transaction, from the timer that does not overlap itself
CleanupExpired ==
  LET staleAttempts == {a \in Attempts : attempts[a].standing
                                         /\ Stale(attempts[a], attempts[a].consumed)}
      staleSessions == {c \in Callbacks : sessions[c].standing
                                          /\ Stale(sessions[c], sessions[c].revoked)}
  IN /\ staleAttempts \cup staleSessions # {}
     /\ \E x \in Removals(attempts, staleAttempts), y \in Removals(sessions, staleSessions) :
          /\ attempts' = LeftOf(attempts, x)
          /\ sessions' = LeftOf(sessions, y)
     /\ UNCHANGED <<jar, callback, asking, authTime>>

AuthTick ==
  /\ authTime < MaxAuthTime
  /\ authTime' = authTime + 1
  /\ UNCHANGED <<attempts, sessions, jar, callback, asking>>

AuthNext ==
  \/ \E b \in Browsers, a \in Attempts :
       \/ \E answered \in BOOLEAN : StartLogin(b, a, answered)
       \/ \E c \in Callbacks : Return(c, b, a)
  \/ \E c \in Callbacks :
       \/ Consume(c) \/ Exchange(c) \/ CreateSession(c) \/ FailCallback(c)
       \/ \E arrives \in BOOLEAN : AnswerCallback(c, arrives)
  \/ \E r \in SignedRequests :
       \/ \E b \in Browsers : AuthorizeAdmin(r, b)
       \/ \E arrives \in BOOLEAN : Logout(r, arrives)
       \/ ActSignedIn(r)
  \/ CleanupExpired
  \/ AuthTick

\* the timer runs every minute for as long as the API does
AuthFairness == WF_authVars(CleanupExpired)

SessionsSpec == AuthInit /\ [][AuthNext]_authVars

-----------------------------------------------------------------------------
Signed(c) == sessions[c] # NoRow

(***************************************************************************)
(* One sign-in at Discord makes at most one session, however often its     *)
(* callback is repeated and however the repeats interleave.                *)
(***************************************************************************)
OneSessionPerAttempt ==
  \A c, d \in Callbacks : Signed(c) /\ Signed(d) /\ c # d
    => callback[c].attempt # callback[d].attempt

(***************************************************************************)
(* A session goes only to the browser in which the sign-in was started: a  *)
(* callback link opened elsewhere signs nobody in.                         *)
(***************************************************************************)
SessionOfStarter ==
  \A c \in Callbacks : Signed(c) => callback[c].from = attempts[callback[c].attempt].starter

(***************************************************************************)
(* The cleanup removes no session a browser could still use.               *)
(***************************************************************************)
LiveSessionKept ==
  \A c \in Callbacks :
    Signed(c) /\ sessions[c].revoked = NotYet /\ sessions[c].expires > authTime
      => sessions[c].standing

(***************************************************************************)
(* A sign-in yields one session, to the browser that began it, and the     *)
(* session stands until it ends, whatever callbacks and cleanups run       *)
(* beside.                                                                 *)
(***************************************************************************)
SessionsSound == OneSessionPerAttempt /\ SessionOfStarter /\ LiveSessionKept

(***************************************************************************)
(* Every expired attempt and session leaves its table.                     *)
(***************************************************************************)
ExpiredAuthRowsLeave ==
  /\ \A a \in Attempts :
       attempts[a].standing /\ attempts[a].expires <= authTime ~> ~attempts[a].standing
  /\ \A c \in Callbacks :
       sessions[c].standing /\ sessions[c].expires <= authTime ~> ~sessions[c].standing
=============================================================================
