------------------------------ MODULE AdminAuth ------------------------------
(***************************************************************************)
(* How administrators get in: createCaptcha, login, adminOnly and logout   *)
(* of internal/httpapi/server.go over the tables login_captchas and        *)
(* admin_sessions (internal/store/captchas.go, sessions.go).               *)
(*                                                                         *)
(* A handler takes its time once, at its start, and runs its statements    *)
(* with it later; ConsumeLoginCaptcha is one transaction, whose first      *)
(* statement takes SQLite's write lock.  A captcha and a session are named *)
(* after the request that makes them; whether both the answer and the      *)
(* credentials of a login are right is one Boolean.  Requests refused for  *)
(* their form or by a rate limiter change nothing.  What the handler       *)
(* behind adminOnly does is left out, except for logout.                   *)
(***************************************************************************)
EXTENDS Naturals, FiniteSets

CONSTANTS
  Captchas,     \* requests for a captcha
  Logins,       \* login requests
  Visits,       \* requests to handlers behind adminOnly
  NoId,         \* an id or a cookie no table has
  CaptchaLife,  \* 5 minutes (captcha.go)
  SessionLife,  \* 8 hours (server.go)
  MaxTime,      \* bound: the clock stops here
  MaxFailures   \* bound: how many statements fail

Requests == Captchas \cup Logins \cup Visits

ASSUME AuthAssumption ==
  /\ Captchas \cap Logins = {} /\ Captchas \cap Visits = {} /\ Logins \cap Visits = {}
  /\ NoId \notin Requests
  /\ CaptchaLife \in Nat \ {0} /\ SessionLife \in Nat \ {0}
  /\ MaxTime \in Nat \ {0} /\ MaxFailures \in Nat

VARIABLES
  now,
  login_captchas,  \* expires_at of each captcha, 0 for no row
  admin_sessions,  \* expires_at of each session, 0 for no row
  pc,              \* where each request is
  took,            \* the time it works with
  id,              \* the captcha a login names, the session a visit shows
  right,           \* the logins whose answer and credentials are right
  leaving,         \* the visits to logout
  failures,
  tried,           \* history: the logins each captcha's answer was compared for
  loggedOut        \* history: the sessions that were deleted by a logout

tables == <<login_captchas, admin_sessions>>
inputs == <<took, id, right, leaving>>
history == <<tried, loggedOut>>
vars == <<now, tables, pc, inputs, failures, history>>

Locations == {"new", "purge", "insert", "issued", "consume", "create", "in", "select",
              "handler", "done"}

Init ==
  /\ now = 1
  /\ login_captchas = [c \in Captchas |-> 0]
  /\ admin_sessions = [p \in Logins |-> 0]
  /\ pc = [r \in Requests |-> "new"]
  /\ took = [r \in Requests |-> 0]
  /\ id = [r \in Requests |-> NoId]
  /\ right = {}
  /\ leaving = {}
  /\ failures = 0
  /\ tried = [c \in Captchas |-> {}]
  /\ loggedOut = {}

GoTo(r, l) == pc' = [pc EXCEPT ![r] = l]
Begin(r, l) ==
  /\ pc[r] = "new"
  /\ GoTo(r, l)
  /\ took' = [took EXCEPT ![r] = now]
At(r, from, to) == pc[r] = from /\ GoTo(r, to) /\ UNCHANGED inputs

\* The requests in R are over, and what they worked with is gone.
Ended(R) ==
  /\ pc' = [r \in Requests |-> IF r \in R THEN "done" ELSE pc[r]]
  /\ took' = [r \in Requests |-> IF r \in R THEN 0 ELSE took[r]]
  /\ id' = [r \in Requests |-> IF r \in R THEN NoId ELSE id[r]]
  /\ right' = right \ R
  /\ leaving' = leaving \ R
End(r, from) == pc[r] = from /\ Ended({r})
Proceed(r, from, to, goes) == IF goes THEN At(r, from, to) ELSE End(r, from)
Fail == failures < MaxFailures /\ failures' = failures + 1

\* Mutant: a row lives on at the moment it expires.
Unexpired_OffByOne(expires, t) == expires >= t

\* A row is deleted when expires_at <= t, and found when expires_at > t.
Unexpired(expires, t) == expires > t
Purged(table, t) == [x \in DOMAIN table |-> IF Unexpired(table[x], t) THEN table[x] ELSE 0]

-----------------------------------------------------------------------------
(* createCaptcha.                                                          *)

CreateCaptcha(c) ==
  /\ Begin(c, "purge")
  /\ UNCHANGED <<now, tables, id, right, leaving, failures, history>>

\* Mutant: every captcha made so far is deleted.
DeleteExpiredLoginCaptchas_All(c) ==
  /\ At(c, "purge", "insert")
  /\ login_captchas' = [x \in Captchas |-> 0]
  /\ UNCHANGED <<now, admin_sessions, failures, history>>

DeleteExpiredLoginCaptchas(c) ==
  /\ At(c, "purge", "insert")
  /\ login_captchas' = Purged(login_captchas, took[c])
  /\ UNCHANGED <<now, admin_sessions, failures, history>>

WithCaptcha(c) == [login_captchas EXCEPT ![c] = took[c] + CaptchaLife]

CreateLoginCaptcha(c) ==
  /\ At(c, "insert", "issued")
  /\ login_captchas' = WithCaptcha(c)
  /\ UNCHANGED <<now, admin_sessions, failures, history>>

\* 500: the administrator never learns of the captcha, which may be there.
CaptchaFails(c) ==
  /\ Fail
  /\ \/ End(c, "purge") /\ login_captchas' \in {login_captchas, Purged(login_captchas, took[c])}
     \/ End(c, "insert") /\ UNCHANGED login_captchas
     \/ At(c, "insert", "done") /\ login_captchas' = WithCaptcha(c)
  /\ UNCHANGED <<now, admin_sessions, history>>

-----------------------------------------------------------------------------
(* login.                                                                  *)

Login(p, c, ok) ==
  /\ c \in {NoId} \cup {x \in Captchas : pc[x] = "issued"}
  /\ Begin(p, "consume")
  /\ id' = [id EXCEPT ![p] = c]
  /\ right' = IF ok THEN right \cup {p} ELSE right
  /\ UNCHANGED <<now, tables, leaving, failures, history>>

Found(p) == id[p] # NoId /\ Unexpired(login_captchas[id[p]], took[p])

Consumed(p) ==
  LET rest == Purged(login_captchas, took[p])
  IN  IF Found(p) THEN [rest EXCEPT ![id[p]] = 0] ELSE rest

\* Mutant: the captcha is deleted only when the login succeeds.
ConsumeLoginCaptcha_WhenRight(p) ==
  /\ Proceed(p, "consume", "create", Found(p) /\ p \in right)
  /\ login_captchas' = IF Found(p) /\ p \notin right THEN login_captchas ELSE Consumed(p)
  /\ tried' = IF Found(p) THEN [tried EXCEPT ![id[p]] = @ \cup {p}] ELSE tried
  /\ UNCHANGED <<now, admin_sessions, failures, loggedOut>>

ConsumeLoginCaptcha(p) ==
  /\ Proceed(p, "consume", "create", Found(p) /\ p \in right)
  /\ login_captchas' = Consumed(p)
  /\ tried' = IF Found(p) THEN [tried EXCEPT ![id[p]] = @ \cup {p}] ELSE tried
  /\ UNCHANGED <<now, admin_sessions, failures, loggedOut>>

WithSession(p) == [admin_sessions EXCEPT ![p] = took[p] + SessionLife]

CreateAdminSession(p) ==
  /\ At(p, "create", "in")
  /\ admin_sessions' = WithSession(p)
  /\ UNCHANGED <<now, login_captchas, failures, history>>

\* Rolled back, or done with the answer lost: refused without a comparison, or
\* a session nobody has the cookie of.
LoginFails(p) ==
  /\ Fail
  /\ \/ /\ End(p, "consume")
        /\ login_captchas' \in {login_captchas, Purged(login_captchas, took[p]), Consumed(p)}
        /\ UNCHANGED admin_sessions
     \/ End(p, "create") /\ UNCHANGED tables
     \/ /\ At(p, "create", "done")
        /\ admin_sessions' = WithSession(p)
        /\ UNCHANGED login_captchas
  /\ UNCHANGED <<now, history>>

-----------------------------------------------------------------------------
(* adminOnly and logout.                                                   *)

Visit(v, s, out) ==
  /\ s \in {NoId} \cup {p \in Logins : pc[p] = "in"}
  /\ Begin(v, "purge")
  /\ id' = [id EXCEPT ![v] = s]
  /\ leaving' = IF out THEN leaving \cup {v} ELSE leaving
  /\ UNCHANGED <<now, tables, right, failures, history>>

\* Mutant: the comparison is the wrong way round.
DeleteExpiredSessions_Valid(v) ==
  /\ At(v, "purge", "select")
  /\ admin_sessions' = [p \in Logins |-> IF Unexpired(admin_sessions[p], took[v]) THEN 0
                                         ELSE admin_sessions[p]]
  /\ UNCHANGED <<now, login_captchas, failures, history>>

\* The first statement of FindActiveAdminSession, whose error is ignored.
DeleteExpiredSessions(v) ==
  /\ At(v, "purge", "select")
  /\ \/ admin_sessions' = Purged(admin_sessions, took[v]) /\ UNCHANGED failures
     \/ Fail /\ UNCHANGED admin_sessions
  /\ UNCHANGED <<now, login_captchas, history>>

\* Mutant: the query relies on the deletion before it.
FindActiveAdminSession_AnyAge(v) ==
  /\ Proceed(v, "select", "handler", id[v] # NoId /\ admin_sessions[id[v]] # 0)
  /\ UNCHANGED <<now, tables, failures, history>>

\* Let in, or 401.
FindActiveAdminSession(v) ==
  /\ Proceed(v, "select", "handler",
             id[v] # NoId /\ Unexpired(admin_sessions[id[v]], took[v]))
  /\ UNCHANGED <<now, tables, failures, history>>

Handle(v) ==
  /\ v \notin leaving
  /\ End(v, "handler")
  /\ UNCHANGED <<now, tables, failures, history>>

Logout(v) ==
  /\ v \in leaving
  /\ End(v, "handler")
  /\ admin_sessions' = [admin_sessions EXCEPT ![id[v]] = 0]
  /\ loggedOut' = loggedOut \cup {id[v]}
  /\ UNCHANGED <<now, login_captchas, failures, tried>>

\* 401 when the query fails.  A logout answers 204 and clears the cookie even
\* when the session stays.
VisitFails(v) ==
  /\ Fail
  /\ \/ End(v, "select")
     \/ v \in leaving /\ End(v, "handler")
  /\ UNCHANGED <<now, tables, history>>

-----------------------------------------------------------------------------

Tick ==
  /\ now < MaxTime
  /\ now' = now + 1
  /\ UNCHANGED <<tables, pc, inputs, failures, history>>

\* The server starts again on its database.
Restart ==
  /\ Ended({r \in Requests : pc[r] \notin {"new", "issued", "in", "done"}})
  /\ UNCHANGED <<now, tables, failures, history>>

Next ==
  \/ \E c \in Captchas :
       CreateCaptcha(c) \/ DeleteExpiredLoginCaptchas(c) \/ CreateLoginCaptcha(c) \/ CaptchaFails(c)
  \/ \E p \in Logins :
       \/ \E c \in Captchas \cup {NoId}, ok \in BOOLEAN : Login(p, c, ok)
       \/ ConsumeLoginCaptcha(p) \/ CreateAdminSession(p) \/ LoginFails(p)
  \/ \E v \in Visits :
       \/ \E s \in Logins \cup {NoId}, out \in BOOLEAN : Visit(v, s, out)
       \/ DeleteExpiredSessions(v) \/ FindActiveAdminSession(v)
       \/ Handle(v) \/ Logout(v) \/ VisitFails(v)
  \/ Tick
  \/ Restart

Spec == Init /\ [][Next]_vars

-----------------------------------------------------------------------------
(* Properties.                                                             *)

TypeOK ==
  /\ now \in 1 .. MaxTime
  /\ login_captchas \in [Captchas -> 0 .. MaxTime + CaptchaLife]
  /\ admin_sessions \in [Logins -> 0 .. MaxTime + SessionLife]
  /\ pc \in [Requests -> Locations]
  /\ took \in [Requests -> 0 .. MaxTime]
  /\ id \in [Requests -> Captchas \cup Logins \cup {NoId}]
  /\ right \subseteq Logins
  /\ leaving \subseteq Visits
  /\ failures \in 0 .. MaxFailures
  /\ tried \in [Captchas -> SUBSET Logins]
  /\ loggedOut \subseteq Logins

\* README.md:8, "one-time captcha": however logins, failures and restarts
\* interleave, the answer of a captcha is compared once, right or wrong.
OneTryPerCaptcha == \A c \in Captchas : Cardinality(tried[c]) <= 1

\* A session in the table is that of a login with the right answer and
\* credentials, which began while its captcha was valid, and the captcha was
\* tried by no other login and is gone.
SessionIsEarned ==
  \A p \in Logins :
    admin_sessions[p] # 0 =>
      /\ p \in right /\ id[p] # NoId
      /\ tried[id[p]] = {p} /\ login_captchas[id[p]] = 0
      /\ took[p] < took[id[p]] + CaptchaLife

\* README.md:8, sessions of 8 hours: a visit is let in only with a session
\* that was not logged out, and that ends after the visit began; also when the
\* deletion of expired sessions fails.
AdmittedInSession ==
  [][\A v \in Visits :
       pc[v] = "select" /\ pc'[v] = "handler" =>
         /\ id[v] \in Logins \ loggedOut
         /\ took[v] < took[id[v]] + SessionLife]_vars

\* A session lasts until its time is over or its own logout, whatever other
\* administrators do and however often the server restarts.
SessionEndsForCause ==
  [][\A p \in Logins :
       admin_sessions[p] # 0 /\ admin_sessions'[p] = 0 =>
         p \in loggedOut' \/ took[p] + SessionLife <= now]_vars

\* A captcha lasts until its time is over or a login has named it, whoever
\* else asks for one.
CaptchaEndsForCause ==
  [][\A c \in Captchas :
       login_captchas[c] # 0 /\ login_captchas'[c] = 0 =>
         took[c] + CaptchaLife <= now \/ \E p \in Logins : id[p] = c /\ pc[p] = "consume"]_vars
=============================================================================
