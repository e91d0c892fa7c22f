--------------------------- MODULE AdminAuth_proofs --------------------------
(***************************************************************************)
(* Captchas are tried once, and sessions are earned by one and last as     *)
(* long as they should, for any number of requests, lives and failures.    *)
(***************************************************************************)
EXTENDS AdminAuth, FiniteSetTheorems, TLAPS

-----------------------------------------------------------------------------
(* The invariant.                                                          *)

\* Every request works with a time that has come.
TookOK == \A r \in Requests : took[r] <= now

\* A captcha has a row, at the time its request gave it, only after that request
\* made it; it was tried, and is named by a login, only if it was issued, and once
\* it was tried its row is gone for good.
CaptchasOK ==
  \A c \in Captchas :
    /\ login_captchas[c] # 0 => /\ pc[c] \in {"issued", "done"}
                                /\ login_captchas[c] = took[c] + CaptchaLife
    /\ tried[c] # {} => /\ pc[c] = "issued" /\ login_captchas[c] = 0
                        /\ \E p \in Logins : tried[c] = {p}

\* What a login must have done before it makes a session.
Earned(p) ==
  /\ p \in right /\ id[p] \in Captchas
  /\ tried[id[p]] = {p} /\ login_captchas[id[p]] = 0
  /\ took[p] < took[id[p]] + CaptchaLife

\* A session has a row only after its login made it, and not after it was logged
\* out.
SessionsOK ==
  \A p \in Logins :
    /\ id[p] # NoId => id[p] \in Captchas /\ pc[id[p]] = "issued"
    /\ pc[p] = "create" \/ admin_sessions[p] # 0 => Earned(p)
    /\ admin_sessions[p] # 0 => /\ pc[p] \in {"in", "done"}
                                /\ admin_sessions[p] = took[p] + SessionLife
    /\ p \in loggedOut => pc[p] = "in" /\ admin_sessions[p] = 0

\* A visit shows the cookie of a session that began, and is let in only with one.
VisitsOK ==
  \A v \in Visits :
    /\ id[v] # NoId => id[v] \in Logins /\ pc[id[v]] = "in"
    /\ pc[v] = "handler" => id[v] # NoId

AuthInv == TypeOK /\ TookOK /\ CaptchasOK /\ SessionsOK /\ VisitsOK


-----------------------------------------------------------------------------
(* Steps of requests.                                                      *)

\* What purging a table leaves of each row.
LEMMA PurgedRow ==
  ASSUME NEW S, NEW table \in [S -> Nat], NEW t \in Nat
  PROVE  /\ Purged(table, t) \in [S -> Nat]
         /\ \A x \in S : /\ Purged(table, t)[x] \in {0, table[x]}
                         /\ Purged(table, t)[x] # table[x] => table[x] <= t
  BY DEF Purged, Unexpired

\* A request that asks for a captcha.
LEMMA CaptchaKeeps ==
  ASSUME AuthInv, NEW c \in Captchas,
         \/ CreateCaptcha(c) \/ DeleteExpiredLoginCaptchas(c) \/ CreateLoginCaptcha(c)
         \/ CaptchaFails(c)
  PROVE  AuthInv'
<1> USE AuthAssumption DEF Requests
<1>1. CASE CreateCaptcha(c)
  <2>1. TypeOK'
    BY <1>1 DEF AuthInv, TypeOK, Locations, CreateCaptcha, Begin, GoTo, tables, history
  <2>2. TookOK'
    BY <1>1 DEF AuthInv, TypeOK, TookOK, CreateCaptcha, Begin, GoTo, tables, history
  <2>3. CaptchasOK'
    BY <1>1 DEF AuthInv, TypeOK, CaptchasOK, CreateCaptcha, Begin, GoTo, tables, history
  <2>4. SessionsOK'
    BY <1>1 DEF AuthInv, TypeOK, SessionsOK, Earned, CreateCaptcha, Begin, GoTo, tables, history
  <2>5. VisitsOK'
    BY <1>1 DEF AuthInv, TypeOK, VisitsOK, CreateCaptcha, Begin, GoTo, tables, history
  <2> QED
    BY <2>1, <2>2, <2>3, <2>4, <2>5 DEF AuthInv
<1>2. /\ Purged(login_captchas, took[c]) \in [Captchas -> 0 .. MaxTime + CaptchaLife]
      /\ \A x \in Captchas : Purged(login_captchas, took[c])[x] \in {0, login_captchas[x]}
  BY DEF AuthInv, TypeOK, Purged, Unexpired
<1>3. CASE DeleteExpiredLoginCaptchas(c)
  <2>1. TypeOK'
    BY <1>3, <1>2 DEF AuthInv, TypeOK, Locations, DeleteExpiredLoginCaptchas, At, GoTo, inputs,
       history
  <2>2. TookOK'
    BY <1>3, <1>2 DEF AuthInv, TypeOK, TookOK, DeleteExpiredLoginCaptchas, At, GoTo, inputs,
       history
  <2>3. CaptchasOK'
    BY <1>3, <1>2 DEF AuthInv, TypeOK, CaptchasOK, DeleteExpiredLoginCaptchas, At, GoTo, inputs,
       history
  <2>4. SessionsOK'
    BY <1>3, <1>2 DEF AuthInv, TypeOK, SessionsOK, Earned, DeleteExpiredLoginCaptchas, At, GoTo,
       inputs, history
  <2>5. VisitsOK'
    BY <1>3, <1>2 DEF AuthInv, TypeOK, VisitsOK, DeleteExpiredLoginCaptchas, At, GoTo, inputs,
       history
  <2> QED
    BY <2>1, <2>2, <2>3, <2>4, <2>5 DEF AuthInv
<1>4. CASE CreateLoginCaptcha(c)
  <2>1. TypeOK'
    BY <1>4 DEF AuthInv, TypeOK, Locations, CreateLoginCaptcha, WithCaptcha, At, GoTo, inputs,
       history
  <2>2. TookOK'
    BY <1>4 DEF AuthInv, TypeOK, TookOK, CreateLoginCaptcha, WithCaptcha, At, GoTo, inputs,
       history
  <2>3. CaptchasOK'
    BY <1>4 DEF AuthInv, TypeOK, CaptchasOK, CreateLoginCaptcha, WithCaptcha, At, GoTo, inputs,
       history
  <2>4. SessionsOK'
    BY <1>4 DEF AuthInv, TypeOK, SessionsOK, Earned, CreateLoginCaptcha, WithCaptcha, At, GoTo,
       inputs, history
  <2>5. VisitsOK'
    BY <1>4 DEF AuthInv, TypeOK, VisitsOK, CreateLoginCaptcha, WithCaptcha, At, GoTo, inputs,
       history
  <2> QED
    BY <2>1, <2>2, <2>3, <2>4, <2>5 DEF AuthInv
<1>5. CASE CaptchaFails(c)
  <2>1. TypeOK'
    BY <1>5, <1>2 DEF AuthInv, TypeOK, Locations, CaptchaFails, WithCaptcha, Fail, End, Ended,
       At, GoTo, inputs, history
  <2>2. TookOK'
    BY <1>5, <1>2 DEF AuthInv, TypeOK, TookOK, CaptchaFails, WithCaptcha, Fail, End, Ended, At,
       GoTo, inputs, history
  <2>3. CaptchasOK'
    BY <1>5, <1>2 DEF AuthInv, TypeOK, CaptchasOK, CaptchaFails, WithCaptcha, Fail, End, Ended,
       At, GoTo, inputs, history
  <2>4. SessionsOK'
    BY <1>5, <1>2 DEF AuthInv, TypeOK, SessionsOK, Earned, CaptchaFails, WithCaptcha, Fail, End,
       Ended, At, GoTo, inputs, history
  <2>5. VisitsOK'
    BY <1>5, <1>2 DEF AuthInv, TypeOK, VisitsOK, CaptchaFails, WithCaptcha, Fail, End, Ended,
       At, GoTo, inputs, history
  <2> QED
    BY <2>1, <2>2, <2>3, <2>4, <2>5 DEF AuthInv
<1> QED
  BY <1>1, <1>3, <1>4, <1>5

\* A login.
LEMMA LoginKeeps ==
  ASSUME AuthInv, NEW p \in Logins,
         \/ \E c \in Captchas \cup {NoId}, ok \in BOOLEAN : Login(p, c, ok)
         \/ ConsumeLoginCaptcha(p) \/ CreateAdminSession(p) \/ LoginFails(p)
  PROVE  AuthInv'
<1> USE AuthAssumption DEF Requests
<1>1. /\ Purged(login_captchas, took[p]) \in [Captchas -> 0 .. MaxTime + CaptchaLife]
      /\ \A x \in Captchas : Purged(login_captchas, took[p])[x] \in {0, login_captchas[x]}
  BY DEF AuthInv, TypeOK, Purged, Unexpired
<1>2. /\ Consumed(p) \in [Captchas -> 0 .. MaxTime + CaptchaLife]
      /\ \A x \in Captchas : Consumed(p)[x] \in {0, login_captchas[x]}
      /\ Found(p) => /\ id[p] \in Captchas /\ Consumed(p)[id[p]] = 0
                     /\ login_captchas[id[p]] # 0 /\ took[p] < login_captchas[id[p]]
  BY <1>1 DEF AuthInv, TypeOK, SessionsOK, Consumed, Found, Unexpired
<1>3. CASE \E c \in Captchas \cup {NoId}, ok \in BOOLEAN : Login(p, c, ok)
  <2>1. TypeOK'
    BY <1>3 DEF AuthInv, TypeOK, Locations, Login, Begin, GoTo, tables, history
  <2>2. TookOK'
    BY <1>3 DEF AuthInv, TypeOK, TookOK, Login, Begin, GoTo, tables, history
  <2>3. CaptchasOK'
    BY <1>3 DEF AuthInv, TypeOK, CaptchasOK, Login, Begin, GoTo, tables, history
  <2>4. SessionsOK'
    BY <1>3 DEF AuthInv, TypeOK, SessionsOK, Earned, Login, Begin, GoTo, tables, history
  <2>5. VisitsOK'
    BY <1>3 DEF AuthInv, TypeOK, VisitsOK, Login, Begin, GoTo, tables, history
  <2> QED
    BY <2>1, <2>2, <2>3, <2>4, <2>5 DEF AuthInv
<1>4. CASE ConsumeLoginCaptcha(p)
  <2>1. /\ pc[p] = "consume" /\ login_captchas' = Consumed(p)
        /\ UNCHANGED <<now, admin_sessions, failures, loggedOut>>
        /\ pc' \in [Requests -> Locations] /\ pc'[p] \in {"create", "done"}
        /\ \A r \in Requests \ {p} : pc'[r] = pc[r]
        /\ pc'[p] = "create" => /\ Found(p) /\ p \in right
                                /\ UNCHANGED <<took, id, right, leaving>>
        /\ pc'[p] = "done" => Ended({p})
        /\ tried' = IF Found(p) THEN [tried EXCEPT ![id[p]] = @ \cup {p}] ELSE tried
    BY <1>4 DEF AuthInv, TypeOK, Locations, ConsumeLoginCaptcha, Proceed, End, Ended, At, GoTo,
       inputs
  <2>2. /\ took' \in [Requests -> 0 .. MaxTime] /\ id' \in [Requests -> Captchas \cup Logins \cup {NoId}]
        /\ right' \subseteq Logins /\ leaving' \subseteq Visits
        /\ \A r \in Requests \ {p} : /\ took'[r] = took[r] /\ id'[r] = id[r]
                                     /\ r \in right' <=> r \in right
        /\ took'[p] \in {took[p], 0} /\ id'[p] \in {id[p], NoId}
    BY <2>1 DEF AuthInv, TypeOK, Ended
  <2>3. /\ tried' \in [Captchas -> SUBSET Logins]
        /\ \A c \in Captchas : tried'[c] = IF Found(p) /\ c = id[p] THEN tried[c] \cup {p} ELSE tried[c]
    <3>1. tried \in [Captchas -> SUBSET Logins]
      BY DEF AuthInv, TypeOK
    <3>2. CASE Found(p)
      BY <1>2, <2>1, <3>1, <3>2
    <3>3. CASE ~Found(p)
      BY <2>1, <3>1, <3>3
    <3> QED
      BY <3>2, <3>3
  <2>4. Found(p) => /\ tried[id[p]] = {} /\ pc[id[p]] = "issued"
                    /\ login_captchas[id[p]] = took[id[p]] + CaptchaLife
    BY <1>2 DEF AuthInv, CaptchasOK, SessionsOK
  <2>5. TypeOK'
    BY <1>2, <2>1, <2>2, <2>3 DEF AuthInv, TypeOK
  <2>6. TookOK'
    BY <2>1, <2>2 DEF AuthInv, TypeOK, TookOK
  <2>7. CaptchasOK'
    BY <1>2, <2>1, <2>2, <2>3, <2>4 DEF AuthInv, TypeOK, CaptchasOK
  <2>8. SessionsOK'
    <3>1. SUFFICES ASSUME NEW q \in Logins
                   PROVE  SessionsOK!(q)'
      BY DEF SessionsOK
    <3>2. /\ id'[q] # NoId => id'[q] = id[q] /\ id[q] \in Captchas /\ pc[id[q]] = "issued"
          /\ \A c \in Captchas : pc'[c] = pc[c] /\ took'[c] = took[c]
      BY <2>1, <2>2 DEF AuthInv, SessionsOK
    <3>3. CASE q = p
      <4>1. admin_sessions[q] = 0 /\ admin_sessions'[q] = 0 /\ q \notin loggedOut'
        BY <2>1, <3>3 DEF AuthInv, SessionsOK
      <4>2. ASSUME pc'[p] = "create"
            PROVE  Earned(p)'
        BY <1>2, <2>1, <2>3, <2>4, <4>2 DEF Earned
      <4> QED
        BY <3>2, <3>3, <4>1, <4>2
    <3>4. CASE q # p
      <4>1. /\ pc'[q] = pc[q] /\ took'[q] = took[q] /\ id'[q] = id[q]
            /\ q \in right' <=> q \in right
        BY <2>1, <2>2, <3>4
      <4>2. Earned(q) => Earned(q)'
        <5>1. SUFFICES ASSUME Earned(q)
                       PROVE  Earned(q)'
          OBVIOUS
        <5>2. id[q] \in Captchas /\ tried[id[q]] = {q} /\ login_captchas[id[q]] = 0
          BY <5>1 DEF Earned
        <5>3. ~Found(p) \/ id[q] # id[p]
          BY <2>4, <5>2
        <5>4. tried'[id[q]] = {q} /\ login_captchas'[id[q]] = 0
          BY <1>2, <2>1, <2>3, <5>2, <5>3
        <5> QED
          BY <3>2, <4>1, <5>1, <5>2, <5>4 DEF Earned
      <4> QED
        BY <2>1, <3>2, <4>1, <4>2 DEF AuthInv, SessionsOK
    <3> QED
      BY <3>3, <3>4
  <2>9. VisitsOK'
    BY <2>1, <2>2 DEF AuthInv, TypeOK, VisitsOK
  <2> QED
    BY <2>5, <2>6, <2>7, <2>8, <2>9 DEF AuthInv
<1>5. CASE CreateAdminSession(p)
  <2>1. TypeOK'
    BY <1>5 DEF AuthInv, TypeOK, Locations, CreateAdminSession, WithSession, At, GoTo, inputs,
       history
  <2>2. TookOK'
    BY <1>5 DEF AuthInv, TypeOK, TookOK, CreateAdminSession, WithSession, At, GoTo, inputs,
       history
  <2>3. CaptchasOK'
    BY <1>5 DEF AuthInv, TypeOK, CaptchasOK, CreateAdminSession, WithSession, At, GoTo, inputs,
       history
  <2>4. SessionsOK'
    BY <1>5 DEF AuthInv, TypeOK, SessionsOK, Earned, CreateAdminSession, WithSession, At, GoTo,
       inputs, history
  <2>5. VisitsOK'
    BY <1>5 DEF AuthInv, TypeOK, VisitsOK, CreateAdminSession, WithSession, At, GoTo, inputs,
       history
  <2> QED
    BY <2>1, <2>2, <2>3, <2>4, <2>5 DEF AuthInv
<1>6. CASE LoginFails(p)
  <2>1. TypeOK'
    BY <1>6, <1>1, <1>2 DEF AuthInv, TypeOK, Locations, LoginFails, WithSession, Fail, End,
       Ended, tables, At, GoTo, inputs, history
  <2>2. TookOK'
    BY <1>6, <1>1, <1>2 DEF AuthInv, TypeOK, TookOK, LoginFails, WithSession, Fail, End, Ended,
       tables, At, GoTo, inputs, history
  <2>3. CaptchasOK'
    BY <1>6, <1>1, <1>2 DEF AuthInv, TypeOK, CaptchasOK, LoginFails, WithSession, Fail, End,
       Ended, tables, At, GoTo, inputs, history
  <2>4. SessionsOK'
    BY <1>6, <1>1, <1>2 DEF AuthInv, TypeOK, SessionsOK, Earned, LoginFails, WithSession, Fail,
       End, Ended, tables, At, GoTo, inputs, history
  <2>5. VisitsOK'
    BY <1>6, <1>1, <1>2 DEF AuthInv, TypeOK, VisitsOK, LoginFails, WithSession, Fail, End,
       Ended, tables, At, GoTo, inputs, history
  <2> QED
    BY <2>1, <2>2, <2>3, <2>4, <2>5 DEF AuthInv
<1> QED
  BY <1>3, <1>4, <1>5, <1>6

\* A visit.
LEMMA VisitKeeps ==
  ASSUME AuthInv, NEW v \in Visits,
         \/ \E x \in Logins \cup {NoId}, out \in BOOLEAN : Visit(v, x, out)
         \/ DeleteExpiredSessions(v) \/ FindActiveAdminSession(v)
         \/ Handle(v) \/ Logout(v) \/ VisitFails(v)
  PROVE  AuthInv'
<1> USE AuthAssumption DEF Requests
<1>1. /\ Purged(admin_sessions, took[v]) \in [Logins -> 0 .. MaxTime + SessionLife]
      /\ \A x \in Logins : Purged(admin_sessions, took[v])[x] \in {0, admin_sessions[x]}
  BY DEF AuthInv, TypeOK, Purged, Unexpired
<1>2. CASE \E x \in Logins \cup {NoId}, out \in BOOLEAN : Visit(v, x, out)
  <2>1. TypeOK'
    BY <1>2 DEF AuthInv, TypeOK, Locations, Visit, Begin, GoTo, tables, history
  <2>2. TookOK'
    BY <1>2 DEF AuthInv, TypeOK, TookOK, Visit, Begin, GoTo, tables, history
  <2>3. CaptchasOK'
    BY <1>2 DEF AuthInv, TypeOK, CaptchasOK, Visit, Begin, GoTo, tables, history
  <2>4. SessionsOK'
    BY <1>2 DEF AuthInv, TypeOK, SessionsOK, Earned, Visit, Begin, GoTo, tables, history
  <2>5. VisitsOK'
    BY <1>2 DEF AuthInv, TypeOK, VisitsOK, Visit, Begin, GoTo, tables, history
  <2> QED
    BY <2>1, <2>2, <2>3, <2>4, <2>5 DEF AuthInv
<1>3. CASE DeleteExpiredSessions(v)
  <2>1. TypeOK'
    BY <1>3, <1>1 DEF AuthInv, TypeOK, Locations, DeleteExpiredSessions, Fail, At, GoTo, inputs,
       history
  <2>2. TookOK'
    BY <1>3, <1>1 DEF AuthInv, TypeOK, TookOK, DeleteExpiredSessions, Fail, At, GoTo, inputs,
       history
  <2>3. CaptchasOK'
    BY <1>3, <1>1 DEF AuthInv, TypeOK, CaptchasOK, DeleteExpiredSessions, Fail, At, GoTo,
       inputs, history
  <2>4. SessionsOK'
    BY <1>3, <1>1 DEF AuthInv, TypeOK, SessionsOK, Earned, DeleteExpiredSessions, Fail, At,
       GoTo, inputs, history
  <2>5. VisitsOK'
    BY <1>3, <1>1 DEF AuthInv, TypeOK, VisitsOK, DeleteExpiredSessions, Fail, At, GoTo, inputs,
       history
  <2> QED
    BY <2>1, <2>2, <2>3, <2>4, <2>5 DEF AuthInv
<1>4. CASE FindActiveAdminSession(v)
  <2>1. TypeOK'
    BY <1>4 DEF AuthInv, TypeOK, Locations, FindActiveAdminSession, Proceed, End, Ended, tables,
       At, GoTo, inputs, history
  <2>2. TookOK'
    BY <1>4 DEF AuthInv, TypeOK, TookOK, FindActiveAdminSession, Proceed, End, Ended, tables,
       At, GoTo, inputs, history
  <2>3. CaptchasOK'
    BY <1>4 DEF AuthInv, TypeOK, CaptchasOK, FindActiveAdminSession, Proceed, End, Ended,
       tables, At, GoTo, inputs, history
  <2>4. SessionsOK'
    BY <1>4 DEF AuthInv, TypeOK, SessionsOK, Earned, FindActiveAdminSession, Proceed, End,
       Ended, tables, At, GoTo, inputs, history
  <2>5. VisitsOK'
    BY <1>4 DEF AuthInv, TypeOK, VisitsOK, FindActiveAdminSession, Proceed, End, Ended, tables,
       At, GoTo, inputs, history
  <2> QED
    BY <2>1, <2>2, <2>3, <2>4, <2>5 DEF AuthInv
<1>5. CASE Handle(v)
  <2>1. TypeOK'
    BY <1>5 DEF AuthInv, TypeOK, Locations, Handle, End, Ended, tables, history
  <2>2. TookOK'
    BY <1>5 DEF AuthInv, TypeOK, TookOK, Handle, End, Ended, tables, history
  <2>3. CaptchasOK'
    BY <1>5 DEF AuthInv, TypeOK, CaptchasOK, Handle, End, Ended, tables, history
  <2>4. SessionsOK'
    BY <1>5 DEF AuthInv, TypeOK, SessionsOK, Earned, Handle, End, Ended, tables, history
  <2>5. VisitsOK'
    BY <1>5 DEF AuthInv, TypeOK, VisitsOK, Handle, End, Ended, tables, history
  <2> QED
    BY <2>1, <2>2, <2>3, <2>4, <2>5 DEF AuthInv
<1>6. CASE Logout(v)
  <2>1. TypeOK'
    BY <1>6 DEF AuthInv, TypeOK, Locations, VisitsOK, Logout, End, Ended
  <2>2. TookOK'
    BY <1>6 DEF AuthInv, TypeOK, TookOK, VisitsOK, Logout, End, Ended
  <2>3. CaptchasOK'
    BY <1>6 DEF AuthInv, TypeOK, CaptchasOK, VisitsOK, Logout, End, Ended
  <2>4. SessionsOK'
    BY <1>6 DEF AuthInv, TypeOK, SessionsOK, Earned, VisitsOK, Logout, End, Ended
  <2>5. VisitsOK'
    BY <1>6 DEF AuthInv, TypeOK, VisitsOK, Logout, End, Ended
  <2> QED
    BY <2>1, <2>2, <2>3, <2>4, <2>5 DEF AuthInv
<1>7. CASE VisitFails(v)
  <2>1. TypeOK'
    BY <1>7 DEF AuthInv, TypeOK, Locations, VisitFails, Fail, End, Ended, tables, history
  <2>2. TookOK'
    BY <1>7 DEF AuthInv, TypeOK, TookOK, VisitFails, Fail, End, Ended, tables, history
  <2>3. CaptchasOK'
    BY <1>7 DEF AuthInv, TypeOK, CaptchasOK, VisitFails, Fail, End, Ended, tables, history
  <2>4. SessionsOK'
    BY <1>7 DEF AuthInv, TypeOK, SessionsOK, Earned, VisitFails, Fail, End, Ended, tables, history
  <2>5. VisitsOK'
    BY <1>7 DEF AuthInv, TypeOK, VisitsOK, VisitFails, Fail, End, Ended, tables, history
  <2> QED
    BY <2>1, <2>2, <2>3, <2>4, <2>5 DEF AuthInv
<1> QED
  BY <1>2, <1>3, <1>4, <1>5, <1>6, <1>7

\* The clock and a new start of the server.
LEMMA RestKeeps ==
  ASSUME AuthInv, Tick \/ Restart \/ UNCHANGED vars
  PROVE  AuthInv'
<1> USE AuthAssumption DEF Requests
<1>1. CASE Tick
  <2>1. TypeOK'
    BY <1>1 DEF AuthInv, TypeOK, Locations, Tick, tables, inputs, history
  <2>2. TookOK'
    BY <1>1 DEF AuthInv, TypeOK, TookOK, Tick, tables, inputs, history
  <2>3. CaptchasOK'
    BY <1>1 DEF AuthInv, TypeOK, CaptchasOK, Tick, tables, inputs, history
  <2>4. SessionsOK'
    BY <1>1 DEF AuthInv, TypeOK, SessionsOK, Earned, Tick, tables, inputs, history
  <2>5. VisitsOK'
    BY <1>1 DEF AuthInv, TypeOK, VisitsOK, Tick, tables, inputs, history
  <2> QED
    BY <2>1, <2>2, <2>3, <2>4, <2>5 DEF AuthInv
<1>2. CASE Restart
  <2> DEFINE lost(r) == pc[r] \notin {"new", "issued", "in", "done"}
  <2>1. \A r \in Requests : /\ pc'[r] = IF lost(r) THEN "done" ELSE pc[r]
                            /\ took'[r] = IF lost(r) THEN 0 ELSE took[r]
                            /\ id'[r] = IF lost(r) THEN NoId ELSE id[r]
                            /\ ~lost(r) => (r \in right' <=> r \in right)
    BY <1>2 DEF Restart, Ended
  <2>2. UNCHANGED <<now, login_captchas, admin_sessions, failures, tried, loggedOut>>
    BY <1>2 DEF Restart, tables, history
  <2>3. TypeOK'
    <3>1. /\ pc' \in [Requests -> Locations] /\ took' \in [Requests -> 0 .. MaxTime]
          /\ id' \in [Requests -> Captchas \cup Logins \cup {NoId}]
      BY <1>2 DEF AuthInv, TypeOK, Restart, Ended, Locations
    <3>2. right' \subseteq Logins /\ leaving' \subseteq Visits
      BY <1>2 DEF AuthInv, TypeOK, Restart, Ended
    <3> QED
      BY <2>2, <3>1, <3>2 DEF AuthInv, TypeOK
  <2>4. TookOK'
    BY <2>1, <2>2 DEF AuthInv, TypeOK, TookOK
  <2>5. CaptchasOK'
    BY <2>1, <2>2 DEF AuthInv, TypeOK, CaptchasOK
  <2>6. SessionsOK'
    <3>1. SUFFICES ASSUME NEW p \in Logins
                   PROVE  SessionsOK!(p)'
      BY DEF SessionsOK
    <3>2. SessionsOK!(p)
      BY DEF AuthInv, SessionsOK
    <3>3. id[p] # NoId => ~lost(id[p])
      BY <3>2
    <3>4. CASE lost(p)
      BY <2>1, <2>2, <3>2, <3>4
    <3>5. CASE ~lost(p)
      BY <2>1, <2>2, <3>2, <3>3, <3>5 DEF Earned
    <3> QED
      BY <3>4, <3>5
  <2>7. VisitsOK'
    BY <2>1, <2>2 DEF AuthInv, TypeOK, VisitsOK
  <2> QED
    BY <2>3, <2>4, <2>5, <2>6, <2>7 DEF AuthInv
<1>3. CASE UNCHANGED vars
  <2>1. TypeOK'
    BY <1>3 DEF AuthInv, TypeOK, Locations, vars, tables, inputs, history
  <2>2. TookOK'
    BY <1>3 DEF AuthInv, TypeOK, TookOK, vars, tables, inputs, history
  <2>3. CaptchasOK'
    BY <1>3 DEF AuthInv, TypeOK, CaptchasOK, vars, tables, inputs, history
  <2>4. SessionsOK'
    BY <1>3 DEF AuthInv, TypeOK, SessionsOK, Earned, vars, tables, inputs, history
  <2>5. VisitsOK'
    BY <1>3 DEF AuthInv, TypeOK, VisitsOK, vars, tables, inputs, history
  <2> QED
    BY <2>1, <2>2, <2>3, <2>4, <2>5 DEF AuthInv
<1> QED
  BY <1>1, <1>2, <1>3

\* The invariant holds in every state the tables can come to.
THEOREM AuthInvAlways == Spec => []AuthInv
<1>1. Init => AuthInv
  BY AuthAssumption
     DEF Init, AuthInv, TypeOK, TookOK, CaptchasOK, SessionsOK, VisitsOK, Requests, Locations
<1>2. AuthInv /\ [Next]_vars => AuthInv'
  BY CaptchaKeeps, LoginKeeps, VisitKeeps, RestKeeps DEF Next
<1> QED
  BY <1>1, <1>2, PTL DEF Spec

-----------------------------------------------------------------------------
(* The properties.                                                         *)

\* captchas.go: the answer of a captcha is compared once, for the login that
\* deletes its row in the same transaction.
THEOREM CaptchasTriedOnce == Spec => []OneTryPerCaptcha
<1>1. AuthInv => OneTryPerCaptcha
  <2> SUFFICES ASSUME AuthInv, NEW c \in Captchas
               PROVE  Cardinality(tried[c]) <= 1
    BY DEF OneTryPerCaptcha
  <2>1. tried[c] = {} \/ \E p \in Logins : tried[c] = {p}
    BY DEF AuthInv, CaptchasOK
  <2> QED
    BY <2>1, FS_EmptySet, FS_Singleton
<1> QED
  BY <1>1, AuthInvAlways, PTL

\* server.go: a session is made only behind a captcha of its own.
THEOREM SessionsEarned == Spec => []SessionIsEarned
<1>1. AuthInv => SessionIsEarned
  BY AuthAssumption DEF AuthInv, SessionsOK, Earned, SessionIsEarned, Requests
<1> QED
  BY <1>1, AuthInvAlways, PTL

\* Only the query for a session lets a visit go on to its handler.
LEMMA OnlyFindAdmits ==
  ASSUME AuthInv, Next, NEW v \in Visits, pc[v] = "select", pc'[v] = "handler"
  PROVE  FindActiveAdminSession(v)
<1> USE AuthAssumption DEF Requests
<1>0. pc \in [Requests -> Locations]
  BY DEF AuthInv, TypeOK
<1>1. ASSUME NEW c \in Captchas,
             \/ CreateCaptcha(c) \/ DeleteExpiredLoginCaptchas(c) \/ CreateLoginCaptcha(c)
             \/ CaptchaFails(c)
      PROVE  FALSE
  BY <1>0, <1>1 DEF CreateCaptcha, DeleteExpiredLoginCaptchas, CreateLoginCaptcha, CaptchaFails,
     Begin, At, End, Ended, GoTo
<1>2. ASSUME NEW p \in Logins,
             \/ \E c \in Captchas \cup {NoId}, ok \in BOOLEAN : Login(p, c, ok)
             \/ ConsumeLoginCaptcha(p) \/ CreateAdminSession(p) \/ LoginFails(p)
      PROVE  FALSE
  BY <1>0, <1>2 DEF Login, ConsumeLoginCaptcha, CreateAdminSession, LoginFails,
     Begin, Proceed, At, End, Ended, GoTo
<1>3. ASSUME NEW w \in Visits,
             \/ \E x \in Logins \cup {NoId}, out \in BOOLEAN : Visit(w, x, out)
             \/ DeleteExpiredSessions(w) \/ Handle(w) \/ Logout(w) \/ VisitFails(w)
      PROVE  FALSE
  BY <1>0, <1>3 DEF Visit, DeleteExpiredSessions, Handle, Logout, VisitFails,
     Begin, At, End, Ended, GoTo
<1>4. ASSUME NEW w \in Visits, FindActiveAdminSession(w)
      PROVE  w = v
  BY <1>0, <1>4 DEF FindActiveAdminSession, Proceed, At, End, Ended, GoTo
<1>5. ~Tick /\ ~Restart
  BY <1>0 DEF Tick, Restart, Ended
<1> QED
  BY <1>1, <1>2, <1>3, <1>4, <1>5 DEF Next

\* adminOnly: a visit is let in only with a session that is neither over nor
\* logged out.
THEOREM VisitsInSession == Spec => AdmittedInSession
<1>1. AuthInv /\ [Next]_vars =>
        [\A v \in Visits :
           pc[v] = "select" /\ pc'[v] = "handler" =>
             /\ id[v] \in Logins \ loggedOut
             /\ took[v] < took[id[v]] + SessionLife]_vars
  <2> SUFFICES ASSUME AuthInv, Next, NEW v \in Visits, pc[v] = "select", pc'[v] = "handler"
               PROVE  /\ id[v] \in Logins \ loggedOut
                      /\ took[v] < took[id[v]] + SessionLife
    OBVIOUS
  <2>1. FindActiveAdminSession(v)
    BY OnlyFindAdmits
  <2>2. /\ id[v] # NoId /\ Unexpired(admin_sessions[id[v]], took[v])
    BY <2>1 DEF FindActiveAdminSession, Proceed, End, Ended, AuthInv, TypeOK
  <2>3. id[v] \in Logins
    BY <2>2 DEF AuthInv, VisitsOK
  <2> QED
    BY <2>2, <2>3, AuthAssumption DEF AuthInv, TypeOK, SessionsOK, Unexpired, Requests
<1> QED
  BY <1>1, AuthInvAlways, PTL DEF Spec, AdmittedInSession

\* A session row goes with the time of a visit or with its logout only.
THEOREM SessionsEndForCause == Spec => SessionEndsForCause
<1>1. AuthInv /\ [Next]_vars =>
        [\A p \in Logins :
           admin_sessions[p] # 0 /\ admin_sessions'[p] = 0 =>
             p \in loggedOut' \/ took[p] + SessionLife <= now]_vars
  <2> SUFFICES ASSUME AuthInv, Next, NEW p \in Logins,
                      admin_sessions[p] # 0, admin_sessions'[p] = 0
               PROVE  p \in loggedOut' \/ took[p] + SessionLife <= now
    OBVIOUS
  <2>0. admin_sessions \in [Logins -> Nat] /\ admin_sessions[p] = took[p] + SessionLife
    BY DEF AuthInv, TypeOK, SessionsOK
  <2>1. PICK v \in Visits : DeleteExpiredSessions(v) \/ Logout(v)
    <3>1. ASSUME NEW c \in Captchas,
                 \/ CreateCaptcha(c) \/ DeleteExpiredLoginCaptchas(c) \/ CreateLoginCaptcha(c)
                 \/ CaptchaFails(c)
          PROVE  admin_sessions' = admin_sessions
      BY <3>1 DEF CreateCaptcha, DeleteExpiredLoginCaptchas, CreateLoginCaptcha, CaptchaFails,
         tables
    <3>2. ASSUME NEW q \in Logins,
                 \/ \E c \in Captchas \cup {NoId}, ok \in BOOLEAN : Login(q, c, ok)
                 \/ ConsumeLoginCaptcha(q) \/ CreateAdminSession(q) \/ LoginFails(q)
          PROVE  admin_sessions' = admin_sessions \/ admin_sessions' = WithSession(q)
      BY <3>2 DEF Login, ConsumeLoginCaptcha, CreateAdminSession, LoginFails, tables
    <3>3. ASSUME NEW q \in Logins
          PROVE  admin_sessions' # WithSession(q)
      BY AuthAssumption, <2>0 DEF WithSession, AuthInv, TypeOK, Requests
    <3>4. ASSUME NEW v \in Visits,
                 \/ \E x \in Logins \cup {NoId}, out \in BOOLEAN : Visit(v, x, out)
                 \/ FindActiveAdminSession(v) \/ Handle(v) \/ VisitFails(v)
          PROVE  admin_sessions' = admin_sessions
      BY <3>4 DEF Visit, FindActiveAdminSession, Handle, VisitFails, tables
    <3>5. Tick \/ Restart => admin_sessions' = admin_sessions
      BY DEF Tick, Restart, tables
    <3> QED
      BY <3>1, <3>2, <3>3, <3>4, <3>5 DEF Next
  <2>2. CASE DeleteExpiredSessions(v)
    <3>1. admin_sessions' = Purged(admin_sessions, took[v])
      BY <2>2 DEF DeleteExpiredSessions
    <3>2. took[v] \in Nat /\ took[v] <= now /\ now \in Nat /\ took[p] \in Nat
      BY DEF AuthInv, TypeOK, TookOK, Requests
    <3> QED
      BY <2>0, <3>1, <3>2 DEF Purged, Unexpired
  <2>3. CASE Logout(v)
    BY <2>0, <2>3 DEF Logout
  <2> QED
    BY <2>1, <2>2, <2>3
<1> QED
  BY <1>1, AuthInvAlways, PTL DEF Spec, SessionEndsForCause

\* A captcha row goes with the time of a request or with the login that names it.
THEOREM CaptchasEndForCause == Spec => CaptchaEndsForCause
<1>1. AuthInv /\ [Next]_vars =>
        [\A c \in Captchas :
           login_captchas[c] # 0 /\ login_captchas'[c] = 0 =>
             took[c] + CaptchaLife <= now \/ \E p \in Logins : id[p] = c /\ pc[p] = "consume"]_vars
  <2> SUFFICES ASSUME AuthInv, Next, NEW c \in Captchas,
                      login_captchas[c] # 0, login_captchas'[c] = 0,
                      \A p \in Logins : ~(id[p] = c /\ pc[p] = "consume")
               PROVE  took[c] + CaptchaLife <= now
    OBVIOUS
  <2>0. login_captchas \in [Captchas -> Nat] /\ login_captchas[c] = took[c] + CaptchaLife
    BY DEF AuthInv, TypeOK, CaptchasOK
  <2>1. \E r \in Requests : login_captchas'[c] = Purged(login_captchas, took[r])[c]
    <3>1. ASSUME NEW x \in Captchas,
                 \/ CreateCaptcha(x) \/ DeleteExpiredLoginCaptchas(x) \/ CreateLoginCaptcha(x)
                 \/ CaptchaFails(x)
          PROVE  \/ login_captchas' = login_captchas \/ login_captchas' = WithCaptcha(x)
                 \/ login_captchas' = Purged(login_captchas, took[x])
      BY <3>1 DEF CreateCaptcha, DeleteExpiredLoginCaptchas, CreateLoginCaptcha, CaptchaFails,
         tables
    <3>2. ASSUME NEW x \in Captchas
          PROVE  login_captchas' # WithCaptcha(x)
      BY AuthAssumption, <2>0 DEF WithCaptcha, AuthInv, TypeOK, Requests
    <3>3. ASSUME NEW p \in Logins,
                 \/ \E x \in Captchas \cup {NoId}, ok \in BOOLEAN : Login(p, x, ok)
                 \/ ConsumeLoginCaptcha(p) \/ CreateAdminSession(p) \/ LoginFails(p)
          PROVE  \/ login_captchas' = login_captchas
                 \/ login_captchas' = Purged(login_captchas, took[p])
                 \/ login_captchas' = Consumed(p) /\ pc[p] = "consume"
      BY <3>3 DEF Login, ConsumeLoginCaptcha, CreateAdminSession, LoginFails, Proceed, At, End,
         tables
    <3>4. ASSUME NEW p \in Logins, pc[p] = "consume"
          PROVE  Consumed(p)[c] = Purged(login_captchas, took[p])[c]
      BY <3>4 DEF Consumed
    <3>5. ASSUME NEW v \in Visits,
                 \/ \E x \in Logins \cup {NoId}, out \in BOOLEAN : Visit(v, x, out)
                 \/ DeleteExpiredSessions(v) \/ FindActiveAdminSession(v)
                 \/ Handle(v) \/ Logout(v) \/ VisitFails(v)
          PROVE  login_captchas' = login_captchas
      BY <3>5 DEF Visit, DeleteExpiredSessions, FindActiveAdminSession, Handle, Logout,
         VisitFails, tables
    <3>6. Tick \/ Restart => login_captchas' = login_captchas
      BY DEF Tick, Restart, tables
    <3> QED
      BY <3>1, <3>2, <3>3, <3>4, <3>5, <3>6 DEF Next, Requests
  <2>2. PICK r \in Requests : login_captchas'[c] = Purged(login_captchas, took[r])[c]
    BY <2>1
  <2>3. took[r] \in Nat /\ took[r] <= now /\ now \in Nat /\ took[c] \in Nat
    BY DEF AuthInv, TypeOK, TookOK, Requests
  <2> QED
    BY <2>0, <2>2, <2>3 DEF Purged, Unexpired
<1> QED
  BY <1>1, AuthInvAlways, PTL DEF Spec, CaptchaEndsForCause

=============================================================================
