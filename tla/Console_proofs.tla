---------------------------- MODULE Console_proofs -----------------------------
(***************************************************************************)
(* What a tab of the console believes of its session, and what its pages   *)
(* send and show, for any number of requests in flight, keys, tokens,      *)
(* settings, captchas, sessions and pages of records.                      *)
(*                                                                         *)
(* The invariant of the console is that of the page that is mounted, for   *)
(* which ConsolePages_proofs has a lemma per step, and what relates the    *)
(* tab to its session.  That a page shows what is current follows from a   *)
(* second one, which needs the first: what the loads in flight will bring. *)
(***************************************************************************)
EXTENDS ConsolePages_proofs

-----------------------------------------------------------------------------
(* The page that is mounted.                                               *)

PageInv ==
  /\ screen = "splash" => view = None
  /\ screen = "/login" => FormInv
  /\ screen = "/" => DashboardInv
  /\ screen = "/api-keys" => ApiKeysInv
  /\ screen = "/api-keys/:id" => DetailInv
  /\ screen = "/tokens" => PoolInv
  /\ screen = "/audit-logs" => AuditInv
  /\ screen = "/status" => StatusInv
  /\ screen = "/settings" => SettingsInv

\* Whatever is mounted anew is in its initial state.
LEMMA MountKeeps ==
  ASSUME screen' \in Routes \cup {"splash"}, MountScreen(screen'), submitted' = {}, ~Trying'
  PROVE  PageInv'
<1>1. CASE screen' = "splash"
  BY <1>1 DEF MountScreen, Mount, PageInv
<1>2. CASE screen' = "/login"
  BY <1>2, FormMount DEF MountScreen, PageInv
<1>3. CASE screen' = "/"
  BY <1>3, DashboardMount DEF MountScreen, PageInv
<1>4. CASE screen' = "/api-keys"
  BY <1>4, ApiKeysMount DEF MountScreen, PageInv
<1>5. CASE screen' = "/api-keys/:id"
  BY <1>5, DetailMount DEF MountScreen, PageInv
<1>6. CASE screen' = "/tokens"
  BY <1>6, PoolMount DEF MountScreen, PageInv
<1>7. CASE screen' = "/audit-logs"
  BY <1>7, AuditMount DEF MountScreen, PageInv
<1>8. CASE screen' = "/status"
  BY <1>8, StatusMount DEF MountScreen, PageInv
<1>9. CASE screen' = "/settings"
  BY <1>9, SettingsMount DEF MountScreen, PageInv
<1> QED
  BY <1>1, <1>2, <1>3, <1>4, <1>5, <1>6, <1>7, <1>8, <1>9 DEF Routes, Pages

\* The page is left alone, and stays what is on the screen.
LEMMA PageStays ==
  ASSUME PageInv, UNCHANGED <<pageVars, submitted, screen>>, Trying' = Trying
  PROVE  PageInv'
  BY DEF PageInv, pageVars, FormInv, DashboardInv, ApiKeysInv, DetailInv, PoolInv,
         AuditInv, StatusInv, SettingsInv

-----------------------------------------------------------------------------
(* The tab and its session.                                                *)

Sessions == 0 .. MaxSessions

SessionTypes ==
  /\ path \in Routes /\ ready \in BOOLEAN /\ ok \in BOOLEAN /\ doubt \in BOOLEAN
  /\ jar \in Sessions
  /\ sessions \in [1 .. MaxSessions -> {"unborn", "live", "ended"}]
  /\ login \in [captcha : Nat, mounted : BOOLEAN, answer : 1 .. MaxSessions \cup {Pending, Failed}]
               \cup {None}
  /\ boot \in [cookie : Sessions, answer : BOOLEAN \cup {Pending}] \cup {None}
  /\ logout \in [cookie : Sessions, answer : BOOLEAN \cup {Pending}] \cup {None}

\* A cookie is that of a session that began.
Born(s) == s # 0 => sessions[s] # "unborn"

\* The tab is ready when its first question was answered, and what it believes
\* then is right unless there is doubt.  A login that was accepted brings the
\* cookie of a session that is not the one the tab has or logs out of.
SessionInv ==
  /\ SessionTypes
  /\ Trying => path = "/login"
  /\ ready <=> boot = None
  /\ Born(jar)
  /\ boot # None => logout = None /\ Born(boot.cookie) /\ (doubt \/ boot.cookie = jar)
  /\ boot # None /\ boot.answer # Pending /\ ~doubt => (boot.answer <=> Live(jar))
  /\ logout # None => Born(logout.cookie)
  /\ login # None /\ login.answer \notin {Pending, Failed} =>
       /\ Born(login.answer) /\ login.answer # jar
       /\ logout # None => login.answer # logout.cookie
       /\ ~doubt => Live(login.answer)
  /\ ready /\ logout = None /\ ~doubt => (ok <=> Live(jar))

Inv == SessionInv /\ PageInv

\* Going to a route leaves the page of that route as it is shown first.
LEMMA GoKeeps ==
  ASSUME NEW p \in Routes, NEW isReady \in BOOLEAN, NEW isOk \in BOOLEAN, NEW request,
         request = None \/ request \in Logins, Go(p, isReady, isOk, request)
  PROVE  /\ PageInv' /\ path' \in Routes /\ ~Trying'
         /\ ready' = isReady /\ ok' = isOk
         /\ request = None => login' = None
         /\ request # None => login' = [request EXCEPT !.mounted = FALSE]
<1>1. /\ ready' = isReady /\ ok' = isOk /\ path' = Landing(p, isReady, isOk)
      /\ submitted' = {}
      /\ MountScreen(Screen(path', isReady))
      /\ login' = IF request = None THEN None ELSE [request EXCEPT !.mounted = FALSE]
  BY DEF Go
<1>2. path' \in Routes
  BY <1>1 DEF Landing, Routes, Pages
<1>3. screen' = Screen(path', isReady) /\ screen' \in Routes \cup {"splash"}
  BY <1>1, <1>2 DEF screen, Screen
<1>4. ~Trying'
  BY <1>1 DEF Trying, Logins
<1> QED
  BY <1>1, <1>2, <1>3, <1>4, MountKeeps

-----------------------------------------------------------------------------
(* The invariant.                                                          *)

\* The console starts in the invariant.
LEMMA InitHolds == Init => Inv
<1> SUFFICES ASSUME Init
             PROVE  Inv
  OBVIOUS
<1>1. /\ path \in Routes /\ ready = FALSE /\ ok = FALSE /\ jar \in {0, 1}
      /\ boot = [cookie |-> jar, answer |-> Pending]
      /\ logout = None /\ login = None /\ submitted = {} /\ doubt = FALSE
      /\ sessions \in [1 .. MaxSessions -> {"unborn", "live", "ended"}]
      /\ \A s \in 1 .. MaxSessions : sessions[s] = "unborn" <=> s > jar
  BY DEF Init
<1>2. 0 \in Sessions /\ 1 \in Sessions /\ 1 \in 1 .. MaxSessions
  BY ConsoleAssumption DEF Sessions
<1>3. jar \in Sessions /\ boot \in Questions /\ boot # None
  <2>1. boot \in Questions
    BY <1>1 DEF Questions
  <2> QED
    BY <1>1, <1>2, <2>1, ConsoleAssumption
<1>4. SessionTypes
  BY <1>1, <1>3 DEF SessionTypes
<1>5. Born(jar)
  BY <1>1, <1>2 DEF Born
<1>6. SessionInv
  BY <1>1, <1>3, <1>4, <1>5 DEF SessionInv, Trying
<1>7. CASE path = "/login"
  <2> DEFINE c == Form!Captcha("effect")
  <2>1. c \in FormRequests /\ c.with = "effect" /\ c.answer = Pending
    BY DEF Form!Captcha, Form!Call, FormRequests, Requests
  <2>2. calls = <<c>> /\ table = 0 /\ view = [captcha |-> None, loading |-> FALSE]
    BY <1>7 DEF Init, Mounted, Form!Data, Form!Initial
  <2> HIDE DEF c
  <2>3. calls \in Seq(FormRequests) /\ DOMAIN calls = {1} /\ calls[1] = c
    BY <2>1, <2>2
  <2>4. FormCaptchas(view.captcha, calls, table, submitted, Trying)
    BY <1>1, <2>1, <2>2, <2>3, ConsoleAssumption DEF FormCaptchas, Brought
  <2>5. FormBusy(view.loading, calls, Trying)
    BY <1>1, <2>1, <2>2, <2>3 DEF FormBusy, FollowsUp, Trying
  <2>6. FormInv
    BY <2>2, <2>3, <2>4, <2>5 DEF FormInv
  <2> QED
    BY <1>6, <1>7, <2>6 DEF Inv, PageInv, screen, Screen
<1>8. CASE path # "/login"
  <2>1. screen = "splash" /\ view = None
    BY <1>1, <1>8 DEF screen, Screen, Init, Mounted
  <2> QED
    BY <1>6, <2>1 DEF Inv, PageInv
<1> QED
  BY <1>7, <1>8

\* The tab is opened or loaded anew, or goes elsewhere.
LEMMA MovesKeep ==
  ASSUME Inv, Reload \/ \E p \in Routes : Visit(p)
  PROVE  Inv'
<1>0. SessionInv /\ SessionTypes
  BY DEF Inv, SessionInv
<1>1. CASE Reload
  <2>1. /\ Go(path, FALSE, FALSE, None)
        /\ boot' = [cookie |-> jar, answer |-> Pending]
        /\ logout' = None /\ doubt' = FALSE /\ UNCHANGED <<jar, sessions>>
    BY <1>1 DEF Reload
  <2>2. /\ PageInv' /\ path' \in Routes /\ ~Trying'
        /\ ready' = FALSE /\ ok' = FALSE /\ login' = None
    BY <1>0, <2>1, GoKeeps DEF SessionTypes
  <2>3. boot' \in Questions /\ boot' # None
    <3>1. boot' \in Questions
      BY <1>0, <2>1 DEF Questions, SessionTypes, Sessions
    <3> QED
      BY <3>1, ConsoleAssumption
  <2>4. SessionTypes'
    BY <1>0, <2>1, <2>2 DEF SessionTypes
  <2>5. SessionInv'
    BY <1>0, <2>1, <2>2, <2>3, <2>4 DEF SessionInv, Born
  <2> QED
    BY <2>2, <2>5 DEF Inv
<1>2. ASSUME NEW p \in Routes, Visit(p)
      PROVE  Inv'
  <2>1. Go(p, ready, ok, login) /\ UNCHANGED <<jar, sessions, boot, logout, doubt>>
    BY <1>2 DEF Visit, sessionVars
  <2>2. login = None \/ login \in Logins
    BY <1>0 DEF SessionTypes, Logins
  <2>3. /\ PageInv' /\ path' \in Routes /\ ~Trying' /\ ready' = ready /\ ok' = ok
        /\ login = None => login' = None
        /\ login # None => login' = [login EXCEPT !.mounted = FALSE]
    BY <1>0, <2>1, <2>2, GoKeeps DEF SessionTypes
  <2>4. SessionTypes' /\ (login' # None => login # None /\ login'.answer = login.answer)
    BY <1>0, <2>1, <2>3 DEF SessionTypes
  <2>5. SessionInv'
    BY <1>0, <2>1, <2>3, <2>4 DEF SessionInv, Born, Live
  <2> QED
    BY <2>3, <2>5 DEF Inv
<1> QED
  BY <1>1, <1>2

\* Steps of the session that leave the page alone.
LEMMA QuietKeeps ==
  ASSUME Inv, UNCHANGED <<pageVars, tabVars, submitted>>, SessionInv', Trying' = Trying
  PROVE  Inv'
  BY PageStays DEF Inv, screen, Screen, tabVars

\* The first question is answered.
LEMMA ServeBootKeeps ==
  ASSUME Inv, NEW answer \in BOOLEAN, ServeBoot(answer)
  PROVE  Inv'
<1>1. /\ boot # None /\ boot.answer = Pending /\ (answer => Live(boot.cookie))
      /\ boot' = [boot EXCEPT !.answer = answer]
      /\ doubt' = (doubt \/ (~answer /\ Live(boot.cookie)))
      /\ UNCHANGED <<jar, sessions, logout, path, ready, ok, pageVars, login, submitted>>
  BY DEF ServeBoot, tabVars, loginVars
<1>2. SessionInv /\ SessionTypes
  BY DEF Inv, SessionInv
<1>3. /\ boot' \in [cookie : Sessions, answer : BOOLEAN \cup {Pending}]
      /\ boot'.cookie = boot.cookie /\ boot'.answer = answer
  BY <1>1, <1>2 DEF SessionTypes
<1>4. boot' # None
  <2>1. boot' \in Questions
    BY <1>3 DEF Questions, Sessions
  <2> QED
    BY <2>1, ConsoleAssumption
<1>5. SessionTypes'
  BY <1>1, <1>2, <1>3 DEF SessionTypes
<1>6. SessionInv'
  BY <1>1, <1>2, <1>3, <1>4, <1>5 DEF SessionInv, Born, Live, Trying
<1> QED
  BY <1>1, <1>6, QuietKeeps DEF tabVars, Trying

\* The tab continues from the answer.
LEMMA BootedKeeps ==
  ASSUME Inv, Booted
  PROVE  Inv'
<1>0. SessionInv /\ SessionTypes
  BY DEF Inv, SessionInv
<1>1. /\ boot # None /\ boot.answer # Pending /\ boot' = None
      /\ UNCHANGED <<jar, sessions, logout, doubt>>
      /\ IF screen = Screen(Landing(path, TRUE, boot.answer), TRUE) THEN Stay(TRUE, boot.answer)
         ELSE Go(path, TRUE, boot.answer, login)
  BY DEF Booted
<1>2. boot.answer \in BOOLEAN /\ ready = FALSE /\ logout = None
  BY <1>0, <1>1 DEF SessionTypes, SessionInv
<1>3. CASE screen = Screen(Landing(path, TRUE, boot.answer), TRUE)
  <2>1. /\ ready' = TRUE /\ ok' = boot.answer
        /\ UNCHANGED <<path, pageVars, login, submitted>>
    BY <1>1, <1>3 DEF Stay, loginVars
  <2>2. path = "/login"
    <3>1. Landing(path, TRUE, boot.answer) \in Routes
      BY <1>0 DEF Landing, SessionTypes, Routes, Pages
    <3> QED
      BY <1>0, <1>2, <1>3, <3>1 DEF screen, Screen, SessionTypes, Routes, Pages
  <2>3. screen' = screen /\ Trying' = Trying
    BY <2>1, <2>2 DEF screen, Screen, Trying
  <2>4. PageInv'
    BY <2>1, <2>3, PageStays DEF Inv
  <2>5. SessionTypes'
    BY <1>0, <1>1, <1>2, <2>1 DEF SessionTypes
  <2>6. SessionInv'
    BY <1>0, <1>1, <1>2, <2>1, <2>3, <2>5 DEF SessionInv, Born, Live
  <2> QED
    BY <2>4, <2>6 DEF Inv
<1>4. CASE screen # Screen(Landing(path, TRUE, boot.answer), TRUE)
  <2>0. path \in Routes /\ (login = None \/ login \in Logins)
    BY <1>0 DEF SessionTypes, Logins
  <2>1. path \in Routes /\ TRUE \in BOOLEAN /\ Go(path, TRUE, boot.answer, login)
    BY <1>1, <1>4, <2>0
  <2>2. /\ PageInv' /\ path' \in Routes /\ ~Trying' /\ ready' = TRUE /\ ok' = boot.answer
        /\ login = None => login' = None
        /\ login # None => login' = [login EXCEPT !.mounted = FALSE]
    BY <1>2, <2>0, <2>1, GoKeeps
  <2>3. SessionTypes' /\ (login' # None => login # None /\ login'.answer = login.answer)
    BY <1>0, <1>1, <1>2, <2>2 DEF SessionTypes
  <2>4. SessionInv'
    BY <1>0, <1>1, <1>2, <2>2, <2>3 DEF SessionInv, Born, Live
  <2> QED
    BY <2>2, <2>4 DEF Inv
<1> QED
  BY <1>3, <1>4

\* The server accepts or refuses the login.
LEMMA DecidedKeeps ==
  ASSUME Inv, ServeLogin \/ RefuseLogin
  PROVE  Inv'
<1>0. SessionInv /\ SessionTypes
  BY DEF Inv, SessionInv
<1>1. \A answer : Form!Decide(answer) =>
        /\ login # None /\ login.answer = Pending
        /\ login' = [login EXCEPT !.answer = answer]
        /\ UNCHANGED <<pageVars, submitted>>
  BY DEF Form!Decide, Form!pageVars, pageVars
<1>2. PICK answer \in 1 .. MaxSessions \cup {Failed} :
        /\ login # None /\ login.answer = Pending
        /\ login' = [login EXCEPT !.answer = answer]
        /\ UNCHANGED <<pageVars, submitted, jar, boot, logout, doubt, path, ready, ok>>
        /\ \/ answer = Failed /\ sessions' = sessions
           \/ \E s \in 1 .. MaxSessions : /\ sessions[s] = "unborn" /\ answer \in {s, Failed}
                                          /\ sessions' = [sessions EXCEPT ![s] = "live"]
  <2>1. CASE RefuseLogin
    BY <1>1, <2>1 DEF RefuseLogin, sessionVars, tabVars
  <2>2. CASE ServeLogin
    <3>1. PICK s \in DOMAIN sessions :
            /\ sessions[s] = "unborn"
            /\ sessions' = [sessions EXCEPT ![s] = "live"]
            /\ \E answer \in {s, Failed} : Form!Decide(answer)
            /\ UNCHANGED <<jar, boot, logout, doubt, path, ready, ok>>
      BY <2>2 DEF ServeLogin, tabVars
    <3>2. s \in 1 .. MaxSessions
      BY <1>0 DEF SessionTypes
    <3> QED
      BY <1>1, <3>1, <3>2
  <2> QED
    BY <2>1, <2>2
<1>3. /\ login' \in [captcha : Nat, mounted : BOOLEAN, answer : 1 .. MaxSessions \cup {Pending, Failed}]
      /\ login'.mounted = login.mounted /\ login'.answer = answer
  BY <1>0, <1>2 DEF SessionTypes
<1>4. login' # None
  <2>1. login' \in Logins
    BY <1>3 DEF Logins
  <2> QED
    BY <2>1, ConsoleAssumption
<1>5. Trying' = Trying
  BY <1>2, <1>3, <1>4 DEF Trying
<1>6. SessionTypes'
  BY <1>0, <1>2, <1>3 DEF SessionTypes
<1>7. /\ \A x \in 1 .. MaxSessions : sessions[x] # "unborn" => sessions'[x] = sessions[x]
      /\ answer # Failed => sessions[answer] = "unborn" /\ sessions'[answer] = "live"
  BY <1>0, <1>2 DEF SessionTypes
<1>8. \A x \in Sessions : x # 0 => x \in 1 .. MaxSessions
  BY ConsoleAssumption DEF Sessions
<1>9. \A x \in Sessions : Born(x) => Born(x)' /\ (Live(x)' <=> Live(x)) /\ (answer # Failed => answer # x)
  BY <1>2, <1>7, <1>8 DEF Born, Live
<1>10. answer # Failed => Born(answer)' /\ Live(answer)'
  BY <1>2, <1>7 DEF Born, Live
<1>11. SessionInv'
  BY <1>0, <1>2, <1>3, <1>4, <1>5, <1>6, <1>9, <1>10 DEF SessionInv, SessionTypes
<1> QED
  BY <1>2, <1>5, <1>11, QuietKeeps DEF tabVars

\* The tab continues from the login.
LEMMA LoggedInKeeps ==
  ASSUME Inv, LoggedIn
  PROVE  Inv'
<1>0. SessionInv /\ SessionTypes
  BY DEF Inv, SessionInv
<1>1. /\ login # None /\ login.answer \notin {Pending, Failed}
      /\ jar' = login.answer /\ doubt' = (doubt \/ boot # None)
      /\ UNCHANGED <<sessions, boot, logout>>
      /\ IF path = "/" /\ ready /\ ok THEN login' = None /\ UNCHANGED <<tabVars, pageVars, submitted>>
         ELSE Go("/", ready, TRUE, None)
  BY DEF LoggedIn
<1>2. login.answer \in 1 .. MaxSessions /\ jar' \in Sessions
  BY <1>0, <1>1, ConsoleAssumption DEF SessionTypes, Sessions
<1>3. PageInv' /\ path' \in Routes /\ ~Trying' /\ ready' = ready /\ ok' = TRUE /\ login' = None
  <2>1. CASE path = "/" /\ ready /\ ok
    <3>1. login' = None /\ ok = TRUE /\ UNCHANGED <<path, ready, ok, pageVars, submitted>>
      BY <1>0, <1>1, <2>1 DEF tabVars, SessionTypes
    <3>2. ~Trying' /\ Trying' = Trying /\ screen' = screen
      BY <1>0, <2>1, <3>1 DEF SessionInv, Trying, screen, Screen
    <3>3. PageInv'
      BY <3>1, <3>2, PageStays DEF Inv
    <3> QED
      BY <1>0, <3>1, <3>2, <3>3 DEF SessionTypes
  <2>2. CASE ~(path = "/" /\ ready /\ ok)
    <3>1. Go("/", ready, TRUE, None) /\ "/" \in Routes /\ TRUE \in BOOLEAN /\ ready \in BOOLEAN
      BY <1>0, <1>1, <2>2 DEF Routes, Pages, SessionTypes
    <3> QED
      BY <3>1, GoKeeps
  <2> QED
    BY <2>1, <2>2
<1>4. SessionTypes'
  BY <1>0, <1>1, <1>2, <1>3 DEF SessionTypes
<1>5. SessionInv'
  BY <1>0, <1>1, <1>2, <1>3, <1>4 DEF SessionInv, SessionTypes, Born, Live
<1> QED
  BY <1>3, <1>5 DEF Inv

\* The answer of a login whose form has gone changes nothing but the request.
LEMMA LoginForgottenKeeps ==
  ASSUME Inv, LoginForgotten
  PROVE  Inv'
<1>1. /\ login # None /\ ~login.mounted /\ login' = None
      /\ UNCHANGED <<submitted, pageVars, path, ready, ok, jar, sessions, boot, logout, doubt>>
  BY DEF LoginForgotten, tabVars, sessionVars
<1>2. ~Trying /\ ~Trying' /\ (Trying \in BOOLEAN) /\ (Trying' \in BOOLEAN)
  BY <1>1 DEF Trying
<1>3. SessionInv'
  BY <1>1, <1>2 DEF Inv, SessionInv, SessionTypes, Born, Live
<1> QED
  BY <1>1, <1>2, <1>3, QuietKeeps DEF tabVars

\* Logging out, up to the answer.
LEMMA LogoutKeeps ==
  ASSUME Inv, \/ Logout \/ RefuseLogout
              \/ \E deleted, answer \in BOOLEAN : ServeLogout(deleted, answer)
  PROVE  Inv'
<1>0. SessionInv /\ SessionTypes
  BY DEF Inv, SessionInv
<1>1. CASE Logout
  <2>1. /\ screen \in Pages /\ logout = None
        /\ logout' = [cookie |-> jar, answer |-> Pending]
        /\ UNCHANGED <<jar, sessions, boot, doubt, path, ready, ok, pageVars, login, submitted>>
    BY <1>1 DEF Logout, tabVars, loginVars
  <2>2. ready
    BY <1>0, <2>1 DEF screen, Screen, Pages, SessionTypes
  <2>3. logout' # None
    <3>1. logout' \in Questions
      BY <1>0, <2>1 DEF Questions, SessionTypes, Sessions
    <3> QED
      BY <3>1, ConsoleAssumption
  <2>4. Trying' = Trying /\ SessionTypes'
    BY <1>0, <2>1 DEF SessionTypes, Trying
  <2>5. SessionInv'
    BY <1>0, <2>1, <2>2, <2>3, <2>4 DEF SessionInv, Born, Live
  <2> QED
    BY <2>1, <2>4, <2>5, QuietKeeps DEF tabVars
<1>2. CASE RefuseLogout \/ \E deleted, answer \in BOOLEAN : ServeLogout(deleted, answer)
  <2>1. PICK answer \in BOOLEAN :
          /\ logout # None /\ logout' = [logout EXCEPT !.answer = answer]
          /\ UNCHANGED <<jar, boot, doubt, path, ready, ok, pageVars, login, submitted>>
          /\ \/ sessions' = sessions
             \/ Live(logout.cookie) /\ sessions' = [sessions EXCEPT ![logout.cookie] = "ended"]
    BY <1>2 DEF RefuseLogout, ServeLogout, tabVars, loginVars
  <2>2. /\ logout' \in [cookie : Sessions, answer : BOOLEAN \cup {Pending}]
        /\ logout'.cookie = logout.cookie
    BY <1>0, <2>1 DEF SessionTypes
  <2>3. Trying' = Trying /\ SessionTypes'
    BY <1>0, <2>1, <2>2 DEF SessionTypes, Trying
  <2>4. logout' # None
    <3>1. logout' \in Questions
      BY <2>2 DEF Questions, Sessions
    <3> QED
      BY <3>1, ConsoleAssumption
  <2>5. \A x \in 1 .. MaxSessions : /\ sessions[x] # "unborn" => sessions'[x] # "unborn"
                                    /\ x # logout.cookie => sessions'[x] = sessions[x]
    BY <1>0, <2>1 DEF SessionTypes
  <2>6. \A x \in Sessions : Born(x) => Born(x)'
    BY <2>5, ConsoleAssumption DEF Born, Sessions
  <2>7. \A x \in Sessions : x # logout.cookie => (Live(x)' <=> Live(x))
    BY <2>5, ConsoleAssumption DEF Live, Sessions
  <2>8. login # None /\ login.answer \notin {Pending, Failed} => login.answer \in Sessions
    BY <1>0 DEF SessionTypes, Sessions
  <2>9. SessionInv'
    BY <1>0, <2>1, <2>2, <2>3, <2>4, <2>6, <2>7, <2>8 DEF SessionInv, SessionTypes
  <2> QED
    BY <2>1, <2>3, <2>9, QuietKeeps DEF tabVars
<1> QED
  BY <1>1, <1>2

\* The tab continues from the logout.
LEMMA LoggedOutKeeps ==
  ASSUME Inv, LoggedOut
  PROVE  Inv'
<1>0. SessionInv /\ SessionTypes
  BY DEF Inv, SessionInv
<1>1. /\ logout # None /\ logout.answer # Pending /\ logout' = None
      /\ jar' = IF logout.answer THEN 0 ELSE jar
      /\ doubt' = (doubt \/ (~logout.answer /\ Live(jar)))
      /\ Go(path, ready, FALSE, login)
      /\ UNCHANGED <<sessions, boot>>
  BY DEF LoggedOut
<1>2. /\ login = None \/ login \in Logins
      /\ path \in Routes /\ ready \in BOOLEAN /\ FALSE \in BOOLEAN
  BY <1>0 DEF SessionTypes, Logins
<1>3. /\ PageInv' /\ path' \in Routes /\ ~Trying' /\ ready' = ready /\ ok' = FALSE
      /\ login = None => login' = None
      /\ login # None => login' = [login EXCEPT !.mounted = FALSE]
  BY <1>1, <1>2, GoKeeps
<1>4. 0 \in Sessions /\ logout.answer \in BOOLEAN
  BY <1>0, <1>1, ConsoleAssumption DEF SessionTypes, Sessions
<1>5. SessionTypes' /\ (login' # None => login # None /\ login'.answer = login.answer)
  BY <1>0, <1>1, <1>3, <1>4 DEF SessionTypes
<1>6. login # None /\ login.answer \notin {Pending, Failed} => login.answer # 0
  BY <1>0 DEF SessionTypes
<1>7. SessionInv'
  BY <1>0, <1>1, <1>3, <1>4, <1>5, <1>6 DEF SessionInv, Born, Live
<1> QED
  BY <1>3, <1>7 DEF Inv

\* A session ends by itself.
LEMMA ExpireKeeps ==
  ASSUME Inv, NEW s \in 1 .. MaxSessions, Expire(s)
  PROVE  Inv'
<1>0. SessionInv /\ SessionTypes
  BY DEF Inv, SessionInv
<1>1. /\ sessions' = [sessions EXCEPT ![s] = "ended"] /\ doubt' = TRUE
      /\ UNCHANGED <<jar, boot, logout, path, ready, ok, pageVars, login, submitted>>
  BY DEF Expire, tabVars, loginVars
<1>2. Trying' = Trying /\ SessionTypes'
  BY <1>0, <1>1 DEF SessionTypes, Trying
<1>3. \A x \in 1 .. MaxSessions : sessions[x] # "unborn" => sessions'[x] # "unborn"
  BY <1>0, <1>1 DEF SessionTypes
<1>4. \A x \in Sessions : Born(x) => Born(x)'
  BY <1>3, ConsoleAssumption DEF Born, Sessions
<1>5. login # None /\ login.answer \notin {Pending, Failed} => login.answer \in Sessions
  BY <1>0 DEF SessionTypes, Sessions
<1>6. SessionInv'
  BY <1>0, <1>1, <1>2, <1>4, <1>5 DEF SessionInv, SessionTypes
<1> QED
  BY <1>1, <1>2, <1>6, QuietKeeps DEF tabVars

\* A step of the login form.
LEMMA FormStepKeeps ==
  ASSUME Inv, FormStep
  PROVE  Inv'
<1>0. SessionInv /\ SessionTypes
  BY DEF Inv, SessionInv
<1>1. /\ screen = "/login" /\ Form!Next
      /\ UNCHANGED <<path, ready, ok, jar, sessions, boot, logout, doubt>>
  BY DEF FormStep, tabVars, sessionVars
<1>2. path = "/login" /\ screen' = "/login"
  BY <1>1 DEF screen, Screen
<1>3. FormInv
  BY <1>1 DEF Inv, PageInv
<1>4. FormInv'
  BY <1>0, <1>1, <1>3, FormStays DEF SessionTypes
<1>5. PageInv'
  BY <1>2, <1>4 DEF PageInv
<1>6. \/ login' = login \/ login' = None
      \/ /\ view.captcha # None
         /\ login' = [captcha |-> view.captcha, mounted |-> TRUE, answer |-> Pending]
  <2>1. Form!User => login' = login \/ /\ view.captcha # None
                                       /\ login' = [captcha |-> view.captcha, mounted |-> TRUE, answer |-> Pending]
    BY DEF Form!User, Form!Refresh, Form!Submit, Form!loginVars
  <2>2. Form!Rejected => login' = None
    BY DEF Form!Rejected
  <2>3. \A i : Form!Answered(i) \/ Form!Serve(i) \/ Form!Refused(i) => login' = login
    BY DEF Form!Answered, Form!Loaded, Form!Serve, Form!Refused, Form!loginVars
  <2> QED
    BY <1>1, <2>1, <2>2, <2>3 DEF Form!Next
<1>7. view.captcha \in Nat \cup {None}
  BY <1>3 DEF FormInv, FormCaptchas
<1>8. SessionTypes'
  <2>1. \/ login' = login \/ login' = None
        \/ login' \in [captcha : Nat, mounted : BOOLEAN, answer : 1 .. MaxSessions \cup {Pending, Failed}]
    <3>1. CASE login' = login \/ login' = None
      BY <3>1
    <3>2. CASE /\ view.captcha # None
               /\ login' = [captcha |-> view.captcha, mounted |-> TRUE, answer |-> Pending]
      <4>1. view.captcha \in Nat
        BY <1>7, <3>2
      <4> QED
        BY <3>2, <4>1
    <3> QED
      BY <1>6, <3>1, <3>2
  <2> QED
    BY <1>0, <1>1, <2>1 DEF SessionTypes
<1>9. login' # None /\ login'.answer \notin {Pending, Failed} => login' = login
  BY <1>6
<1>10. SessionInv'
  BY <1>0, <1>1, <1>2, <1>8, <1>9 DEF SessionInv, Born, Live
<1> QED
  BY <1>5, <1>10 DEF Inv

\* A step of another page.
LEMMA PageStepKeeps ==
  ASSUME Inv, \/ DashboardStep \/ ApiKeysStep \/ DetailStep \/ PoolStep \/ AuditStep
              \/ StatusStep \/ SettingsStep
  PROVE  Inv'
<1>0. ASSUME NEW p \in Pages, OnPage(p),
             p = "/" => DashboardInv', p = "/api-keys" => ApiKeysInv',
             p = "/api-keys/:id" => DetailInv', p = "/tokens" => PoolInv',
             p = "/audit-logs" => AuditInv', p = "/status" => StatusInv',
             p = "/settings" => SettingsInv'
      PROVE  Inv'
  <2>1. /\ screen = p
        /\ UNCHANGED <<path, ready, ok, login, submitted, jar, sessions, boot, logout, doubt>>
    BY <1>0 DEF OnPage, tabVars, loginVars, sessionVars
  <2>2. screen' = p
    BY <2>1 DEF screen, Screen
  <2>3. SessionInv'
    BY <2>1 DEF Inv, SessionInv, SessionTypes, Trying, Born, Live
  <2>4. PageInv'
    BY <1>0, <2>2 DEF PageInv, Pages
  <2> QED
    BY <2>3, <2>4 DEF Inv
<1>1. CASE DashboardStep
  <2>1. OnPage("/") /\ DashboardInv
    BY <1>1 DEF DashboardStep, OnPage, Inv, PageInv
  <2>2. DashboardInv'
    BY <1>1, <2>1, DashboardStays DEF DashboardStep
  <2> QED
    BY <1>0, <2>1, <2>2 DEF Pages
<1>2. CASE ApiKeysStep
  <2>1. OnPage("/api-keys") /\ ApiKeysInv
    BY <1>2 DEF ApiKeysStep, OnPage, Inv, PageInv
  <2>2. ApiKeysInv'
    BY <1>2, <2>1, ApiKeysUser, ApiKeysAnswered, ApiKeysServed DEF ApiKeysStep
  <2> QED
    BY <1>0, <2>1, <2>2 DEF Pages
<1>3. CASE DetailStep
  <2>1. OnPage("/api-keys/:id") /\ DetailInv
    BY <1>3 DEF DetailStep, OnPage, Inv, PageInv
  <2>2. DetailInv'
    BY <1>3, <2>1, DetailStays DEF DetailStep
  <2> QED
    BY <1>0, <2>1, <2>2 DEF Pages
<1>4. CASE PoolStep
  <2>1. OnPage("/tokens") /\ PoolInv
    BY <1>4 DEF PoolStep, OnPage, Inv, PageInv
  <2>2. PoolInv'
    BY <1>4, <2>1, PoolUser, PoolAnswered, PoolServed DEF PoolStep
  <2> QED
    BY <1>0, <2>1, <2>2 DEF Pages
<1>5. CASE AuditStep
  <2>1. OnPage("/audit-logs") /\ AuditInv
    BY <1>5 DEF AuditStep, OnPage, Inv, PageInv
  <2>2. AuditInv'
    BY <1>5, <2>1, AuditStays DEF AuditStep
  <2> QED
    BY <1>0, <2>1, <2>2 DEF Pages
<1>6. CASE StatusStep
  <2>1. OnPage("/status") /\ StatusInv
    BY <1>6 DEF StatusStep, OnPage, Inv, PageInv
  <2>2. StatusInv'
    BY <1>6, <2>1, StatusStays DEF StatusStep, StatusPageStep
  <2> QED
    BY <1>0, <2>1, <2>2 DEF Pages
<1>7. CASE SettingsStep
  <2>1. OnPage("/settings") /\ SettingsInv
    BY <1>7 DEF SettingsStep, OnPage, Inv, PageInv
  <2>2. SettingsInv'
    BY <1>7, <2>1, SettingsUser, SettingsAnswered, SettingsServed DEF SettingsStep
  <2> QED
    BY <1>0, <2>1, <2>2 DEF Pages
<1> QED
  BY <1>1, <1>2, <1>3, <1>4, <1>5, <1>6, <1>7

\* Every step of the console keeps the invariant.
LEMMA NextKeeps == Inv /\ [Next]_consoleVars => Inv'
<1> SUFFICES ASSUME Inv, [Next]_consoleVars
             PROVE  Inv'
  OBVIOUS
<1>1. CASE Next
  BY <1>1, MovesKeep, ServeBootKeeps, BootedKeeps, DecidedKeeps, LoggedInKeeps, LoginForgottenKeeps,
     LogoutKeeps, LoggedOutKeeps, ExpireKeeps, FormStepKeeps, PageStepKeeps DEF Next
<1>2. CASE UNCHANGED consoleVars
  <2>1. UNCHANGED <<pageVars, login, submitted, path, ready, ok, jar, sessions, boot, logout, doubt>>
    BY <1>2 DEF consoleVars, loginVars, tabVars, sessionVars
  <2>2. Trying' = Trying /\ UNCHANGED tabVars
    BY <2>1 DEF Trying, tabVars
  <2>3. SessionInv'
    BY <2>1, <2>2 DEF Inv, SessionInv, SessionTypes, Born, Live
  <2> QED
    BY <2>1, <2>2, <2>3, QuietKeeps
<1> QED
  BY <1>1, <1>2

\* What a tab believes and shows is as Inv says in every state.
THEOREM InvAlways == Spec => []Inv
<1> QED
  BY InitHolds, NextKeeps, PTL DEF Spec

-----------------------------------------------------------------------------
(* The properties.                                                         *)

\* What the invariant says of the page on the screen, spread over the pages.
LEMMA OnScreen ==
  ASSUME Inv
  PROVE  screen \in {"splash", "/login", "/", "/api-keys", "/api-keys/:id", "/tokens",
                     "/audit-logs", "/status", "/settings"}
  BY DEF Inv, SessionInv, SessionTypes, screen, Screen, Routes, Pages

\* App.tsx, session.tsx and the pages: the tab is at a route, and the page that is
\* mounted there has a state of its own type.
THEOREM ConsoleTypes == Spec => []TypeOK
<1>1. Inv => TypeOK
  <2> SUFFICES ASSUME Inv
               PROVE  TypeOK
    OBVIOUS
  <2>1. PageInv /\ path \in Routes /\ ready \in BOOLEAN /\ ok \in BOOLEAN /\ jar \in 0 .. MaxSessions
    BY DEF Inv, SessionInv, SessionTypes, Sessions
  <2> QED
    BY <2>1, OnScreen, FormShows, DashboardShows, ApiKeysShows, DetailShows, PoolShows,
       AuditShows, StatusShows, SettingsShows DEF TypeOK, PageInv
<1> QED
  BY <1>1, InvAlways, PTL

\* session.tsx: however answers of logins, logouts and of the first question are
\* interleaved, the tab believes it is logged in exactly when its cookie is that
\* of a session, where nothing gives it cause for doubt.
THEOREM BelievesTheServer == Spec => []TabMatchesServer
<1>1. Inv => TabMatchesServer
  BY DEF Inv, SessionInv, TabMatchesServer
<1> QED
  BY <1>1, InvAlways, PTL

\* Login.tsx: no captcha is submitted twice, whatever is refreshed while an
\* attempt is in flight.
THEOREM CaptchasAreFresh == Spec => []FreshCaptcha
<1>1. Inv => FreshCaptcha
  BY FormShows DEF Inv, PageInv, FreshCaptcha
<1> QED
  BY <1>1, InvAlways, PTL

\* ApiKeys.tsx: a batch acts on keys of the list that is shown.
THEOREM BatchesAreListed == Spec => []SelectedAreListed
<1>1. Inv => SelectedAreListed
  BY ApiKeysShows DEF Inv, PageInv, SelectedAreListed
<1> QED
  BY <1>1, InvAlways, PTL

\* The pages: a page says that it is busy only while a request of its own is in
\* flight.  The login form, the status page and the flags for a batch, a token and
\* the settings being saved say it exactly while one is, and one at a time.
THEOREM BusyOnlyInFlight == Spec => []BusyForCause
<1>1. Inv => BusyForCause
  BY FormShows, DashboardShows, ApiKeysShows, DetailShows, PoolShows, AuditShows, StatusShows,
     SettingsShows DEF Inv, PageInv, BusyForCause
<1> QED
  BY <1>1, InvAlways, PTL

-----------------------------------------------------------------------------
(* What the page that is mounted shows: a second invariant, which rests on *)
(* the first.                                                              *)

ShownInv ==
  /\ screen = "/" => DashboardCurrent
  /\ screen = "/api-keys" => ApiKeysCurrent
  /\ screen = "/api-keys/:id" => DetailCurrent
  /\ screen = "/tokens" => PoolCurrent
  /\ screen = "/audit-logs" => AuditCurrent
  /\ screen = "/status" => StatusCurrent
  /\ screen = "/settings" => SettingsCurrent

\* Whatever is mounted anew has asked for what it will show.
LEMMA MountShows ==
  ASSUME MountScreen(screen')
  PROVE  ShownInv'
<1>1. CASE screen' = "/"
  BY <1>1, DashboardMountCurrent DEF MountScreen, ShownInv
<1>2. CASE screen' = "/api-keys"
  BY <1>2, ApiKeysMountCurrent DEF MountScreen, ShownInv
<1>3. CASE screen' = "/api-keys/:id"
  BY <1>3, DetailMountCurrent DEF MountScreen, ShownInv
<1>4. CASE screen' = "/tokens"
  BY <1>4, PoolMountCurrent DEF MountScreen, ShownInv
<1>5. CASE screen' = "/audit-logs"
  BY <1>5, AuditMountCurrent DEF MountScreen, ShownInv
<1>6. CASE screen' = "/status"
  BY <1>6, StatusMountCurrent DEF MountScreen, ShownInv
<1>7. CASE screen' = "/settings"
  BY <1>7, SettingsMountCurrent DEF MountScreen, ShownInv
<1> QED
  BY <1>1, <1>2, <1>3, <1>4, <1>5, <1>6, <1>7 DEF ShownInv

\* The page is left alone, and stays what is on the screen.
LEMMA ShownStays ==
  ASSUME ShownInv, UNCHANGED <<pageVars, screen>>
  PROVE  ShownInv'
<1>1. UNCHANGED <<view, calls, table, changed, overtaken>>
  BY DEF pageVars
<1>2. /\ DashboardCurrent => DashboardCurrent'
      /\ ApiKeysCurrent => ApiKeysCurrent'
      /\ PoolCurrent => PoolCurrent'
  <2>1. ApiKeys!Listing' = ApiKeys!Listing /\ Pool!Listing' = Pool!Listing
    BY <1>1 DEF ApiKeys!Listing, ApiKeys!Exists, Pool!Listing, Pool!Exists
  <2> QED
    BY <1>1, <2>1 DEF DashboardCurrent, ApiKeysCurrent, PoolCurrent, Shows
<1>3. /\ DetailCurrent => DetailCurrent'
      /\ AuditCurrent => AuditCurrent'
  BY <1>1 DEF DetailCurrent, AuditCurrent, DetailBrings, AuditBrings, Detail!Asking, Detail!Call,
              Audit!Asking, Audit!Call
<1>4. /\ StatusCurrent => StatusCurrent'
      /\ SettingsCurrent => SettingsCurrent'
  BY <1>1 DEF StatusCurrent, SettingsCurrent
<1> QED
  BY <1>2, <1>3, <1>4 DEF ShownInv

\* The tab goes to a route.
LEMMA GoShows ==
  ASSUME NEW p, NEW isReady, NEW isOk, NEW request, Go(p, isReady, isOk, request)
  PROVE  ShownInv'
<1>1. MountScreen(screen')
  BY DEF Go, screen
<1> QED
  BY <1>1, MountShows

\* The splash and the login form show none of the data.
LEMMA InitShows == Init => ShownInv
<1> SUFFICES ASSUME Init
             PROVE  screen \in {"splash", "/login"}
  BY DEF ShownInv
<1> QED
  BY DEF Init, screen, Screen

\* Steps of the session that leave the page alone, or mount one.
LEMMA SessionStepShows ==
  ASSUME Inv, ShownInv,
         \/ Reload \/ Booted \/ LoggedIn \/ LoginForgotten \/ Logout \/ LoggedOut
         \/ \E p \in Routes : Visit(p)
         \/ \E answer \in BOOLEAN : ServeBoot(answer)
         \/ ServeLogin \/ RefuseLogin \/ RefuseLogout
         \/ \E deleted, answer \in BOOLEAN : ServeLogout(deleted, answer)
         \/ \E s \in 1 .. MaxSessions : Expire(s)
  PROVE  ShownInv'
<1>1. ASSUME UNCHANGED <<tabVars, pageVars>>
      PROVE  ShownInv'
  BY <1>1, ShownStays DEF tabVars, screen, Screen
<1>2. CASE Reload \/ LoggedOut \/ \E p \in Routes : Visit(p)
  BY <1>2, GoShows DEF Reload, LoggedOut, Visit
<1>3. CASE Booted
  <2>1. CASE screen = Screen(Landing(path, TRUE, boot.answer), TRUE)
    <3>1. UNCHANGED <<path, pageVars>> /\ ready' = TRUE
      BY <1>3, <2>1 DEF Booted, Stay
    <3>2. path \in Routes
      BY DEF Inv, SessionInv, SessionTypes
    <3>3. Landing(path, TRUE, boot.answer) # "splash"
      BY <3>2 DEF Landing, Routes, Pages
    <3>4. screen' = screen
      BY <2>1, <3>1, <3>3 DEF screen, Screen
    <3> QED
      BY <3>1, <3>4, ShownStays
  <2>2. CASE screen # Screen(Landing(path, TRUE, boot.answer), TRUE)
    BY <1>3, <2>2, GoShows DEF Booted
  <2> QED
    BY <2>1, <2>2
<1>4. CASE LoggedIn
  BY <1>1, <1>4, GoShows DEF LoggedIn
<1>5. CASE LoginForgotten \/ Logout \/ RefuseLogout
  BY <1>1, <1>5 DEF LoginForgotten, Logout, RefuseLogout
<1>6. ASSUME NEW answer, ServeBoot(answer)
      PROVE  ShownInv'
  BY <1>1, <1>6 DEF ServeBoot
<1>7. CASE ServeLogin \/ RefuseLogin
  <2>1. \A answer : Form!Decide(answer) => UNCHANGED pageVars
    BY DEF Form!Decide, Form!pageVars, pageVars
  <2> QED
    BY <1>1, <1>7, <2>1 DEF ServeLogin, RefuseLogin
<1>8. ASSUME NEW deleted, NEW answer, ServeLogout(deleted, answer)
      PROVE  ShownInv'
  BY <1>1, <1>8 DEF ServeLogout
<1>9. ASSUME NEW s, Expire(s)
      PROVE  ShownInv'
  BY <1>1, <1>9 DEF Expire
<1> QED
  BY <1>2, <1>3, <1>4, <1>5, <1>6, <1>7, <1>8, <1>9

\* Steps of the page that is mounted.
LEMMA PageStepShows ==
  ASSUME Inv, ShownInv,
         \/ FormStep \/ DashboardStep \/ ApiKeysStep \/ DetailStep \/ PoolStep \/ AuditStep
         \/ StatusStep \/ SettingsStep
  PROVE  ShownInv'
<1>0. ASSUME NEW p, screen = p, UNCHANGED tabVars,
             p = "/" => DashboardCurrent', p = "/api-keys" => ApiKeysCurrent',
             p = "/api-keys/:id" => DetailCurrent', p = "/tokens" => PoolCurrent',
             p = "/audit-logs" => AuditCurrent', p = "/status" => StatusCurrent',
             p = "/settings" => SettingsCurrent'
      PROVE  ShownInv'
  <2>1. screen' = p
    BY <1>0 DEF screen, Screen, tabVars
  <2> QED
    BY <1>0, <2>1 DEF ShownInv
<1>1. CASE FormStep
  <2>1. screen = "/login" /\ UNCHANGED tabVars
    BY <1>1 DEF FormStep
  <2> QED
    BY <1>0, <2>1
<1>2. CASE DashboardStep
  <2>1. screen = "/" /\ UNCHANGED tabVars /\ DashboardInv /\ DashboardCurrent
    BY <1>2 DEF DashboardStep, OnPage, Inv, PageInv, ShownInv
  <2>2. DashboardCurrent'
    BY <1>2, <2>1, DashboardStaysCurrent DEF DashboardStep
  <2> QED
    BY <1>0, <2>1, <2>2
<1>3. CASE ApiKeysStep
  <2>1. screen = "/api-keys" /\ UNCHANGED tabVars /\ ApiKeysInv /\ ApiKeysCurrent
    BY <1>3 DEF ApiKeysStep, OnPage, Inv, PageInv, ShownInv
  <2>2. ApiKeysCurrent'
    BY <1>3, <2>1, ApiKeysUserCurrent, ApiKeysAnsweredCurrent, ApiKeysServedCurrent DEF ApiKeysStep
  <2> QED
    BY <1>0, <2>1, <2>2
<1>4. CASE DetailStep
  <2>1. screen = "/api-keys/:id" /\ UNCHANGED tabVars /\ DetailInv /\ DetailCurrent
    BY <1>4 DEF DetailStep, OnPage, Inv, PageInv, ShownInv
  <2>2. DetailCurrent'
    BY <1>4, <2>1, DetailStaysCurrent DEF DetailStep
  <2> QED
    BY <1>0, <2>1, <2>2
<1>5. CASE PoolStep
  <2>1. screen = "/tokens" /\ UNCHANGED tabVars /\ PoolInv /\ PoolCurrent
    BY <1>5 DEF PoolStep, OnPage, Inv, PageInv, ShownInv
  <2>2. PoolCurrent'
    BY <1>5, <2>1, PoolUserCurrent, PoolAnsweredCurrent, PoolServedCurrent DEF PoolStep
  <2> QED
    BY <1>0, <2>1, <2>2
<1>6. CASE AuditStep
  <2>1. screen = "/audit-logs" /\ UNCHANGED tabVars /\ AuditInv /\ AuditCurrent
    BY <1>6 DEF AuditStep, OnPage, Inv, PageInv, ShownInv
  <2>2. AuditCurrent'
    BY <1>6, <2>1, AuditStaysCurrent DEF AuditStep
  <2> QED
    BY <1>0, <2>1, <2>2
<1>7. CASE StatusStep
  <2>1. screen = "/status" /\ UNCHANGED tabVars /\ StatusInv /\ StatusCurrent
    BY <1>7 DEF StatusStep, OnPage, Inv, PageInv, ShownInv
  <2>2. StatusCurrent'
    BY <1>7, <2>1, StatusStaysCurrent DEF StatusStep, StatusPageStep
  <2> QED
    BY <1>0, <2>1, <2>2
<1>8. CASE SettingsStep
  <2>1. screen = "/settings" /\ UNCHANGED tabVars /\ SettingsInv /\ SettingsCurrent
    BY <1>8 DEF SettingsStep, OnPage, Inv, PageInv, ShownInv
  <2>2. SettingsCurrent'
    BY <1>8, <2>1, SettingsUserCurrent, SettingsAnsweredCurrent, SettingsServedCurrent DEF SettingsStep
  <2> QED
    BY <1>0, <2>1, <2>2
<1> QED
  BY <1>1, <1>2, <1>3, <1>4, <1>5, <1>6, <1>7, <1>8

\* Every step of the console keeps what is shown.
LEMMA NextShows == Inv /\ ShownInv /\ [Next]_consoleVars => ShownInv'
<1> SUFFICES ASSUME Inv, ShownInv, [Next]_consoleVars
             PROVE  ShownInv'
  OBVIOUS
<1>1. CASE Next
  BY <1>1, SessionStepShows, PageStepShows DEF Next
<1>2. CASE UNCHANGED consoleVars
  BY <1>2, ShownStays DEF consoleVars, tabVars, screen, Screen
<1> QED
  BY <1>1, <1>2

\* The pages: in whatever order loads and writes are sent, answered, lost and
\* continued from, once no answer is on its way a page shows what was asked for,
\* and the data as they are, unless a load overtook a newer one, failed, or
\* somebody else, or a write whose answer was lost, has changed them since.
THEOREM WhatIsShownIsCurrent == Spec => []ShownIsCurrent
<1>1. Inv /\ ShownInv => ShownIsCurrent
  BY DashboardShowsCurrent, ApiKeysShowsCurrent, DetailShowsCurrent, PoolShowsCurrent,
     AuditShowsCurrent, StatusShowsCurrent, SettingsShowsCurrent DEF ShownInv, ShownIsCurrent
<1>2. Inv /\ ShownInv /\ [Next]_consoleVars => (Inv /\ ShownInv)'
  BY NextKeeps, NextShows
<1> QED
  BY <1>1, <1>2, InitHolds, InitShows, PTL DEF Spec

\* SettingsPage.tsx: a save that the server refuses for one of its numbers changes
\* none of them, whatever was typed.
THEOREM RefusedSavesKeepNumbers == Spec => []RefusedSaveIsUnchanged
<1>1. Inv /\ ShownInv => RefusedSaveIsUnchanged
  BY SettingsShowsCurrent DEF ShownInv, RefusedSaveIsUnchanged
<1>2. Inv /\ ShownInv /\ [Next]_consoleVars => (Inv /\ ShownInv)'
  BY NextKeeps, NextShows
<1> QED
  BY <1>1, <1>2, InitHolds, InitShows, PTL DEF Spec
=============================================================================
