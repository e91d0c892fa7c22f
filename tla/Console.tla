--------------------------------- MODULE Console -------------------------------
(***************************************************************************)
(* A tab of the web console: the session of web/src/session.tsx, the       *)
(* routes of web/src/App.tsx, the sidebar of web/src/components/layout.tsx *)
(* and the page that is mounted, each in a module of its own.              *)
(*                                                                         *)
(* The tab asks once whether the cookie it has is that of a session, and   *)
(* afterwards believes what its own logins and logouts have told it.       *)
(***************************************************************************)
EXTENDS ConsolePage

CONSTANTS
  MaxCaptchas,                             \* see LoginPage
  Keys, MaxDialogs, Tokens,                \* see ApiKeysPage, TokensPage
  Numeric, Highest, Environment, NotInteger, Typed, \* see SettingsPage
  Filters, Patterns, MaxPages,             \* see AuditLogsPage, ApiKeyDetailPage
  MaxSessions                              \* bound: how many sessions there ever are

VARIABLES
  login, submitted,  \* see LoginPage
  path,      \* the path of the address
  ready, ok, \* the state of SessionProvider
  jar,       \* the session of the browser's cookie; 0 when there is none
  sessions,  \* what became of each session: unborn, live or ended
  boot,      \* the answer of GET /admin/session, as long as it is not continued from
  logout,    \* the same, of DELETE /admin/session, with the cookie it was sent with
  doubt      \* history: the tab may be wrong about its session

loginVars == <<login, submitted>>
tabVars == <<path, ready, ok>>
sessionVars == <<jar, sessions, boot, logout, doubt>>
consoleVars == <<pageVars, loginVars, tabVars, sessionVars>>

Form == INSTANCE LoginPage
ApiKeys == INSTANCE ApiKeysPage
Detail == INSTANCE ApiKeyDetailPage
Pool == INSTANCE TokensPage
Audit == INSTANCE AuditLogsPage
Status == INSTANCE StatusPage
Dashboard == INSTANCE DashboardPage
Settings == INSTANCE SettingsPage

\* Requests that belong to the tab: see login, boot and logout.
Logins == [captcha : Nat, mounted : BOOLEAN, answer : Nat \cup {Pending, Failed}]
Questions == [cookie : Nat, answer : BOOLEAN \cup {Pending}]

ASSUME ConsoleAssumption ==
  /\ MaxCalls \in Nat /\ MaxWrites \in Nat /\ MaxCaptchas \in Nat /\ MaxPages \in Nat
  /\ MaxSessions \in Nat \ {0}
  /\ Highest \in [Numeric -> Nat] /\ Environment \in [Numeric -> Nat]
  /\ Typed \in [Numeric -> SUBSET Settings!Strings]
  /\ None \in Filters /\ None \in Patterns
  /\ \A x \in {None, Pending, Failed} : x \notin Nat \cup Settings!Data \cup Logins \cup Questions

Pages == {"/", "/api-keys", "/api-keys/:id", "/tokens", "/audit-logs", "/status", "/settings"}
Routes == Pages \cup {"/login"}

-----------------------------------------------------------------------------
(* Routes, Protected and Navigate.                                         *)

\* Where a path leads.
Landing(p, isReady, isOk) ==
  CASE isReady /\ isOk /\ p = "/login" -> "/"
    [] isReady /\ ~isOk -> "/login"
    [] OTHER -> p

\* What is mounted there.
Screen(p, isReady) == IF p # "/login" /\ ~isReady THEN "splash" ELSE p
screen == Screen(path, ready)

MountScreen(s) ==
  CASE s = "splash" -> Mount(None, <<>>, {0})
    [] s = "/login" -> Mount(Form!Initial, <<Form!Captcha("effect")>>, Form!Data)
    [] s = "/" -> Mount(Dashboard!Initial, <<Dashboard!Asking>>, Dashboard!Data)
    [] s = "/api-keys" -> Mount(ApiKeys!Initial, <<Load>>, ApiKeys!Data)
    [] s = "/api-keys/:id" ->
         \E v \in Detail!Initials : Mount(v, <<Detail!Asking(v)>>, Detail!Data)
    [] s = "/tokens" -> Mount(Pool!Initial, <<Load>>, Pool!Data)
    [] s = "/audit-logs" -> Mount(Audit!Initial, <<Audit!Asking(Audit!Initial)>>, Audit!Data)
    [] s = "/status" -> Mount(Status!Initial, <<Load>>, Status!Data)
    [] s = "/settings" -> Mount(Settings!Initial, <<Load>>, Settings!Data)

\* The tab goes to p with a new state; what was mounted is dropped, with its
\* requests, and the login of a form that is gone has no form to return to.
Go(p, isReady, isOk, request) ==
  /\ ready' = isReady /\ ok' = isOk
  /\ path' = Landing(p, isReady, isOk)
  /\ MountScreen(Screen(path', isReady))
  /\ login' = IF request = None THEN None ELSE [request EXCEPT !.mounted = FALSE]
  /\ submitted' = {}

\* The state is new, and the same page stays.
Stay(isReady, isOk) ==
  /\ ready' = isReady /\ ok' = isOk
  /\ UNCHANGED <<path, pageVars, loginVars>>

-----------------------------------------------------------------------------
(* SessionProvider.                                                        *)

Live(s) == s # 0 /\ sessions[s] = "live"

\* The tab is opened, or loaded anew.
Reload ==
  /\ Go(path, FALSE, FALSE, None)
  /\ boot' = [cookie |-> jar, answer |-> Pending]
  /\ logout' = None
  /\ doubt' = FALSE
  /\ UNCHANGED <<jar, sessions>>

\* adminOnly and sessionStatus.
ServeBoot(answer) ==
  /\ boot # None /\ boot.answer = Pending
  /\ answer => Live(boot.cookie)
  /\ boot' = [boot EXCEPT !.answer = answer]
  /\ doubt' = (doubt \/ (~answer /\ Live(boot.cookie)))
  /\ UNCHANGED <<jar, sessions, logout, tabVars, pageVars, loginVars>>

\* The answer is believed, though a login may have been accepted meanwhile.
Booted ==
  /\ boot # None /\ boot.answer # Pending
  /\ boot' = None
  /\ IF screen = Screen(Landing(path, TRUE, boot.answer), TRUE) THEN Stay(TRUE, boot.answer)
     ELSE Go(path, TRUE, boot.answer, login)
  /\ UNCHANGED <<jar, sessions, logout, doubt>>

\* Server.login: the session is new, and its cookie comes with the answer,
\* which may get lost.
ServeLogin ==
  \E s \in {x \in DOMAIN sessions : sessions[x] = "unborn"} :
    /\ \A x \in DOMAIN sessions : x < s => sessions[x] # "unborn"
    /\ sessions' = [sessions EXCEPT ![s] = "live"]
    /\ \E answer \in {s, Failed} : Form!Decide(answer)
    /\ UNCHANGED <<jar, boot, logout, doubt, tabVars>>

RefuseLogin == Form!Decide(Failed) /\ UNCHANGED <<sessionVars, tabVars>>

\* login() and the navigate('/') of submit, wherever the tab is by then.
LoggedIn ==
  /\ login # None /\ login.answer \notin {Pending, Failed}
  /\ jar' = login.answer
  /\ doubt' = (doubt \/ boot # None)
  /\ IF path = "/" /\ ready /\ ok THEN login' = None /\ UNCHANGED <<tabVars, pageVars, submitted>>
     ELSE Go("/", ready, TRUE, None)
  /\ UNCHANGED <<sessions, boot, logout>>

\* The login of a form that is gone was refused.
LoginForgotten ==
  /\ login # None /\ ~login.mounted /\ login.answer = Failed
  /\ login' = None
  /\ UNCHANGED <<submitted, pageVars, tabVars, sessionVars>>

\* The button of the sidebar.  Bound: not while an answer is on its way to the
\* page, which is lost, or while another logout is in flight.
Logout ==
  /\ screen \in Pages /\ Quiet
  /\ logout = None
  /\ logout' = [cookie |-> jar, answer |-> Pending]
  /\ UNCHANGED <<jar, sessions, boot, doubt, tabVars, pageVars, loginVars>>

\* Server.logout clears the cookie even when the session cannot be deleted.
ServeLogout(deleted, answer) ==
  /\ logout # None /\ logout.answer = Pending
  /\ Live(logout.cookie)
  /\ sessions' = IF deleted THEN [sessions EXCEPT ![logout.cookie] = "ended"] ELSE sessions
  /\ logout' = [logout EXCEPT !.answer = answer]
  /\ UNCHANGED <<jar, boot, doubt, tabVars, pageVars, loginVars>>

RefuseLogout ==
  /\ logout # None /\ logout.answer = Pending
  /\ logout' = [logout EXCEPT !.answer = FALSE]
  /\ UNCHANGED <<jar, sessions, boot, doubt, tabVars, pageVars, loginVars>>

\* Mutant: an error of the request keeps the tab logged in.
LoggedOut_Stays ==
  /\ logout # None /\ logout.answer # Pending
  /\ logout' = None
  /\ jar' = IF logout.answer THEN 0 ELSE jar
  /\ doubt' = (doubt \/ (~logout.answer /\ Live(jar)))
  /\ IF logout.answer THEN Go(path, ready, FALSE, login)
     ELSE UNCHANGED <<tabVars, pageVars, loginVars>>
  /\ UNCHANGED <<sessions, boot>>

\* Errors are ignored.
LoggedOut ==
  /\ logout # None /\ logout.answer # Pending
  /\ logout' = None
  /\ jar' = IF logout.answer THEN 0 ELSE jar
  /\ doubt' = (doubt \/ (~logout.answer /\ Live(jar)))
  /\ Go(path, ready, FALSE, login)
  /\ UNCHANGED <<sessions, boot>>

\* Eight hours have passed, or another tab has logged out.  Bound: not while a
\* request of the page is in flight, which it may only make fail.
Expire(s) ==
  /\ sessions[s] = "live" /\ Quiet
  /\ sessions' = [sessions EXCEPT ![s] = "ended"]
  /\ doubt' = TRUE
  /\ UNCHANGED <<jar, boot, logout, tabVars, pageVars, loginVars>>

\* A link, or the browser's history.  Bound: as for Logout.
Visit(p) ==
  /\ p # path /\ (screen \in Pages => Quiet)
  /\ Go(p, ready, ok, login)
  /\ UNCHANGED sessionVars

-----------------------------------------------------------------------------
(* The page that is mounted.  Bound: it is used in the first session of    *)
(* the browser, while the tab is right about it and no login or logout is  *)
(* in flight.  Without a session the server refuses the requests of the    *)
(* page, as it may for other reasons.                                      *)

FirstSession ==
  jar # 0 /\ \A s \in DOMAIN sessions : sessions[s] = IF s = jar THEN "live" ELSE "unborn"

OnPage(p) ==
  /\ screen = p /\ login = None /\ logout = None /\ ~doubt /\ FirstSession
  /\ UNCHANGED <<tabVars, loginVars, sessionVars>>

ApiKeysStep ==
  /\ OnPage("/api-keys")
  /\ \/ ApiKeys!User
     \/ \E i \in DOMAIN calls : ApiKeys!Answered(i) \/ ApiKeys!Serve(i) \/ Refuse(i)
     \/ ApiKeys!OtherAdmin

DetailStep ==
  /\ OnPage("/api-keys/:id")
  /\ \/ Detail!User
     \/ \E i \in DOMAIN calls : Detail!Answered(i) \/ Detail!Serve(i) \/ Refuse(i)

PoolStep ==
  /\ OnPage("/tokens")
  /\ \/ Pool!User
     \/ \E i \in DOMAIN calls : Pool!Answered(i) \/ Pool!Serve(i) \/ Refuse(i)
     \/ Pool!OtherAdmin

AuditStep ==
  /\ OnPage("/audit-logs")
  /\ \/ Audit!User
     \/ \E i \in DOMAIN calls : Audit!Answered(i) \/ Audit!Serve(i) \/ Refuse(i)

StatusStep ==
  /\ OnPage("/status")
  /\ \/ Status!User
     \/ \E i \in DOMAIN calls : Status!Answered(i) \/ Status!Serve(i) \/ Refuse(i)
     \/ Status!Others

DashboardStep ==
  /\ OnPage("/")
  /\ \/ Dashboard!User
     \/ \E i \in DOMAIN calls : Dashboard!Answered(i) \/ Dashboard!Serve(i) \/ Refuse(i)
     \/ Dashboard!Others

SettingsStep ==
  /\ OnPage("/settings")
  /\ \/ Settings!User
     \/ \E i \in DOMAIN calls : Settings!Answered(i) \/ Settings!Serve(i) \/ Refuse(i)
     \/ Settings!OtherAdmin

FormStep ==
  /\ screen = "/login"
  /\ Form!Next
  /\ UNCHANGED <<tabVars, sessionVars>>

-----------------------------------------------------------------------------

\* Any page is opened, with or without the cookie of a session that may have
\* ended.
Init ==
  /\ path \in Routes /\ ready = FALSE /\ ok = FALSE
  /\ jar \in {0, 1}
  /\ sessions \in [1 .. MaxSessions -> {"unborn", "live", "ended"}]
  /\ \A s \in 1 .. MaxSessions : sessions[s] = "unborn" <=> s > jar
  /\ boot = [cookie |-> jar, answer |-> Pending]
  /\ logout = None /\ login = None /\ submitted = {}
  /\ doubt = FALSE
  /\ IF path = "/login" THEN Mounted(Form!Initial, <<Form!Captcha("effect")>>, Form!Data)
     ELSE Mounted(None, <<>>, {0})

Next ==
  \/ Reload \/ Booted \/ LoggedIn \/ LoginForgotten \/ Logout \/ LoggedOut
  \/ \E p \in Routes : Visit(p)
  \/ \E answer \in BOOLEAN : ServeBoot(answer)
  \/ ServeLogin \/ RefuseLogin \/ RefuseLogout
  \/ \E deleted, answer \in BOOLEAN : ServeLogout(deleted, answer)
  \/ \E s \in 1 .. MaxSessions : Expire(s)
  \/ FormStep
  \/ DashboardStep \/ ApiKeysStep \/ DetailStep \/ PoolStep \/ AuditStep
  \/ StatusStep \/ SettingsStep

Spec == Init /\ [][Next]_consoleVars

-----------------------------------------------------------------------------
(* Properties.                                                             *)

TypeOK ==
  /\ path \in Routes /\ ready \in BOOLEAN /\ ok \in BOOLEAN
  /\ jar \in 0 .. MaxSessions
  /\ CASE screen = "splash" -> view = None
       [] screen = "/login" -> Form!TypeOK
       [] screen = "/" -> Dashboard!TypeOK
       [] screen = "/api-keys" -> ApiKeys!TypeOK
       [] screen = "/api-keys/:id" -> Detail!TypeOK
       [] screen = "/tokens" -> Pool!TypeOK
       [] screen = "/audit-logs" -> Audit!TypeOK
       [] screen = "/status" -> Status!TypeOK
       [] screen = "/settings" -> Settings!TypeOK

\* Once every answer is there, the tab is logged in exactly when its cookie is
\* that of a session, unless one has ended by itself since, a logout or the
\* first question failed, or a login was accepted before that was answered.
TabMatchesServer ==
  ready /\ boot = None /\ login = None /\ logout = None /\ ~doubt => (ok <=> Live(jar))

\* Login.tsx: see LoginPage.
FreshCaptcha == screen = "/login" => Form!FreshCaptcha

\* ApiKeys.tsx: see ApiKeysPage.
SelectedAreListed == screen = "/api-keys" => ApiKeys!SelectedAreListed

\* SettingsPage.tsx: see SettingsPage.
RefusedSaveIsUnchanged == screen = "/settings" => Settings!RefusedSaveIsUnchanged

\* Each page says that it is busy only while a request is in flight that will end
\* it.  The converse holds of an attempt to log in, of the check of the services,
\* and of a batch, a token and the settings being saved, which are sent one at a
\* time: see the modules of the pages.
BusyForCause ==
  /\ screen = "/login" => Form!BusyForCause
  /\ screen = "/" => Dashboard!BusyForCause
  /\ screen = "/api-keys" => ApiKeys!BusyForCause
  /\ screen = "/api-keys/:id" => Detail!BusyForCause
  /\ screen = "/tokens" => Pool!BusyForCause
  /\ screen = "/audit-logs" => Audit!BusyForCause
  /\ screen = "/status" => Status!BusyForCause
  /\ screen = "/settings" => Settings!BusyForCause

\* Each page shows what was asked for, and what was done from it: see the
\* modules of the pages.
ShownIsCurrent ==
  /\ screen = "/" => Dashboard!ShownIsCurrent
  /\ screen = "/api-keys" => ApiKeys!ShownIsCurrent
  /\ screen = "/api-keys/:id" => Detail!ShownIsCurrent
  /\ screen = "/tokens" => Pool!ShownIsCurrent
  /\ screen = "/audit-logs" => Audit!ShownIsCurrent
  /\ screen = "/status" => Status!ShownIsCurrent
  /\ screen = "/settings" => Settings!ShownIsCurrent
=============================================================================
