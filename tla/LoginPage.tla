-------------------------------- MODULE LoginPage ------------------------------
(***************************************************************************)
(* web/src/pages/Login.tsx: the login form and its captcha.                *)
(*                                                                         *)
(* A captcha is good for one attempt (internal/store/captchas.go): a form  *)
(* that submits one again can only be refused.  The page can ask for       *)
(* several at a time.  The request of login() of web/src/session.tsx       *)
(* belongs to the tab and survives the page.  The fields of the form are   *)
(* left out: whether they are right is the server's choice.                *)
(***************************************************************************)
EXTENDS ConsolePage

CONSTANT MaxCaptchas  \* bound: how many captchas the server makes for a page

VARIABLES
  login,     \* the login request in flight, if any
  submitted  \* history: the captchas the page has submitted

loginVars == <<login, submitted>>

\* table: how many captchas there are; each is its number.
Data == {0}

Initial == [captcha |-> None, loading |-> FALSE]

\* loadCaptcha; the handler `by` waits for its answer.
Captcha(by) == Call("captcha", by)

Init ==
  /\ Mounted(Initial, <<Captcha("effect")>>, Data)
  /\ login = None
  /\ submitted = {}

Refresh ==
  /\ view' = [view EXCEPT !.captcha = None]
  /\ Send(<<Captcha("button")>>)
  /\ UNCHANGED loginVars

Submit ==
  /\ view.captcha # None /\ ~view.loading
  /\ login = None   \* bound: one login of the tab is in flight
  /\ view' = [view EXCEPT !.loading = TRUE]
  /\ login' = [captcha |-> view.captcha, mounted |-> TRUE, answer |-> Pending]
  /\ submitted' = submitted \cup {view.captcha}
  /\ Local

\* Mutant: the captcha is not loaded again after a failure.
Rejected_KeepsCaptcha ==
  /\ login # None /\ login.mounted /\ login.answer = Failed
  /\ view' = [view EXCEPT !.loading = FALSE]
  /\ login' = None
  /\ Local
  /\ UNCHANGED submitted

\* The catch block of submit, up to its await.
Rejected ==
  /\ login # None /\ login.mounted /\ login.answer = Failed
  /\ view' = [view EXCEPT !.captcha = None]
  /\ login' = None
  /\ Send(<<Captcha("submit")>>)
  /\ UNCHANGED submitted

\* The continuation of loadCaptcha, and of submit, which awaits its own.
Loaded(i) ==
  /\ Arrived(i, "captcha")
  /\ view' = [captcha |-> IF calls[i].answer = Failed THEN view.captcha ELSE calls[i].answer,
              loading |-> view.loading /\ calls[i].with # "submit"]
  /\ Continue(i, <<>>)
  /\ UNCHANGED loginVars

\* createCaptcha.
Serve(i) ==
  /\ Waiting(i, "captcha")
  /\ table < MaxCaptchas
  /\ table' = table + 1
  /\ Answer(i, table')
  /\ UNCHANGED <<view, writes, history, loginVars>>

Refused(i) == Refuse(i) /\ UNCHANGED loginVars

\* The server answers the login.
Decide(answer) ==
  /\ login # None /\ login.answer = Pending
  /\ login' = [login EXCEPT !.answer = answer]
  /\ UNCHANGED <<pageVars, submitted>>

-----------------------------------------------------------------------------

User == Refresh \/ Submit
Answered(i) == Loaded(i)

Next ==
  \/ User \/ Rejected
  \/ \E i \in DOMAIN calls : Answered(i) \/ Serve(i) \/ Refused(i)

-----------------------------------------------------------------------------
(* Properties.                                                             *)

TypeOK ==
  /\ view \in [captcha : 1 .. MaxCaptchas \cup {None}, loading : BOOLEAN]
  /\ table \in 0 .. MaxCaptchas
  /\ submitted \subseteq 1 .. table

\* A form that can be submitted has a captcha no attempt has used: whatever is
\* refreshed while an attempt is in flight, in whatever order the captchas come.
FreshCaptcha == view.captcha # None /\ ~view.loading => view.captcha \notin submitted

\* The form is busy exactly while an attempt, or the captcha that follows it, is
\* in flight: nothing leaves it disabled for good.
BusyForCause ==
  view.loading <=> (login # None /\ login.mounted)
                   \/ \E i \in Sent("captcha") : calls[i].with = "submit"
=============================================================================
