------------------------------ MODULE ConsolePage ------------------------------
(***************************************************************************)
(* What the pages of the web console (web/src/pages) share: the useState   *)
(* values of the one page that is mounted, its requests to the server      *)
(* through api() of web/src/lib/api.ts, and the data behind it.            *)
(*                                                                         *)
(* JavaScript runs one event handler or continuation at a time, and React  *)
(* 18 renders once after it, however many values it sets: an action is     *)
(* what one handler does up to its next await.  A request is sent by one   *)
(* action, answered by the server in a second and continued from in a      *)
(* third; answers arrive in any order.  A page that is left drops its      *)
(* requests: React ignores what they would still set, and a write of theirs *)
(* that the server has yet to execute is one by somebody else.             *)
(*                                                                         *)
(* Texts of errors and toasts are left out.                                *)
(***************************************************************************)
EXTENDS Naturals, Sequences, FiniteSets

CONSTANTS
  None,      \* undefined, or an empty string
  Pending,   \* the answer of a request the server has not answered yet
  Failed,    \* its answer when api() throws: no connection, or not a 2xx
  MaxCalls,  \* bound: how many requests a page has in flight
  MaxWrites  \* bound: how often the data changes while the page is mounted

VARIABLES
  view,       \* the state of the mounted page, a record
  calls,      \* its requests in flight, in the order they were sent
  table,      \* the data of the server that the page shows
  writes,     \* how often the data has changed since the page was mounted
  changed,    \* history: changed by others, or unknown to the page, since it was
              \* last read for it
  overtaken   \* history: a load has been served or applied before an older one

pageVars == <<view, calls, table, writes, changed, overtaken>>
history == <<changed, overtaken>>

\* `with` is what the answer depends on.
Call(op, with) == [op |-> op, with |-> with, answer |-> Pending]
Load == Call("load", 0)

Sent(op) == {i \in DOMAIN calls : calls[i].op = op}
Waiting(i, op) == i \in Sent(op) /\ calls[i].answer = Pending
Arrived(i, op) == i \in Sent(op) /\ calls[i].answer # Pending
Quiet == calls = <<>>

Rest(i) == SubSeq(calls, 1, i - 1) \o SubSeq(calls, i + 1, Len(calls))
Loads(s) == {i \in DOMAIN s : s[i].op = "load"}

\* The load now sent is alone: what it brings is not overtaken by anything.
Forget(rest, next, before) == before /\ ~ (Loads(rest) = {} /\ Loads(next) # {})

\* The offset, in pages, that the button of the page before sets.
PageBefore(offset) == IF offset = 0 THEN 0 ELSE offset - 1

\* A handler sends the requests in next.
Send(next) ==
  /\ Len(calls) + Len(next) <= MaxCalls
  /\ calls' = calls \o next
  /\ overtaken' = Forget(calls, next, overtaken)
  /\ UNCHANGED <<table, writes, changed>>

\* A handler sends nothing.
Local == UNCHANGED <<calls, table, writes, history>>

\* The continuation of request i, which sends the requests in next.
Continue(i, next) ==
  /\ calls' = Rest(i) \o next
  /\ overtaken' = Forget(Rest(i), next,
                         overtaken \/ (i \in Loads(calls) /\ \E j \in Loads(calls) : j < i))
  /\ UNCHANGED <<table, writes, changed>>

Answer(i, v) == calls' = [calls EXCEPT ![i].answer = v]

\* The server reads its data for load i.
Read(i, v) ==
  /\ Waiting(i, "load")
  /\ Answer(i, v)
  /\ changed' = FALSE
  /\ overtaken' = (overtaken \/ \E j \in Loads(calls) : j < i /\ calls[j].answer = Pending)
  /\ UNCHANGED <<view, table, writes>>

Counted == writes < MaxWrites /\ writes' = writes + 1

\* The server executes write i; its data are now t.
Write(i, t, v) ==
  /\ calls[i].answer = Pending
  /\ Counted
  /\ table' = t
  /\ Answer(i, v)
  /\ UNCHANGED <<view, history>>

\* api() throws, and nothing was done.
Refuse(i) ==
  /\ i \in DOMAIN calls /\ calls[i].answer = Pending
  /\ Answer(i, Failed)
  /\ UNCHANGED <<view, table, writes, history>>

\* api() throws though the write was done, t being the data after it.
Lose(i, t) ==
  /\ calls[i].answer = Pending
  /\ Counted
  /\ table' = t
  /\ Answer(i, Failed)
  /\ changed' = TRUE
  /\ UNCHANGED <<view, overtaken>>

\* Other administrators or the proxy change the data to t.
Elsewhere(t) ==
  /\ Counted
  /\ table' = t
  /\ changed' = TRUE
  /\ UNCHANGED <<view, calls, overtaken>>

\* The page is mounted with its initial state, and its effects send requests.
Mounted(initial, requests, data) ==
  /\ view = initial
  /\ calls = requests
  /\ table \in data
  /\ writes = 0
  /\ changed = FALSE
  /\ overtaken = FALSE

\* The same, of the page that takes the place of another.
Mount(initial, requests, data) ==
  /\ view' = initial
  /\ calls' = requests
  /\ table' \in data
  /\ writes' = 0
  /\ changed' = FALSE
  /\ overtaken' = FALSE
=============================================================================
