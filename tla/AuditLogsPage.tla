------------------------------ MODULE AuditLogsPage ----------------------------
(***************************************************************************)
(* web/src/pages/AuditLogs.tsx: the audit records, by filter and page.     *)
(*                                                                         *)
(* The effect that depends on load sends a request whenever the filter,    *)
(* the path or the offset has changed, and nothing but the buttons waits   *)
(* for the one before: loads overlap.  The offset is counted in pages, as  *)
(* is the total.  The two selects are one filter, whose options are loaded *)
(* at the side, and records stand for the query they answer.               *)
(***************************************************************************)
EXTENDS ConsolePage

CONSTANTS
  Filters,  \* what the selects for the key and the status offer; one is None
  Patterns, \* what is typed as path; one is None
  MaxPages  \* bound: how many pages of records a query finds

NoLogs == [query |-> None, total |-> 0]

Asking(v) == Call("load", [filter |-> v.filter, path |-> v.path, offset |-> v.offset])

\* load, as the closure of the state v: v is also the state after it.
Loading(v) == [v EXCEPT !.loading = TRUE, !.error = FALSE]

Initial == Loading([logs |-> NoLogs, filter |-> None, path |-> None, offset |-> 0,
                    loading |-> FALSE, error |-> FALSE])

\* table: records come and go, and each answer may count others.
Data == {0}

Init == Mounted(Initial, <<Asking(Initial)>>, Data)

\* A handler that has set the state to v, and the effect it causes.
Effect(v) ==
  /\ view' = Loading(v)
  /\ Send(<<Asking(v)>>)

Refresh == ~view.loading /\ Effect(view)

SetFilter(f) == f # view.filter /\ Effect([view EXCEPT !.filter = f, !.offset = 0])

\* Typing a path leaves the offset as it is.
SetPath(p) == p # view.path /\ Effect([view EXCEPT !.path = p])

\* The form sends a load with the old offset; the effect sends another when the
\* offset has changed.
Search ==
  LET v == [view EXCEPT !.offset = 0]
  IN  /\ view' = Loading(v)
      /\ Send(IF v = view THEN <<Asking(view)>> ELSE <<Asking(view), Asking(v)>>)

PreviousPage ==
  view.offset # 0 /\ ~view.loading /\ Effect([view EXCEPT !.offset = PageBefore(@)])

\* Mutant: the button is not disabled on the last page.
NextPage_PastLast == ~view.loading /\ Effect([view EXCEPT !.offset = @ + 1])

NextPage ==
  /\ view.offset + 1 < view.logs.total /\ ~view.loading
  /\ Effect([view EXCEPT !.offset = @ + 1])

Loaded(i) ==
  /\ Arrived(i, "load")
  /\ view' = IF calls[i].answer = Failed THEN [view EXCEPT !.error = TRUE, !.loading = FALSE]
             ELSE [view EXCEPT !.logs = calls[i].answer, !.loading = FALSE]
  /\ Continue(i, <<>>)

\* listAudit.
Serve(i) == \E pages \in 0 .. MaxPages : Read(i, [query |-> calls[i].with, total |-> pages])

-----------------------------------------------------------------------------

User ==
  \/ Refresh \/ Search \/ PreviousPage \/ NextPage
  \/ \E f \in Filters : SetFilter(f)
  \/ \E p \in Patterns : SetPath(p)

Answered(i) == Loaded(i)

Next ==
  \/ User
  \/ \E i \in DOMAIN calls : Answered(i) \/ Serve(i) \/ Refuse(i)

Spec == Init /\ [][Next]_pageVars

-----------------------------------------------------------------------------
(* Properties.                                                             *)

Queries == [filter : Filters, path : Patterns, offset : 0 .. MaxPages]

TypeOK ==
  /\ view \in [logs : [query : Queries, total : 0 .. MaxPages] \cup {NoLogs},
               filter : Filters, path : Patterns, offset : 0 .. MaxPages,
               loading : BOOLEAN, error : BOOLEAN]
  /\ \A i \in DOMAIN calls : calls[i].op = "load" /\ calls[i].with \in Queries

\* The page says that it is loading only while a load is in flight.  It may be
\* without saying so: the answer to the first of two loads ends it for both.
BusyForCause == view.loading => calls # <<>>

\* Once every answer is there, the records are those of the filter, the path and
\* the page that are shown above them, in whatever order they were changed,
\* unless an older load was overtaken or the last one failed.
ShownIsCurrent ==
  Quiet /\ ~overtaken /\ ~view.error => view.logs.query = Asking(view).with
=============================================================================
