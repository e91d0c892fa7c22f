------------------------------- MODULE DashboardPage ---------------------------
(***************************************************************************)
(* web/src/pages/Dashboard.tsx: the figures of the dashboard and the last  *)
(* audit records, which every load asks for with two requests, and the     *)
(* interval that loads both every 30 seconds, whether or not the load      *)
(* before is still in flight.                                              *)
(***************************************************************************)
EXTENDS ConsolePage

Loading(v) == [v EXCEPT !.refreshing = TRUE, !.error = FALSE]

\* What is shown: the two answers of a load.
Initial == Loading([shown |-> {}, refreshing |-> FALSE, error |-> FALSE])

\* table: the audit records are a number that grows whenever one is added.
Data == {0}

\* What the first of the two requests has read.
Asking == Call("load", None)

Init == Mounted(Initial, <<Asking>>, Data)

Refresh == ~view.refreshing /\ view' = Loading(view) /\ Send(<<Asking>>)
Interval == view' = Loading(view) /\ Send(<<Asking>>)

Loaded(i) ==
  /\ Arrived(i, "load")
  /\ view' = IF calls[i].answer = Failed THEN [view EXCEPT !.error = TRUE, !.refreshing = FALSE]
             ELSE [view EXCEPT !.shown = calls[i].answer, !.refreshing = FALSE]
  /\ Continue(i, <<>>)

\* Promise.all: the two requests of a load are served one after the other, in
\* either order, and the records may change in between.
ServeOne(i) ==
  /\ Waiting(i, "load") /\ calls[i].with = None
  /\ calls' = [calls EXCEPT ![i].with = table]
  /\ UNCHANGED <<view, table, writes, history>>

ServeOther(i) ==
  /\ Waiting(i, "load") /\ calls[i].with # None
  /\ Answer(i, {calls[i].with, table})
  /\ changed' = (calls[i].with # table)
  /\ overtaken' = (overtaken \/ \E j \in Loads(calls) : j < i /\ calls[j].answer = Pending)
  /\ UNCHANGED <<view, table, writes>>

Serve(i) == ServeOne(i) \/ ServeOther(i)
Others == Elsewhere(table + 1)

User == Refresh \/ Interval
Answered(i) == Loaded(i)

Next ==
  \/ User
  \/ \E i \in DOMAIN calls : Answered(i) \/ Serve(i) \/ Refuse(i)
  \/ Others

Spec == Init /\ [][Next]_pageVars

-----------------------------------------------------------------------------
(* Properties.                                                             *)

TypeOK ==
  /\ view \in [shown : SUBSET (0 .. MaxWrites), refreshing : BOOLEAN, error : BOOLEAN]
  /\ table \in 0 .. MaxWrites

\* The page says that it refreshes only while a request is in flight.
BusyForCause == view.refreshing => calls # <<>>

\* Once every answer is there, the figures and the records are of one state, the
\* last, unless an older load was overtaken, the last one failed or calls were
\* audited since the first of the two was read.
ShownIsCurrent ==
  Quiet /\ ~overtaken /\ ~changed /\ ~view.error => view.shown = {table}
=============================================================================
