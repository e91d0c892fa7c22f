-------------------------------- MODULE StatusPage -----------------------------
(***************************************************************************)
(* web/src/pages/StatusPage.tsx: the state of the service, read when the   *)
(* page is mounted and whenever its button is pressed.  The interval of    *)
(* the page moves its clock on and asks the server nothing.                *)
(***************************************************************************)
EXTENDS ConsolePage

Loading(v) == [v EXCEPT !.loading = TRUE, !.error = FALSE]

Initial == Loading([status |-> None, loading |-> FALSE, error |-> FALSE])

\* table: the state of the service is a number that grows whenever it changes.
Data == {0}

Init == Mounted(Initial, <<Load>>, Data)

Refresh == ~view.loading /\ view' = Loading(view) /\ Send(<<Load>>)

Loaded(i) ==
  /\ Arrived(i, "load")
  /\ view' = IF calls[i].answer = Failed THEN [view EXCEPT !.error = TRUE, !.loading = FALSE]
             ELSE [view EXCEPT !.status = calls[i].answer, !.loading = FALSE]
  /\ Continue(i, <<>>)

Serve(i) == Read(i, table)
Others == Elsewhere(table + 1)

User == Refresh
Answered(i) == Loaded(i)

Next ==
  \/ User
  \/ \E i \in DOMAIN calls : Answered(i) \/ Serve(i) \/ Refuse(i)
  \/ Others

Spec == Init /\ [][Next]_pageVars

-----------------------------------------------------------------------------
(* Properties.                                                             *)

TypeOK ==
  /\ view \in [status : 0 .. MaxWrites \cup {None}, loading : BOOLEAN, error : BOOLEAN]
  /\ table \in 0 .. MaxWrites

\* The page says that it is loading exactly while its one request is in flight.
BusyForCause == IF view.loading THEN Len(calls) = 1 ELSE calls = <<>>

\* What is shown without an error is what the last check found.
ShownIsCurrent == Quiet /\ ~changed /\ ~view.error => view.status = table
=============================================================================
