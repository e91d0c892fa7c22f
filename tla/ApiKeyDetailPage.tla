---------------------------- MODULE ApiKeyDetailPage ---------------------------
(***************************************************************************)
(* web/src/pages/ApiKeyDetail.tsx: one API key and its audit records, by   *)
(* page.                                                                   *)
(*                                                                         *)
(* The browser's history leads from one key to another without the page    *)
(* being mounted anew: the id changes, and the offset and the details stay *)
(* as they are.  The offset is counted in pages, as is the total; details  *)
(* stand for the key and the page they were asked for.                     *)
(***************************************************************************)
EXTENDS ConsolePage

CONSTANTS
  Keys,     \* the keys whose page is in the history
  MaxPages  \* bound: how many pages of records a key has

Asking(v) == Call("load", [id |-> v.id, offset |-> v.offset])

Initials == {[id |-> k, detail |-> None, offset |-> 0, loading |-> TRUE, error |-> FALSE] :
               k \in Keys}

\* table: records come and go, and each answer may count others.
Data == {0}

Init == \E v \in Initials : Mounted(v, <<Asking(v)>>, Data)

\* A handler that has set the state to v, and the effect it causes.
Effect(v) ==
  /\ view' = [v EXCEPT !.loading = TRUE, !.error = FALSE]
  /\ Send(<<Asking(v)>>)

Refresh == ~view.loading /\ Effect(view)

\* Back or forward to the page of another key.
Visit(k) == k # view.id /\ Effect([view EXCEPT !.id = k])

\* There are buttons only below a page that has records.
Paged == ~view.loading /\ view.detail # None /\ view.detail.offset < view.detail.total

PreviousPage ==
  Paged /\ view.offset # 0 /\ Effect([view EXCEPT !.offset = PageBefore(@)])
NextPage ==
  /\ Paged /\ view.offset + 1 < view.detail.total
  /\ Effect([view EXCEPT !.offset = @ + 1])

Loaded(i) ==
  /\ Arrived(i, "load")
  /\ view' = IF calls[i].answer = Failed THEN [view EXCEPT !.error = TRUE, !.loading = FALSE]
             ELSE [view EXCEPT !.detail = calls[i].answer, !.loading = FALSE]
  /\ Continue(i, <<>>)

\* keyDetail.
Serve(i) ==
  \E pages \in 0 .. MaxPages :
    Read(i, [id |-> calls[i].with.id, offset |-> calls[i].with.offset, total |-> pages])

-----------------------------------------------------------------------------

User == Refresh \/ PreviousPage \/ NextPage \/ \E k \in Keys : Visit(k)
Answered(i) == Loaded(i)

Next ==
  \/ User
  \/ \E i \in DOMAIN calls : Answered(i) \/ Serve(i) \/ Refuse(i)

Spec == Init /\ [][Next]_pageVars

-----------------------------------------------------------------------------
(* Properties.                                                             *)

TypeOK ==
  /\ view \in [id : Keys, offset : 0 .. MaxPages, loading : BOOLEAN, error : BOOLEAN,
               detail : [id : Keys, offset : 0 .. MaxPages, total : 0 .. MaxPages] \cup {None}]
  /\ \A i \in DOMAIN calls : calls[i].with \in [id : Keys, offset : 0 .. MaxPages]

\* The page says that it is loading only while a load is in flight.
BusyForCause == view.loading => calls # <<>>

\* Once every answer is there, the details are those of the key in the address
\* and of the page of records that was asked for, unless an older load was
\* overtaken or the last one failed.
ShownIsCurrent ==
  Quiet /\ ~overtaken /\ ~view.error =>
    view.detail.id = view.id /\ view.detail.offset = view.offset
=============================================================================
