------------------------------ MODULE ApiKeysPage ------------------------------
(***************************************************************************)
(* web/src/pages/ApiKeys.tsx: the list of API keys, the dialogs to create  *)
(* and to disable one, and the batch operations on the selected ones.      *)
(*                                                                         *)
(* A dialog covers the page for the mouse only (kit.tsx): the keyboard     *)
(* reaches the rows and the toolbars under it.  Names, the clipboard and   *)
(* the figures of a key are left out.  Bound: there are no more keys than  *)
(* the server lists without being asked for a limit, which are 50.         *)
(***************************************************************************)
EXTENDS ConsolePage

CONSTANTS
  Keys,       \* every API key that can be created
  MaxDialogs  \* bound: how many dialogs are open when the user opens one, with it

\* table: the row of each key.
Tables == [Keys -> {"unborn", "active", "disabled", "deleted"}]
Exists(k) == table[k] \in {"active", "disabled"}

\* listAPIKeys.
Listing == [k \in {x \in Keys : Exists(x)} |-> table[k]]

Initial == [keys |-> [k \in {} |-> "active"], loading |-> TRUE, loadError |-> FALSE,
            creating |-> FALSE, secret |-> FALSE, disabling |-> None,
            selected |-> {}, batch |-> "none", batchSaving |-> FALSE]

\* No key is deleted before the page is mounted.
Data == [Keys -> {"unborn", "active", "disabled"}]

Init == Mounted(Initial, <<Load>>, Data)

DialogsOpen ==
  {d \in {"creating", "secret"} : view[d]}
  \cup {d \in {"disabling"} : view.disabling # None}
  \cup {d \in {"batch"} : view.batch # "none"}

Bounded(d) == Cardinality(DialogsOpen \cup {d}) <= MaxDialogs
Rows == IF view.loading THEN {} ELSE DOMAIN view.keys

Set(v) == view' = v /\ Local

-----------------------------------------------------------------------------
(* load.                                                                   *)

Loading == [view EXCEPT !.loading = TRUE, !.loadError = FALSE]

Refresh ==
  /\ ~view.loading
  /\ view' = Loading
  /\ Send(<<Load>>)

\* Mutant: the selection is left as it is.
Show_KeepsSelection(list) ==
  [view EXCEPT !.keys = list, !.loading = FALSE]

\* Keys that are gone leave the selection.
Show(list) ==
  [view EXCEPT !.keys = list, !.selected = @ \cap DOMAIN list, !.loading = FALSE]

Loaded(i) ==
  /\ Arrived(i, "load")
  /\ view' = IF calls[i].answer = Failed THEN [view EXCEPT !.loadError = TRUE, !.loading = FALSE]
             ELSE Show(calls[i].answer)
  /\ Continue(i, <<>>)

-----------------------------------------------------------------------------
(* create.  Nothing disables its button while a creation is in flight.     *)

AskCreate == Bounded("creating") /\ Set([view EXCEPT !.creating = TRUE])

Create ==
  /\ view.creating
  /\ Send(<<Call("create", None)>>)
  /\ UNCHANGED view

Created(i) ==
  /\ Arrived(i, "create")
  /\ IF calls[i].answer = Failed THEN UNCHANGED view /\ Continue(i, <<>>)
     ELSE /\ view' = [Loading EXCEPT !.secret = TRUE, !.creating = FALSE]
          /\ Continue(i, <<Load>>)

-----------------------------------------------------------------------------
(* disable.                                                                *)

AskDisable(k) ==
  /\ Bounded("disabling") /\ k \in Rows /\ view.keys[k] = "active"
  /\ Set([view EXCEPT !.disabling = k])

Disable ==
  /\ view.disabling # None
  /\ Send(<<Call("disable", view.disabling)>>)
  /\ UNCHANGED view

Disabled(i) ==
  /\ Arrived(i, "disable")
  /\ IF calls[i].answer = Failed
     THEN view' = [view EXCEPT !.disabling = None] /\ Continue(i, <<>>)
     ELSE view' = [Loading EXCEPT !.disabling = None] /\ Continue(i, <<Load>>)

-----------------------------------------------------------------------------
(* The selection and runBatch.                                             *)

ToggleSelected(k) ==
  /\ k \in Rows
  /\ Set([view EXCEPT !.selected = IF k \in @ THEN @ \ {k} ELSE @ \cup {k}])

ToggleAll ==
  /\ Rows # {}
  /\ Set([view EXCEPT !.selected = IF Cardinality(@) = Cardinality(Rows) THEN {} ELSE Rows])

ClearSelection == view.selected # {} /\ Set([view EXCEPT !.selected = {}])

AskBatch(action) ==
  /\ Bounded("batch") /\ view.selected # {}
  /\ Set([view EXCEPT !.batch = action])

\* The button of a disabled row replaces the selection by the row.
AskEnable(k) ==
  /\ Bounded("batch") /\ k \in Rows /\ view.keys[k] = "disabled"
  /\ Set([view EXCEPT !.selected = {k}, !.batch = "enable"])

RunBatch ==
  /\ view.batch # "none" /\ view.selected # {} /\ ~view.batchSaving
  /\ view' = [view EXCEPT !.batchSaving = TRUE]
  /\ Send(<<Call("batch", [ids |-> view.selected, action |-> view.batch])>>)

\* Mutant: the list is not loaded again.
BatchDone_NoReload(i) ==
  /\ Arrived(i, "batch")
  /\ view' = IF calls[i].answer = Failed THEN [view EXCEPT !.batchSaving = FALSE]
             ELSE [view EXCEPT !.selected = {}, !.batch = "none", !.batchSaving = FALSE]
  /\ Continue(i, <<>>)

BatchDone(i) ==
  /\ Arrived(i, "batch")
  /\ IF calls[i].answer = Failed
     THEN view' = [view EXCEPT !.batchSaving = FALSE] /\ Continue(i, <<>>)
     ELSE /\ view' = [Loading EXCEPT !.selected = {}, !.batch = "none", !.batchSaving = FALSE]
          /\ Continue(i, <<Load>>)

\* One dialog is cancelled or dismissed.
CloseDialog ==
  \/ view.creating /\ Set([view EXCEPT !.creating = FALSE])
  \/ view.secret /\ Set([view EXCEPT !.secret = FALSE])
  \/ view.disabling # None /\ Set([view EXCEPT !.disabling = None])
  \/ view.batch # "none" /\ Set([view EXCEPT !.batch = "none"])

\* Each dialog that is open listens for the key.
Escape ==
  /\ DialogsOpen # {}
  /\ Set([view EXCEPT !.creating = FALSE, !.secret = FALSE, !.disabling = None, !.batch = "none"])

-----------------------------------------------------------------------------
(* The server: internal/httpapi/server.go, internal/store/keys.go.         *)

\* The table after write i, for each way it may succeed, with the answer.
Outcomes(i) ==
  LET c == calls[i]
      after(S, st) == [k \in Keys |-> IF k \in S THEN st ELSE table[k]]
  IN  CASE c.op = "create" ->
             {[table |-> after({k}, "active"), answer |-> 0] : k \in {x \in Keys : table[x] = "unborn"}}
        [] c.op = "disable" ->
             {[table |-> after({k}, "disabled"), answer |-> 0] : k \in {x \in {c.with} : Exists(x)}}
        [] c.op = "batch" /\ \A k \in c.with.ids : Exists(k) ->
             {[table |-> after(c.with.ids, CASE c.with.action = "enable" -> "active"
                                             [] c.with.action = "disable" -> "disabled"
                                             [] OTHER -> "deleted"), answer |-> 0]}
        [] OTHER -> {}

Serve(i) ==
  \/ Read(i, Listing)
  \/ \E o \in Outcomes(i) : Write(i, o.table, o.answer) \/ Lose(i, o.table)

OtherAdmin ==
  \/ \E k \in Keys : table[k] = "unborn" /\ Elsewhere([table EXCEPT ![k] = "active"])
  \/ \E k \in Keys, st \in {"active", "disabled", "deleted"} :
       Exists(k) /\ table[k] # st /\ Elsewhere([table EXCEPT ![k] = st])

-----------------------------------------------------------------------------

User ==
  \/ Refresh \/ AskCreate \/ Create \/ Disable
  \/ \E k \in Keys : AskDisable(k) \/ ToggleSelected(k) \/ AskEnable(k)
  \/ ToggleAll \/ ClearSelection \/ RunBatch
  \/ \E action \in {"enable", "disable", "delete"} : AskBatch(action)
  \/ CloseDialog \/ Escape

Answered(i) == Loaded(i) \/ Created(i) \/ Disabled(i) \/ BatchDone(i)

Next ==
  \/ User
  \/ \E i \in DOMAIN calls : Answered(i) \/ Serve(i) \/ Refuse(i)
  \/ OtherAdmin

Spec == Init /\ [][Next]_pageVars

-----------------------------------------------------------------------------
(* Properties.                                                             *)

TypeOK ==
  /\ view \in [keys : UNION {[S -> {"active", "disabled"}] : S \in SUBSET Keys},
               loading : BOOLEAN, loadError : BOOLEAN, creating : BOOLEAN,
               secret : BOOLEAN, disabling : Keys \cup {None},
               selected : SUBSET Keys,
               batch : {"none", "enable", "disable", "delete"}, batchSaving : BOOLEAN]
  /\ \A i \in DOMAIN calls : calls[i].op \in {"load", "create", "disable", "batch"}
  /\ table \in Tables

\* A batch acts on keys its dialog counted: whatever list arrives, in whatever
\* order, the selected keys are among the listed ones.
SelectedAreListed == view.selected \subseteq DOMAIN view.keys

\* The page says that it is loading only while a load is in flight, and that it
\* executes a batch exactly while one is: they are sent one at a time, whichever
\* dialog was closed or opened meanwhile.
BusyForCause ==
  /\ view.loading => Sent("load") # {}
  /\ IF view.batchSaving THEN Cardinality(Sent("batch")) = 1 ELSE Sent("batch") = {}

\* What was done from the page is in its list: once every answer is there, the
\* list is the table, unless an older load was overtaken, the last one failed,
\* or somebody else, or a write whose answer was lost, has changed keys since.
ShownIsCurrent ==
  Quiet /\ ~overtaken /\ ~changed /\ ~view.loadError => view.keys = Listing
=============================================================================
