------------------------------ MODULE TokensPage -------------------------------
(***************************************************************************)
(* web/src/pages/TokensPage.tsx: the pool of Cursor tokens, and the        *)
(* dialogs to add, to enable or disable, and to delete one.                *)
(*                                                                         *)
(* The three dialogs share one flag, saving, and each can be dismissed     *)
(* while its request is in flight: the request goes on, and its            *)
(* continuation closes whichever dialog of its kind is open then.  The     *)
(* keyboard reaches the page under a dialog, so that several can be open.  *)
(* The fields of the form and the health and load of a token are left out. *)
(***************************************************************************)
EXTENDS ConsolePage

CONSTANT Tokens  \* every token that can be added

\* table: the row of each token.
Tables == [Tokens -> {"unborn", "enabled", "disabled", "deleted"}]
Exists(t) == table[t] \in {"enabled", "disabled"}
Active == {t \in Tokens : table[t] = "enabled"}

\* listCursorTokens.
Listing == [t \in {x \in Tokens : Exists(x)} |-> table[t]]

Initial == [tokens |-> [t \in {} |-> "enabled"], loading |-> TRUE, loadError |-> FALSE,
            creating |-> FALSE, saving |-> FALSE,
            pending |-> None, enabled |-> FALSE, deleting |-> None]

\* No token is deleted before the page is mounted.
Data == [Tokens -> {"unborn", "enabled", "disabled"}]

Init == Mounted(Initial, <<Load>>, Data)

Rows == IF view.loading THEN {} ELSE DOMAIN view.tokens

Set(v) == view' = v /\ Local

-----------------------------------------------------------------------------
(* load.                                                                   *)

Loading(v) == [v EXCEPT !.loading = TRUE, !.loadError = FALSE]

Refresh ==
  /\ ~view.loading
  /\ view' = Loading(view)
  /\ Send(<<Load>>)

Loaded(i) ==
  /\ Arrived(i, "load")
  /\ view' = IF calls[i].answer = Failed THEN [view EXCEPT !.loadError = TRUE, !.loading = FALSE]
             ELSE [view EXCEPT !.tokens = calls[i].answer, !.loading = FALSE]
  /\ Continue(i, <<>>)

-----------------------------------------------------------------------------
(* The dialogs.                                                            *)

AskCreate == Set([view EXCEPT !.creating = TRUE])

AskToggle(t) ==
  /\ t \in Rows
  /\ Set([view EXCEPT !.pending = t, !.enabled = (view.tokens[t] = "disabled")])

AskDelete(t) == t \in Rows /\ Set([view EXCEPT !.deleting = t])

\* One dialog is cancelled or dismissed.
CloseDialog ==
  \/ view.creating /\ Set([view EXCEPT !.creating = FALSE])
  \/ view.pending # None /\ Set([view EXCEPT !.pending = None])
  \/ view.deleting # None /\ Set([view EXCEPT !.deleting = None])

\* Each dialog that is open listens for the key.
Escape ==
  /\ view.creating \/ view.pending # None \/ view.deleting # None
  /\ Set([view EXCEPT !.creating = FALSE, !.pending = None, !.deleting = None])

\* Mutant: the button of the dialog is not disabled by saving.
Save_Again(call) ==
  /\ view' = [view EXCEPT !.saving = TRUE]
  /\ Send(<<call>>)

\* The button of a dialog.
Save(call) ==
  /\ ~view.saving
  /\ view' = [view EXCEPT !.saving = TRUE]
  /\ Send(<<call>>)

Create == view.creating /\ Save(Call("create", None))

Toggle ==
  /\ view.pending # None
  /\ Save(Call(IF view.enabled THEN "enable" ELSE "disable", view.pending))

Remove == view.deleting # None /\ Save(Call("delete", view.deleting))

\* The continuation of a dialog's request; closed is the view without the dialog.
Settle(i, ops, closed) ==
  /\ \E op \in ops : Arrived(i, op)
  /\ IF calls[i].answer = Failed
     THEN view' = [view EXCEPT !.saving = FALSE] /\ Continue(i, <<>>)
     ELSE view' = Loading([closed EXCEPT !.saving = FALSE]) /\ Continue(i, <<Load>>)

Created(i) == Settle(i, {"create"}, [view EXCEPT !.creating = FALSE])
Toggled(i) == Settle(i, {"enable", "disable"}, [view EXCEPT !.pending = None])
Removed(i) == Settle(i, {"delete"}, [view EXCEPT !.deleting = None])

-----------------------------------------------------------------------------
(* The server: internal/httpapi/server.go, internal/tokenpool/pool.go.     *)

After(t, row) == [table EXCEPT ![t] = row]

\* The table after write i, for each way it may succeed.
Outcomes(i) ==
  LET t == calls[i].with
  IN  CASE calls[i].op = "create" -> {After(u, "enabled") : u \in {x \in Tokens : table[x] = "unborn"}}
        [] calls[i].op = "enable" /\ Exists(t) -> {After(t, "enabled")}
        [] calls[i].op = "disable" /\ Exists(t) /\ Cardinality(Active) > 1 -> {After(t, "disabled")}
        [] calls[i].op = "delete" /\ Exists(t) /\ Active # {t} -> {After(t, "deleted")}
        [] OTHER -> {}

Serve(i) ==
  \/ Read(i, Listing)
  \/ \E t \in Outcomes(i) : Write(i, t, 0) \/ Lose(i, t)

OtherAdmin ==
  \/ \E t \in Tokens : table[t] = "unborn" /\ Elsewhere(After(t, "enabled"))
  \/ \E t \in Tokens, row \in {"enabled", "disabled", "deleted"} :
       Exists(t) /\ table[t] # row /\ Elsewhere(After(t, row))

-----------------------------------------------------------------------------

User ==
  \/ Refresh \/ AskCreate \/ Create \/ Toggle \/ Remove \/ CloseDialog \/ Escape
  \/ \E t \in Tokens : AskToggle(t) \/ AskDelete(t)

Answered(i) == Loaded(i) \/ Created(i) \/ Toggled(i) \/ Removed(i)

Next ==
  \/ User
  \/ \E i \in DOMAIN calls : Answered(i) \/ Serve(i) \/ Refuse(i)
  \/ OtherAdmin

Spec == Init /\ [][Next]_pageVars

-----------------------------------------------------------------------------
(* Properties.                                                             *)

TypeOK ==
  /\ view \in [tokens : UNION {[S -> {"enabled", "disabled"}] : S \in SUBSET Tokens},
               loading : BOOLEAN, loadError : BOOLEAN, creating : BOOLEAN, saving : BOOLEAN,
               pending : Tokens \cup {None}, enabled : BOOLEAN,
               deleting : Tokens \cup {None}]
  /\ \A i \in DOMAIN calls : calls[i].op \in {"load", "create", "enable", "disable", "delete"}
  /\ table \in Tables

\* The page says that it is loading only while a load is in flight, and that it
\* is saving exactly while a write is: its dialogs together send one at a time,
\* whichever of them was dismissed or opened meanwhile.
BusyForCause ==
  LET saves == DOMAIN calls \ Sent("load")
  IN  /\ view.loading => Sent("load") # {}
      /\ IF view.saving THEN Cardinality(saves) = 1 ELSE saves = {}

\* What was done from the page is in its list: once every answer is there, the
\* list is the table, unless an older load was overtaken, the last one failed,
\* or somebody else, or a write whose answer was lost, has changed tokens since.
ShownIsCurrent ==
  Quiet /\ ~overtaken /\ ~changed /\ ~view.loadError => view.tokens = Listing
=============================================================================
