------------------------------ MODULE SettingsPage -----------------------------
(***************************************************************************)
(* web/src/pages/SettingsPage.tsx: the form of the online settings.        *)
(*                                                                         *)
(* The settings are loaded once.  The fields can be edited before they are *)
(* there and while a save is in flight; both answers overwrite the form.   *)
(* A save sends every field.                                               *)
(*                                                                         *)
(* The form holds strings.  Of one the model keeps the number that         *)
(* Number() makes of it, and whether it is plain, that is, the string that *)
(* String() makes of that number: "007" is another string for 7.           *)
(***************************************************************************)
EXTENDS ConsolePage, Integers

CONSTANTS
  Numeric,      \* NumericKey: the settings that are numbers
  Highest,      \* the largest value of each; the lowest is 1
  Environment,  \* the value each has as long as it was never saved, of any size
  NotInteger,   \* what Number() makes of a decimal
  Typed         \* what is typed into the input of each, a set of strings

Lowest == 1

Strings == [number : Int \cup {NotInteger}, plain : BOOLEAN]
String(n) == [number |-> n, plain |-> TRUE]
Empty == [number |-> 0, plain |-> FALSE]

\* table: the settings of the running server.
Values(n) == Lowest .. Highest[n]
Range(n) == Values(n) \cup {Environment[n]}
Data == {r \in [numbers : [Numeric -> UNION {Range(n) : n \in Numeric}], anonymous : BOOLEAN] :
           \A n \in Numeric : r.numbers[n] \in Range(n)}

Initial == [settings |-> None, form |-> [n \in Numeric |-> Empty], anonymous |-> FALSE,
            saving |-> FALSE]

Init == Mounted(Initial, <<Load>>, Data)

Set(v) == view' = v /\ Local

Applied(v, s) ==
  [v EXCEPT !.settings = s, !.form = [n \in Numeric |-> String(s.numbers[n])],
            !.anonymous = s.anonymous]

Known == view.settings # None
Number(n) == view.form[n].number

numericDirty == Known /\ \E n \in Numeric : view.form[n] # String(view.settings.numbers[n])
dirty == numericDirty \/ (Known /\ view.anonymous # view.settings.anonymous)

\* Mutant: any number will do, a decimal too.
invalid_AnyNumber == \E n \in Numeric : Number(n) # NotInteger /\ Number(n) \notin Values(n)

invalid == \E n \in Numeric : Number(n) \notin Values(n)

-----------------------------------------------------------------------------

Loaded(i) ==
  /\ Arrived(i, "load")
  /\ view' = IF calls[i].answer = Failed THEN view ELSE Applied(view, calls[i].answer)
  /\ Continue(i, <<>>)

setValue(n) == \E x \in Typed[n] \cup {Empty} : Set([view EXCEPT !.form[n] = x])

ToggleAnonymous ==
  /\ Known /\ ~view.saving
  /\ Set([view EXCEPT !.anonymous = ~@])

reset == dirty /\ ~view.saving /\ Set(Applied(view, view.settings))

save ==
  /\ dirty /\ ~(numericDirty /\ invalid) /\ ~view.saving
  /\ view' = [view EXCEPT !.saving = TRUE]
  /\ Send(<<Call("save", [numbers |-> [n \in Numeric |-> Number(n)],
                          anonymous |-> view.anonymous])>>)

Saved(i) ==
  /\ Arrived(i, "save")
  /\ view' = IF calls[i].answer = Failed THEN [view EXCEPT !.saving = FALSE]
             ELSE [Applied(view, calls[i].answer) EXCEPT !.saving = FALSE]
  /\ Continue(i, <<>>)

-----------------------------------------------------------------------------
(* The server: updateSettings of internal/httpapi/server.go.               *)

InRange(s) == \A n \in Numeric : s.numbers[n] \in Values(n)

\* A save that is refused changes nothing, one that fails has saved some fields.
Serve(i) ==
  \/ Read(i, table)
  \/ Waiting(i, "save") /\ InRange(calls[i].with)
     /\ \/ Write(i, calls[i].with, calls[i].with)
        \/ \E some \in SUBSET Numeric :
             Lose(i, [table EXCEPT !.numbers = [n \in Numeric |-> IF n \in some THEN calls[i].with.numbers[n]
                                                                  ELSE table.numbers[n]]])
        \/ Lose(i, calls[i].with)

OtherAdmin == \E s \in Data : s # table /\ InRange(s) /\ Elsewhere(s)

-----------------------------------------------------------------------------

User == (\E n \in Numeric : setValue(n)) \/ ToggleAnonymous \/ reset \/ save
Answered(i) == Loaded(i) \/ Saved(i)

Next ==
  \/ User
  \/ \E i \in DOMAIN calls : Answered(i) \/ Serve(i) \/ Refuse(i)
  \/ OtherAdmin

Spec == Init /\ [][Next]_pageVars

-----------------------------------------------------------------------------
(* Properties.                                                             *)

TypeOK ==
  /\ view.settings \in Data \cup {None}
  /\ \A n \in Numeric : view.form[n] \in Strings
  /\ view.anonymous \in BOOLEAN /\ view.saving \in BOOLEAN
  /\ \A i \in DOMAIN calls : calls[i].op \in {"load", "save"}
  /\ table \in Data

\* The page says that it saves exactly while a save is in flight, one at a time,
\* and sends none before the settings are known.
BusyForCause ==
  IF view.saving THEN Known /\ Cardinality(Sent("save")) = 1 ELSE Sent("save") = {}

\* A save that the server will refuse for one of its numbers changes none of them,
\* whatever was typed, loaded or reset before: they are the numbers that the
\* server gave, of which the environment has set one out of the range that an
\* update must keep to, and only the switch for anonymous calls is changed.
RefusedSaveIsUnchanged ==
  \A i \in Sent("save") :
    InRange(calls[i].with) \/ calls[i].with.numbers = view.settings.numbers

\* The form is compared with what the server has: as long as no answer is on its
\* way, the settings are those of the server, unless somebody else, or a save
\* that failed half-way or lost its answer, has changed them since.  A save, which
\* sends every field, undoes what another has saved in no other case.
ShownIsCurrent ==
  Known /\ (\A i \in DOMAIN calls : calls[i].answer = Pending) /\ ~changed => view.settings = table
=============================================================================
