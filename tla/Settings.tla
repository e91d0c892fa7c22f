------------------------------ MODULE Settings ------------------------------
(***************************************************************************)
(* The settings administrators edit online: the settings table             *)
(* (internal/store/settings.go), the values the running server works with, *)
(* and Server.updateSettings and applyStoredSettings between them.         *)
(*                                                                         *)
(* updateSettings takes no lock: each field of a request is saved by one   *)
(* SQL statement and then applied in memory, in the order of Fields.  Two  *)
(* requests interleave between any two of these steps.  A request with a   *)
(* value out of range is refused before it changes anything.               *)
(***************************************************************************)
EXTENDS Naturals, Sequences

CONSTANTS
  Fields,      \* the names of the settings, in the order they are saved
  Allowed,     \* the values each may be given; FALSE and TRUE are 0 and 1
  Default,     \* its value as long as it was never saved
  Unset,       \* the value of a setting that has no row
  Editors,     \* the settings requests that can be in progress at a time
  MaxFailures  \* bound: how many statements fail

Names == {Fields[i] : i \in DOMAIN Fields}

ASSUME SettingsAssumption ==
  /\ Fields \in Seq(STRING)
  /\ \A i, j \in DOMAIN Fields : Fields[i] = Fields[j] => i = j
  /\ DOMAIN Allowed = Names /\ DOMAIN Default = Names
  /\ \A n \in Names : Allowed[n] \subseteq Nat /\ Default[n] \in Allowed[n]
  /\ \A n \in Names : Unset \notin Allowed[n]
  /\ MaxFailures \in Nat

VARIABLES
  stored,    \* the settings table; Unset when it has no row
  live,      \* the limits of the limiters, logRetentionDays, allowAnonymousProxy
  edit,      \* what each request has still to save, by name
  unapplied, \* requests that have saved the next value and not yet applied it
  failures,  \* how many statements have failed
  torn       \* history: the settings that differ because their last save failed after
             \* it took effect, or they could not be read when the server started

settingsVars == <<stored, live, edit, unapplied, failures, torn>>

NoEdit == [n \in {} |-> 0]

\* A request may leave out any field, but not all of interest.
Inputs == {f \in UNION {[S -> UNION {Allowed[n] : n \in S}] : S \in (SUBSET Names) \ {{}}} :
             \A n \in DOMAIN f : f[n] \in Allowed[n]}

SettingsTypeOK ==
  /\ DOMAIN stored = Names /\ \A n \in Names : stored[n] \in Allowed[n] \cup {Unset}
  /\ DOMAIN live = Names /\ \A n \in Names : live[n] \in Allowed[n]
  /\ edit \in [Editors -> Inputs \cup {NoEdit}]
  /\ unapplied \subseteq Editors
  /\ failures \in 0 .. MaxFailures
  /\ torn \subseteq Names

\* The value a setting has according to the table.
Effective(n) == IF stored[n] = Unset THEN Default[n] ELSE stored[n]

\* applyStoredSettings: a row that cannot be read leaves the default.
ApplyStored(unread) ==
  /\ live' = [n \in Names |-> IF n \in unread THEN Default[n] ELSE Effective(n)]
  /\ torn' = {n \in unread : Default[n] # Effective(n)}

SettingsInit ==
  /\ stored \in [Names -> UNION {Allowed[n] : n \in Names} \cup {Unset}]
  /\ \A n \in Names : stored[n] \in Allowed[n] \cup {Unset}
  /\ live = [n \in Names |-> Effective(n)]
  /\ edit = [a \in Editors |-> NoEdit]
  /\ unapplied = {}
  /\ failures = 0
  /\ torn = {}

-----------------------------------------------------------------------------
(* updateSettings.                                                         *)

\* The first field the request has still to save.
Field(a) ==
  LET left == {i \in DOMAIN Fields : Fields[i] \in DOMAIN edit[a]}
  IN  Fields[CHOOSE i \in left : \A j \in left : i <= j]

Value(a) == edit[a][Field(a)]
Saved(a) == [stored EXCEPT ![Field(a)] = Value(a)]

Submit(a, f) ==
  /\ edit[a] = NoEdit
  /\ edit' = [edit EXCEPT ![a] = f]
  /\ UNCHANGED <<stored, live, unapplied, failures, torn>>

SaveSettingInt(a) ==
  /\ edit[a] # NoEdit /\ a \notin unapplied
  /\ stored' = Saved(a)
  /\ unapplied' = unapplied \cup {a}
  /\ UNCHANGED <<live, edit, failures, torn>>

\* Mutant: only what is saved last is applied.
Apply_LastOnly(a) ==
  /\ a \in unapplied
  /\ live' = IF DOMAIN edit[a] = {Field(a)} THEN [live EXCEPT ![Field(a)] = Value(a)]
             ELSE live
  /\ edit' = [edit EXCEPT ![a] = [n \in DOMAIN @ \ {Field(a)} |-> @[n]]]
  /\ unapplied' = unapplied \ {a}
  /\ torn' = torn \ {Field(a)}
  /\ UNCHANGED <<stored, failures>>

\* field.apply, and on to the next field.
Apply(a) ==
  /\ a \in unapplied
  /\ live' = [live EXCEPT ![Field(a)] = Value(a)]
  /\ edit' = [edit EXCEPT ![a] = [n \in DOMAIN @ \ {Field(a)} |-> @[n]]]
  /\ unapplied' = unapplied \ {a}
  /\ torn' = torn \ {Field(a)}
  /\ UNCHANGED <<stored, failures>>

Fail == failures < MaxFailures /\ failures' = failures + 1

\* 500: the fields before are saved and applied, this one perhaps saved, the
\* others not.
SaveFails(a) ==
  /\ edit[a] # NoEdit /\ a \notin unapplied
  /\ Fail
  /\ \/ UNCHANGED <<stored, torn>>
     \/ /\ stored' = Saved(a)
        /\ torn' = IF live[Field(a)] = Value(a) THEN torn \ {Field(a)}
                   ELSE torn \cup {Field(a)}
  /\ edit' = [edit EXCEPT ![a] = NoEdit]
  /\ UNCHANGED <<live, unapplied>>

Edit(a) ==
  \/ \E f \in Inputs : Submit(a, f)
  \/ SaveSettingInt(a) \/ Apply(a) \/ SaveFails(a)

\* The server starts again: requests are gone, the table is read.
Reload ==
  /\ \/ ApplyStored({}) /\ UNCHANGED failures
     \/ Fail /\ \E unread \in SUBSET Names : ApplyStored(unread)
  /\ edit' = [a \in Editors |-> NoEdit]
  /\ unapplied' = {}
  /\ UNCHANGED stored

SettingsNext == (\E a \in Editors : Edit(a)) \/ Reload

SettingsSpec == SettingsInit /\ [][SettingsNext]_settingsVars

-----------------------------------------------------------------------------
(* Properties.                                                             *)

\* A value on its way from the table to the server.
Changing(n) == \E a \in unapplied : Field(a) = n

\* updateSettings "persists online configuration changes and applies them to
\* the running server immediately" (server.go:297): the server works with the values
\* in the table, but for a setting just saved, and for one whose save failed after it
\* took effect or that could not be read at the start.  Such a one disagrees until it
\* is saved again or the server starts again; the settings saved before and after it
\* do not.  One administrator edits at a time.
ServerAgreesWithTable ==
  \A n \in Names : Changing(n) \/ n \in torn \/ live[n] = Effective(n)
=============================================================================
