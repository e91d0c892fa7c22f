--------------------------- MODULE ProxyGate_proofs --------------------------
(***************************************************************************)
(* Who is let in, and what the audit log keeps of it, for any keys,        *)
(* requests, settings, editors and failures.  What depends on the server   *)
(* working with the values of the settings table is proved for one editor  *)
(* at a time; the run settings_concurrent shows that two break it.         *)
(***************************************************************************)
EXTENDS ProxyGate, FiniteSetTheorems, TLAPS

-----------------------------------------------------------------------------
(* The invariant.                                                          *)

\* A request that has saved a value has it still to apply.
EditsOK == \A a \in unapplied : edit[a] # NoEdit

\* A request has no key before it was authenticated, and a status only while it
\* is recorded; the key it was authenticated as began.
RequestsOK ==
  \A r \in Requests :
    /\ pc[r] \in {"new", "find"} => keyID[r] = NoKey
    /\ pc[r] = "record" => result[r] \in Statuses
    /\ keyID[r] # NoKey => key[keyID[r]] # "unborn"

\* Only a request that is over has a record.
RecordsOK == \A rec \in audit : pc[rec.request] = "done"

\* A cleanup that is due or running works with a retention the table had.
RetentionsOK ==
  /\ due => Effective(Retention) \in retentions
  /\ cutoff # 0 /\ failures = 0 => cutoff \in retentions

GateInv == TypeOK /\ EditsOK /\ RequestsOK /\ RecordsOK /\ RetentionsOK /\ AuditNamesItsKey

\* With one editor: a value that was saved is in the table until it is applied, and
\* the settings the server does not agree with are those a failure has torn.
AgreeInv ==
  /\ \A a \in unapplied : stored[Field(a)] = Value(a)
  /\ \A n \in Names : Changing(n) \/ n \in torn \/ live[n] = Effective(n)

-----------------------------------------------------------------------------
(* Settings.                                                               *)

\* A set of indices has a least one.
LEMMA LeastIndex ==
  ASSUME NEW n \in Nat, NEW S \in SUBSET (1 .. n), S # {}
  PROVE  \E i \in S : \A j \in S : i <= j
<1> DEFINE below(i) == {x \in S : x < i}
           T == {below(i) : i \in S}
<1>1. IsFiniteSet(S)
  BY FS_Interval, FS_Subset, 1 \in Int, n \in Int
<1>2. IsWellFoundedOn(StrictSubsetOrdering(S), SUBSET S)
  BY <1>1, FS_StrictSubsetOrderingWellFounded, FS_FiniteSubsetsOfFinite, Zenon
<1>3. T \subseteq SUBSET S /\ T # {}
  OBVIOUS
<1>4. PICK x \in T : \A y \in T : ~(<<y, x>> \in StrictSubsetOrdering(S))
  <2> HIDE DEF T
  <2> QED
    BY <1>2, <1>3, WFMin, Zenon
<1>5. PICK i \in S : x = below(i)
  BY <1>4
<1>6. ASSUME NEW j \in S, j < i
      PROVE  FALSE
  <2>1. below(j) \subseteq below(i) /\ j \in below(i) /\ j \notin below(j)
    <3>1. j \in Int /\ i \in Int /\ \A y \in S : y \in Int
      OBVIOUS
    <3>2. \A y \in S : y < j => y < i
      BY <1>6, <3>1
    <3>3. ~(j < j)
      BY <3>1
    <3> QED
      BY <1>6, <3>2, <3>3
  <2>2. below(j) \in SUBSET S /\ below(i) \in SUBSET S /\ below(j) \in T
    OBVIOUS
  <2>3. <<below(j), below(i)>> \in StrictSubsetOrdering(S)
    <3> HIDE DEF below
    <3> QED
    BY <2>1, <2>2 DEF StrictSubsetOrdering
  <2> QED
    BY <1>4, <1>5, <2>2, <2>3
<1> QED
  BY <1>6

\* What a settings request may ask for.
LEMMA InputFacts ==
  ASSUME NEW f \in Inputs
  PROVE  /\ DOMAIN f \subseteq Names /\ DOMAIN f # {}
         /\ f = [n \in DOMAIN f |-> f[n]]
         /\ \A n \in DOMAIN f : f[n] \in Allowed[n]
         /\ f # NoEdit
<1>1. PICK S \in (SUBSET Names) \ {{}} : f \in [S -> UNION {Allowed[n] : n \in S}]
  BY DEF Inputs
<1>2. DOMAIN f = S /\ f = [n \in S |-> f[n]]
  BY <1>1
<1>3. DOMAIN NoEdit = {}
  BY DEF NoEdit
<1>4. \A n \in DOMAIN f : f[n] \in Allowed[n]
  BY DEF Inputs
<1> QED
  BY <1>1, <1>2, <1>3, <1>4

\* A function of the right kind is such a request.
LEMMA InputIs ==
  ASSUME NEW S \in SUBSET Names, S # {}, NEW f, f = [n \in S |-> f[n]],
         \A n \in S : f[n] \in Allowed[n]
  PROVE  f \in Inputs
<1>1. DOMAIN f = S
  OBVIOUS
<1>2. \A n \in S : f[n] \in UNION {Allowed[m] : m \in S}
  OBVIOUS
<1>3. f \in [S -> UNION {Allowed[n] : n \in S}]
  BY <1>2
<1>4. S \in (SUBSET Names) \ {{}}
  OBVIOUS
<1>5. f \in UNION {[T -> UNION {Allowed[n] : n \in T}] : T \in (SUBSET Names) \ {{}}}
  BY <1>3, <1>4
<1> QED
  BY <1>1, <1>5 DEF Inputs

\* The field a request has still to save is one it asks for.
LEMMA FieldFacts ==
  ASSUME SettingsTypeOK, NEW a \in Editors, edit[a] # NoEdit
  PROVE  /\ edit[a] \in Inputs
         /\ Field(a) \in DOMAIN edit[a] /\ Field(a) \in Names
         /\ Value(a) \in Allowed[Field(a)]
<1> DEFINE left == {i \in DOMAIN Fields : Fields[i] \in DOMAIN edit[a]}
<1>1. edit[a] \in Inputs
  BY DEF SettingsTypeOK
<1>2. DOMAIN edit[a] \subseteq Names /\ DOMAIN edit[a] # {}
      /\ \A n \in DOMAIN edit[a] : edit[a][n] \in Allowed[n]
  BY <1>1, InputFacts
<1>3. left \in SUBSET (1 .. Len(Fields)) /\ Len(Fields) \in Nat
  BY SettingsAssumption
<1>4. left # {}
  BY <1>2 DEF Names
<1>5. \E i \in left : \A j \in left : i <= j
  <2> HIDE DEF left
  <2> QED
    BY <1>3, <1>4, LeastIndex
<1>6. (CHOOSE i \in left : \A j \in left : i <= j) \in left
  BY <1>5
<1>7. Field(a) \in DOMAIN edit[a]
  BY <1>6 DEF Field
<1> QED
  BY <1>1, <1>2, <1>7 DEF Value

\* The value of a setting is one it may be given.
LEMMA EffectiveType ==
  ASSUME SettingsTypeOK, NEW n \in Names
  PROVE  Effective(n) \in Allowed[n] /\ Effective(n) \in Nat
  BY SettingsAssumption DEF SettingsTypeOK, Effective

\* A request that has one field less to save.
LEMMA RestOfEdit ==
  ASSUME NEW f \in Inputs, NEW x \in DOMAIN f
  PROVE  [n \in DOMAIN f \ {x} |-> f[n]] \in Inputs \cup {NoEdit}
<1> DEFINE rest == [n \in DOMAIN f \ {x} |-> f[n]]
<1>1. DOMAIN f \subseteq Names /\ \A n \in DOMAIN f : f[n] \in Allowed[n]
  BY InputFacts
<1>2. CASE DOMAIN f \ {x} = {}
  BY <1>2 DEF NoEdit
<1>3. CASE DOMAIN f \ {x} # {}
  <2>1. rest = [n \in DOMAIN f \ {x} |-> rest[n]] /\ \A n \in DOMAIN f \ {x} : rest[n] \in Allowed[n]
    BY <1>1
  <2> QED
    BY <1>1, <1>3, <2>1, InputIs
<1> QED
  BY <1>2, <1>3

SettingsStep == (\E a \in Editors : Edit(a)) \/ Reload \/ UNCHANGED settingsVars

\* updateSettings and a restart keep the types of the settings.
LEMMA SettingsKeep ==
  ASSUME SettingsTypeOK, EditsOK, SettingsStep
  PROVE  SettingsTypeOK' /\ EditsOK' /\ failures \in Nat /\ failures <= failures'
<1> USE SettingsAssumption DEF SettingsTypeOK
<1>1. ASSUME NEW a \in Editors, NEW f \in Inputs, Submit(a, f)
      PROVE  SettingsTypeOK' /\ EditsOK' /\ failures' = failures
  BY <1>1, InputFacts DEF Submit, EditsOK
<1>2. ASSUME NEW a \in Editors, SaveSettingInt(a)
      PROVE  SettingsTypeOK' /\ EditsOK' /\ failures' = failures
  BY <1>2, FieldFacts DEF SaveSettingInt, Saved, EditsOK
<1>3. ASSUME NEW a \in Editors, Apply(a)
      PROVE  SettingsTypeOK' /\ EditsOK' /\ failures' = failures
  <2>1. edit[a] # NoEdit
    BY <1>3 DEF Apply, EditsOK
  <2>2. edit'[a] \in Inputs \cup {NoEdit}
    BY <1>3, <2>1, FieldFacts, RestOfEdit DEF Apply
  <2>3. edit' \in [Editors -> Inputs \cup {NoEdit}] /\ \A b \in Editors \ {a} : edit'[b] = edit[b]
    BY <1>3, <2>2 DEF Apply
  <2>4. DOMAIN live' = Names /\ \A n \in Names : live'[n] \in Allowed[n]
    BY <1>3, <2>1, FieldFacts DEF Apply
  <2> QED
    BY <1>3, <2>3, <2>4 DEF Apply, EditsOK
<1>4. ASSUME NEW a \in Editors, SaveFails(a)
      PROVE  SettingsTypeOK' /\ EditsOK' /\ failures' = failures + 1
  <2>1. DOMAIN stored' = Names /\ \A n \in Names : stored'[n] \in Allowed[n] \cup {Unset}
    BY <1>4, FieldFacts DEF SaveFails, Saved
  <2>2. torn' \subseteq Names
    BY <1>4, FieldFacts DEF SaveFails
  <2> QED
    BY <1>4, <2>1, <2>2 DEF SaveFails, Fail, EditsOK
<1>5. ASSUME Reload
      PROVE  SettingsTypeOK' /\ EditsOK' /\ failures' \in {failures, failures + 1}
  <2>1. DOMAIN live' = Names /\ \A n \in Names : live'[n] \in Allowed[n]
    BY <1>5, EffectiveType DEF Reload, ApplyStored
  <2>2. torn' \subseteq Names
    BY <1>5 DEF Reload, ApplyStored
  <2> QED
    BY <1>5, <2>1, <2>2 DEF Reload, Fail, EditsOK
<1>6. CASE UNCHANGED settingsVars
  BY <1>6 DEF settingsVars, EditsOK
<1>7. failures \in Nat
  OBVIOUS
<1> QED
  BY <1>1, <1>2, <1>3, <1>4, <1>5, <1>6, <1>7 DEF SettingsStep, Edit

-----------------------------------------------------------------------------
(* The gate.                                                               *)

\* The types of what is not a setting.
GateTypes ==
  /\ KeysTypeOK
  /\ today \in 1 .. MaxDay
  /\ pc \in [Requests -> Locations]
  /\ presented \in [Requests -> Keys \cup {NoKey, BadKey}]
  /\ keyID \in [Requests -> Keys \cup {NoKey}]
  /\ result \in [Requests -> Statuses \cup {0}]
  /\ due \in BOOLEAN
  /\ cutoff \in Allowed[Retention] \cup {0}

\* The history of the retentions follows the table.
LEMMA RetentionsKeep ==
  ASSUME GateInv, SettingsTypeOK', Observe, failures \in Nat, failures <= failures',
         cutoff' \in {0, cutoff, Effective(Retention)'} \/ failures' > failures
  PROVE  RetentionsOK' /\ retentions' \subseteq Allowed[Retention]
<1>1. Effective(Retention)' \in Allowed[Retention]
  BY SettingsAssumption, GateAssumption DEF SettingsTypeOK, Effective
<1>2. retentions \subseteq Allowed[Retention]
  BY DEF GateInv, TypeOK
<1>3. failures' = 0 => failures = 0
  OBVIOUS
<1> QED
  BY <1>1, <1>2, <1>3 DEF GateInv, RetentionsOK, Observe

\* A key, once it began, is never unborn again; a request keeps its key.
LEMMA RequestKeeps ==
  ASSUME GateInv, Observe, NEW r \in Requests,
         (\E k \in Keys \cup {NoKey, BadKey} : Arrive(r, k)) \/ RequestStep(r)
  PROVE  GateInv'
<1> USE ApiKeysAssumption, GateAssumption
<1>1. /\ SettingsTypeOK /\ EditsOK /\ KeysTypeOK /\ GateTypes
  BY DEF GateInv, TypeOK, GateTypes
<1>2. /\ key' = key /\ UNCHANGED <<today, due, cutoff, stored, live, edit, unapplied, torn>>
      /\ failures' = failures \/ Fail
  BY DEF Arrive, RequestStep, Authenticate, Unauthorized, FindFails, Admit, RateLimited, Serve,
     Record, RecordFails, InsertAudit, keyVars, settingsVars, cleanupVars
<1>3. SettingsTypeOK' /\ EditsOK' /\ failures \in Nat /\ failures <= failures'
  BY <1>1, <1>2, SettingsAssumption DEF SettingsTypeOK, EditsOK, Fail
<1>4. RetentionsOK' /\ retentions' \subseteq Allowed[Retention]
  BY <1>2, <1>3, RetentionsKeep
<1>5. GateTypes' /\ RequestsOK' /\ RecordsOK' /\ AuditNamesItsKey'
  <2> USE <1>1, <1>2 DEF GateInv, GateTypes, KeysTypeOK
  <2>1. CASE \E k \in Keys \cup {NoKey, BadKey} : Arrive(r, k)
    <3>1. GateTypes'
      BY <2>1 DEF Arrive, GoTo, Locations, keyVars
    <3>2. RequestsOK'
      BY <2>1 DEF Arrive, GoTo, RequestsOK
    <3>3. RecordsOK' /\ AuditNamesItsKey'
      BY <2>1 DEF Arrive, GoTo, RecordsOK, AuditNamesItsKey, Exists, Records, keyVars
    <3> QED
      BY <3>1, <3>2, <3>3
  <2>2. CASE Authenticate(r)
    <3>1. GateTypes'
      BY <2>2 DEF Authenticate, FindActiveAPIKeyByHash, GoTo, Locations, keyVars
    <3>2. RequestsOK'
      BY <2>2 DEF Authenticate, FindActiveAPIKeyByHash, GoTo, RequestsOK
    <3>3. RecordsOK' /\ AuditNamesItsKey'
      BY <2>2 DEF Authenticate, GoTo, RecordsOK, AuditNamesItsKey, Exists, Records, keyVars
    <3> QED
      BY <3>1, <3>2, <3>3
  <2>3. CASE \/ Unauthorized(r) \/ FindFails(r) \/ Admit(r) \/ RateLimited(r)
             \/ \E status \in Served : Serve(r, status)
    <3>1. /\ pc[r] \in {"find", "limit", "serve"} /\ keyID' = keyID /\ audit' = audit
          /\ \/ pc' = [pc EXCEPT ![r] = "serve"] /\ pc[r] = "limit" /\ result' = result
             \/ \E status \in Statuses : /\ pc' = [pc EXCEPT ![r] = "record"]
                                         /\ result' = [result EXCEPT ![r] = status]
      BY <2>3 DEF Unauthorized, FindFails, Admit, RateLimited, Serve, AnswerWith, GoTo, keyVars
    <3>2. presented' \in {presented, [presented EXCEPT ![r] = NoKey]}
      BY <2>3 DEF Unauthorized, FindFails, Admit, RateLimited, Serve
    <3>3. GateTypes'
      BY <3>1, <3>2 DEF Locations
    <3>4. RequestsOK'
      BY <3>1 DEF RequestsOK
    <3>5. RecordsOK' /\ AuditNamesItsKey'
      BY <3>1 DEF RecordsOK, AuditNamesItsKey, Exists, Records
    <3> QED
      BY <3>3, <3>4, <3>5
  <2>4. CASE Record(r) \/ RecordFails(r)
    <3>1. /\ pc[r] = "record" /\ pc' = [pc EXCEPT ![r] = "done"]
          /\ result' = [result EXCEPT ![r] = 0] /\ UNCHANGED <<presented, keyID>>
          /\ \/ audit' = audit
             \/ audit' = audit \cup {RecordOf(r)} /\ (keyID[r] = NoKey \/ Exists(keyID[r]))
      BY <2>4 DEF Record, RecordFails, Finish, GoTo, InsertAudit, RecordOf, keyVars
    <3>2. RecordOf(r) \in Records
      BY <3>1 DEF RecordOf, Records, RequestsOK
    <3>3. GateTypes'
      BY <3>1, <3>2 DEF Locations
    <3>4. RequestsOK'
      BY <3>1 DEF RequestsOK
    <3>5. RecordsOK' /\ AuditNamesItsKey'
      BY <3>1, <3>2 DEF RecordsOK, AuditNamesItsKey, Exists, Records, RecordOf
    <3> QED
      BY <3>3, <3>4, <3>5
  <2> QED
    BY <2>1, <2>2, <2>3, <2>4 DEF RequestStep
<1> QED
  BY <1>3, <1>4, <1>5 DEF GateInv, TypeOK, GateTypes

\* The cleanup, the clock, and the administrators of settings.
LEMMA OthersKeep ==
  ASSUME GateInv, Observe,
         \/ Cleanup \/ NextDay
         \/ (\E a \in Editors : Edit(a)) /\ UNCHANGED <<keyVars, requestVars, cleanupVars, today>>
  PROVE  GateInv'
<1> USE ApiKeysAssumption, GateAssumption
<1>1. SettingsTypeOK /\ EditsOK /\ KeysTypeOK /\ GateTypes
  BY DEF GateInv, TypeOK, GateTypes
<1>2. /\ key' = key /\ UNCHANGED requestVars
      /\ audit' \subseteq audit
  BY DEF Cleanup, ReadRetention, ReadRetentionFails, DeleteOlderThan, DeleteFails, NextDay,
     DeleteAuditBefore, keyVars, requestVars
<1>3. SettingsTypeOK' /\ EditsOK' /\ failures \in Nat /\ failures <= failures'
  <2>1. CASE Cleanup \/ NextDay
    <3>1. UNCHANGED <<stored, live, edit, unapplied, torn>> /\ (failures' = failures \/ Fail)
      BY <2>1 DEF Cleanup, ReadRetention, ReadRetentionFails, DeleteOlderThan, DeleteFails,
         NextDay, settingsVars
    <3> QED
      BY <1>1, <3>1, SettingsAssumption DEF SettingsTypeOK, EditsOK, Fail
  <2>2. CASE \E a \in Editors : Edit(a)
    BY <1>1, <2>2, SettingsKeep DEF SettingsStep
  <2> QED
    BY <2>1, <2>2
<1>4. cutoff' \in {0, cutoff, Effective(Retention)'} \/ failures' > failures
  <2>1. ReadRetention => cutoff' = Effective(Retention)'
    BY DEF ReadRetention, settingsVars, Effective
  <2>2. ReadRetentionFails => failures' > failures
    BY <1>3 DEF ReadRetentionFails, Fail
  <2>3. DeleteOlderThan \/ DeleteFails \/ NextDay \/ UNCHANGED cleanupVars => cutoff' \in {0, cutoff}
    BY DEF DeleteOlderThan, DeleteFails, NextDay, cleanupVars
  <2> QED
    BY <2>1, <2>2, <2>3 DEF Cleanup
<1>5. RetentionsOK' /\ retentions' \subseteq Allowed[Retention]
  BY <1>3, <1>4, RetentionsKeep
<1>6. today' \in 1 .. MaxDay /\ due' \in BOOLEAN /\ cutoff' \in Allowed[Retention] \cup {0}
  <2>1. Effective(Retention) \in Allowed[Retention] /\ Default[Retention] \in Allowed[Retention]
    BY <1>1, EffectiveType, SettingsAssumption
  <2>2. today \in 1 .. MaxDay /\ due \in BOOLEAN /\ cutoff \in Allowed[Retention] \cup {0}
    BY <1>1 DEF GateTypes
  <2>3. Cleanup => /\ today' = today /\ due' \in {due, FALSE}
                   /\ cutoff' \in {0, Effective(Retention), Default[Retention]}
    BY DEF Cleanup, ReadRetention, ReadRetentionFails, DeleteOlderThan, DeleteFails, requestVars
  <2>4. NextDay => today' \in 1 .. MaxDay /\ due' = TRUE /\ cutoff' = cutoff
    BY <2>2 DEF NextDay
  <2>5. UNCHANGED <<cleanupVars, today>> => UNCHANGED <<due, cutoff, today>>
    BY DEF cleanupVars
  <2> QED
    BY <2>1, <2>2, <2>3, <2>4, <2>5
<1>7. GateTypes' /\ RequestsOK' /\ RecordsOK' /\ AuditNamesItsKey'
  BY <1>1, <1>2, <1>6 DEF GateInv, GateTypes, KeysTypeOK, RequestsOK, RecordsOK, AuditNamesItsKey,
     Exists, requestVars
<1> QED
  BY <1>3, <1>5, <1>7 DEF GateInv, TypeOK, GateTypes

\* The administrators of keys.
LEMMA KeysKeep ==
  ASSUME GateInv, Observe, KeyAdmin, UNCHANGED <<settingsVars, requestVars, cleanupVars, today>>
  PROVE  GateInv'
<1> USE ApiKeysAssumption, GateAssumption
<1>1. SettingsTypeOK /\ EditsOK /\ KeysTypeOK /\ GateTypes
  BY DEF GateInv, TypeOK, GateTypes
<1>2. SettingsTypeOK' /\ EditsOK' /\ failures \in Nat /\ failures <= failures' /\ cutoff' = cutoff
  BY <1>1, SettingsKeep DEF SettingsStep, cleanupVars
<1>3. RetentionsOK' /\ retentions' \subseteq Allowed[Retention]
  BY <1>2, RetentionsKeep
<1>4. GateTypes' /\ RequestsOK' /\ RecordsOK' /\ AuditNamesItsKey'
  <2> USE <1>1 DEF GateInv, GateTypes, KeysTypeOK, requestVars, cleanupVars
  <2>1. ASSUME NEW k \in Keys, CreateAPIKey(k)
        PROVE  GateTypes' /\ RequestsOK' /\ RecordsOK' /\ AuditNamesItsKey'
    <3>1. /\ key' = [key EXCEPT ![k] = "active"] /\ audit' = audit /\ key[k] = "unborn"
          /\ UNCHANGED <<pc, presented, keyID, result, today, due, cutoff>>
      BY <2>1 DEF CreateAPIKey
    <3> QED
      BY <3>1 DEF RequestsOK, RecordsOK, AuditNamesItsKey, Exists, Records
  <2>2. ASSUME NEW S \in SUBSET Keys, NEW enabled \in BOOLEAN, SetAPIKeysEnabled(S, enabled)
        PROVE  GateTypes' /\ RequestsOK' /\ RecordsOK' /\ AuditNamesItsKey'
    <3>1. /\ key' \in [Keys -> {"unborn", "active", "disabled", "deleted"}] /\ audit' = audit
          /\ \A k \in Keys : Exists(k) <=> Exists(k)'
          /\ \A k \in Keys : ~Exists(k) => key'[k] = key[k]
          /\ UNCHANGED <<pc, presented, keyID, result, today, due, cutoff>>
      BY <2>2 DEF SetAPIKeysEnabled, Exists
    <3>2. \A k \in Keys : key[k] # "unborn" => key'[k] # "unborn"
      BY <3>1 DEF Exists
    <3> QED
      BY <3>1, <3>2 DEF RequestsOK, RecordsOK, AuditNamesItsKey, Exists, Records
  <2>3. ASSUME NEW S \in SUBSET Keys, DeleteAPIKeys(S)
        PROVE  GateTypes' /\ RequestsOK' /\ RecordsOK' /\ AuditNamesItsKey'
    <3> DEFINE without(rec) == [rec EXCEPT !.key = IF @ \in S THEN NoKey ELSE @]
    <3>1. /\ key' \in [Keys -> {"unborn", "active", "disabled", "deleted"}]
          /\ \A k \in Keys : key'[k] = IF k \in S THEN "deleted" ELSE key[k]
          /\ audit' = {without(rec) : rec \in audit}
          /\ UNCHANGED <<pc, presented, keyID, result, today, due, cutoff>>
      BY <2>3 DEF DeleteAPIKeys
    <3>2. \A rec \in audit : /\ without(rec) \in Records
                             /\ without(rec).request = rec.request
                             /\ without(rec).key = IF rec.key \in S THEN NoKey ELSE rec.key
      BY DEF Records
    <3>3. GateTypes' /\ RequestsOK' /\ RecordsOK'
      <4> HIDE DEF without
      <4> QED
        BY <3>1, <3>2 DEF RequestsOK, RecordsOK, Records
    <3>4. ASSUME NEW rec \in audit
          PROVE  \/ /\ without(rec).key = keyID'[rec.request]
                    /\ without(rec).key = NoKey \/ Exists(without(rec).key)'
                 \/ without(rec).key = NoKey /\ key'[keyID'[rec.request]] = "deleted"
      <4> HIDE DEF without
      <4>1. rec.request \in Requests /\ rec.key \in Keys \cup {NoKey}
        BY DEF Records
      <4>2. \/ rec.key = keyID[rec.request] /\ (rec.key = NoKey \/ Exists(rec.key))
            \/ rec.key = NoKey /\ key[keyID[rec.request]] = "deleted"
        BY DEF AuditNamesItsKey
      <4> QED
        BY <3>1, <3>2, <4>1, <4>2 DEF Exists
    <3>5. AuditNamesItsKey'
      <4> HIDE DEF without
      <4> QED
        BY <3>1, <3>2, <3>4 DEF AuditNamesItsKey
    <3> QED
      BY <3>3, <3>5
  <2> HIDE DEF GateInv, GateTypes, KeysTypeOK
  <2> QED
    BY <2>1, <2>2, <2>3 DEF KeyAdmin
<1> QED
  BY <1>2, <1>3, <1>4 DEF GateInv, TypeOK, GateTypes

\* A new start of the server.
LEMMA RestartKeeps ==
  ASSUME GateInv, Observe, Restart
  PROVE  GateInv'
<1> USE ApiKeysAssumption, GateAssumption
<1>1. SettingsTypeOK /\ EditsOK /\ KeysTypeOK /\ GateTypes
  BY DEF GateInv, TypeOK, GateTypes
<1>2. SettingsTypeOK' /\ EditsOK' /\ failures \in Nat /\ failures <= failures' /\ cutoff' = 0
  BY <1>1, SettingsKeep DEF SettingsStep, Restart
<1>3. RetentionsOK' /\ retentions' \subseteq Allowed[Retention]
  BY <1>2, RetentionsKeep
<1>4. /\ \A r \in Requests :
           /\ pc'[r] = IF pc[r] \in {"new", "done"} THEN pc[r] ELSE "lost"
           /\ keyID'[r] = IF pc'[r] = "lost" THEN NoKey ELSE keyID[r]
      /\ pc' \in [Requests -> Locations]
      /\ keyID' \in [Requests -> Keys \cup {NoKey}]
      /\ result' \in [Requests -> Statuses \cup {0}]
      /\ presented' \in [Requests -> Keys \cup {NoKey, BadKey}]
      /\ UNCHANGED <<key, today>> /\ due' \in BOOLEAN
  <2>1. \A r \in Requests :
           /\ pc'[r] = IF pc[r] \in {"new", "done"} THEN pc[r] ELSE "lost"
           /\ keyID'[r] = IF pc'[r] = "lost" THEN NoKey ELSE keyID[r]
    BY DEF Restart
  <2>2. pc' \in [Requests -> Locations]
    BY <1>1 DEF Restart, GateTypes, Locations
  <2>3. keyID' \in [Requests -> Keys \cup {NoKey}]
    BY <1>1 DEF Restart, GateTypes
  <2>4. /\ result' \in [Requests -> Statuses \cup {0}]
        /\ presented' \in [Requests -> Keys \cup {NoKey, BadKey}]
        /\ UNCHANGED <<key, today>> /\ due' \in BOOLEAN
    BY DEF Restart
  <2> QED
    BY <2>1, <2>2, <2>3, <2>4
<1>5. audit' \subseteq audit
  BY DEF Restart, DeleteAuditBefore
<1>6. GateTypes'
  BY <1>1, <1>2, <1>4, <1>5 DEF GateTypes, KeysTypeOK
<1>7. RequestsOK'
  BY <1>1, <1>4 DEF GateInv, RequestsOK, GateTypes
<1>8. RecordsOK' /\ AuditNamesItsKey'
  BY <1>1, <1>4, <1>5 DEF GateInv, GateTypes, KeysTypeOK, RecordsOK, AuditNamesItsKey, Exists,
     Records
<1> QED
  BY <1>2, <1>3, <1>6, <1>7, <1>8 DEF GateInv, TypeOK, GateTypes

\* The gate starts in the invariant.
LEMMA GateInit == Init => GateInv
<1> SUFFICES ASSUME Init
             PROVE  GateInv
  OBVIOUS
<1> USE ApiKeysAssumption, SettingsAssumption, GateAssumption
<1>1. SettingsTypeOK
  BY DEF Init, SettingsInit, SettingsTypeOK, Effective
<1>2. GateTypes /\ retentions \subseteq Allowed[Retention]
  <2>1. KeysTypeOK
    BY DEF Init, KeysInit, KeysTypeOK
  <2>2. /\ pc \in [Requests -> Locations]
        /\ presented \in [Requests -> Keys \cup {NoKey, BadKey}]
        /\ keyID \in [Requests -> Keys \cup {NoKey}]
        /\ result \in [Requests -> Statuses \cup {0}]
    BY DEF Init, RequestsInit, Locations
  <2>3. today \in 1 .. MaxDay
    BY DEF Init
  <2>4. due \in BOOLEAN /\ cutoff = 0 /\ retentions = {}
    BY DEF Init
  <2> QED
    BY <2>1, <2>2, <2>3, <2>4 DEF GateTypes
<1>3. EditsOK /\ RequestsOK /\ RecordsOK /\ RetentionsOK /\ AuditNamesItsKey
  BY DEF Init, KeysInit, SettingsInit, RequestsInit, EditsOK, RequestsOK, RecordsOK,
     RetentionsOK, AuditNamesItsKey
<1> QED
  BY <1>1, <1>2, <1>3 DEF GateInv, TypeOK, GateTypes

\* Every step of the gate keeps its invariant.
LEMMA GateNext == GateInv /\ [Next]_vars => GateInv'
<1> SUFFICES ASSUME GateInv, [Next]_vars
             PROVE  GateInv'
  OBVIOUS
<1>1. CASE Next
  BY <1>1, RequestKeeps, OthersKeep, KeysKeep, RestartKeeps DEF Next, Move, AdminMove
<1>2. CASE UNCHANGED vars
  BY <1>2 DEF vars, keyVars, settingsVars, requestVars, cleanupVars, GateInv, TypeOK, KeysTypeOK,
     SettingsTypeOK, EditsOK, RequestsOK, RecordsOK, RetentionsOK, AuditNamesItsKey, Exists,
     Effective
<1> QED
  BY <1>1, <1>2

\* The invariant holds in every state the gate can come to.
THEOREM GateInvAlways == Spec => []GateInv
  BY GateInit, GateNext, PTL DEF Spec

-----------------------------------------------------------------------------
(* The properties.                                                         *)

\* proxyOnly: every variable of the gate stays in its type.
THEOREM GateTypeCorrect == Spec => []TypeOK
<1>1. GateInv => TypeOK
  BY DEF GateInv
<1> QED
  BY <1>1, GateInvAlways, PTL

\* keys.go: however keys are deleted, a record names its own key or none.
THEOREM RecordsNameTheirKey == Spec => []AuditNamesItsKey
<1>1. GateInv => AuditNamesItsKey
  BY DEF GateInv
<1> QED
  BY <1>1, GateInvAlways, PTL

\* Only its record ends a request.
LEMMA OnlyRecordEnds ==
  ASSUME GateInv, Next, NEW r \in Requests, pc[r] # "done", pc'[r] = "done"
  PROVE  Record(r) \/ RecordFails(r)
<1>0. pc \in [Requests -> Locations]
  BY DEF GateInv, TypeOK
<1>1. ASSUME NEW q \in Requests, NEW k \in Keys \cup {NoKey, BadKey}, Arrive(q, k)
      PROVE  FALSE
  BY <1>0, <1>1 DEF Arrive, GoTo
<1>2. ASSUME NEW q \in Requests, RequestStep(q)
      PROVE  Record(r) \/ RecordFails(r)
  <2>1. q = r
    BY <1>0, <1>2 DEF RequestStep, Authenticate, Unauthorized, FindFails, Admit, RateLimited,
       Serve,
       Record, RecordFails, AnswerWith, Finish, GoTo
  <2> QED
    BY <1>0, <1>2, <2>1 DEF RequestStep, Authenticate, Unauthorized, FindFails, Admit,
       RateLimited,
       Serve, AnswerWith, GoTo
<1>3. ~(Cleanup \/ AdminMove \/ NextDay)
  BY <1>0 DEF Cleanup, ReadRetention, ReadRetentionFails, DeleteOlderThan, DeleteFails, AdminMove,
     NextDay, requestVars
<1>4. ~Restart
  BY <1>0 DEF Restart
<1> QED
  BY <1>1, <1>2, <1>3, <1>4 DEF Next, Move

\* Server.record: whoever is answered leaves a record, but for a failing statement
\* or the deletion of the key in between.
THEOREM AnsweredAreAudited == Spec => AnsweredIsAudited
<1>1. GateInv /\ [Next]_vars =>
        [\A r \in Requests :
           pc[r] # "done" /\ pc'[r] = "done" =>
             \/ /\ \A rec \in audit : rec.request # r
                /\ audit' = audit \cup {[request |-> r, key |-> keyID[r],
                                         status |-> result[r], at |-> today]}
             \/ keyID[r] # NoKey /\ key[keyID[r]] = "deleted"
             \/ failures' > failures]_vars
  <2> SUFFICES ASSUME GateInv, Next, NEW r \in Requests, pc[r] # "done", pc'[r] = "done"
               PROVE  \/ /\ \A rec \in audit : rec.request # r
                         /\ audit' = audit \cup {[request |-> r, key |-> keyID[r],
                                                  status |-> result[r], at |-> today]}
                      \/ keyID[r] # NoKey /\ key[keyID[r]] = "deleted"
                      \/ failures' > failures
    OBVIOUS
  <2>1. CASE RecordFails(r)
    <3>1. failures \in Nat /\ failures' = failures + 1
      BY <2>1, SettingsAssumption DEF RecordFails, Fail, GateInv, TypeOK, SettingsTypeOK
    <3> QED
      BY <3>1
  <2>2. CASE Record(r)
    <3>1. \A rec \in audit : rec.request # r
      BY DEF GateInv, RecordsOK
    <3>2. keyID[r] \in Keys => key[keyID[r]] \in {"active", "disabled", "deleted"}
      BY ApiKeysAssumption DEF GateInv, TypeOK, KeysTypeOK, RequestsOK
    <3>3. keyID[r] \in Keys \cup {NoKey}
      BY DEF GateInv, TypeOK
    <3>4. audit' = IF keyID[r] = NoKey \/ Exists(keyID[r]) THEN audit \cup {RecordOf(r)} ELSE audit
      BY <2>2 DEF Record, InsertAudit, RecordOf
    <3> QED
      BY <3>1, <3>2, <3>3, <3>4 DEF Exists, RecordOf
  <2> QED
    BY <2>1, <2>2, OnlyRecordEnds
<1> QED
  BY <1>1, GateInvAlways, PTL DEF Spec, AnsweredIsAudited

\* startCleanup: the log keeps what no retention lets go.
THEOREM RetentionsAreHonoured == Spec => RetentionHonoured
<1>1. GateInv /\ [Next]_vars =>
        [failures' = 0 =>
           \A rec \in audit :
             Kept(rec) \/ \E days \in retentions \cup {Effective(Retention)} :
                              rec.at + days < today]_vars
  <2> SUFFICES ASSUME GateInv, Next, failures' = 0, NEW rec \in audit
               PROVE  Kept(rec) \/ \E days \in retentions \cup {Effective(Retention)} :
                                       rec.at + days < today
    OBVIOUS
  <2>0. rec \in audit' => Kept(rec)
    BY DEF Kept
  <2>1. rec.at \in Nat /\ today \in Nat /\ failures \in Nat
    BY GateAssumption, SettingsAssumption DEF GateInv, TypeOK, KeysTypeOK, SettingsTypeOK, Records
  <2>2. Effective(Retention) \in Nat /\ cutoff \in Nat /\ Default[Retention] \in Nat
    BY EffectiveType, GateAssumption, SettingsAssumption DEF GateInv, TypeOK
  <2>3. ASSUME NEW days \in Nat, DeleteAuditBefore(Before(days)), rec \notin audit'
        PROVE  rec.at + days < today
    BY <2>1, <2>3 DEF DeleteAuditBefore, Before
  <2>4. ASSUME NEW r \in Requests, (\E k \in Keys \cup {NoKey, BadKey} : Arrive(r, k)) \/ RequestStep(r)
        PROVE  rec \in audit'
    BY <2>4 DEF Arrive, RequestStep, Authenticate, Unauthorized, FindFails, Admit, RateLimited,
       Serve,
       Record, RecordFails, InsertAudit, keyVars
  <2>5. ASSUME Cleanup
        PROVE  rec \in audit' \/ \E days \in retentions : rec.at + days < today
    <3>1. CASE DeleteOlderThan
      <4>1. failures = 0
        BY <3>1, <2>1 DEF DeleteOlderThan, settingsVars
      <4>2. cutoff \in retentions
        BY <3>1, <4>1 DEF DeleteOlderThan, GateInv, RetentionsOK
      <4> QED
        BY <2>2, <2>3, <3>1, <4>2 DEF DeleteOlderThan
    <3>2. CASE ReadRetention \/ ReadRetentionFails \/ DeleteFails
      BY <3>2 DEF ReadRetention, ReadRetentionFails, DeleteFails, keyVars
    <3> QED
      BY <2>5, <3>1, <3>2 DEF Cleanup
  <2>6. ASSUME KeyAdmin
        PROVE  Kept(rec)
    <3>1. ASSUME NEW S \in SUBSET Keys, DeleteAPIKeys(S)
          PROVE  Kept(rec)
      <4> DEFINE without == [rec EXCEPT !.key = IF @ \in S THEN NoKey ELSE @]
      <4>1. without \in audit'
        BY <3>1 DEF DeleteAPIKeys
      <4>2. rec \in Records
        BY DEF GateInv, TypeOK, KeysTypeOK
      <4>3. without.request = rec.request
        BY <4>2 DEF Records
      <4> QED
        BY <4>1, <4>3 DEF Kept
    <3> QED
      BY <2>0, <2>6, <3>1 DEF KeyAdmin, CreateAPIKey, SetAPIKeysEnabled
  <2>7. (\E a \in Editors : Edit(a)) /\ UNCHANGED keyVars => rec \in audit'
    BY DEF keyVars
  <2>8. NextDay => rec \in audit'
    BY DEF NextDay, keyVars
  <2>9. ASSUME Restart
        PROVE  rec \in audit' \/ rec.at + Effective(Retention) < today
    <3>1. ~(failures' > failures)
      BY <2>1
    <3> QED
      BY <2>2, <2>3, <2>9, <3>1 DEF Restart
  <2> QED
    BY <2>0, <2>4, <2>5, <2>6, <2>7, <2>8, <2>9 DEF Next, Move, AdminMove
<1> QED
  BY <1>1, GateInvAlways, PTL DEF Spec, RetentionHonoured

\* Only authentication lets a request on to be limited and served, and no step
\* gives it another key afterwards.
LEMMA OnlyAuthenticateAdmits ==
  ASSUME GateInv, Next, NEW r \in Requests, pc'[r] \in {"limit", "serve"}
  PROVE  \/ Authenticate(r)
         \/ pc[r] \in {"limit", "serve"} /\ keyID'[r] = keyID[r]
<1>0. pc \in [Requests -> Locations] /\ keyID \in [Requests -> Keys \cup {NoKey}]
  BY DEF GateInv, TypeOK
<1>1. ASSUME NEW q \in Requests, NEW k \in Keys \cup {NoKey, BadKey}, Arrive(q, k)
      PROVE  pc[r] \in {"limit", "serve"} /\ keyID'[r] = keyID[r]
  BY <1>0, <1>1 DEF Arrive, GoTo
<1>2. ASSUME NEW q \in Requests, RequestStep(q), ~Authenticate(r)
      PROVE  pc[r] \in {"limit", "serve"} /\ keyID'[r] = keyID[r]
  <2>1. CASE Authenticate(q)
    <3>1. q # r
      BY <1>2, <2>1
    <3> QED
      BY <1>0, <2>1, <3>1 DEF Authenticate, GoTo
  <2>2. CASE ~Authenticate(q)
    BY <1>0, <1>2, <2>2 DEF RequestStep, Unauthorized, FindFails, Admit, RateLimited, Serve,
       Record, RecordFails, AnswerWith, Finish, GoTo
  <2> QED
    BY <2>1, <2>2
<1>3. Cleanup \/ AdminMove \/ NextDay => pc' = pc /\ keyID' = keyID
  BY DEF Cleanup, ReadRetention, ReadRetentionFails, DeleteOlderThan, DeleteFails, AdminMove,
     NextDay, requestVars
<1>4. ~Restart
  BY <1>0 DEF Restart
<1> QED
  BY <1>1, <1>2, <1>3, <1>4 DEF Next, Move

\* proxyOnly: after a key was disabled or deleted, nobody else is let in with it.
THEOREM RevokedKeysDrain == Spec => RevokedKeyDrains
<1>1. GateInv /\ [Next]_vars =>
        [\A k \in Keys : key[k] # "active" => Using(k)' \subseteq Using(k)]_vars
  <2> SUFFICES ASSUME GateInv, Next, NEW k \in Keys, key[k] # "active",
                      NEW r \in Requests, keyID'[r] = k, pc'[r] \in {"limit", "serve"}
               PROVE  keyID[r] = k /\ pc[r] \in {"limit", "serve"}
    BY DEF Using
  <2>1. ~Authenticate(r)
    BY ApiKeysAssumption DEF Authenticate, FindActiveAPIKeyByHash, GateInv, TypeOK, RequestsOK
  <2> QED
    BY <2>1, OnlyAuthenticateAdmits
<1> QED
  BY <1>1, GateInvAlways, PTL DEF Spec, RevokedKeyDrains

-----------------------------------------------------------------------------
(* One editor at a time.                                                   *)

\* A step that leaves the settings alone leaves them in agreement.
LEMMA AgreeStays ==
  ASSUME AgreeInv, UNCHANGED <<stored, live, edit, unapplied, torn>>
  PROVE  AgreeInv'
<1>1. \A b : Field(b)' = Field(b) /\ Value(b)' = Value(b)
  BY DEF Field, Value
<1> QED
  BY <1>1 DEF AgreeInv, Changing, Effective

\* With one editor, what it saved is what it applies.
LEMMA AgreeKeeps ==
  ASSUME NEW a, Editors = {a}, SettingsTypeOK, EditsOK, AgreeInv, SettingsStep
  PROVE  AgreeInv'
<1>1. unapplied \subseteq {a} /\ DOMAIN stored = Names /\ DOMAIN live = Names
  BY DEF SettingsTypeOK
<1>2. /\ \A b \in unapplied : stored[Field(b)] = Value(b)
      /\ \A n \in Names : Changing(n) \/ n \in torn \/ live[n] = Effective(n)
  BY DEF AgreeInv
<1>3. edit[a] # NoEdit => Field(a) \in Names /\ Value(a) \in Allowed[Field(a)] /\ Value(a) # Unset
  BY FieldFacts, SettingsAssumption
<1>4. ASSUME NEW f \in Inputs, Submit(a, f)
      PROVE  AgreeInv'
  <2>1. unapplied = {} /\ unapplied' = {} /\ UNCHANGED <<stored, live, torn>>
    BY <1>1, <1>4 DEF Submit, EditsOK
  <2> QED
    BY <1>2, <2>1 DEF AgreeInv, Changing, Effective
<1>5. ASSUME SaveSettingInt(a)
      PROVE  AgreeInv'
  <2>1. /\ unapplied = {} /\ unapplied' = {a} /\ edit' = edit /\ live' = live /\ torn' = torn
        /\ edit[a] # NoEdit /\ stored' = [stored EXCEPT ![Field(a)] = Value(a)]
    BY <1>1, <1>5 DEF SaveSettingInt, Saved
  <2>2. Field(a)' = Field(a) /\ Value(a)' = Value(a)
    BY <2>1 DEF Field, Value
  <2>3. \A n \in Names : stored'[n] = IF n = Field(a) THEN Value(a) ELSE stored[n]
    BY <1>1, <2>1
  <2>4. \A n \in Names : n \in torn \/ live[n] = Effective(n)
    BY <1>2, <2>1 DEF Changing
  <2>5. \A n \in Names : Changing(n)' \/ n \in torn' \/ live'[n] = Effective(n)'
    BY <2>1, <2>2, <2>3, <2>4 DEF Changing, Effective
  <2>6. stored'[Field(a)'] = Value(a)'
    BY <1>3, <2>1, <2>2, <2>3
  <2> QED
    BY <2>1, <2>5, <2>6 DEF AgreeInv
<1>6. ASSUME Apply(a)
      PROVE  AgreeInv'
  <2>1. /\ a \in unapplied /\ unapplied' = {} /\ stored' = stored /\ torn' = torn \ {Field(a)}
        /\ edit[a] # NoEdit /\ live' = [live EXCEPT ![Field(a)] = Value(a)]
    BY <1>1, <1>6 DEF Apply, EditsOK
  <2>2. \A n \in Names : live'[n] = IF n = Field(a) THEN Value(a) ELSE live[n]
    BY <1>1, <2>1
  <2>3. Effective(Field(a)) = Value(a)
    BY <1>2, <1>3, <2>1 DEF Effective
  <2>4. \A n \in Names \ {Field(a)} : n \in torn \/ live[n] = Effective(n)
    BY <1>1, <1>2, <2>1 DEF Changing
  <2>5. \A n \in Names : n \in torn' \/ live'[n] = Effective(n)'
    BY <2>1, <2>2, <2>3, <2>4 DEF Effective
  <2> QED
    BY <2>1, <2>5 DEF AgreeInv
<1>7. ASSUME SaveFails(a)
      PROVE  AgreeInv'
  <2>1. unapplied = {} /\ unapplied' = {} /\ live' = live /\ edit[a] # NoEdit
    BY <1>1, <1>7 DEF SaveFails
  <2>2. \A n \in Names : n \in torn \/ live[n] = Effective(n)
    BY <1>2, <2>1 DEF Changing
  <2>3. CASE UNCHANGED <<stored, torn>>
    BY <2>1, <2>2, <2>3 DEF AgreeInv, Effective
  <2>4. CASE /\ stored' = Saved(a)
             /\ torn' = IF live[Field(a)] = Value(a) THEN torn \ {Field(a)}
                        ELSE torn \cup {Field(a)}
    <3>1. \A n \in Names : stored'[n] = IF n = Field(a) THEN Value(a) ELSE stored[n]
      BY <1>1, <2>4 DEF Saved
    <3>2. \A n \in Names : n \in torn' \/ live'[n] = Effective(n)'
      BY <1>3, <2>1, <2>2, <2>4, <3>1 DEF Effective
    <3> QED
      BY <2>1, <3>2 DEF AgreeInv
  <2> QED
    BY <1>7, <2>3, <2>4 DEF SaveFails
<1>8. ASSUME Reload
      PROVE  AgreeInv'
  <2>1. unapplied' = {} /\ stored' = stored
    BY <1>8 DEF Reload
  <2>2. \A n \in Names : n \in torn' \/ live'[n] = Effective(n)
    BY <1>8 DEF Reload, ApplyStored
  <2> QED
    BY <2>1, <2>2 DEF AgreeInv, Effective
<1>9. ASSUME UNCHANGED settingsVars
      PROVE  AgreeInv'
  BY <1>9, AgreeStays DEF settingsVars
<1> QED
  BY <1>4, <1>5, <1>6, <1>7, <1>8, <1>9 DEF SettingsStep, Edit

\* Every step of the gate is one of its settings, or leaves them alone.
LEMMA SettingsSeen ==
  ASSUME [Next]_vars
  PROVE  SettingsStep \/ UNCHANGED <<stored, live, edit, unapplied, torn>>
<1>3. ASSUME NEW r \in Requests, (\E k \in Keys \cup {NoKey, BadKey} : Arrive(r, k)) \/ RequestStep(r)
      PROVE  UNCHANGED <<stored, live, edit, unapplied, torn>>
  BY <1>3 DEF Arrive, RequestStep, Authenticate, Unauthorized, FindFails, Admit, RateLimited,
     Serve, Record, RecordFails, settingsVars
<1>4. Cleanup \/ NextDay => UNCHANGED <<stored, live, edit, unapplied, torn>>
  BY DEF Cleanup, ReadRetention, ReadRetentionFails, DeleteOlderThan, DeleteFails, NextDay,
     settingsVars
<1>5. AdminMove => SettingsStep
  BY DEF AdminMove, SettingsStep
<1>6. Restart => SettingsStep
  BY DEF Restart, SettingsStep
<1>7. UNCHANGED vars => SettingsStep
  BY DEF vars, SettingsStep
<1> QED
  BY <1>3, <1>4, <1>5, <1>6, <1>7 DEF Next, Move

\* With one editor the server always works with the values of the table and with what
\* is being applied or was torn.
LEMMA AgreeAlways ==
  ASSUME NEW CONSTANT a, Editors = {a}
  PROVE  Spec => []AgreeInv
<1>1. Init => AgreeInv
  BY DEF Init, SettingsInit, AgreeInv, Effective
<1>2. GateInv /\ AgreeInv /\ [Next]_vars => AgreeInv'
  <2> SUFFICES ASSUME GateInv, AgreeInv, [Next]_vars
               PROVE  AgreeInv'
    OBVIOUS
  <2>1. SettingsTypeOK /\ EditsOK
    BY DEF GateInv, TypeOK
  <2>2. CASE SettingsStep
    BY <2>1, <2>2, AgreeKeeps
  <2>3. CASE UNCHANGED <<stored, live, edit, unapplied, torn>>
    BY <2>3, AgreeStays
  <2> QED
    BY <2>2, <2>3, SettingsSeen
<1> QED
  BY <1>1, <1>2, GateInvAlways, PTL DEF Spec

\* updateSettings: while one administrator saves at a time, the server works with the
\* values of the table, but for a setting just saved and one that a failure of its own
\* save or of reading it has torn.
THEOREM OneEditorAgrees ==
  ASSUME NEW CONSTANT a, Editors = {a}
  PROVE  Spec => []ServerAgreesWithTable
<1>1. AgreeInv => ServerAgreesWithTable
  BY DEF AgreeInv, ServerAgreesWithTable
<1> QED
  BY <1>1, AgreeAlways, PTL

\* proxyOnly: then requests without a key are served only when the table allows it or
\* is just being changed, or after a save of that very setting failed although it took
\* effect; whatever else fails, none is let in.
THEOREM OneEditorAnonymous ==
  ASSUME NEW CONSTANT a, Editors = {a}
  PROVE  Spec => AnonymousOnlyWhenAllowed
<1>1. GateInv /\ ServerAgreesWithTable /\ [Next]_vars =>
        [\A r \in Requests :
           pc[r] = "find" /\ pc'[r] = "limit" /\ keyID'[r] = NoKey =>
             /\ presented[r] = NoKey
             /\ Anonymous \in torn \/ Changing(Anonymous) \/ Effective(Anonymous) = 1]_vars
  <2> SUFFICES ASSUME GateInv, ServerAgreesWithTable, Next, NEW r \in Requests,
                      pc[r] = "find", pc'[r] = "limit", keyID'[r] = NoKey
               PROVE  /\ presented[r] = NoKey
                      /\ Anonymous \in torn \/ Changing(Anonymous) \/ Effective(Anonymous) = 1
    OBVIOUS
  <2>1. Authenticate(r)
    BY OnlyAuthenticateAdmits
  <2>2. keyID \in [Requests -> Keys \cup {NoKey}]
    BY DEF GateInv, TypeOK
  <2>3. presented[r] = NoKey /\ live[Anonymous] = 1
    BY <2>1, <2>2, ApiKeysAssumption DEF Authenticate, FindActiveAPIKeyByHash
  <2>4. Anonymous \in torn \/ Changing(Anonymous) \/ live[Anonymous] = Effective(Anonymous)
    BY GateAssumption DEF ServerAgreesWithTable
  <2> QED
    BY <2>3, <2>4
<1> QED
  BY <1>1, OneEditorAgrees, GateInvAlways, PTL DEF Spec, AnonymousOnlyWhenAllowed

=============================================================================
