------------------------------ MODULE ProxyGate ------------------------------
(***************************************************************************)
(* Server.proxyOnly, the way of a proxied request from the API key it      *)
(* presents to the audit record it leaves, over the key and audit tables,  *)
(* the online settings and the daily cleanup of the audit log (startCleanup*)
(* in main.go).  One server process.                                       *)
(*                                                                         *)
(* Rate limiting is RateLimit's subject and may refuse any request here;   *)
(* ServeForSubject is ProxyPool's and answers with any status.  Time is    *)
(* counted in days.                                                        *)
(***************************************************************************)
EXTENDS ApiKeys, Settings

CONSTANTS
  BadKey,   \* a key the table never had
  Served,   \* statuses ServeForSubject answers with
  MaxDay    \* bound: the clock stops on this day

Anonymous == "allow_anonymous_proxy"
Retention == "log_retention_days"

ASSUME GateAssumption ==
  /\ {Anonymous, Retention} \subseteq Names
  /\ Allowed[Anonymous] = {0, 1} /\ Default[Anonymous] = 0
  /\ BadKey \notin Keys \cup {NoKey}
  /\ Statuses = Served \cup {401, 429}
  /\ MaxDay \in Nat \ {0}

VARIABLES
  today,
  pc,         \* where each request is
  presented,  \* the key it comes with, NoKey once it was looked up
  keyID,      \* the key it was authenticated as, NoKey for none
  result,     \* the status it is answered with, 0 before and after
  due,        \* the ticker of the cleanup has fired
  cutoff,     \* the retention the cleanup has read, 0 when it is not running
  retentions  \* history: the retentions the table had since a cleanup was due

requestVars == <<pc, presented, keyID, result>>
cleanupVars == <<due, cutoff>>
vars == <<keyVars, settingsVars, requestVars, cleanupVars, today, retentions>>

Locations == {"new", "find", "limit", "serve", "record", "done", "lost"}

RequestsInit ==
  /\ pc = [r \in Requests |-> "new"]
  /\ presented = [r \in Requests |-> NoKey]
  /\ keyID = [r \in Requests |-> NoKey]
  /\ result = [r \in Requests |-> 0]

Init ==
  /\ KeysInit /\ SettingsInit /\ RequestsInit
  /\ today = 1 /\ due = FALSE /\ cutoff = 0
  /\ retentions = {}

GoTo(r, l) == pc' = [pc EXCEPT ![r] = l]

\* The answer is written; the audit record comes next.
AnswerWith(r, status) ==
  /\ GoTo(r, "record")
  /\ result' = [result EXCEPT ![r] = status]

-----------------------------------------------------------------------------
(* proxyOnly.                                                              *)

\* The key comes in a header, in the query or in the path.
Arrive(r, k) ==
  /\ pc[r] = "new"
  /\ GoTo(r, "find")
  /\ presented' = [presented EXCEPT ![r] = k]
  /\ UNCHANGED <<keyID, result, keyVars, settingsVars, cleanupVars, today>>

Authenticate(r) ==
  /\ pc[r] = "find"
  /\ \/ /\ FindActiveAPIKeyByHash(presented[r])
        /\ keyID' = [keyID EXCEPT ![r] = presented[r]]
     \/ /\ presented[r] = NoKey /\ live[Anonymous] = 1
        /\ UNCHANGED keyID
  /\ GoTo(r, "limit")
  /\ presented' = [presented EXCEPT ![r] = NoKey]
  /\ UNCHANGED <<result, keyVars, settingsVars, cleanupVars, today>>

\* Mutant: a request that is turned away leaves no record.
Unauthorized_Unrecorded(r) ==
  /\ pc[r] = "find"
  /\ ~ FindActiveAPIKeyByHash(presented[r])
  /\ ~ (presented[r] = NoKey /\ live[Anonymous] = 1)
  /\ GoTo(r, "done")
  /\ presented' = [presented EXCEPT ![r] = NoKey]
  /\ UNCHANGED <<keyID, result, keyVars, settingsVars, cleanupVars, today>>

Unauthorized(r) ==
  /\ pc[r] = "find"
  /\ ~ FindActiveAPIKeyByHash(presented[r])
  /\ ~ (presented[r] = NoKey /\ live[Anonymous] = 1)
  /\ AnswerWith(r, 401)
  /\ presented' = [presented EXCEPT ![r] = NoKey]
  /\ UNCHANGED <<keyID, keyVars, settingsVars, cleanupVars, today>>

\* Mutant: a key that cannot be looked up is taken for no key.
FindFails_Anonymous(r) ==
  /\ pc[r] = "find"
  /\ Fail
  /\ GoTo(r, "limit")
  /\ presented' = [presented EXCEPT ![r] = NoKey]
  /\ UNCHANGED <<keyID, result, keyVars, stored, live, edit, unapplied, torn,
                 cleanupVars, today>>

\* Any other error than a missing row is a 401 too, with a key or without.
FindFails(r) ==
  /\ pc[r] = "find"
  /\ Fail
  /\ AnswerWith(r, 401)
  /\ presented' = [presented EXCEPT ![r] = NoKey]
  /\ UNCHANGED <<keyID, keyVars, stored, live, edit, unapplied, torn,
                 cleanupVars, today>>

\* The key is marked as used; an error of that is ignored.
Admit(r) ==
  /\ pc[r] = "limit"
  /\ GoTo(r, "serve")
  /\ UNCHANGED <<presented, keyID, result, keyVars, settingsVars, cleanupVars, today>>

RateLimited(r) ==
  /\ pc[r] = "limit"
  /\ AnswerWith(r, 429)
  /\ UNCHANGED <<presented, keyID, keyVars, settingsVars, cleanupVars, today>>

\* Mutant: the status a handler does not write is recorded as 0.
Serve_NoStatus(r, status) ==
  /\ pc[r] = "serve"
  /\ AnswerWith(r, IF status = 200 THEN 0 ELSE status)
  /\ UNCHANGED <<presented, keyID, keyVars, settingsVars, cleanupVars, today>>

Serve(r, status) ==
  /\ pc[r] = "serve"
  /\ AnswerWith(r, status)
  /\ UNCHANGED <<presented, keyID, keyVars, settingsVars, cleanupVars, today>>

\* The answer is not needed any more.
Finish(r) ==
  /\ GoTo(r, "done")
  /\ result' = [result EXCEPT ![r] = 0]

RecordOf(r) == [request |-> r, key |-> keyID[r], status |-> result[r], at |-> today]

\* Server.record, with a context the client cannot cancel.
Record(r) ==
  /\ pc[r] = "record"
  /\ InsertAudit(RecordOf(r))
  /\ Finish(r)
  /\ UNCHANGED <<key, presented, keyID, settingsVars, cleanupVars, today>>

RecordFails(r) ==
  /\ pc[r] = "record"
  /\ Fail
  /\ Finish(r)
  /\ UNCHANGED <<keyVars, presented, keyID, stored, live, edit, unapplied, torn,
                 cleanupVars, today>>

RequestStep(r) ==
  \/ Authenticate(r) \/ Unauthorized(r) \/ FindFails(r) \/ Admit(r) \/ RateLimited(r)
  \/ (\E status \in Served : Serve(r, status))
  \/ Record(r) \/ RecordFails(r)

-----------------------------------------------------------------------------
(* startCleanup.                                                           *)

\* Mutant: the cleanup takes the default, not what is stored.
ReadRetention_Default ==
  /\ due /\ cutoff = 0
  /\ due' = FALSE
  /\ cutoff' = Default[Retention]
  /\ UNCHANGED <<keyVars, settingsVars, requestVars, today>>

ReadRetention ==
  /\ due /\ cutoff = 0
  /\ due' = FALSE
  /\ cutoff' = Effective(Retention)
  /\ UNCHANGED <<keyVars, settingsVars, requestVars, today>>

\* A retention that cannot be read is the default.
ReadRetentionFails ==
  /\ due /\ cutoff = 0
  /\ Fail
  /\ due' = FALSE
  /\ cutoff' = Default[Retention]
  /\ UNCHANGED <<keyVars, stored, live, edit, unapplied, torn, requestVars, today>>

\* Days since day 1 are natural numbers: nothing is older than the first.
Before(days) == IF today > days THEN today - days ELSE 0

DeleteOlderThan ==
  /\ cutoff # 0
  /\ DeleteAuditBefore(Before(cutoff))
  /\ cutoff' = 0
  /\ UNCHANGED <<key, settingsVars, requestVars, due, today>>

DeleteFails ==
  /\ cutoff # 0
  /\ Fail
  /\ cutoff' = 0
  /\ UNCHANGED <<keyVars, stored, live, edit, unapplied, torn, requestVars, due, today>>

Cleanup == ReadRetention \/ ReadRetentionFails \/ DeleteOlderThan \/ DeleteFails

\* A day passes, and the ticker fires; a tick nobody took is dropped.
NextDay ==
  /\ today < MaxDay
  /\ today' = today + 1
  /\ due' = TRUE
  /\ UNCHANGED <<keyVars, settingsVars, requestVars, cutoff>>

\* Requests are cut off where they are; the first cleanup is run before the
\* server listens.
Restart ==
  /\ Reload
  /\ pc' = [r \in Requests |-> IF pc[r] \in {"new", "done"} THEN pc[r] ELSE "lost"]
  /\ presented' = [r \in Requests |-> NoKey]
  /\ keyID' = [r \in Requests |-> IF pc'[r] = "lost" THEN NoKey ELSE keyID[r]]
  /\ result' = [r \in Requests |-> 0]
  /\ \/ DeleteAuditBefore(Before(Effective(Retention)))
     \/ /\ failures' > failures
        /\ DeleteAuditBefore(Before(Default[Retention])) \/ UNCHANGED audit
  /\ due' = FALSE /\ cutoff' = 0
  /\ UNCHANGED <<key, today>>

AdminMove ==
  \/ KeyAdmin /\ UNCHANGED <<settingsVars, requestVars, cleanupVars, today>>
  \/ (\E a \in Editors : Edit(a)) /\ UNCHANGED <<keyVars, requestVars, cleanupVars, today>>

Move ==
  \/ \E r \in Requests :
       \/ \E k \in Keys \cup {NoKey, BadKey} : Arrive(r, k)
       \/ RequestStep(r)
  \/ Cleanup
  \/ AdminMove
  \/ NextDay
  \/ Restart

Observe ==
  retentions' = IF due' \/ cutoff' # 0 THEN retentions \cup {Effective(Retention)'} ELSE {}

Next == Move /\ Observe

Spec == Init /\ [][Next]_vars

-----------------------------------------------------------------------------
(* Properties.                                                             *)

TypeOK ==
  /\ KeysTypeOK /\ SettingsTypeOK
  /\ today \in 1 .. MaxDay
  /\ pc \in [Requests -> Locations]
  /\ presented \in [Requests -> Keys \cup {NoKey, BadKey}]
  /\ keyID \in [Requests -> Keys \cup {NoKey}]
  /\ result \in [Requests -> Statuses \cup {0}]
  /\ due \in BOOLEAN
  /\ cutoff \in Allowed[Retention] \cup {0}
  /\ retentions \subseteq Allowed[Retention]

\* README.md:3, "audit log": every request that is answered, turned away or
\* served, leaves one record, of its key and of its status.  Only a statement
\* that fails loses it, or the deletion of its key while it was in progress.
AnsweredIsAudited ==
  [][\A r \in Requests :
       pc[r] # "done" /\ pc'[r] = "done" =>
         \/ /\ \A rec \in audit : rec.request # r
            /\ audit' = audit \cup {[request |-> r, key |-> keyID[r],
                                     status |-> result[r], at |-> today]}
         \/ keyID[r] # NoKey /\ key[keyID[r]] = "deleted"
         \/ failures' > failures]_vars

\* A record names the key of its request until that key is deleted, and then
\* none (keys.go:131): whatever batches of keys administrators delete, audit
\* history is attributed to nobody else and to no key that is gone.
AuditNamesItsKey ==
  \A rec \in audit :
    \/ rec.key = keyID[rec.request] /\ (rec.key = NoKey \/ Exists(rec.key))
    \/ rec.key = NoKey /\ key[keyID[rec.request]] = "deleted"

Kept(rec) == \E kept \in audit' : kept.request = rec.request

\* SettingsPage.tsx:28, "audit logs exceeding the number of days are cleaned":
\* a record is lost only to the cleanup, and only when it is older than a
\* retention that was in the table since the cleanup was due.  It is not when
\* the cleanup fails to read the table, and takes 30 days.
RetentionHonoured ==
  [][failures' = 0 =>
       \A rec \in audit :
         Kept(rec) \/ \E days \in retentions \cup {Effective(Retention)} :
                          rec.at + days < today]_vars

\* The requests that go on to be served with key k.
Using(k) == {r \in Requests : keyID[r] = k /\ pc[r] \in {"limit", "serve"}}

\* README.md:83, "invalid or disabled keys return 401": once a key is disabled
\* or deleted, only requests that had been let in with it go on.
RevokedKeyDrains ==
  [][\A k \in Keys : key[k] # "active" => Using(k)' \subseteq Using(k)]_vars

\* README.md:7, requests without a key are served only when an administrator
\* has allowed it: the table says so, or is just being changed; and a request
\* that comes with a key is never served without one.  The one exception is a save of
\* this very setting that failed after it took effect: the administrator is told of
\* an error, the table forbids it, and the server goes on serving such requests until
\* the setting is saved again or the server starts again.  No other failure lets one
\* in.  One administrator edits the settings.
AnonymousOnlyWhenAllowed ==
  [][\A r \in Requests :
       pc[r] = "find" /\ pc'[r] = "limit" /\ keyID'[r] = NoKey =>
         /\ presented[r] = NoKey
         /\ Anonymous \in torn \/ Changing(Anonymous) \/ Effective(Anonymous) = 1]_vars
=============================================================================
