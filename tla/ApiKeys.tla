------------------------------ MODULE ApiKeys ------------------------------
(***************************************************************************)
(* The api_keys and audit_logs tables (internal/store/keys.go, audit.go)   *)
(* with the foreign key between them, and the operations on them.  A       *)
(* statement or transaction of SQLite is atomic; one that fails is rolled  *)
(* back and is a stuttering step.  Names, prefixes, hashes and dates are   *)
(* left out (last_used_at, which is only shown, with MarkAPIKeyUsed): a    *)
(* key is presented as itself.  An audit record keeps its request, key,    *)
(* status and day.                                                         *)
(***************************************************************************)
EXTENDS Naturals, FiniteSets

CONSTANTS
  Keys,      \* every API key that can ever be created
  NoKey,     \* no key: NULL, or a request without one
  Requests,  \* the proxied requests
  Statuses   \* what can be recorded as their status

ASSUME ApiKeysAssumption == IsFiniteSet(Keys) /\ NoKey \notin Keys

VARIABLES
  key,       \* the row of each key: "unborn", "active", "disabled", "deleted"
  audit      \* the rows of audit_logs

keyVars == <<key, audit>>

Records == [request : Requests, key : Keys \cup {NoKey}, status : Statuses, at : Nat]

Exists(k) == key[k] \in {"active", "disabled"}

KeysTypeOK ==
  /\ key \in [Keys -> {"unborn", "active", "disabled", "deleted"}]
  /\ audit \subseteq Records

\* The table an earlier run of the server left.
KeysInit ==
  /\ key \in [Keys -> {"unborn", "active", "disabled"}]
  /\ audit = {}

-----------------------------------------------------------------------------
(* Administration.                                                         *)

CreateAPIKey(k) ==
  /\ key[k] = "unborn"
  /\ key' = [key EXCEPT ![k] = "active"]
  /\ UNCHANGED audit

\* Both the single and the batch operation: all of the keys, or none if one of
\* them is gone.  A key that is disabled already keeps its date.
SetAPIKeysEnabled(S, enabled) ==
  /\ S # {} /\ \A k \in S : Exists(k)
  /\ key' = [k \in Keys |-> IF k \in S THEN IF enabled THEN "active" ELSE "disabled"
                            ELSE key[k]]
  /\ UNCHANGED audit

\* Mutant: the UPDATE of the audit records has no WHERE.
DeleteAPIKeys_AnonymisesAll(S) ==
  /\ S # {} /\ \A k \in S : Exists(k)
  /\ audit' = {[rec EXCEPT !.key = NoKey] : rec \in audit}
  /\ key' = [k \in Keys |-> IF k \in S THEN "deleted" ELSE key[k]]

\* The audit records of the keys become anonymous, then the keys are deleted.
DeleteAPIKeys(S) ==
  /\ S # {} /\ \A k \in S : Exists(k)
  /\ audit' = {[rec EXCEPT !.key = IF @ \in S THEN NoKey ELSE @] : rec \in audit}
  /\ key' = [k \in Keys |-> IF k \in S THEN "deleted" ELSE key[k]]

KeyAdmin ==
  \/ \E k \in Keys : CreateAPIKey(k)
  \/ \E S \in SUBSET Keys :
       \/ \E enabled \in BOOLEAN : SetAPIKeysEnabled(S, enabled)
       \/ DeleteAPIKeys(S)

-----------------------------------------------------------------------------
(* What the proxy and the cleanup do with the tables.                      *)

\* Mutant: disabled keys are found too.
FindActiveAPIKeyByHash_AnyState(k) == k \in Keys /\ Exists(k)

FindActiveAPIKeyByHash(k) == k \in Keys /\ key[k] = "active"

\* The foreign key is enforced; Server.record ignores the error.
InsertAudit(rec) ==
  audit' = IF rec.key = NoKey \/ Exists(rec.key) THEN audit \cup {rec} ELSE audit

DeleteAuditBefore(day) == audit' = {rec \in audit : rec.at >= day}
=============================================================================
