---------------------------- MODULE CursorTokens ----------------------------
(***************************************************************************)
(* The cursor_tokens table (internal/store/cursor_tokens.go) and the admin *)
(* operations tokenpool.Pool performs on it: Add, Delete, SetEnabled.      *)
(*                                                                         *)
(* A SQL statement is atomic.  Delete and SetEnabled(false) are two        *)
(* statements each, a SELECT of the active tokens and an UPDATE or DELETE, *)
(* with nothing held in between: one action for each statement, the admin  *)
(* request remembering the decision it took.  A refused operation changes  *)
(* nothing and is a stuttering step.                                       *)
(*                                                                         *)
(* Ids are random, so Add may insert any id that was never used.           *)
(* Names, ciphertexts, dates and the masked value are left out.            *)
(***************************************************************************)
EXTENDS TokenIds

CONSTANT Admins  \* the admin requests that can be in progress at a time

VARIABLES
  status,     \* the row of each token: "unborn", "enabled", "disabled", "deleted"
  lastError,  \* column last_error: the failing upstream status, 0 for ''
  admin       \* the write each admin request has decided on and not yet done

tokenVars == <<status, lastError, admin>>

Idle == [op |-> "idle", id |-> None]
AdminOps == {"delete", "disable"}
ErrorStatuses == {401, 403, 429}

TokensTypeOK ==
  /\ status \in [Tokens -> {"unborn", "enabled", "disabled", "deleted"}]
  /\ lastError \in [Tokens -> ErrorStatuses \cup {0}]
  /\ admin \in [Admins -> {Idle} \cup [op : AdminOps, id : Tokens]]

\* An administrator names ids the console has listed; any other has no row.
Known == {t \in Tokens : status[t] # "unborn"}

Exists(t) == status[t] \in {"enabled", "disabled"}

\* ActiveCursorTokens: WHERE enabled = 1 AND disabled_at IS NULL.
Active == {t \in Tokens : status[t] = "enabled"}

\* Pool.Bootstrap, at every start: the configured token is added to a pool that
\* has no row, enabled or not.
Bootstrap ==
  IF \E t \in Tokens : Exists(t) THEN UNCHANGED status
  ELSE \E t \in Tokens :
         /\ status[t] = "unborn"
         /\ status' = [status EXCEPT ![t] = "enabled"]

\* The table an earlier run of the server left, after Bootstrap.
TokensInit ==
  /\ status \in [Tokens -> {"unborn", "enabled", "disabled"}]
  /\ \E t \in Tokens : Exists(t)
  /\ lastError = [t \in Tokens |-> 0]
  /\ admin = [a \in Admins |-> Idle]

-----------------------------------------------------------------------------
(* The operations of tokenpool.Pool on the table.                          *)

\* Pool.Add: validation and encryption change nothing, then one INSERT.
Add(a, t) ==
  /\ admin[a] = Idle
  /\ status[t] = "unborn"
  /\ status' = [status EXCEPT ![t] = "enabled"]
  /\ UNCHANGED <<lastError, admin>>

\* Pool.Delete, first statement: refused for the only active token.
CheckDelete(a, t) ==
  /\ admin[a] = Idle
  /\ ~ (t \in Active /\ Cardinality(Active) <= 1)
  /\ admin' = [admin EXCEPT ![a] = [op |-> "delete", id |-> t]]
  /\ UNCHANGED <<status, lastError>>

\* Pool.Delete, second statement: DELETE ... WHERE id = ?; no row, no effect.
CommitDelete(a) ==
  /\ admin[a].op = "delete"
  /\ status' = IF Exists(admin[a].id)
               THEN [status EXCEPT ![admin[a].id] = "deleted"]
               ELSE status
  /\ admin' = [admin EXCEPT ![a] = Idle]
  /\ UNCHANGED lastError

\* Mutant: off by one in SetEnabled's guard.
CheckDisable_OffByOne(a, t) ==
  /\ admin[a] = Idle
  /\ ~ (Cardinality(Active) < 1)
  /\ admin' = [admin EXCEPT ![a] = [op |-> "disable", id |-> t]]
  /\ UNCHANGED <<status, lastError>>

\* Pool.SetEnabled(id, false), first statement: refused when at most one token
\* is active, whichever token id is.
CheckDisable(a, t) ==
  /\ admin[a] = Idle
  /\ ~ (Cardinality(Active) <= 1)
  /\ admin' = [admin EXCEPT ![a] = [op |-> "disable", id |-> t]]
  /\ UNCHANGED <<status, lastError>>

CommitDisable(a) ==
  /\ admin[a].op = "disable"
  /\ status' = IF Exists(admin[a].id)
               THEN [status EXCEPT ![admin[a].id] = "disabled"]
               ELSE status
  /\ admin' = [admin EXCEPT ![a] = Idle]
  /\ UNCHANGED lastError

\* Pool.SetEnabled(id, true): a single UPDATE.
Enable(a, t) ==
  /\ admin[a] = Idle
  /\ status[t] = "disabled"
  /\ status' = [status EXCEPT ![t] = "enabled"]
  /\ UNCHANGED <<lastError, admin>>

AdminStep(a) ==
  \/ \E t \in Tokens : Add(a, t)
  \/ \E t \in Known : CheckDelete(a, t)
  \/ CommitDelete(a)
  \/ \E t \in Known : CheckDisable(a, t)
  \/ CommitDisable(a)
  \/ \E t \in Tokens : Enable(a, t)

AdminNext == \E a \in Admins : AdminStep(a)

TokensSpec == TokensInit /\ [][AdminNext]_tokenVars

-----------------------------------------------------------------------------
(* The bookkeeping the proxy asks for; an UPDATE of a deleted row is void. *)

MarkCursorTokenError(t, code) ==
  lastError' = IF Exists(t) THEN [lastError EXCEPT ![t] = code] ELSE lastError

MarkCursorTokenUsed(t) ==
  lastError' = IF Exists(t) THEN [lastError EXCEPT ![t] = 0] ELSE lastError

-----------------------------------------------------------------------------
(* Properties.                                                             *)

\* "at least one cursor token must remain enabled" (tokenpool/pool.go:126 and
\* :141): once a token is enabled, no delete or disable leaves the pool without
\* an enabled token.
OneRemainsEnabled == [][Active # {} => Active' # {}]_tokenVars

\* The guard of Delete and SetEnabled is not stale when the write it decided on
\* is done: a pool with an enabled token has one the write does not touch.
RemovalLeavesOne ==
  \A a \in Admins :
    admin[a].op \in AdminOps /\ Active # {} => Active \ {admin[a].id} # {}
=============================================================================
