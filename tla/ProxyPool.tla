------------------------------ MODULE ProxyPool ------------------------------
(***************************************************************************)
(* proxy.Handler.ServeForSubject on top of tokenpool.Pool.Acquire,         *)
(* MarkSuccess and MarkFailure, the cursor_tokens table and the in-memory  *)
(* coordinator: one server process without Redis.                          *)
(*                                                                         *)
(* A request is a goroutine.  Between two of its actions every other       *)
(* request, the administrators and the clock may move: it works on the     *)
(* list of active tokens and on the clock it read before.  A request the   *)
(* handler refuses before it touches the pool (404, 413) changes nothing.  *)
(***************************************************************************)
EXTENDS CursorTokens, LocalCoordinator

CONSTANTS
  Requests,       \* the requests that can be in progress at a time
  Keys, IPs,      \* API keys and client addresses
  Undecryptable,  \* bound: tokens that may be stored under another encryption key
  StoreMayFail,   \* whether the SELECT of the active tokens may fail
  Statuses,       \* what upstream may answer
  AuthCooldown, RateCooldown,  \* tokenpool.authCooldown, rateCooldown
  MaxTime         \* bound: the clock stops here

ASSUME ProxyAssumption ==
  /\ IsFiniteSet(Requests)
  /\ Subjects = Keys \X IPs  \* keyID + "|" + clientIP(r)
  /\ Undecryptable \subseteq Tokens
  /\ StoreMayFail \in BOOLEAN
  /\ Statuses \subseteq Nat \ {0}
  /\ AuthCooldown \in Nat /\ RateCooldown \in Nat /\ MaxTime \in Nat

VARIABLES
  now,     \* the clock
  foreign, \* the tokens whose ciphertext another key made, kept from before
  pc,      \* where each request is
  client,  \* its subject
  seen,    \* the active tokens it read: candidates of the next lease
  since,   \* the clock when it read them, or when its upstream refused it
  lease,   \* the token it has counted in inflight and not yet released
  failed,  \* failedID: the token its first attempt failed with
  code     \* the refusal it is recording, 0 for none

reqVars == <<pc, client, seen, since, lease, failed, code>>
outside == <<now, foreign>>  \* what no request changes
vars == <<tokenVars, coordVars, reqVars, outside>>

NoSubject == <<>>

\* The states of a request that has a lease.
Leased == {"decrypt", "send", "cool", "report", "release", "succeed", "stream"}
Locations == Leased \cup {"idle", "list", "pick", "refuse"}

RetryableTokenStatus(c) == c \in ErrorStatuses
Cooldown(c) == IF c = 429 THEN RateCooldown ELSE AuthCooldown

RequestsInit ==
  /\ pc = [r \in Requests |-> "idle"]
  /\ client = [r \in Requests |-> NoSubject]
  /\ seen = [r \in Requests |-> {}]
  /\ since = [r \in Requests |-> 0]
  /\ lease = [r \in Requests |-> None]
  /\ failed = [r \in Requests |-> None]
  /\ code = [r \in Requests |-> 0]

Init ==
  /\ TokensInit
  /\ CoordInit
  /\ RequestsInit
  /\ now = 0
  /\ foreign \in SUBSET {t \in Undecryptable : Exists(t)}

GoTo(r, l) == pc' = [pc EXCEPT ![r] = l]

ForgetList(r) ==
  /\ seen' = [seen EXCEPT ![r] = {}]
  /\ since' = [since EXCEPT ![r] = 0]

\* The handler returns: its locals are gone.
Return(r) ==
  /\ GoTo(r, "idle")
  /\ ForgetList(r)
  /\ client' = [client EXCEPT ![r] = NoSubject]
  /\ lease' = [lease EXCEPT ![r] = None]
  /\ failed' = [failed EXCEPT ![r] = None]
  /\ code' = [code EXCEPT ![r] = 0]

-----------------------------------------------------------------------------
(* ServeForSubject, one action per stretch that holds no lock.             *)

\* Known path, body read.
Start(r, s) ==
  /\ pc[r] = "idle"
  /\ GoTo(r, "list")
  /\ client' = [client EXCEPT ![r] = s]
  /\ UNCHANGED <<seen, since, lease, failed, code, tokenVars, coordVars, outside>>

\* Pool.Acquire: the SELECT of the active tokens ...
ListActive(r) ==
  /\ pc[r] = "list"
  /\ GoTo(r, "pick")
  /\ seen' = [seen EXCEPT ![r] = Active]
  /\ since' = [since EXCEPT ![r] = now]
  /\ UNCHANGED <<client, lease, failed, code, tokenVars, coordVars, outside>>

ListFails(r) ==
  /\ StoreMayFail
  /\ pc[r] = "list"
  /\ GoTo(r, "refuse")
  /\ UNCHANGED <<client, seen, since, lease, failed, code, tokenVars, coordVars, outside>>

\* ... AcquireToken with a clock read after the SELECT and before the lock ...
Pick(r) ==
  /\ pc[r] = "pick"
  /\ \E at \in since[r] .. now, t \in Tokens \cup {None} :
       /\ AcquireToken(client[r], seen[r], failed[r], at, t)
       /\ lease' = [lease EXCEPT ![r] = t]
       /\ GoTo(r, IF t = None THEN "refuse" ELSE "decrypt")
  /\ UNCHANGED <<client, seen, since, failed, code, tokenVars, outside>>

\* ... and the decryption of the ciphertext the SELECT returned.
Decrypt(r) ==
  /\ pc[r] = "decrypt"
  /\ lease[r] \notin foreign
  /\ GoTo(r, "send")
  /\ ForgetList(r)
  /\ UNCHANGED <<client, lease, failed, code, tokenVars, coordVars, outside>>

\* Mutant: Acquire picks again, without excluding the token it cannot decrypt.
DecryptFails_PicksAgain(r) ==
  /\ pc[r] = "decrypt"
  /\ lease[r] \in foreign
  /\ ReleaseToken(lease[r])
  /\ lease' = [lease EXCEPT ![r] = None]
  /\ GoTo(r, "list")
  /\ ForgetList(r)
  /\ UNCHANGED <<client, failed, code, tokenVars, outside>>

DecryptFails(r) ==
  /\ pc[r] = "decrypt"
  /\ lease[r] \in foreign
  /\ ReleaseToken(lease[r])
  /\ lease' = [lease EXCEPT ![r] = None]
  /\ GoTo(r, "refuse")
  /\ ForgetList(r)
  /\ UNCHANGED <<client, failed, code, tokenVars, outside>>

\* 503 "no healthy cursor token available".
Refuse(r) ==
  /\ pc[r] = "refuse"
  /\ Return(r)
  /\ UNCHANGED <<tokenVars, coordVars, outside>>

\* Mutant: no release on the path of a transport error.
SendFails_Leaks(r) ==
  /\ pc[r] = "send"
  /\ Return(r)
  /\ UNCHANGED <<tokenVars, coordVars, outside>>

\* Upstream unreachable, timed out or cancelled: release, then 502.
SendFails(r) ==
  /\ pc[r] = "send"
  /\ ReleaseToken(lease[r])
  /\ Return(r)
  /\ UNCHANGED <<tokenVars, outside>>

\* Mutant: the status is kept for successes too.
Answer_KeepsStatus(r, c) ==
  /\ pc[r] = "send"
  /\ GoTo(r, IF RetryableTokenStatus(c) THEN "cool" ELSE "succeed")
  /\ code' = [code EXCEPT ![r] = c]
  /\ since' = [since EXCEPT ![r] = now]
  /\ UNCHANGED <<client, seen, lease, failed, tokenVars, coordVars, outside>>

\* Upstream answers; MarkFailure reads the clock for a refusal.
Answer(r, c) ==
  /\ pc[r] = "send"
  /\ GoTo(r, IF RetryableTokenStatus(c) THEN "cool" ELSE "succeed")
  /\ code' = [code EXCEPT ![r] = IF RetryableTokenStatus(c) THEN c ELSE 0]
  /\ since' = [since EXCEPT ![r] = now]
  /\ UNCHANGED <<client, seen, lease, failed, tokenVars, coordVars, outside>>

\* MarkFailure cools the token, then records the error.
Cool(r) ==
  /\ pc[r] = "cool"
  /\ MarkUnhealthy(lease[r], Cooldown(code[r]), since[r])
  /\ since' = [since EXCEPT ![r] = 0]
  /\ GoTo(r, "report")
  /\ UNCHANGED <<client, seen, lease, failed, code, tokenVars, outside>>

\* Mutant: the second token's refusal is retried as well.
Report_AlwaysRetries(r) ==
  /\ pc[r] = "report"
  /\ MarkCursorTokenError(lease[r], code[r])
  /\ GoTo(r, "release")
  /\ UNCHANGED <<client, seen, since, lease, failed, code, status, admin, coordVars, outside>>

\* Only a request on its first token goes on to try another.
Report(r) ==
  /\ pc[r] = "report"
  /\ MarkCursorTokenError(lease[r], code[r])
  /\ GoTo(r, IF failed[r] = None THEN "release" ELSE "stream")
  /\ UNCHANGED <<client, seen, since, lease, failed, code, status, admin, coordVars, outside>>

\* Mutant: the retry keeps the first lease counted, leaving it to the defer.
ReleaseForRetry_Leaks(r) ==
  /\ pc[r] = "release"
  /\ failed' = [failed EXCEPT ![r] = lease[r]]
  /\ lease' = [lease EXCEPT ![r] = None]
  /\ code' = [code EXCEPT ![r] = 0]
  /\ GoTo(r, "list")
  /\ UNCHANGED <<client, seen, since, tokenVars, coordVars, outside>>

ReleaseForRetry(r) ==
  /\ pc[r] = "release"
  /\ ReleaseToken(lease[r])
  /\ failed' = [failed EXCEPT ![r] = lease[r]]
  /\ lease' = [lease EXCEPT ![r] = None]
  /\ code' = [code EXCEPT ![r] = 0]
  /\ GoTo(r, "list")
  /\ UNCHANGED <<client, seen, since, tokenVars, outside>>

\* MarkSuccess.
Succeed(r) ==
  /\ pc[r] = "succeed"
  /\ MarkCursorTokenUsed(lease[r])
  /\ GoTo(r, "stream")
  /\ UNCHANGED <<client, seen, since, lease, failed, code, status, admin, coordVars, outside>>

\* The body is copied to its end or to an error, then the deferred release.
Stream(r) ==
  /\ pc[r] = "stream"
  /\ ReleaseToken(lease[r])
  /\ Return(r)
  /\ UNCHANGED <<tokenVars, outside>>

RequestStep(r) ==
  \/ ListActive(r) \/ ListFails(r) \/ Pick(r) \/ Decrypt(r) \/ DecryptFails(r)
  \/ Refuse(r) \/ SendFails(r) \/ (\E c \in Statuses : Answer(r, c))
  \/ Cool(r) \/ Report(r) \/ ReleaseForRetry(r) \/ Succeed(r) \/ Stream(r)

-----------------------------------------------------------------------------

\* The table survives a restart of the process; everything in memory is gone.
Restart ==
  /\ inflight' = [t \in Tokens |-> 0]
  /\ sticky' = [s \in Subjects |-> NoSticky]
  /\ unhealthy' = [t \in Tokens |-> 0]
  /\ pc' = [r \in Requests |-> "idle"]
  /\ client' = [r \in Requests |-> NoSubject]
  /\ seen' = [r \in Requests |-> {}]
  /\ since' = [r \in Requests |-> 0]
  /\ lease' = [r \in Requests |-> None]
  /\ failed' = [r \in Requests |-> None]
  /\ code' = [r \in Requests |-> 0]
  /\ admin' = [a \in Admins |-> Idle]
  /\ Bootstrap
  /\ UNCHANGED <<lastError, outside>>

Tick ==
  /\ now < MaxTime
  /\ now' = now + 1
  /\ UNCHANGED <<tokenVars, coordVars, reqVars, foreign>>

AdminMove == AdminNext /\ UNCHANGED <<coordVars, reqVars, outside>>

Next ==
  \/ \E r \in Requests : RequestStep(r) \/ \E s \in Subjects : Start(r, s)
  \/ AdminMove
  \/ Restart
  \/ Tick

Spec == Init /\ [][Next]_vars

\* A goroutine is scheduled until its handler returns; upstream answers or the
\* client's 30 s timeout (main.go:61) fails the call or the copy.  Nothing is
\* assumed of administrators, of new requests, of restarts or of the clock.
FairSpec == Spec /\ \A r \in Requests : WF_vars(RequestStep(r))

-----------------------------------------------------------------------------
(* Properties.                                                             *)

TypeOK ==
  /\ TokensTypeOK
  /\ CoordTypeOK
  /\ now \in Nat
  /\ foreign \in SUBSET Tokens
  /\ pc \in [Requests -> Locations]
  /\ client \in [Requests -> Subjects \cup {NoSubject}]
  /\ seen \in [Requests -> SUBSET Tokens]
  /\ since \in [Requests -> Nat]
  /\ lease \in [Requests -> Tokens \cup {None}]
  /\ failed \in [Requests -> Tokens \cup {None}]
  /\ code \in [Requests -> ErrorStatuses \cup {0}]

Holders(t) == {r \in Requests : lease[r] = t}

\* Every path of ServeForSubject and Acquire releases a lease exactly once (the
\* retry, the undecryptable token, both send errors, the deferred release at
\* proxy.go:108): the in-flight count that balances the load is the number of
\* requests that hold the token, whichever requests overlap.
InFlightIsLeases == \A t \in Tokens : inflight[t] = Cardinality(Holders(t))

\* The one retry (README.md:12) goes to another token than the one that was
\* refused, though the subject was sticky on it and its cooldown may be over.
RetryUsesAnotherToken ==
  \A r \in Requests : lease[r] # None => lease[r] # failed[r]

Drains(t) ==
  /\ status[t] # "enabled"
  /\ \A r \in Requests : pc[r] = "pick" => t \notin seen[r]
  => inflight'[t] <= inflight[t]

\* A token an administrator disabled or deleted only drains: requests that read
\* the table before may still lease it, no other does, stickiness or not.
RetiredTokenDrains == [][\A t \in Tokens : Drains(t)]_vars

RefusesForCause(r) ==
  pc[r] # "refuse" /\ pc'[r] = "refuse" =>
    \/ pc[r] = "list"         \* the SELECT failed
    \/ lease[r] \in foreign   \* the token it was given cannot be decrypted
    \/ /\ lease[r] = None
       /\ \A t \in seen[r] \ {failed[r]} : unhealthy[t] > since[r]

\* A request is refused (503, proxy.go:82 and :98) for one of three reasons: the
\* active tokens could not be read; the token it was given cannot be decrypted,
\* though another might have served (pool.go:162); or every token it read, but
\* the one it already tried, was still cooling when it read them.  Stickiness, a
\* cooldown just over and a clock read early are no reasons.
RefusedForCause == [][\A r \in Requests : RefusesForCause(r)]_vars

LeasesForCause(r) ==
  lease[r] = None /\ lease'[r] # None =>
    LET old == sticky[client[r]]
    IN /\ sticky'[client[r]].id = lease'[r]
       /\ \/ old.id \in {None, lease'[r], failed[r]}
          \/ old.id \notin seen[r]
          \/ unhealthy[old.id] > since[r]
          \/ old.expiresAt <= now

\* A subject, which is an API key at a client address (server.go:600) and not the
\* key alone of README.md:12, sticks to its token.  The token a request leases is
\* the one its subject is sticky on from then on, and replaces another only if
\* that one was retired, refused this request, is cooling or its stickiness ran
\* out.
AffinityForCause == [][\A r \in Requests : LeasesForCause(r)]_vars

\* No interleaving leaves a request waiting.
RequestsFinish == \A r \in Requests : pc[r] # "idle" ~> pc[r] = "idle"

\* Deleting a token ends its use: whatever was in flight on it, its count goes
\* to zero and stays there.
DeletedTokenIsFreed ==
  \A t \in Tokens : status[t] = "deleted" ~> [](inflight[t] = 0)

\* A request that has given up tries no other token.
Spent(r) == IF pc[r] = "refuse" THEN {} ELSE {failed[r]} \ {None}

Ledger == INSTANCE LeaseLedger WITH
  held <- lease,
  spent <- [r \in Requests |-> Spent(r)],
  load <- inflight,
  MaxTries <- 2

\* ServeForSubject keeps the promise of LeaseLedger: at most two tokens, never
\* the same one twice, each counted while it is held and no longer.
ImplementsLedger == Ledger!Spec
=============================================================================
