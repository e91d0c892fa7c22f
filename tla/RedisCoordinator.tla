-------------------------- MODULE RedisCoordinator --------------------------
(***************************************************************************)
(* coordination.Coordinator with REDIS_URL set, in several server          *)
(* instances sharing one Redis: AcquireToken (acquireRedis), ReleaseToken  *)
(* and MarkUnhealthy, called for a proxied request as ServeForSubject      *)
(* calls them.                                                             *)
(*                                                                         *)
(* Every Redis command is one action; INCR and SET of the transaction      *)
(* pipeline are one.  A command may fail, with or without having taken     *)
(* effect: the operation then falls back to the memory of its instance.    *)
(* Which token acquireLocal picks is LocalCoordinator's subject; here it   *)
(* is any eligible candidate, only its count matters.  The keys sticky and *)
(* unhealthy, and a cooldown in memory, may end at any time; inflight keys *)
(* have no expiry.                                                         *)
(***************************************************************************)
EXTENDS TokenIds

CONSTANTS
  Instances,    \* server processes
  Requests,     \* the requests that can be in progress at a time
  Home,         \* the instance that serves each request
  Subjects,     \* the strings requests are made sticky on
  ActiveLists,  \* the lists of active tokens requests may come with
  MaxFailures,  \* bound: how many commands fail and instances crash
  MayCrash      \* whether instances crash

ASSUME RedisAssumption ==
  /\ IsFiniteSet(Requests)
  /\ Home \in [Requests -> Instances]
  /\ ActiveLists \subseteq (SUBSET Tokens) \ {{}}
  /\ MaxFailures \in Nat
  /\ MayCrash \in BOOLEAN

VARIABLES
  count,    \* Redis: inflight keys; an absent key reads 0
  sticky,   \* Redis: sticky keys; None when absent
  cooling,  \* Redis: the tokens whose unhealthy key exists
  memory,   \* c.inflight of each instance
  resting,  \* c.unhealthy of each instance: the tokens cooling there
  failures, \* failures so far
  leaked,   \* history: counts in Redis that nothing will take back, by token
  pc, subject,
  candidates,  \* ids passed to AcquireToken
  exclude,     \* its exclude, the token the first attempt failed with
  lease,       \* the token acquired; or the sticky one being considered
  todo,        \* candidates the loop has still to read
  loads        \* what the loop has read: count by token

redisVars == <<count, sticky, cooling>>
locals == <<subject, candidates, exclude, lease, todo, loads>>
memVars == <<memory, resting>>
vars == <<redisVars, memVars, failures, leaked, pc, locals>>

Acquiring == {"getSticky", "checkSticky", "incrSticky", "probe", "load"}
Holding == {"held", "mark", "decr"}
Locations == Acquiring \cup Holding \cup {"idle", "del"}

Init ==
  /\ count = [t \in Tokens |-> 0]
  /\ sticky = [s \in Subjects |-> None]
  /\ cooling = {}
  /\ memory = [i \in Instances |-> [t \in Tokens |-> 0]]
  /\ resting = [i \in Instances |-> {}]
  /\ failures = 0
  /\ leaked = [t \in Tokens |-> 0]
  /\ pc = [r \in Requests |-> "idle"]
  /\ subject = [r \in Requests |-> None]
  /\ candidates = [r \in Requests |-> {}]
  /\ exclude = [r \in Requests |-> None]
  /\ lease = [r \in Requests |-> None]
  /\ todo = [r \in Requests |-> {}]
  /\ loads = [r \in Requests |-> <<>>]

Go(r, l) == pc' = [pc EXCEPT ![r] = l]
Set(f, r, v) == [f EXCEPT ![r] = v]

\* The request is over, or its operation starts from scratch.
Forget(r) ==
  /\ candidates' = Set(candidates, r, {})
  /\ lease' = Set(lease, r, None)
  /\ todo' = Set(todo, r, {})
  /\ loads' = Set(loads, r, <<>>)

End(r) ==
  /\ Go(r, "idle")
  /\ Forget(r)
  /\ subject' = Set(subject, r, None)
  /\ exclude' = Set(exclude, r, None)

-----------------------------------------------------------------------------
(* AcquireToken.                                                           *)

Begin(r, s, C) ==
  /\ pc[r] = "idle"
  /\ Go(r, "getSticky")
  /\ subject' = Set(subject, r, s)
  /\ candidates' = Set(candidates, r, C)
  /\ UNCHANGED <<redisVars, memVars, failures, leaked, exclude, lease, todo, loads>>

\* Read the load of every candidate but the excluded one.
EnterLoop(r) ==
  /\ todo' = Set(todo, r, candidates[r] \ {exclude[r]})
  /\ lease' = Set(lease, r, None)
  /\ Go(r, "probe")

\* GET sticky
GetSticky(r) ==
  /\ pc[r] = "getSticky"
  /\ IF sticky[subject[r]] \in candidates[r] \ {exclude[r]}
     THEN /\ lease' = Set(lease, r, sticky[subject[r]])
          /\ Go(r, "checkSticky")
          /\ UNCHANGED todo
     ELSE EnterLoop(r)
  /\ UNCHANGED <<redisVars, memVars, failures, leaked, subject, candidates, exclude, loads>>

\* Mutant: the sticky token is counted before its health is known.
CheckSticky_CountsFirst(r) ==
  /\ pc[r] = "checkSticky"
  /\ count' = Set(count, lease[r], count[lease[r]] + 1)
  /\ IF lease[r] \in cooling
     THEN EnterLoop(r)
     ELSE Go(r, "held") /\ UNCHANGED <<todo, lease>>
  /\ UNCHANGED <<sticky, cooling, memVars, failures, leaked, subject, candidates, exclude, loads>>

\* EXISTS unhealthy
CheckSticky(r) ==
  /\ pc[r] = "checkSticky"
  /\ IF lease[r] \in cooling
     THEN EnterLoop(r)
     ELSE Go(r, "incrSticky") /\ UNCHANGED <<todo, lease>>
  /\ UNCHANGED <<redisVars, memVars, failures, leaked, subject, candidates, exclude, loads>>

\* INCR inflight
IncrSticky(r) ==
  /\ pc[r] = "incrSticky"
  /\ count' = Set(count, lease[r], count[lease[r]] + 1)
  /\ Go(r, "held")
  /\ UNCHANGED <<sticky, cooling, memVars, failures, leaked, locals>>

NextCandidate(r) == CHOOSE t \in todo[r] : \A u \in todo[r] : t <= u

\* EXISTS unhealthy of the next candidate
Probe(r) ==
  /\ pc[r] = "probe"
  /\ todo[r] # {}
  /\ IF NextCandidate(r) \in cooling
     THEN todo' = Set(todo, r, todo[r] \ {NextCandidate(r)}) /\ UNCHANGED pc
     ELSE Go(r, "load") /\ UNCHANGED todo
  /\ UNCHANGED <<redisVars, memVars, failures, leaked, subject, candidates, exclude, lease, loads>>

\* GET inflight of the next candidate
Load(r) ==
  /\ pc[r] = "load"
  /\ loads' = Set(loads, r, [t \in DOMAIN loads[r] \cup {NextCandidate(r)} |->
                               IF t = NextCandidate(r) THEN count[t] ELSE loads[r][t]])
  /\ todo' = Set(todo, r, todo[r] \ {NextCandidate(r)})
  /\ Go(r, "probe")
  /\ UNCHANGED <<redisVars, memVars, failures, leaked, subject, candidates, exclude, lease>>

\* SliceStable keeps the candidates' order between equal counts.
Selected(l) ==
  CHOOSE t \in DOMAIN l :
    \A u \in DOMAIN l : l[t] < l[u] \/ (l[t] = l[u] /\ t <= u)

\* No load read: no healthy token, the handler answers 503.
NoneHealthy(r) ==
  /\ pc[r] = "probe"
  /\ todo[r] = {}
  /\ DOMAIN loads[r] = {}
  /\ End(r)
  /\ UNCHANGED <<redisVars, memVars, failures, leaked>>

\* MULTI INCR inflight, SET sticky EXEC
Commit(r) ==
  LET t == Selected(loads[r])
  IN /\ pc[r] = "probe"
     /\ todo[r] = {}
     /\ DOMAIN loads[r] # {}
     /\ count' = Set(count, t, count[t] + 1)
     /\ sticky' = Set(sticky, subject[r], t)
     /\ lease' = Set(lease, r, t)
     /\ loads' = Set(loads, r, <<>>)
     /\ Go(r, "held")
     /\ UNCHANGED <<cooling, memVars, failures, leaked, subject, candidates, exclude, todo>>

-----------------------------------------------------------------------------
(* MarkUnhealthy and ReleaseToken.                                         *)

\* Upstream refused the token or did not; refused, the request remembers what
\* its one retry must exclude.
Answered(r) ==
  /\ pc[r] = "held"
  /\ \/ /\ Go(r, "mark")
        /\ exclude' = Set(exclude, r, IF exclude[r] = None THEN lease[r] ELSE exclude[r])
     \/ Go(r, "decr") /\ UNCHANGED exclude
  /\ UNCHANGED <<redisVars, memVars, failures, leaked, subject, candidates, lease, todo, loads>>

\* Mutant: marking the token forgets to release it.
Mark_NoRelease(r) ==
  /\ pc[r] = "mark"
  /\ cooling' = cooling \cup {lease[r]}
  /\ End(r)
  /\ UNCHANGED <<count, sticky, memVars, failures, leaked>>

\* SET unhealthy
Mark(r) ==
  /\ pc[r] = "mark"
  /\ cooling' = cooling \cup {lease[r]}
  /\ Go(r, "decr")
  /\ UNCHANGED <<count, sticky, memVars, failures, leaked, locals>>

\* ReleaseToken has returned: retry once, with the tokens active by now, or end.
Released(r) ==
  IF exclude[r] = lease[r]
  THEN /\ Go(r, "getSticky")
       /\ \E C \in ActiveLists : candidates' = Set(candidates, r, C)
       /\ lease' = Set(lease, r, None)
       /\ UNCHANGED <<subject, exclude, todo, loads>>
  ELSE End(r)

\* DECR inflight
Decr(r) ==
  /\ pc[r] = "decr"
  /\ count' = Set(count, lease[r], count[lease[r]] - 1)
  /\ IF count'[lease[r]] <= 0 THEN Go(r, "del") /\ UNCHANGED locals
     ELSE Released(r)
  /\ UNCHANGED <<sticky, cooling, memVars, failures, leaked>>

\* DEL inflight
Del(r) ==
  /\ pc[r] = "del"
  /\ count' = Set(count, lease[r], 0)
  /\ Released(r)
  /\ UNCHANGED <<sticky, cooling, memVars, failures, leaked>>

-----------------------------------------------------------------------------
(* Failures.                                                               *)

Fail == failures < MaxFailures /\ failures' = failures + 1

\* Mutant: the fallback ignores the token to exclude.
AcquireLocal_NoExclude(r) ==
  LET eligible == candidates[r] \ resting[Home[r]]
  IN IF eligible = {} THEN End(r) /\ UNCHANGED memory
     ELSE \E t \in eligible :
       /\ memory' = [memory EXCEPT ![Home[r]][t] = @ + 1]
       /\ lease' = Set(lease, r, t)
       /\ todo' = Set(todo, r, {})
       /\ loads' = Set(loads, r, <<>>)
       /\ Go(r, "held")
       /\ UNCHANGED <<subject, candidates, exclude>>

\* acquireLocal of the request's instance, returning t or None.
AcquireLocal(r) ==
  LET eligible == candidates[r] \ ({exclude[r]} \cup resting[Home[r]])
  IN IF eligible = {} THEN End(r) /\ UNCHANGED memory
     ELSE \E t \in eligible :
       /\ memory' = [memory EXCEPT ![Home[r]][t] = @ + 1]
       /\ lease' = Set(lease, r, t)
       /\ todo' = Set(todo, r, {})
       /\ loads' = Set(loads, r, <<>>)
       /\ Go(r, "held")
       /\ UNCHANGED <<subject, candidates, exclude>>

\* A command of acquireRedis fails, a write possibly after it was executed.
AcquireFails(r) ==
  /\ pc[r] \in Acquiring
  /\ Fail
  /\ \/ UNCHANGED <<redisVars, leaked>>
     \/ /\ pc[r] = "incrSticky"
        /\ count' = Set(count, lease[r], count[lease[r]] + 1)
        /\ leaked' = Set(leaked, lease[r], leaked[lease[r]] + 1)
        /\ UNCHANGED <<sticky, cooling>>
     \/ /\ pc[r] = "probe" /\ todo[r] = {} /\ DOMAIN loads[r] # {}
        /\ count' = Set(count, Selected(loads[r]), count[Selected(loads[r])] + 1)
        /\ leaked' = Set(leaked, Selected(loads[r]), leaked[Selected(loads[r])] + 1)
        /\ sticky' = Set(sticky, subject[r], Selected(loads[r]))
        /\ UNCHANGED cooling
  /\ AcquireLocal(r)
  /\ UNCHANGED resting

\* The cooldown goes to the memory of this instance.
MarkFails(r) ==
  /\ pc[r] = "mark"
  /\ Fail
  /\ cooling' \in {cooling, cooling \cup {lease[r]}}
  /\ resting' = [resting EXCEPT ![Home[r]] = @ \cup {lease[r]}]
  /\ Go(r, "decr")
  /\ UNCHANGED <<count, sticky, leaked, memory, locals>>

\* Mutant: the count in memory has no floor at zero.
DecrFails_NoFloor(r) ==
  /\ pc[r] = "decr"
  /\ Fail
  /\ \E d \in {0, 1} : /\ count' = Set(count, lease[r], count[lease[r]] - d)
                        /\ leaked' = Set(leaked, lease[r], leaked[lease[r]] + 1 - d)
  /\ memory' = [memory EXCEPT ![Home[r]][lease[r]] = @ - 1]
  /\ Released(r)
  /\ UNCHANGED <<sticky, cooling, resting>>

\* The lease is released in memory, wherever it was counted.
DecrFails(r) ==
  /\ pc[r] = "decr"
  /\ Fail
  /\ \E d \in {0, 1} : /\ count' = Set(count, lease[r], count[lease[r]] - d)
                        /\ leaked' = Set(leaked, lease[r], leaked[lease[r]] + 1 - d)
  /\ memory' = [memory EXCEPT ![Home[r]][lease[r]] = IF @ > 1 THEN @ - 1 ELSE 0]
  /\ Released(r)
  /\ UNCHANGED <<sticky, cooling, resting>>

\* The error of DEL is ignored.
DelFails(r) ==
  /\ pc[r] = "del"
  /\ Fail
  /\ \E v \in {0, count[lease[r]]} : count' = Set(count, lease[r], v)
  /\ Released(r)
  /\ UNCHANGED <<sticky, cooling, leaked, memVars>>

\* The requests holding t that have not yet given their count back.
Counted(t) == {r \in Requests : lease[r] = t /\ pc[r] \in Holding}

\* An instance stops: its requests and its memory are gone, Redis is not.
Crash(i) ==
  LET keep(f, v) == [r \in Requests |-> IF Home[r] = i THEN v ELSE f[r]]
  IN /\ MayCrash
     /\ Fail
     /\ memory' = [memory EXCEPT ![i] = [t \in Tokens |-> 0]]
     /\ resting' = [resting EXCEPT ![i] = {}]
     /\ pc' = keep(pc, "idle")
     /\ subject' = keep(subject, None)
     /\ candidates' = keep(candidates, {})
     /\ exclude' = keep(exclude, None)
     /\ lease' = keep(lease, None)
     /\ todo' = keep(todo, {})
     /\ loads' = keep(loads, <<>>)
     /\ leaked' = [t \in Tokens |->
                    leaked[t] + Cardinality({r \in Counted(t) : Home[r] = i})]
     /\ UNCHANGED redisVars

Expire ==
  /\ \/ \E s \in Subjects : sticky' = Set(sticky, s, None) /\ UNCHANGED <<cooling, resting>>
     \/ \E t \in cooling : cooling' = cooling \ {t} /\ UNCHANGED <<sticky, resting>>
     \/ \E i \in Instances, t \in Tokens :
          resting' = [resting EXCEPT ![i] = @ \ {t}] /\ UNCHANGED <<sticky, cooling>>
  /\ UNCHANGED <<count, memory, failures, leaked, pc, locals>>

RequestStep(r) ==
  \/ GetSticky(r) \/ CheckSticky(r) \/ IncrSticky(r) \/ Probe(r) \/ Load(r)
  \/ NoneHealthy(r) \/ Commit(r) \/ Answered(r) \/ Mark(r) \/ Decr(r) \/ Del(r)

RequestFails(r) == AcquireFails(r) \/ MarkFails(r) \/ DecrFails(r) \/ DelFails(r)

Next ==
  \/ \E r \in Requests :
       \/ \E s \in Subjects, C \in ActiveLists : Begin(r, s, C)
       \/ RequestStep(r)
       \/ RequestFails(r)
  \/ \E i \in Instances : Crash(i)
  \/ Expire

Spec == Init /\ [][Next]_vars

-----------------------------------------------------------------------------
(* Properties.                                                             *)

TypeOK ==
  /\ count \in [Tokens -> Int]
  /\ sticky \in [Subjects -> Tokens \cup {None}]
  /\ cooling \subseteq Tokens
  /\ memory \in [Instances -> [Tokens -> Nat]]
  /\ resting \in [Instances -> SUBSET Tokens]
  /\ failures \in 0 .. MaxFailures
  /\ leaked \in [Tokens -> Nat]
  /\ pc \in [Requests -> Locations]
  /\ subject \in [Requests -> Subjects \cup {None}]
  /\ candidates \in [Requests -> SUBSET Tokens]
  /\ exclude \in [Requests -> Tokens \cup {None}]
  /\ lease \in [Requests -> Tokens \cup {None}]
  /\ todo \in [Requests -> SUBSET Tokens]
  /\ \A r \in Requests : /\ DOMAIN loads[r] \subseteq Tokens
                         /\ \A t \in DOMAIN loads[r] : loads[r][t] \in Int

\* The shared load of a token never counts more requests than hold it, besides what
\* leaked: an INCR whose reply was lost, a DECR that was not executed, the leases of
\* an instance that stopped; though the DEL that follows a DECR may wipe out what
\* another request has just counted.  As long as Redis answers, a count below zero
\* is about to be deleted by a request that saw it there.
CountWithinLeases ==
  \A t \in Tokens :
    /\ count[t] <= Cardinality(Counted(t)) + leaked[t]
    /\ failures = 0 /\ count[t] < 0 => \E r \in Requests : pc[r] = "del" /\ lease[r] = t

Idle == \A r \in Requests : pc[r] = "idle"
NoLoad == /\ \A t \in Tokens : count[t] = 0
          /\ \A i \in Instances, t \in Tokens : memory[i][t] = 0

\* Races lose counts but do not accumulate them: when no request is in progress, no
\* token counts as loaded but for what has leaked, one for each failure at most in
\* the memory of an instance, and nothing as long as Redis answers.
DrainsToZero ==
  Idle => /\ \A t \in Tokens : count[t] <= leaked[t]
          /\ \A i \in Instances, t \in Tokens : memory[i][t] <= failures
          /\ failures = 0 => NoLoad

\* README.md:13, "the count of requests in progress" is shared through Redis and
\* falls back to memory: when no request is in progress, it is zero.
CountsRequestsInProgress == Idle => NoLoad

\* The retry is given another token than the one refused, also when Redis fails
\* halfway and memory takes over.
RetryExcludesRefused ==
  \A r \in Requests : pc[r] = "held" => lease[r] # exclude[r]
=============================================================================
