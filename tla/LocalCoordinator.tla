-------------------------- MODULE LocalCoordinator --------------------------
(***************************************************************************)
(* coordination.Coordinator without Redis: the in-memory maps that decide  *)
(* which cursor token serves a request.  Each operation holds c.mu, so it  *)
(* is one action.  Actions are operators over the arguments of the Go      *)
(* method; ProxyPool calls them from its requests.  "at" is the value of   *)
(* the argument now, which the caller read from the clock earlier.         *)
(***************************************************************************)
EXTENDS TokenIds

CONSTANTS
  Subjects,  \* the strings requests are made sticky on
  StickyTTL  \* tokenpool.stickyTTL

ASSUME StickyTTLAssumption == StickyTTL \in Nat \ {0}

VARIABLES
  inflight,  \* c.inflight; an absent entry is 0
  sticky,    \* c.sticky; an absent entry is NoSticky
  unhealthy  \* c.unhealthy: the end of the cooldown; an absent entry is 0

coordVars == <<inflight, sticky, unhealthy>>

NoSticky == [id |-> None, expiresAt |-> 0]

CoordTypeOK ==
  /\ inflight \in [Tokens -> Nat]
  /\ sticky \in [Subjects -> [id : Tokens \cup {None}, expiresAt : Nat]]
  /\ unhealthy \in [Tokens -> Nat]

CoordInit ==
  /\ inflight = [t \in Tokens |-> 0]
  /\ sticky = [s \in Subjects |-> NoSticky]
  /\ unhealthy = [t \in Tokens |-> 0]

-----------------------------------------------------------------------------

\* Mutant: the loop does not skip the excluded token.
Eligible_NoExclude(candidates, exclude, at) ==
  {t \in candidates : unhealthy[t] <= at}

\* Mutant: a token whose cooldown ends now is still skipped.
Eligible_Strict(candidates, exclude, at) ==
  {t \in candidates \ {exclude} : unhealthy[t] < at}

\* Candidates that are neither excluded nor cooling.
Eligible(candidates, exclude, at) ==
  {t \in candidates \ {exclude} : unhealthy[t] <= at}

\* Mutant: a sticky token need not be a candidate any more.
StickyHit_AnyToken(s, candidates, exclude, at) ==
  /\ sticky[s].expiresAt > at
  /\ sticky[s].id # exclude
  /\ unhealthy[sticky[s].id] <= at

StickyHit(s, candidates, exclude, at) ==
  /\ sticky[s].expiresAt > at
  /\ sticky[s].id \in Eligible(candidates, exclude, at)

\* The loop keeps the first candidate with the lowest count.
LeastLoaded(E) ==
  {t \in E : \A u \in E : \/ inflight[t] < inflight[u]
                          \/ (inflight[t] = inflight[u] /\ t <= u)}

\* AcquireToken returns early for an empty list: even the sticky entry stays.
NoCandidates(candidates, t) ==
  /\ candidates = {}
  /\ t = None
  /\ UNCHANGED coordVars

ReuseSticky(s, candidates, exclude, at, t) ==
  /\ StickyHit(s, candidates, exclude, at)
  /\ t = sticky[s].id
  /\ inflight' = [inflight EXCEPT ![t] = @ + 1]
  /\ UNCHANGED <<sticky, unhealthy>>

\* Mutant: the selection is not remembered.
SelectLeastLoaded_NotSticky(s, candidates, exclude, at, t) ==
  /\ ~ StickyHit(s, candidates, exclude, at)
  /\ t \in LeastLoaded(Eligible(candidates, exclude, at))
  /\ inflight' = [inflight EXCEPT ![t] = @ + 1]
  /\ UNCHANGED <<sticky, unhealthy>>

SelectLeastLoaded(s, candidates, exclude, at, t) ==
  /\ ~ StickyHit(s, candidates, exclude, at)
  /\ t \in LeastLoaded(Eligible(candidates, exclude, at))
  /\ sticky' = [sticky EXCEPT ![s] = [id |-> t, expiresAt |-> at + StickyTTL]]
  /\ inflight' = [inflight EXCEPT ![t] = @ + 1]
  /\ UNCHANGED unhealthy

NoneEligible(s, candidates, exclude, at, t) ==
  /\ candidates # {}
  /\ Eligible(candidates, exclude, at) = {}
  /\ t = None
  /\ sticky' = [sticky EXCEPT ![s] = NoSticky]
  /\ UNCHANGED <<inflight, unhealthy>>

\* AcquireToken returning t, None for "not ok".
AcquireToken(s, candidates, exclude, at, t) ==
  \/ NoCandidates(candidates, t)
  \/ ReuseSticky(s, candidates, exclude, at, t)
  \/ SelectLeastLoaded(s, candidates, exclude, at, t)
  \/ NoneEligible(s, candidates, exclude, at, t)

ReleaseToken(t) ==
  /\ inflight' = [inflight EXCEPT ![t] = IF @ > 1 THEN @ - 1 ELSE 0]
  /\ UNCHANGED <<sticky, unhealthy>>

\* The later call wins, whichever cooldown ends first.
MarkUnhealthy(t, cooldown, at) ==
  /\ unhealthy' = [unhealthy EXCEPT ![t] = at + cooldown]
  /\ UNCHANGED <<inflight, sticky>>
=============================================================================
