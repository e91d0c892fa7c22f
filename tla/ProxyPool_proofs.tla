--------------------------- MODULE ProxyPool_proofs ---------------------------
(***************************************************************************)
(* What the pool promises a request and an administrator, for any number   *)
(* of requests, tokens, subjects and administrators: types, the exactness  *)
(* of the in-flight counts, the retry, refusals, stickiness, the draining  *)
(* of retired tokens, the number of steps to the end of a request, and the *)
(* refinement of LeaseLedger.                                              *)
(***************************************************************************)
EXTENDS ProxyPool, FiniteSetTheorems, WellFoundedInduction, TLAPS

-----------------------------------------------------------------------------
(* The token table.  One token remains enabled when there is a single      *)
(* administrator: the SELECT of Delete and SetEnabled then still holds     *)
(* when their second statement runs.  With two administrators it does not  *)
(* (MCTokensConcurrent.cfg).                                               *)

\* The statements of an administrator keep the table well typed.
LEMMA AdminType == TokensTypeOK /\ AdminNext => TokensTypeOK'
<1> SUFFICES ASSUME TokensTypeOK, NEW a \in Admins, AdminStep(a)
             PROVE  TokensTypeOK'
  BY DEF AdminNext
<1> USE DEF TokensTypeOK
<1>1. ASSUME NEW t \in Tokens, Add(a, t) PROVE TokensTypeOK'
  BY <1>1 DEF Add
<1>2. ASSUME NEW t \in Tokens, CheckDelete(a, t) PROVE TokensTypeOK'
  BY <1>2 DEF CheckDelete, AdminOps
<1>3. CASE CommitDelete(a)
  <2>1. admin[a].id \in Tokens
    BY <1>3 DEF CommitDelete, Idle
  <2> QED
    BY <1>3, <2>1 DEF CommitDelete
<1>4. ASSUME NEW t \in Tokens, CheckDisable(a, t) PROVE TokensTypeOK'
  BY <1>4 DEF CheckDisable, AdminOps
<1>5. CASE CommitDisable(a)
  <2>1. admin[a].id \in Tokens
    BY <1>5 DEF CommitDisable, Idle
  <2> QED
    BY <1>5, <2>1 DEF CommitDisable
<1>6. ASSUME NEW t \in Tokens, Enable(a, t) PROVE TokensTypeOK'
  BY <1>6 DEF Enable
<1> QED
  BY <1>1, <1>2, <1>3, <1>4, <1>5, <1>6 DEF AdminStep, Known

\* A start adds a row at most, and takes none away.
LEMMA BootstrapKeeps ==
  ASSUME TokensTypeOK, Bootstrap
  PROVE  /\ status' \in [Tokens -> {"unborn", "enabled", "disabled", "deleted"}]
         /\ Active \subseteq Active'
<1>1. CASE UNCHANGED status
  BY <1>1 DEF TokensTypeOK, Active
<1>2. ASSUME NEW t \in Tokens, status' = [status EXCEPT ![t] = "enabled"]
      PROVE  /\ status' \in [Tokens -> {"unborn", "enabled", "disabled", "deleted"}]
             /\ Active \subseteq Active'
  BY <1>2 DEF TokensTypeOK, Active
<1> QED
  BY <1>1, <1>2 DEF Bootstrap

-----------------------------------------------------------------------------

OneAdmin == \A a, b \in Admins : a = b

\* A pool with two enabled tokens, or an enabled token beside the one removed,
\* keeps one.
LEMMA AnotherActive ==
  ASSUME NEW t \in Tokens, ~ (t \in Active /\ Cardinality(Active) <= 1), Active # {}
  PROVE  Active \ {t} # {}
<1>1. IsFiniteSet(Active)
  BY TokensAssumption, FS_Subset DEF Active
<1>2. CASE t \notin Active
  BY <1>2
<1>3. CASE t \in Active /\ ~ (Cardinality(Active) <= 1)
  <2>1. Cardinality(Active \ {t}) = Cardinality(Active) - 1 /\ Cardinality(Active) \in Nat
    BY <1>1, <1>3, FS_RemoveElement, FS_CardinalityType
  <2>2. Cardinality(Active \ {t}) # 0
    BY <1>3, <2>1
  <2> QED
    BY <2>2, FS_EmptySet
<1> QED
  BY <1>2, <1>3

\* A statement an administrator runs leaves the decision it took before valid.
LEMMA AdminLeavesOne ==
  ASSUME OneAdmin, TokensTypeOK, RemovalLeavesOne, AdminNext
  PROVE  RemovalLeavesOne' /\ (Active # {} => Active' # {})
<1> USE DEF TokensTypeOK, Active, AdminOps
<1>1. PICK a \in Admins : AdminStep(a)
  BY DEF AdminNext
<1>2. \A b \in Admins : b = a
  BY DEF OneAdmin
<1>3. ASSUME admin'[a] = Idle PROVE RemovalLeavesOne'
  BY <1>2, <1>3 DEF RemovalLeavesOne, Idle
<1>4. ASSUME NEW t \in Tokens, Add(a, t) \/ Enable(a, t)
      PROVE  RemovalLeavesOne' /\ (Active # {} => Active' # {})
  <2>1. admin'[a] = Idle
    BY <1>4 DEF Add, Enable
  <2>2. Active \subseteq Active'
    BY <1>4 DEF Add, Enable
  <2> QED
    BY <1>3, <2>1, <2>2
<1>5. ASSUME NEW t \in Tokens, CheckDelete(a, t) \/ CheckDisable(a, t)
      PROVE  RemovalLeavesOne' /\ (Active # {} => Active' # {})
  <2>1. admin'[a].id = t /\ status' = status
    BY <1>5 DEF CheckDelete, CheckDisable
  <2>2. Active' = Active
    BY <2>1
  <2>3. ~ (t \in Active /\ Cardinality(Active) <= 1)
    BY <1>5 DEF CheckDelete, CheckDisable
  <2>4. Active # {} => Active \ {t} # {}
    BY <2>3, AnotherActive
  <2> QED
    BY <1>2, <2>1, <2>2, <2>4 DEF RemovalLeavesOne
<1>6. CASE CommitDelete(a) \/ CommitDisable(a)
  <2>1. admin'[a] = Idle /\ admin[a].op \in AdminOps
    BY <1>6 DEF CommitDelete, CommitDisable
  <2>2. Active \ {admin[a].id} \subseteq Active'
    BY <1>6 DEF CommitDelete, CommitDisable, Exists
  <2> QED
    BY <1>3, <2>1, <2>2 DEF RemovalLeavesOne
<1> QED
  BY <1>1, <1>4, <1>5, <1>6 DEF AdminStep, Known

\* A step that touches neither the table nor a pending removal keeps both facts.
LEMMA TableKept ==
  ASSUME UNCHANGED tokenVars
  PROVE  /\ TokensTypeOK => TokensTypeOK'
         /\ RemovalLeavesOne => RemovalLeavesOne'
  BY DEF tokenVars, TokensTypeOK, RemovalLeavesOne, Active

\* A single administrator never disables or deletes the last enabled token: the
\* check of Delete and SetEnabled suffices when nobody else runs one.
THEOREM OneRemainsAlone ==
  ASSUME OneAdmin
  PROVE  TokensSpec => []RemovalLeavesOne /\ OneRemainsEnabled
<1> DEFINE IInv == TokensTypeOK /\ RemovalLeavesOne
<1>1. TokensInit => IInv
  BY DEF TokensInit, TokensTypeOK, RemovalLeavesOne, Idle, AdminOps, ErrorStatuses
<1>2. IInv /\ [AdminNext]_tokenVars => IInv'
  BY OneAdmin, AdminType, AdminLeavesOne, TableKept
<1>3. IInv /\ [AdminNext]_tokenVars => [Active # {} => Active' # {}]_tokenVars
  BY OneAdmin, AdminLeavesOne
<1> QED
  BY <1>1, <1>2, <1>3, PTL DEF TokensSpec, OneRemainsEnabled

-----------------------------------------------------------------------------
(* Type correctness.                                                       *)

\* The coordinator's operations keep its maps well typed.
LEMMA AcquireType ==
  ASSUME CoordTypeOK,
         NEW s \in Subjects, NEW C \in SUBSET Tokens, NEW ex, NEW at \in Nat,
         NEW t \in Tokens \cup {None}, AcquireToken(s, C, ex, at, t)
  PROVE  CoordTypeOK'
<1> USE DEF CoordTypeOK
<1>1. CASE NoCandidates(C, t)
  BY <1>1 DEF NoCandidates, coordVars
<1>2. CASE ReuseSticky(s, C, ex, at, t)
  <2>1. t \in Tokens
    BY <1>2 DEF ReuseSticky, StickyHit, Eligible
  <2> QED
    BY <1>2, <2>1 DEF ReuseSticky
<1>3. CASE SelectLeastLoaded(s, C, ex, at, t)
  <2>1. t \in Tokens
    BY <1>3 DEF SelectLeastLoaded, LeastLoaded, Eligible
  <2>2. at + StickyTTL \in Nat
    BY StickyTTLAssumption
  <2> QED
    BY <1>3, <2>1, <2>2 DEF SelectLeastLoaded
<1>4. CASE NoneEligible(s, C, ex, at, t)
  BY <1>4 DEF NoneEligible, NoSticky
<1> QED
  BY <1>1, <1>2, <1>3, <1>4 DEF AcquireToken

\* Releasing a token keeps the maps of the coordinator typed.
LEMMA ReleaseType ==
  ASSUME CoordTypeOK, NEW t \in Tokens, ReleaseToken(t)
  PROVE  CoordTypeOK'
  BY DEF CoordTypeOK, ReleaseToken

\* So does the cooldown of a token.
LEMMA MarkType ==
  ASSUME CoordTypeOK, NEW t, NEW c, NEW at \in Nat, MarkUnhealthy(t, Cooldown(c), at)
  PROVE  CoordTypeOK'
<1>1. at + Cooldown(c) \in Nat
  BY ProxyAssumption DEF Cooldown
<1> QED
  BY <1>1 DEF CoordTypeOK, MarkUnhealthy

\* The types of the variables of the requests, as one conjunct.
RequestsTypeOK ==
  /\ pc \in [Requests -> Locations]
  /\ client \in [Requests -> Subjects \cup {NoSubject}]
  /\ seen \in [Requests -> SUBSET Tokens]
  /\ since \in [Requests -> Nat]
  /\ lease \in [Requests -> Tokens \cup {None}]
  /\ failed \in [Requests -> Tokens \cup {None}]
  /\ code \in [Requests -> ErrorStatuses \cup {0}]

\* Where a request stands tells whether it has a subject and a lease.
Placed ==
  \A r \in Requests :
    /\ lease[r] # None <=> pc[r] \in Leased
    /\ pc[r] # "idle" => client[r] \in Subjects
    /\ pc[r] \in {"cool", "report"} => code[r] \in ErrorStatuses

\* The types of what no request changes.
OutsideTypeOK == now \in Nat /\ foreign \in SUBSET Tokens

\* TypeOK by component, in a state and in the next one.
LEMMA TypeParts ==
  /\ TypeOK <=> TokensTypeOK /\ CoordTypeOK /\ RequestsTypeOK /\ OutsideTypeOK
  /\ TypeOK' <=> TokensTypeOK' /\ CoordTypeOK' /\ RequestsTypeOK' /\ OutsideTypeOK'
  BY DEF TypeOK, RequestsTypeOK, OutsideTypeOK

\* A server that has just started.
LEMMA InitTyped == Init => TypeOK /\ Placed
  BY ProxyAssumption
     DEF Init, TypeOK, Placed, TokensTypeOK, TokensInit, CoordTypeOK, CoordInit,
         RequestsInit, NoSticky, Locations, Leased

\* Every step of a request keeps the variables well typed and the request in
\* its place.
LEMMA RequestTyped ==
  ASSUME TypeOK, Placed, NEW r \in Requests, RequestStep(r)
  PROVE  TypeOK' /\ Placed'
<1> USE TypeParts
<1> USE DEF RequestsTypeOK, OutsideTypeOK, outside, Placed, Locations, Leased, GoTo, ForgetList
<1> USE TokensAssumption
<1>a. UNCHANGED tokenVars => TokensTypeOK'
  BY DEF tokenVars, TokensTypeOK
<1>b. UNCHANGED coordVars => CoordTypeOK'
  BY DEF coordVars, CoordTypeOK
<1>c. pc[r] \in Leased => lease[r] \in Tokens
  OBVIOUS
<1>1. CASE ListActive(r)
  BY <1>1, <1>a, <1>b DEF ListActive, Active
<1>2. CASE ListFails(r)
  BY <1>2, <1>a, <1>b DEF ListFails
<1>3. CASE Pick(r)
  <2>1. PICK at \in since[r] .. now, t \in Tokens \cup {None} :
          /\ AcquireToken(client[r], seen[r], failed[r], at, t)
          /\ lease' = [lease EXCEPT ![r] = t]
          /\ GoTo(r, IF t = None THEN "refuse" ELSE "decrypt")
    BY <1>3 DEF Pick
  <2>2. at \in Nat
    BY <2>1
  <2>3. client[r] \in Subjects /\ seen[r] \in SUBSET Tokens
    BY <1>3 DEF Pick
  <2>4. CoordTypeOK'
    BY <2>1, <2>2, <2>3, AcquireType
  <2> QED
    BY <1>3, <1>a, <2>1, <2>4 DEF Pick
<1>4. CASE Decrypt(r)
  BY <1>4, <1>a, <1>b DEF Decrypt
<1>5. CASE DecryptFails(r)
  BY <1>5, <1>a, <1>c, ReleaseType DEF DecryptFails
<1>6. CASE Refuse(r)
  BY <1>6, <1>a, <1>b DEF Refuse, Return
<1>7. CASE SendFails(r)
  BY <1>7, <1>a, <1>c, ReleaseType DEF SendFails, Return
<1>8. ASSUME NEW c \in Statuses, Answer(r, c) PROVE TypeOK' /\ Placed'
  BY <1>8, <1>a, <1>b DEF Answer, RetryableTokenStatus
<1>9. CASE Cool(r)
  <2>1. CoordTypeOK'
    BY <1>9, MarkType DEF Cool
  <2> QED
    BY <1>9, <1>a, <2>1 DEF Cool
<1>10. CASE Report(r)
  <2>1. TokensTypeOK'
    BY <1>10 DEF Report, MarkCursorTokenError, TokensTypeOK
  <2> QED
    BY <1>10, <1>b, <2>1 DEF Report
<1>11. CASE ReleaseForRetry(r)
  BY <1>11, <1>a, <1>c, ReleaseType DEF ReleaseForRetry
<1>12. CASE Succeed(r)
  <2>1. TokensTypeOK'
    BY <1>12 DEF Succeed, MarkCursorTokenUsed, TokensTypeOK
  <2> QED
    BY <1>12, <1>b, <2>1 DEF Succeed
<1>13. CASE Stream(r)
  BY <1>13, <1>a, <1>c, ReleaseType DEF Stream, Return
<1> QED
  BY <1>1, <1>2, <1>3, <1>4, <1>5, <1>6, <1>7, <1>8, <1>9, <1>10, <1>11,
     <1>12, <1>13 DEF RequestStep

\* No step breaks a type, or puts a request where it should have no lease.
LEMMA NextTyped == TypeOK /\ Placed /\ [Next]_vars => TypeOK' /\ Placed'
<1> SUFFICES ASSUME TypeOK, Placed, [Next]_vars PROVE TypeOK' /\ Placed'
  OBVIOUS
<1>1. ASSUME NEW r \in Requests, RequestStep(r) PROVE TypeOK' /\ Placed'
  BY <1>1, RequestTyped
<1>2. ASSUME NEW r \in Requests, NEW s \in Subjects, Start(r, s)
      PROVE  TypeOK' /\ Placed'
  BY <1>2 DEF Start, outside, GoTo, TypeOK, Placed, Locations, Leased, tokenVars, coordVars,
              TokensTypeOK, CoordTypeOK
<1>3. CASE AdminMove
  BY <1>3, AdminType, TypeParts
     DEF AdminMove, outside, OutsideTypeOK, coordVars, reqVars, CoordTypeOK, RequestsTypeOK, Placed
<1>4. CASE Restart
  <2>1. status' \in [Tokens -> {"unborn", "enabled", "disabled", "deleted"}]
    BY <1>4, BootstrapKeeps DEF Restart, TypeOK
  <2> QED
    BY <1>4, <2>1 DEF Restart, outside, TypeOK, Placed, TokensTypeOK, CoordTypeOK, NoSticky, Idle,
                      Locations, Leased
<1>5. CASE Tick
  BY <1>5 DEF Tick, TypeOK, Placed, tokenVars, coordVars, reqVars, TokensTypeOK,
              CoordTypeOK
<1>6. CASE UNCHANGED vars
  BY <1>6 DEF vars, outside, TypeOK, Placed, tokenVars, coordVars, reqVars, TokensTypeOK,
              CoordTypeOK
<1> QED
  BY <1>1, <1>2, <1>3, <1>4, <1>5, <1>6 DEF Next

\* Every variable stays in its type whatever requests, administrators, restarts
\* and clock do.
THEOREM TypeCorrect == Spec => [](TypeOK /\ Placed)
  BY InitTyped, NextTyped, PTL DEF Spec

-----------------------------------------------------------------------------
(* The in-flight counts.                                                   *)

\* The requests that hold a token can be counted.
LEMMA HoldersFinite ==
  ASSUME NEW t
  PROVE  IsFiniteSet(Holders(t)) /\ Cardinality(Holders(t)) \in Nat
<1>1. Holders(t) \subseteq Requests
  BY DEF Holders
<1> QED
  BY <1>1, ProxyAssumption, FS_Subset, FS_CardinalityType

\* A request that takes a lease is counted once.
LEMMA LeaseCounted ==
  ASSUME CoordTypeOK, RequestsTypeOK, InFlightIsLeases,
         NEW r \in Requests, NEW t \in Tokens, lease[r] = None,
         inflight' = [inflight EXCEPT ![t] = @ + 1],
         lease' = [lease EXCEPT ![r] = t]
  PROVE  InFlightIsLeases'
<1>1. r \notin Holders(t) /\ Holders(t)' = Holders(t) \cup {r}
  BY TokensAssumption DEF Holders, RequestsTypeOK
<1>2. Cardinality(Holders(t)') = Cardinality(Holders(t)) + 1
  BY <1>1, HoldersFinite, FS_AddElement
<1>3. \A u \in Tokens \ {t} : Holders(u)' = Holders(u)
  BY TokensAssumption DEF Holders, RequestsTypeOK
<1> QED
  BY <1>2, <1>3 DEF InFlightIsLeases, CoordTypeOK

\* A request that gives its lease back is no longer counted: the floor at zero
\* in ReleaseToken is never what makes the count right.
LEMMA LeaseUncounted ==
  ASSUME CoordTypeOK, RequestsTypeOK, InFlightIsLeases,
         NEW r \in Requests, NEW t \in Tokens, lease[r] = t, ReleaseToken(t),
         lease' = [lease EXCEPT ![r] = None]
  PROVE  /\ InFlightIsLeases'
         /\ inflight' = [inflight EXCEPT ![t] = @ - 1]
<1>1. r \in Holders(t) /\ Holders(t)' = Holders(t) \ {r}
  BY TokensAssumption DEF Holders, RequestsTypeOK
<1>2. Cardinality(Holders(t)') = Cardinality(Holders(t)) - 1
  BY <1>1, HoldersFinite, FS_RemoveElement
<1>3. Cardinality(Holders(t)') \in Nat
  <2>1. IsFiniteSet(Holders(t) \ {r})
    BY HoldersFinite, FS_RemoveElement
  <2> QED
    BY <1>1, <2>1, FS_CardinalityType
<1>4. inflight[t] \in Nat /\ inflight[t] = Cardinality(Holders(t))
  BY DEF CoordTypeOK, InFlightIsLeases
<1>8. inflight[t] >= 1
  BY <1>2, <1>3, <1>4
<1>5. inflight' = [inflight EXCEPT ![t] = @ - 1]
  <2>1. (IF inflight[t] > 1 THEN inflight[t] - 1 ELSE 0) = inflight[t] - 1
    BY <1>4, <1>8
  <2> QED
    BY <2>1 DEF ReleaseToken
<1>6. \A u \in Tokens \ {t} : Holders(u)' = Holders(u)
  BY TokensAssumption DEF Holders, RequestsTypeOK
<1>7. \A u \in Tokens : inflight'[u] = Cardinality(Holders(u)')
  BY <1>2, <1>4, <1>5, <1>6 DEF InFlightIsLeases, CoordTypeOK
<1> QED
  BY <1>5, <1>7 DEF InFlightIsLeases

\* A step that moves neither a lease nor a count keeps them equal.
LEMMA LeasesKept ==
  ASSUME InFlightIsLeases, UNCHANGED <<inflight, lease>>
  PROVE  InFlightIsLeases'
<1>1. \A t \in Tokens : Holders(t)' = Holders(t)
  BY DEF Holders
<1> QED
  BY <1>1 DEF InFlightIsLeases

\* A step of a request that takes a lease: only Pick does, for a token of the
\* list it read that it did not try before.
LEMMA PickLeases ==
  ASSUME TypeOK, Placed, NEW r \in Requests, Pick(r)
  PROVE  \/ /\ lease' = lease /\ inflight' = inflight
            /\ pc' = [pc EXCEPT ![r] = "refuse"]
         \/ \E t \in seen[r] \ {failed[r]} :
              /\ lease' = [lease EXCEPT ![r] = t]
              /\ inflight' = [inflight EXCEPT ![t] = @ + 1]
              /\ pc' = [pc EXCEPT ![r] = "decrypt"]
<1> USE TokensAssumption DEF GoTo
<1>1. lease[r] = None /\ lease \in [Requests -> Tokens \cup {None}]
      /\ seen[r] \subseteq Tokens
  BY DEF Pick, TypeOK, Placed, Leased
<1>2. PICK at \in since[r] .. now, t \in Tokens \cup {None} :
        /\ AcquireToken(client[r], seen[r], failed[r], at, t)
        /\ lease' = [lease EXCEPT ![r] = t]
        /\ GoTo(r, IF t = None THEN "refuse" ELSE "decrypt")
  BY DEF Pick
<1>3. CASE t = None
  <2>1. lease' = lease
    BY <1>1, <1>2, <1>3
  <2>2. inflight' = inflight
    BY <1>1, <1>2, <1>3
       DEF AcquireToken, NoCandidates, ReuseSticky, SelectLeastLoaded, NoneEligible,
           StickyHit, LeastLoaded, Eligible, coordVars
  <2> QED
    BY <1>2, <1>3, <2>1, <2>2
<1>4. CASE t # None
  <2>1. t \in seen[r] \ {failed[r]} /\ inflight' = [inflight EXCEPT ![t] = @ + 1]
    BY <1>2, <1>4
       DEF AcquireToken, NoCandidates, ReuseSticky, SelectLeastLoaded, NoneEligible,
           StickyHit, LeastLoaded, Eligible
  <2> QED
    BY <1>2, <1>4, <2>1
<1> QED
  BY <1>3, <1>4

\* Every step of a request leaves the counts exact.
LEMMA RequestCounted ==
  ASSUME TypeOK, Placed, InFlightIsLeases, NEW r \in Requests, RequestStep(r)
  PROVE  InFlightIsLeases'
<1>1. CoordTypeOK /\ RequestsTypeOK
  BY TypeParts
<1>2. pc[r] \in Leased => lease[r] \in Tokens
  BY <1>1 DEF Placed, RequestsTypeOK
<1>3. pc[r] \notin Leased => lease[r] = None
  BY DEF Placed
<1>4. CASE ListActive(r) \/ ListFails(r) \/ Decrypt(r) \/ Cool(r) \/ Report(r)
           \/ Succeed(r) \/ \E c \in Statuses : Answer(r, c)
  <2>1. UNCHANGED <<inflight, lease>>
    BY <1>4 DEF ListActive, ListFails, Decrypt, Cool, Report, Succeed, Answer,
                MarkUnhealthy, coordVars
  <2> QED
    BY <2>1, LeasesKept
<1>5. CASE Refuse(r)
  <2>1. UNCHANGED <<inflight, lease>>
    BY <1>1, <1>3, <1>5 DEF Refuse, Return, Leased, RequestsTypeOK, coordVars
  <2> QED
    BY <2>1, LeasesKept
<1>6. CASE Pick(r)
  <2>1. lease[r] = None /\ seen[r] \subseteq Tokens
    BY <1>1, <1>3, <1>6 DEF Pick, Leased, RequestsTypeOK
  <2>2. CASE UNCHANGED <<inflight, lease>>
    BY <2>2, LeasesKept
  <2>3. ASSUME NEW t \in seen[r] \ {failed[r]},
               lease' = [lease EXCEPT ![r] = t],
               inflight' = [inflight EXCEPT ![t] = @ + 1]
        PROVE  InFlightIsLeases'
    BY <1>1, <2>1, <2>3, LeaseCounted
  <2> QED
    BY <1>6, <2>2, <2>3, PickLeases
<1>7. CASE DecryptFails(r) \/ SendFails(r) \/ ReleaseForRetry(r) \/ Stream(r)
  <2>1. /\ lease[r] \in Tokens
        /\ ReleaseToken(lease[r])
        /\ lease' = [lease EXCEPT ![r] = None]
    BY <1>2, <1>7 DEF DecryptFails, SendFails, ReleaseForRetry, Stream, Return, Leased
  <2> QED
    BY <1>1, <2>1, LeaseUncounted
<1> QED
  BY <1>4, <1>5, <1>6, <1>7 DEF RequestStep

\* Every step moves the count of a token with the requests that hold it.
LEMMA NextCounted == TypeOK /\ Placed /\ InFlightIsLeases /\ [Next]_vars => InFlightIsLeases'
<1> SUFFICES ASSUME TypeOK, Placed, InFlightIsLeases, [Next]_vars
             PROVE  InFlightIsLeases'
  OBVIOUS
<1>1. ASSUME NEW r \in Requests, RequestStep(r) PROVE InFlightIsLeases'
  BY <1>1, RequestCounted
<1>2. CASE \/ \E r \in Requests, s \in Subjects : Start(r, s)
           \/ AdminMove \/ Tick \/ UNCHANGED vars
  <2>1. UNCHANGED <<inflight, lease>>
    BY <1>2 DEF Start, AdminMove, Tick, vars, outside, coordVars, reqVars
  <2> QED
    BY <2>1, LeasesKept
<1>3. CASE Restart
  <2>1. \A t \in Tokens : inflight'[t] = 0 /\ Holders(t)' = {}
    BY <1>3, TokensAssumption DEF Restart, Holders
  <2> QED
    BY <2>1, FS_EmptySet DEF InFlightIsLeases
<1> QED
  BY <1>1, <1>2, <1>3 DEF Next

\* A server that has just started holds no token.
LEMMA InitCounted == Init => InFlightIsLeases
<1> SUFFICES ASSUME Init PROVE InFlightIsLeases
  OBVIOUS
<1>1. \A t \in Tokens : inflight[t] = 0 /\ Holders(t) = {}
  BY TokensAssumption DEF Init, CoordInit, RequestsInit, Holders
<1> QED
  BY <1>1, FS_EmptySet DEF InFlightIsLeases

\* The in-flight count of a token is the number of requests that hold it, for
\* any number of requests, tokens and administrators.
THEOREM InFlightCorrect == Spec => []InFlightIsLeases
<1>1. Init => TypeOK /\ Placed /\ InFlightIsLeases
  BY InitTyped, InitCounted
<1>2. TypeOK /\ Placed /\ InFlightIsLeases /\ [Next]_vars
        => (TypeOK /\ Placed /\ InFlightIsLeases)'
  BY NextTyped, NextCounted
<1> QED
  BY <1>1, <1>2, PTL DEF Spec

Typed == TypeOK /\ Placed

-----------------------------------------------------------------------------
(* The retry.                                                              *)

\* No step gives a request the token it failed with.
LEMMA RetryStep == Typed /\ RetryUsesAnotherToken /\ [Next]_vars => RetryUsesAnotherToken'
<1> SUFFICES ASSUME TypeOK, Placed, RetryUsesAnotherToken, [Next]_vars
             PROVE  RetryUsesAnotherToken'
  BY DEF Typed
<1> USE DEF RetryUsesAnotherToken
<1>1. RequestsTypeOK
  BY TypeParts
<1>2. ASSUME NEW r \in Requests, RequestStep(r) PROVE RetryUsesAnotherToken'
  <2>1. CASE ListActive(r) \/ ListFails(r) \/ Decrypt(r) \/ Cool(r) \/ Report(r)
             \/ Succeed(r) \/ \E c \in Statuses : Answer(r, c)
    BY <2>1 DEF ListActive, ListFails, Decrypt, Cool, Report, Succeed, Answer
  <2>2. CASE Pick(r)
    <3>1. failed' = failed
      BY <2>2 DEF Pick
    <3>2. lease' = lease \/ \E t \in seen[r] \ {failed[r]} : lease' = [lease EXCEPT ![r] = t]
      BY <2>2, PickLeases
    <3> QED
      BY <1>1, <3>1, <3>2 DEF RequestsTypeOK
  <2>3. CASE DecryptFails(r) \/ ReleaseForRetry(r) \/ Refuse(r) \/ SendFails(r) \/ Stream(r)
    <3>1. /\ lease' = [lease EXCEPT ![r] = None]
          /\ \E f : failed' = [failed EXCEPT ![r] = f]
      BY <1>1, <2>3 DEF DecryptFails, ReleaseForRetry, Refuse, SendFails, Stream, Return,
                        RequestsTypeOK
    <3> QED
      BY <1>1, <3>1 DEF RequestsTypeOK
  <2> QED
    BY <1>2, <2>1, <2>2, <2>3 DEF RequestStep
<1>3. CASE \/ \E r \in Requests, s \in Subjects : Start(r, s)
           \/ AdminMove \/ Tick \/ UNCHANGED vars
  BY <1>3 DEF Start, AdminMove, Tick, vars, outside, reqVars
<1>4. CASE Restart
  BY <1>4 DEF Restart
<1> QED
  BY <1>2, <1>3, <1>4 DEF Next

\* The token a request retries with is never the one that was just refused.
THEOREM RetryCorrect == Spec => []RetryUsesAnotherToken
<1>1. Init => Typed /\ RetryUsesAnotherToken
  BY InitTyped DEF Typed, Init, RequestsInit, RetryUsesAnotherToken
<1>2. Typed /\ RetryUsesAnotherToken /\ [Next]_vars => (Typed /\ RetryUsesAnotherToken)'
  BY NextTyped, RetryStep DEF Typed
<1> QED
  BY <1>1, <1>2, PTL DEF Spec

-----------------------------------------------------------------------------
(* Retired tokens.                                                         *)

\* Releasing a token raises no count.
LEMMA ReleaseLowers ==
  ASSUME CoordTypeOK, NEW t \in Tokens, ReleaseToken(t)
  PROVE  \A u \in Tokens : inflight'[u] <= inflight[u]
  BY DEF CoordTypeOK, ReleaseToken

\* Only Pick raises a count, and only for a token of the list it read.
LEMMA DrainsStep ==
  ASSUME Typed, [Next]_vars, NEW t \in Tokens
  PROVE  Drains(t)
<1>1. TypeOK /\ Placed /\ CoordTypeOK /\ RequestsTypeOK
  BY TypeParts DEF Typed
<1>2. inflight[t] \in Nat
  BY <1>1 DEF CoordTypeOK
<1>3. ASSUME NEW r \in Requests, RequestStep(r) PROVE Drains(t)
  <2>1. CASE ListActive(r) \/ ListFails(r) \/ Decrypt(r) \/ Cool(r) \/ Report(r)
             \/ Succeed(r) \/ Refuse(r) \/ \E c \in Statuses : Answer(r, c)
    BY <1>2, <2>1 DEF ListActive, ListFails, Decrypt, Cool, Report, Succeed, Refuse, Answer,
                      MarkUnhealthy, coordVars, Drains
  <2>2. CASE Pick(r)
    <3>1. pc[r] = "pick" /\ seen[r] \subseteq Tokens
      BY <1>1, <2>2 DEF Pick, RequestsTypeOK
    <3>2. CASE inflight' = inflight
      BY <1>2, <3>2 DEF Drains
    <3>3. ASSUME NEW u \in seen[r], inflight' = [inflight EXCEPT ![u] = @ + 1]
          PROVE  Drains(t)
      BY <1>1, <1>2, <3>1, <3>3 DEF Drains, CoordTypeOK
    <3> QED
      BY <1>1, <2>2, <3>2, <3>3, PickLeases
  <2>3. CASE DecryptFails(r) \/ SendFails(r) \/ ReleaseForRetry(r) \/ Stream(r)
    <3>1. lease[r] \in Tokens /\ ReleaseToken(lease[r])
      BY <1>1, <2>3 DEF DecryptFails, SendFails, ReleaseForRetry, Stream, Leased, Placed,
                        RequestsTypeOK
    <3> QED
      BY <1>1, <3>1, ReleaseLowers DEF Drains
  <2> QED
    BY <1>3, <2>1, <2>2, <2>3 DEF RequestStep
<1>4. CASE \/ \E r \in Requests, s \in Subjects : Start(r, s)
           \/ AdminMove \/ Tick \/ UNCHANGED vars
  BY <1>2, <1>4 DEF Start, AdminMove, Tick, vars, outside, coordVars, Drains
<1>5. CASE Restart
  BY <1>2, <1>5 DEF Restart, Drains
<1> QED
  BY <1>3, <1>4, <1>5 DEF Next

\* A disabled or deleted token that no request still has in the list it read is
\* leased to no one.
THEOREM RetiredCorrect == Spec => RetiredTokenDrains
<1>1. TypeOK /\ Placed /\ [Next]_vars => [\A t \in Tokens : Drains(t)]_vars
  BY DrainsStep DEF Typed
<1> QED
  BY <1>1, TypeCorrect, PTL DEF Spec, RetiredTokenDrains

-----------------------------------------------------------------------------
(* Refusals and affinity.                                                  *)

\* Pick refuses only when no token of the list is eligible.
LEMMA PickRefuses ==
  ASSUME Typed, NEW r \in Requests, Pick(r), pc'[r] = "refuse"
  PROVE  \A t \in seen[r] \ {failed[r]} : unhealthy[t] > since[r]
<1>1. /\ seen[r] \subseteq Tokens /\ since[r] \in Nat /\ now \in Nat
      /\ unhealthy \in [Tokens -> Nat] /\ pc \in [Requests -> Locations]
  BY DEF Typed, TypeOK, CoordTypeOK
<1>2. PICK at \in since[r] .. now, t \in Tokens \cup {None} :
        /\ AcquireToken(client[r], seen[r], failed[r], at, t)
        /\ GoTo(r, IF t = None THEN "refuse" ELSE "decrypt")
  BY DEF Pick
<1>3. t = None
  BY <1>1, <1>2 DEF GoTo
<1>4. Eligible(seen[r], failed[r], at) = {}
  BY <1>1, <1>2, <1>3, TokensAssumption
     DEF AcquireToken, NoCandidates, ReuseSticky, SelectLeastLoaded, NoneEligible,
         StickyHit, LeastLoaded, Eligible
<1> QED
  BY <1>1, <1>4 DEF Eligible

\* Besides the failing SELECT, only an undecryptable token and an empty choice
\* turn a request away.
LEMMA RefusesStep ==
  ASSUME Typed, [Next]_vars, NEW r \in Requests
  PROVE  RefusesForCause(r)
<1>1. RequestsTypeOK
  BY TypeParts DEF Typed
<1> SUFFICES ASSUME pc[r] # "refuse", pc'[r] = "refuse", pc[r] # "list", lease[r] \notin foreign
             PROVE  /\ lease[r] = None
                    /\ \A t \in seen[r] \ {failed[r]} : unhealthy[t] > since[r]
  BY DEF RefusesForCause
<1>2. ASSUME NEW q \in Requests, RequestStep(q), ~ Pick(q) \/ q # r PROVE FALSE
  BY <1>1, <1>2
     DEF RequestStep, ListActive, ListFails, Pick, Decrypt, DecryptFails, Refuse, SendFails,
         Answer, Cool, Report, ReleaseForRetry, Succeed, Stream, Return, GoTo, RequestsTypeOK
<1>3. ~ (\/ \E q \in Requests, s \in Subjects : Start(q, s)
         \/ AdminMove \/ Tick \/ Restart \/ UNCHANGED vars)
  BY <1>1 DEF Start, AdminMove, Tick, Restart, vars, reqVars, GoTo, RequestsTypeOK
<1>4. Pick(r)
  BY <1>2, <1>3 DEF Next
<1>5. lease[r] = None
  BY <1>1, <1>4 DEF Typed, Placed, Pick, Leased, RequestsTypeOK
<1> QED
  BY <1>4, <1>5, PickRefuses

\* A request is refused only when the active tokens could not be read, when it
\* was given a token it cannot decrypt, or when every token it read, but the one
\* it already tried, was cooling.
THEOREM RefusalCorrect == Spec => RefusedForCause
<1>1. TypeOK /\ Placed /\ [Next]_vars => [\A r \in Requests : RefusesForCause(r)]_vars
  BY RefusesStep DEF Typed
<1> QED
  BY <1>1, TypeCorrect, PTL DEF Spec, RefusedForCause

\* Leaving a token that would have been a sticky hit is no choice of Pick.
LEMMA PickForCause ==
  ASSUME Typed, NEW r \in Requests, Pick(r), lease'[r] # None
  PROVE  LeasesForCause(r)
<1>1. /\ seen[r] \subseteq Tokens /\ since[r] \in Nat /\ now \in Nat
      /\ unhealthy \in [Tokens -> Nat] /\ lease \in [Requests -> Tokens \cup {None}]
      /\ sticky \in [Subjects -> [id : Tokens \cup {None}, expiresAt : Nat]]
      /\ client[r] \in Subjects
  BY DEF Typed, TypeOK, CoordTypeOK, Placed, Pick
<1>2. PICK at \in since[r] .. now, t \in Tokens \cup {None} :
        /\ AcquireToken(client[r], seen[r], failed[r], at, t)
        /\ lease' = [lease EXCEPT ![r] = t]
  BY DEF Pick
<1>3. t = lease'[r] /\ t # None /\ at \in Nat /\ since[r] <= at /\ at <= now
  BY <1>1, <1>2
<1>4. CASE ReuseSticky(client[r], seen[r], failed[r], at, t)
  BY <1>1, <1>3, <1>4 DEF ReuseSticky, LeasesForCause
<1>5. CASE SelectLeastLoaded(client[r], seen[r], failed[r], at, t)
  <2> DEFINE old == sticky[client[r]]
  <2>1. sticky'[client[r]].id = t
    BY <1>1, <1>5 DEF SelectLeastLoaded
  <2>2. ~ (old.expiresAt > at /\ old.id \in Eligible(seen[r], failed[r], at))
    BY <1>5 DEF SelectLeastLoaded, StickyHit
  <2>3. old.id \in Tokens \cup {None} /\ old.expiresAt \in Nat
    BY <1>1
  <2>4. old.id \in Tokens => unhealthy[old.id] \in Nat
    BY <1>1
  <2>5. \/ old.id \in {None, failed[r]}
        \/ old.id \notin seen[r]
        \/ unhealthy[old.id] > since[r]
        \/ old.expiresAt <= now
    BY <1>1, <1>3, <2>2, <2>3, <2>4 DEF Eligible
  <2> QED
    BY <1>3, <2>1, <2>5 DEF LeasesForCause
<1> QED
  BY <1>2, <1>3, <1>4, <1>5 DEF AcquireToken, NoCandidates, NoneEligible

\* Only Pick takes a lease.
LEMMA ForCauseStep ==
  ASSUME Typed, [Next]_vars, NEW r \in Requests
  PROVE  LeasesForCause(r)
<1>1. RequestsTypeOK
  BY TypeParts DEF Typed
<1> SUFFICES ASSUME lease[r] = None, lease'[r] # None
             PROVE  LeasesForCause(r)
  BY DEF LeasesForCause
<1>2. ASSUME NEW q \in Requests, RequestStep(q), ~ Pick(q) \/ q # r PROVE FALSE
  BY <1>1, <1>2
     DEF RequestStep, ListActive, ListFails, Pick, Decrypt, DecryptFails, Refuse, SendFails,
         Answer, Cool, Report, ReleaseForRetry, Succeed, Stream, Return, RequestsTypeOK
<1>3. ~ (\/ \E q \in Requests, s \in Subjects : Start(q, s)
         \/ AdminMove \/ Tick \/ Restart \/ UNCHANGED vars)
  BY <1>1 DEF Start, AdminMove, Tick, Restart, vars, reqVars
<1>4. Pick(r)
  BY <1>2, <1>3 DEF Next
<1> QED
  BY <1>4, PickForCause

\* A subject changes its token for a cause, and is sticky on the new one.
THEOREM AffinityCorrect == Spec => AffinityForCause
<1>1. TypeOK /\ Placed /\ [Next]_vars => [\A r \in Requests : LeasesForCause(r)]_vars
  BY ForCauseStep DEF Typed
<1> QED
  BY <1>1, TypeCorrect, PTL DEF Spec, AffinityForCause

-----------------------------------------------------------------------------
(* The ledger.                                                             *)

LedgerSpent == [r \in Requests |-> Spent(r)]

\* What a request did not spend changes only with its own pc and failed.
LEMMA SpentKept ==
  ASSUME NEW q \in Requests, pc'[q] = pc[q], failed'[q] = failed[q]
  PROVE  Spent(q)' = Spent(q)
  BY DEF Spent

\* A request has tried at most one token it may try again after.
LEMMA SpentFew ==
  ASSUME NEW q \in Requests
  PROVE  Cardinality(Spent(q)) < 2
<1>1. Spent(q) \subseteq {failed[q]}
  BY DEF Spent
<1>2. IsFiniteSet({failed[q]}) /\ Cardinality({failed[q]}) = 1
  BY FS_Singleton
<1>3. IsFiniteSet(Spent(q)) /\ Cardinality(Spent(q)) <= 1
  BY <1>1, <1>2, FS_Subset
<1> QED
  BY <1>3, FS_CardinalityType

\* Releases come at the end of a request or before its retry, and only the
\* first token is given back for a retry.
FirstRelease == \A r \in Requests : pc[r] = "release" => failed[r] = None

\* Report sends none but a first token to be released for a retry.
LEMMA FirstReleaseStep == Typed /\ FirstRelease /\ [Next]_vars => FirstRelease'
<1> SUFFICES ASSUME Typed, FirstRelease, [Next]_vars PROVE FirstRelease'
  OBVIOUS
<1>1. RequestsTypeOK
  BY TypeParts DEF Typed
<1>2. ASSUME NEW r \in Requests, RequestStep(r) PROVE FirstRelease'
  BY <1>1, <1>2
     DEF RequestStep, ListActive, ListFails, Pick, Decrypt, DecryptFails, Refuse, SendFails,
         Answer, Cool, Report, ReleaseForRetry, Succeed, Stream, Return, GoTo,
         RequestsTypeOK, FirstRelease
<1>3. CASE \/ \E r \in Requests, s \in Subjects : Start(r, s)
           \/ AdminMove \/ Tick \/ Restart \/ UNCHANGED vars
  BY <1>1, <1>3 DEF Start, AdminMove, Tick, Restart, vars, reqVars, GoTo, RequestsTypeOK,
                    FirstRelease
<1> QED
  BY <1>2, <1>3 DEF Next

\* A step of a request is a lease, a return or an end of the ledger, or none.
LEMMA RequestLedger ==
  ASSUME Typed, InFlightIsLeases, FirstRelease, NEW r \in Requests, RequestStep(r)
  PROVE  [Ledger!Next]_(Ledger!ledgerVars)
<1> USE DEF Ledger!ledgerVars
<1>1. TypeOK /\ Placed /\ CoordTypeOK /\ RequestsTypeOK
  BY TypeParts DEF Typed
<1>2. pc[r] \in Leased => lease[r] \in Tokens
  BY <1>1 DEF Placed, RequestsTypeOK
<1>3. pc[r] \notin Leased => lease[r] = None
  BY <1>1 DEF Placed
<1>4. ASSUME \A q \in Requests : Spent(q)' = Spent(q), UNCHANGED <<inflight, lease>>
      PROVE  UNCHANGED Ledger!ledgerVars
  BY <1>4
<1>5. CASE ListActive(r) \/ Decrypt(r) \/ Cool(r) \/ Report(r)
           \/ Succeed(r) \/ \E c \in Statuses : Answer(r, c)
  <2>1. UNCHANGED <<inflight, lease>>
    BY <1>5 DEF ListActive, Decrypt, Cool, Report, Succeed, Answer, MarkUnhealthy, coordVars
  <2>2. ASSUME NEW q \in Requests PROVE Spent(q)' = Spent(q)
    BY <1>1, <1>5 DEF ListActive, Decrypt, Cool, Report, Succeed, Answer, GoTo, Spent,
                      RequestsTypeOK
  <2> QED
    BY <1>4, <2>1, <2>2
<1>6. CASE Refuse(r)
  <2>1. UNCHANGED <<inflight, lease>>
    BY <1>1, <1>3, <1>6 DEF Refuse, Return, Leased, RequestsTypeOK, coordVars
  <2>2. ASSUME NEW q \in Requests PROVE Spent(q)' = Spent(q)
    BY <1>1, <1>6 DEF Refuse, Return, GoTo, Spent, RequestsTypeOK
  <2> QED
    BY <1>4, <2>1, <2>2
<1>7. ASSUME ListFails(r) \/ (Pick(r) /\ pc' = [pc EXCEPT ![r] = "refuse"]),
             UNCHANGED <<inflight, lease>>
      PROVE  Ledger!Finish(r)
  <2>1. lease[r] = None /\ UNCHANGED failed /\ pc' = [pc EXCEPT ![r] = "refuse"]
    BY <1>3, <1>7 DEF ListFails, Pick, Leased, GoTo
  <2>2. \A q \in Requests : Spent(q)' = IF q = r THEN {} ELSE Spent(q)
    BY <1>1, <2>1 DEF Spent, RequestsTypeOK
  <2>3. LedgerSpent' = [LedgerSpent EXCEPT ![r] = {}]
    BY <2>2 DEF LedgerSpent
  <2>4. lease' = [lease EXCEPT ![r] = None]
    BY <1>1, <1>7, <2>1 DEF RequestsTypeOK
  <2> QED
    BY <1>7, <2>1, <2>3, <2>4 DEF Ledger!Finish, LedgerSpent
<1>8. CASE Pick(r)
  <2>1. lease[r] = None /\ seen[r] \subseteq Tokens /\ failed' = failed
    BY <1>1, <1>3, <1>8 DEF Pick, Leased, RequestsTypeOK
  <2>2. ASSUME NEW t \in seen[r] \ {failed[r]},
               lease' = [lease EXCEPT ![r] = t],
               inflight' = [inflight EXCEPT ![t] = @ + 1],
               pc' = [pc EXCEPT ![r] = "decrypt"]
        PROVE  Ledger!Lease(r, t)
    <3>1. t \notin Spent(r)
      BY <2>2 DEF Spent
    <3>2. \A q \in Requests : Spent(q)' = Spent(q)
      BY <1>1, <1>8, <2>1, <2>2 DEF Spent, RequestsTypeOK, Pick
    <3>3. LedgerSpent' = LedgerSpent /\ LedgerSpent[r] = Spent(r)
      BY <3>2 DEF LedgerSpent
    <3>4. Cardinality(LedgerSpent[r]) < 2
      BY <3>3, SpentFew
    <3>5. Ledger!Cardinality(LedgerSpent[r]) = Cardinality(LedgerSpent[r])
      BY Zenon DEF Ledger!Cardinality, Cardinality
    <3> QED
      BY <2>1, <2>2, <3>1, <3>3, <3>4, <3>5 DEF Ledger!Lease, LedgerSpent
  <2>3. CASE UNCHANGED <<inflight, lease>> /\ pc' = [pc EXCEPT ![r] = "refuse"]
    BY <1>7, <1>8, <2>3 DEF Ledger!Next
  <2> QED
    BY <1>1, <1>8, <2>1, <2>2, <2>3, PickLeases DEF Ledger!Next
<1>9. CASE DecryptFails(r) \/ SendFails(r) \/ Stream(r) \/ ReleaseForRetry(r)
  <2>1. /\ lease[r] \in Tokens
        /\ ReleaseToken(lease[r])
        /\ lease' = [lease EXCEPT ![r] = None]
    BY <1>2, <1>9 DEF DecryptFails, SendFails, ReleaseForRetry, Stream, Return, Leased
  <2>2. inflight' = [inflight EXCEPT ![lease[r]] = @ - 1]
    BY <1>1, <2>1, LeaseUncounted
  <2>3. lease[r] # None
    BY <2>1, TokensAssumption
  <2>4. CASE DecryptFails(r) \/ SendFails(r) \/ Stream(r)
    <3>1. \A q \in Requests : Spent(q)' = IF q = r THEN {} ELSE Spent(q)
      BY <1>1, <2>4 DEF DecryptFails, SendFails, Stream, Return, GoTo, Spent, RequestsTypeOK
    <3>2. LedgerSpent' = [LedgerSpent EXCEPT ![r] = {}]
      BY <3>1 DEF LedgerSpent
    <3>3. Ledger!Finish(r)
      BY <2>1, <2>2, <2>3, <3>2 DEF Ledger!Finish, LedgerSpent
    <3> QED
      BY <3>3 DEF Ledger!Next
  <2>5. CASE ReleaseForRetry(r)
    <3>1. failed[r] = None
      BY <2>5 DEF ReleaseForRetry, FirstRelease
    <3>2. \A q \in Requests : Spent(q)' = IF q = r THEN Spent(q) \cup {lease[r]} ELSE Spent(q)
      BY <1>1, <2>3, <2>5, <3>1 DEF ReleaseForRetry, GoTo, Spent, RequestsTypeOK
    <3>3. LedgerSpent' = [LedgerSpent EXCEPT ![r] = @ \cup {lease[r]}]
      BY <3>2 DEF LedgerSpent
    <3>4. Ledger!GiveBack(r)
      BY <2>1, <2>2, <2>3, <3>3 DEF Ledger!GiveBack, LedgerSpent
    <3> QED
      BY <3>4 DEF Ledger!Next
  <2> QED
    BY <1>9, <2>4, <2>5
<1>10. CASE ListFails(r)
  BY <1>7, <1>10 DEF ListFails, coordVars, Ledger!Next
<1> QED
  BY <1>5, <1>6, <1>8, <1>9, <1>10 DEF RequestStep

\* So is every step of the server; a restart resets the ledger.
LEMMA NextLedger ==
  Typed /\ InFlightIsLeases /\ FirstRelease /\ [Next]_vars => [Ledger!Next]_(Ledger!ledgerVars)
<1> SUFFICES ASSUME Typed, InFlightIsLeases, FirstRelease, [Next]_vars
             PROVE  [Ledger!Next]_(Ledger!ledgerVars)
  OBVIOUS
<1>1. RequestsTypeOK
  BY TypeParts DEF Typed
<1>2. ASSUME NEW r \in Requests, RequestStep(r) PROVE [Ledger!Next]_(Ledger!ledgerVars)
  BY <1>2, RequestLedger
<1>3. CASE \/ \E r \in Requests, s \in Subjects : Start(r, s)
           \/ AdminMove \/ Tick \/ UNCHANGED vars
  <2>1. UNCHANGED <<inflight, lease>>
    BY <1>3 DEF Start, AdminMove, Tick, vars, outside, coordVars, reqVars
  <2>2. \A q \in Requests : Spent(q)' = Spent(q)
    BY <1>1, <1>3 DEF Start, AdminMove, Tick, vars, outside, reqVars, GoTo, Spent, RequestsTypeOK
  <2> QED
    BY <2>1, <2>2 DEF Ledger!ledgerVars
<1>4. CASE Restart
  BY <1>4 DEF Restart, Spent, Ledger!Next, Ledger!Reset
<1> QED
  BY <1>2, <1>3, <1>4 DEF Next

\* The requests of the proxy keep the promise of the ledger: one token at a
\* time, at most two, never one twice, each counted exactly while it is held.
THEOREM LedgerImplemented == Spec => ImplementsLedger
<1> DEFINE IInv == Typed /\ InFlightIsLeases /\ FirstRelease
<1>1. Init => IInv
  BY InitTyped, InitCounted DEF Typed, FirstRelease, Init, RequestsInit
<1>2. IInv /\ [Next]_vars => IInv'
  BY NextTyped, NextCounted, FirstReleaseStep DEF Typed
<1>3. Init => Ledger!Init
  BY DEF Init, CoordInit, RequestsInit, Ledger!Init, Spent
<1>4. IInv /\ [Next]_vars => [Ledger!Next]_(Ledger!ledgerVars)
  BY NextLedger
<1> QED
  BY <1>1, <1>2, <1>3, <1>4, PTL DEF Spec, ImplementsLedger, Ledger!Spec

-----------------------------------------------------------------------------
(* The choice of AcquireToken.                                             *)

\* The loop over the candidates ends with one of them, the same however they compare.
LEMMA LeastLoadedIsOne ==
  ASSUME CoordTypeOK, NEW E \in SUBSET Tokens, E # {}
  PROVE  \E t \in E : LeastLoaded(E) = {t}
<1> DEFINE Before(x, t) == inflight[x] < inflight[t] \/ (inflight[x] = inflight[t] /\ x < t)
           below(t) == {x \in E : Before(x, t)}
           T == {below(t) : t \in E}
<1>1. \A x \in E : x \in Int /\ inflight[x] \in Int
  BY TokensAssumption DEF CoordTypeOK
<1>2. /\ \A x \in E : ~ Before(x, x)
      /\ \A x, t, u \in E : Before(x, t) /\ Before(t, u) => Before(x, u)
      /\ \A x, t \in E : Before(x, t) \/ x = t \/ Before(t, x)
      /\ \A t \in E : t \in LeastLoaded(E) <=> \A u \in E : ~ Before(u, t)
  BY <1>1 DEF LeastLoaded
<1> HIDE DEF Before
<1>3. PICK t \in E : \A u \in E : ~ (<<below(u), below(t)>> \in StrictSubsetOrdering(E))
  <2>1. IsFiniteSet(E)
    BY TokensAssumption, FS_Subset
  <2>2. IsWellFoundedOn(StrictSubsetOrdering(E), SUBSET E)
    BY <2>1, FS_StrictSubsetOrderingWellFounded, FS_FiniteSubsetsOfFinite, Zenon
  <2>3. T \subseteq SUBSET E /\ T # {}
    OBVIOUS
  <2>4. PICK b \in T : \A y \in T : ~ (<<y, b>> \in StrictSubsetOrdering(E))
    <3> HIDE DEF T
    <3> QED
      BY <2>2, <2>3, WFMin, Zenon
  <2> QED
    BY <2>4
<1>4. ASSUME NEW u \in E, Before(u, t)
      PROVE  FALSE
  <2>1. below(u) \subseteq below(t) /\ u \in below(t) /\ u \notin below(u)
    BY <1>2, <1>4
  <2>2. below(u) \in SUBSET E /\ below(t) \in SUBSET E
    OBVIOUS
  <2>3. <<below(u), below(t)>> \in StrictSubsetOrdering(E)
    <3> HIDE DEF below
    <3> QED
      BY <2>1, <2>2 DEF StrictSubsetOrdering
  <2> QED
    BY <1>3, <2>3
<1>5. t \in LeastLoaded(E)
  BY <1>2, <1>4
<1>6. ASSUME NEW u \in LeastLoaded(E)
      PROVE  u = t
  <2>1. u \in E
    BY DEF LeastLoaded
  <2> QED
    BY <1>2, <1>4, <2>1
<1> QED
  BY <1>5, <1>6

\* AcquireToken answers whatever it is called with, and in one way: a list with an eligible
\* candidate gives a token, one without gives none, and no second answer is possible.
THEOREM AcquireTokenDecides ==
  ASSUME CoordTypeOK, NEW s \in Subjects, NEW C \in SUBSET Tokens, NEW exclude, NEW at
  PROVE  \E t \in C \cup {None} :
           /\ t # None <=> Eligible(C, exclude, at) # {}
           /\ StickyHit(s, C, exclude, at) => t = sticky[s].id
           /\ t # None /\ ~ StickyHit(s, C, exclude, at)
                => LeastLoaded(Eligible(C, exclude, at)) = {t}
           /\ \A u : AcquireToken(s, C, exclude, at, u) => u = t
<1> DEFINE E == Eligible(C, exclude, at)
<1>1. E \subseteq C /\ E \in SUBSET Tokens /\ None \notin C
  BY TokensAssumption DEF Eligible
<1>2. CASE StickyHit(s, C, exclude, at)
  <2>1. sticky[s].id \in E
    BY <1>2 DEF StickyHit
  <2>2. \A u : AcquireToken(s, C, exclude, at, u) => u = sticky[s].id
    BY <1>1, <1>2, <2>1 DEF AcquireToken, NoCandidates, ReuseSticky, SelectLeastLoaded,
                            NoneEligible
  <2> QED
    BY <1>1, <1>2, <2>1, <2>2
<1>3. CASE ~ StickyHit(s, C, exclude, at) /\ E # {}
  <2>1. PICK t \in E : LeastLoaded(E) = {t}
    BY <1>1, <1>3, LeastLoadedIsOne
  <2>2. \A u : AcquireToken(s, C, exclude, at, u) => u = t
    BY <1>1, <1>3, <2>1 DEF AcquireToken, NoCandidates, ReuseSticky, SelectLeastLoaded,
                            NoneEligible
  <2> QED
    BY <1>1, <1>3, <2>1, <2>2
<1>4. CASE E = {}
  <2>1. ~ StickyHit(s, C, exclude, at)
    BY <1>4 DEF StickyHit
  <2>2. LeastLoaded({}) = {}
    BY DEF LeastLoaded
  <2>3. \A u : AcquireToken(s, C, exclude, at, u) => u = None
    BY <1>4, <2>1, <2>2 DEF AcquireToken, NoCandidates, ReuseSticky, SelectLeastLoaded,
                            NoneEligible
  <2> QED
    BY <1>4, <2>1, <2>3
<1> QED
  BY <1>2, <1>3, <1>4

-----------------------------------------------------------------------------
(* The steps a request has before it.  Fairness makes RequestsFinish of    *)
(* their number.                                                           *)

Local(r) == <<pc[r], client[r], seen[r], since[r], lease[r], failed[r], code[r]>>

\* The steps of an attempt from each location on, the retry not counted.
StepsOfAttempt ==
  [l \in Locations |->
     CASE l = "list" -> 7 [] l = "pick" -> 6 [] l = "decrypt" -> 5 [] l = "send" -> 4
       [] l = "cool" -> 3 [] l \in {"report", "succeed"} -> 2
       [] l \in {"release", "stream", "refuse"} -> 1 [] OTHER -> 0]

\* The first attempt may yet be followed by the retry.
MayRetry(r) ==
  /\ failed[r] = None
  /\ pc[r] \in {"list", "pick", "decrypt", "send", "cool", "report", "release"}

StepsLeft(r) == StepsOfAttempt[pc[r]] + IF MayRetry(r) THEN 7 ELSE 0

Nearer(r) == StepsLeft(r)' < StepsLeft(r)

\* A request that is handled is nearer to its end after each step of its own, and is left
\* alone by the steps of the others, unless they end it.
Advances(r) ==
  pc[r] # "idle" => /\ RequestStep(r) => Nearer(r)
                    /\ Nearer(r) \/ Local(r)' = Local(r)

\* A restart ends every request; nobody else touches one.
LEMMA AdvancesStep ==
  ASSUME Typed, FirstRelease, [Next]_vars, NEW r \in Requests
  PROVE  Advances(r)
<1>1. RequestsTypeOK
  BY TypeParts DEF Typed
<1>2. ASSUME RequestStep(r)
      PROVE  Nearer(r)
  BY <1>1, <1>2, TokensAssumption
     DEF RequestStep, ListActive, ListFails, Pick, Decrypt, DecryptFails, Refuse, SendFails,
         Answer, Cool, Report, ReleaseForRetry, Succeed, Stream, Return, GoTo,
         RequestsTypeOK, FirstRelease, Nearer, StepsLeft, StepsOfAttempt, MayRetry, Locations,
         Leased, Typed, Placed
<1>3. ASSUME NEW q \in Requests, RequestStep(q), q # r
      PROVE  Local(r)' = Local(r)
  BY <1>1, <1>3
     DEF RequestStep, ListActive, ListFails, Pick, Decrypt, DecryptFails, Refuse, SendFails,
         Answer, Cool, Report, ReleaseForRetry, Succeed, Stream, Return, GoTo, ForgetList,
         RequestsTypeOK, Local
<1>4. ASSUME Restart, pc[r] # "idle"
      PROVE  Nearer(r)
  <2>1. pc'[r] = "idle"
    BY <1>4 DEF Restart
  <2>2. pc[r] # "idle" => StepsOfAttempt[pc[r]] \in 1 .. 7
    BY <1>1 DEF RequestsTypeOK, StepsOfAttempt, Locations, Leased
  <2> QED
    BY <1>4, <2>1, <2>2 DEF Nearer, StepsLeft, StepsOfAttempt, MayRetry, Locations
<1>5. ASSUME NEW q \in Requests, NEW s \in Subjects, Start(q, s), pc[r] # "idle"
      PROVE  Local(r)' = Local(r)
  BY <1>1, <1>5 DEF Start, GoTo, RequestsTypeOK, Local
<1>6. ASSUME AdminMove \/ Tick \/ UNCHANGED vars
      PROVE  Local(r)' = Local(r)
  BY <1>6 DEF AdminMove, Tick, vars, outside, reqVars, Local
<1> QED
  BY <1>2, <1>3, <1>4, <1>5, <1>6 DEF Next, Advances

\* Whatever is refused, cannot be decrypted or fails, a request is at its end after at most
\* fourteen steps of its own: one retry, no loop.
THEOREM RequestsAdvance == Spec => [][\A r \in Requests : Advances(r)]_vars
<1> DEFINE IInv == Typed /\ FirstRelease
<1>1. Init => IInv
  BY InitTyped DEF Typed, FirstRelease, Init, RequestsInit
<1>2. IInv /\ [Next]_vars => IInv'
  BY NextTyped, FirstReleaseStep DEF Typed
<1>3. IInv /\ [Next]_vars => [\A r \in Requests : Advances(r)]_vars
  BY AdvancesStep
<1> QED
  BY <1>1, <1>2, <1>3, PTL DEF Spec

-----------------------------------------------------------------------------
(* The table under the traffic of the proxy.                               *)

\* Traffic and restarts do not disturb a removal that was decided.
LEMMA RemovalStep ==
  ASSUME OneAdmin, TypeOK, RemovalLeavesOne, [Next]_vars
  PROVE  RemovalLeavesOne' /\ (Active # {} => Active' # {})
<1>1. TokensTypeOK
  BY TypeParts
<1>2. CASE \/ \E r \in Requests : RequestStep(r) \/ \E s \in Subjects : Start(r, s)
           \/ Tick \/ UNCHANGED vars
  <2>1. UNCHANGED <<status, admin>>
    BY <1>2 DEF RequestStep, ListActive, ListFails, Pick, Decrypt, DecryptFails, Refuse,
                SendFails, Answer, Cool, Report, ReleaseForRetry, Succeed, Stream, Start,
                Tick, vars, outside, tokenVars
  <2> QED
    BY <2>1 DEF RemovalLeavesOne, Active
<1>3. CASE AdminMove
  BY <1>1, <1>3, AdminLeavesOne DEF AdminMove
<1>4. CASE Restart
  <2>1. Active \subseteq Active'
    BY <1>4, BootstrapKeeps DEF Restart, TypeOK
  <2> QED
    BY <1>4, <2>1 DEF Restart, RemovalLeavesOne, Idle, AdminOps
<1> QED
  BY <1>2, <1>3, <1>4 DEF Next

\* With one administrator a table that has an enabled token keeps one: neither the
\* traffic nor a restart between the two statements of a removal leaves none.
THEOREM OneRemainsUnderTraffic ==
  ASSUME OneAdmin
  PROVE  Spec => []RemovalLeavesOne /\ OneRemainsEnabled
<1>1. Init => RemovalLeavesOne
  BY DEF Init, TokensInit, RemovalLeavesOne, Idle, AdminOps
<1>2. TypeOK /\ RemovalLeavesOne /\ [Next]_vars => RemovalLeavesOne'
  BY OneAdmin, RemovalStep
<1>3. TypeOK /\ RemovalLeavesOne /\ [Next]_vars => [Active # {} => Active' # {}]_tokenVars
  BY OneAdmin, RemovalStep
<1> QED
  BY <1>1, <1>2, <1>3, TypeCorrect, PTL DEF Spec, OneRemainsEnabled
=============================================================================
