----------------------- MODULE RedisCoordinator_proofs -----------------------
(***************************************************************************)
(* What races do to the counts instances share through Redis, what the     *)
(* retry is given when Redis fails, and how many commands a request has    *)
(* before it, for any number of instances, requests, tokens and failures.  *)
(***************************************************************************)
EXTENDS RedisCoordinator, FiniteSetTheorems, WellFoundedInduction, TLAPS

-----------------------------------------------------------------------------
(* The invariant.                                                          *)

\* What the locals of a request at p can be: which token it is at, what its loop has
\* still to read, and that neither is the token to exclude.
RowOK(p, s, C, x, l, T, m) ==
  /\ p \in Locations
  /\ s \in Subjects \cup {None}
  /\ C \in SUBSET Tokens
  /\ x \in Tokens \cup {None}
  /\ l \in Tokens \cup {None}
  /\ T \in SUBSET Tokens
  /\ DOMAIN m \subseteq Tokens
  /\ \A t \in DOMAIN m : m[t] \in Int
  /\ p # "idle" => s \in Subjects
  /\ p \in {"checkSticky", "incrSticky", "del"} \cup Holding => l \in Tokens
  /\ p \in {"checkSticky", "incrSticky", "held"} => l # x
  /\ p = "load" => T # {}
  /\ p \notin {"probe", "load"} => T = {} /\ DOMAIN m = {}
  /\ x \notin T /\ x \notin DOMAIN m

Row(r) ==
  RowOK(pc[r], subject[r], candidates[r], exclude[r], lease[r], todo[r], loads[r])

\* Every request has its locals.
Tables ==
  /\ pc = [r \in Requests |-> pc[r]]
  /\ subject = [r \in Requests |-> subject[r]]
  /\ candidates = [r \in Requests |-> candidates[r]]
  /\ exclude = [r \in Requests |-> exclude[r]]
  /\ lease = [r \in Requests |-> lease[r]]
  /\ todo = [r \in Requests |-> todo[r]]
  /\ loads = [r \in Requests |-> loads[r]]

Rows == Tables /\ \A r \in Requests : Row(r)

\* What is in Redis and in the memory of the instances.
Shared ==
  /\ count \in [Tokens -> Int]
  /\ sticky \in [Subjects -> Tokens \cup {None}]
  /\ cooling \subseteq Tokens
  /\ memory \in [Instances -> [Tokens -> Nat]]
  /\ resting \in [Instances -> SUBSET Tokens]
  /\ failures \in 0 .. MaxFailures
  /\ leaked \in [Tokens -> Nat]

\* What failures have cost: as long as Redis answers nothing has leaked and nothing is
\* counted in memory, where every failure counts one at most.
LeaksPaid ==
  /\ failures = 0 => \A t \in Tokens : leaked[t] = 0
  /\ \A i \in Instances, t \in Tokens : memory[i][t] <= failures

CoordinatorInv == Shared /\ Rows /\ LeaksPaid /\ CountWithinLeases

-----------------------------------------------------------------------------
(* The least token, and the token the loop selects.                        *)

\* A finite set of integers has a least one.
LEMMA LeastElement ==
  ASSUME NEW S \in SUBSET Int, IsFiniteSet(S), S # {}
  PROVE  \E i \in S : \A j \in S : i <= j
<1> DEFINE below(i) == {x \in S : x < i}
           T == {below(i) : i \in S}
<1>2. IsWellFoundedOn(StrictSubsetOrdering(S), SUBSET S)
  BY FS_StrictSubsetOrderingWellFounded, FS_FiniteSubsetsOfFinite, Zenon
<1>3. T \subseteq SUBSET S /\ T # {}
  OBVIOUS
<1>4. PICK x \in T : \A y \in T : ~(<<y, x>> \in StrictSubsetOrdering(S))
  <2> HIDE DEF T
  <2> QED
    BY <1>2, <1>3, WFMin, Zenon
<1>5. PICK i \in S : x = below(i)
  BY <1>4
<1>6. ASSUME NEW j \in S, j < i
      PROVE  FALSE
  <2>1. below(j) \subseteq below(i) /\ j \in below(i) /\ j \notin below(j)
    <3>1. j \in Int /\ i \in Int /\ \A y \in S : y \in Int
      OBVIOUS
    <3>2. \A y \in S : y < j => y < i
      BY <1>6, <3>1
    <3>3. ~(j < j)
      BY <3>1
    <3> QED
      BY <1>6, <3>2, <3>3
  <2>2. below(j) \in SUBSET S /\ below(i) \in SUBSET S /\ below(j) \in T
    OBVIOUS
  <2>3. <<below(j), below(i)>> \in StrictSubsetOrdering(S)
    <3> HIDE DEF below
    <3> QED
    BY <2>1, <2>2 DEF StrictSubsetOrdering
  <2> QED
    BY <1>4, <1>5, <2>2, <2>3
<1> QED
  BY <1>6

\* The loop goes on with a token it has not read yet.
LEMMA NextIsLeft ==
  ASSUME NEW r \in Requests, todo[r] \in SUBSET Tokens, todo[r] # {}
  PROVE  NextCandidate(r) \in todo[r]
<1>1. todo[r] \in SUBSET Int /\ IsFiniteSet(todo[r])
  BY TokensAssumption, FS_Subset
<1>2. \E t \in todo[r] : \A u \in todo[r] : t <= u
  BY <1>1, LeastElement
<1> QED
  BY <1>2 DEF NextCandidate

\* The token selected is one the loop has read.
LEMMA SelectedIsRead ==
  ASSUME NEW m, DOMAIN m \in SUBSET Tokens, DOMAIN m # {}, \A t \in DOMAIN m : m[t] \in Int
  PROVE  Selected(m) \in DOMAIN m
<1> DEFINE S == DOMAIN m
           V == {m[t] : t \in S}
<1>1. S \in SUBSET Int /\ IsFiniteSet(S)
  BY TokensAssumption, FS_Subset
<1>2. V \in SUBSET Int /\ V # {}
  OBVIOUS
<1>3. IsFiniteSet(V)
  <2> DEFINE f == [t \in S |-> m[t]]
  <2>1. f \in Surjection(S, V)
    BY Zenon DEF Surjection
  <2> HIDE DEF f, S, V
  <2> QED
    BY <1>1, <2>1, FS_Surjection
<1>4. PICK v \in V : \A x \in V : v <= x
  <2> HIDE DEF V
  <2> QED
    BY <1>2, <1>3, LeastElement
<1> DEFINE W == {t \in S : m[t] = v}
<1>5. W \in SUBSET Int /\ IsFiniteSet(W) /\ W # {}
  BY <1>1, <1>4, FS_Subset
<1>6. PICK t \in W : \A u \in W : t <= u
  <2> HIDE DEF W
  <2> QED
    BY <1>5, LeastElement
<1>7. \A u \in S : m[t] < m[u] \/ (m[t] = m[u] /\ t <= u)
  <2> SUFFICES ASSUME NEW u \in S
               PROVE  m[t] < m[u] \/ (m[t] = m[u] /\ t <= u)
    OBVIOUS
  <2>1. m[t] = v /\ m[u] \in Int /\ v \in Int /\ v <= m[u]
    BY <1>2, <1>4, <1>6
  <2>2. m[u] = v => t <= u
    BY <1>6
  <2> QED
    BY <2>1, <2>2
<1>8. t \in DOMAIN m
  BY <1>6
<1> QED
  BY <1>7, <1>8, Zenon DEF Selected

-----------------------------------------------------------------------------
(* How a request moves.                                                    *)

\* Request r goes to p with these locals; the others stay where they are.
Moves(r, p, s, C, x, l, T, m) ==
  /\ pc' = [q \in Requests |-> IF q = r THEN p ELSE pc[q]]
  /\ subject' = [q \in Requests |-> IF q = r THEN s ELSE subject[q]]
  /\ candidates' = [q \in Requests |-> IF q = r THEN C ELSE candidates[q]]
  /\ exclude' = [q \in Requests |-> IF q = r THEN x ELSE exclude[q]]
  /\ lease' = [q \in Requests |-> IF q = r THEN l ELSE lease[q]]
  /\ todo' = [q \in Requests |-> IF q = r THEN T ELSE todo[q]]
  /\ loads' = [q \in Requests |-> IF q = r THEN m ELSE loads[q]]

\* A move to locals that fit their place keeps the rows.
LEMMA MoveKeepsRows ==
  ASSUME Rows, NEW r \in Requests, NEW p, NEW s, NEW C, NEW x, NEW l, NEW T, NEW m,
         RowOK(p, s, C, x, l, T, m), Moves(r, p, s, C, x, l, T, m)
  PROVE  Rows'
<1>1. ASSUME NEW q \in Requests
      PROVE  Row(q)'
  <2>1. CASE q = r
    <3>1. /\ pc'[q] = p /\ subject'[q] = s /\ candidates'[q] = C /\ exclude'[q] = x
          /\ lease'[q] = l /\ todo'[q] = T /\ loads'[q] = m
      BY <2>1 DEF Moves
    <3> QED
      BY <3>1 DEF Row
  <2>2. CASE q # r
    <3>1. /\ pc'[q] = pc[q] /\ subject'[q] = subject[q] /\ candidates'[q] = candidates[q]
          /\ exclude'[q] = exclude[q] /\ lease'[q] = lease[q] /\ todo'[q] = todo[q]
          /\ loads'[q] = loads[q]
      BY <2>2 DEF Moves
    <3>2. Row(q)
      BY DEF Rows
    <3> QED
      BY <3>1, <3>2 DEF Row
  <2> QED
    BY <2>1, <2>2
<1>2. Tables'
  BY DEF Moves, Tables
<1> QED
  BY <1>1, <1>2 DEF Rows

\* A move changes the holders of a token by the request that moves.
LEMMA MoveChangesHolders ==
  ASSUME Rows, NEW r \in Requests, NEW p, NEW s, NEW C, NEW x, NEW l, NEW T, NEW m,
         Moves(r, p, s, C, x, l, T, m), NEW t \in Tokens
  PROVE  Counted(t)' = IF l = t /\ p \in Holding THEN Counted(t) \cup {r}
                       ELSE Counted(t) \ {r}
<1>1. /\ pc'[r] = p /\ lease'[r] = l
      /\ \A q \in Requests : q # r => pc'[q] = pc[q] /\ lease'[q] = lease[q]
  BY DEF Moves
<1> QED
  BY <1>1 DEF Counted

\* There are finitely many holders.
LEMMA HoldersFinite ==
  ASSUME NEW t
  PROVE  /\ IsFiniteSet(Counted(t)) /\ Cardinality(Counted(t)) \in Nat
         /\ \A r \in Requests :
              /\ Cardinality(Counted(t) \cup {r}) =
                   IF r \in Counted(t) THEN Cardinality(Counted(t)) ELSE Cardinality(Counted(t)) + 1
              /\ Cardinality(Counted(t) \ {r}) =
                   IF r \in Counted(t) THEN Cardinality(Counted(t)) - 1 ELSE Cardinality(Counted(t))
<1>1. Counted(t) \subseteq Requests /\ IsFiniteSet(Requests)
  BY RedisAssumption DEF Counted
<1>2. IsFiniteSet(Counted(t))
  BY <1>1, FS_Subset
<1> QED
  BY <1>2, FS_CardinalityType, FS_AddElement, FS_RemoveElement

\* The holders an instance loses when it stops, and those that are left.
LEMMA CrashedHolders ==
  ASSUME NEW t, NEW i
  PROVE  /\ Cardinality({r \in Counted(t) : Home[r] = i}) \in Nat
         /\ Cardinality({r \in Counted(t) : Home[r] # i}) \in Nat
         /\ Cardinality(Counted(t)) = Cardinality({r \in Counted(t) : Home[r] = i})
                                      + Cardinality({r \in Counted(t) : Home[r] # i})
<1> DEFINE lost == {r \in Counted(t) : Home[r] = i}
           left == {r \in Counted(t) : Home[r] # i}
<1>1. IsFiniteSet(lost) /\ IsFiniteSet(left)
  BY HoldersFinite, FS_Subset
<1>2. Counted(t) = lost \cup left /\ lost \cap left = {}
  OBVIOUS
<1> HIDE DEF lost, left
<1>3. Cardinality(lost) \in Nat /\ Cardinality(left) \in Nat
  BY <1>1, FS_CardinalityType
<1>4. Cardinality(lost \cup left)
        = Cardinality(lost) + Cardinality(left) - Cardinality(lost \cap left)
  BY <1>1, FS_Union
<1>5. Cardinality(lost \cap left) = 0
  BY <1>2, FS_EmptySet
<1> QED
  BY <1>2, <1>3, <1>4, <1>5 DEF lost, left

\* A request that is over, and one that starts its operation from scratch.
LEMMA IdleRow ==
  /\ RowOK("idle", None, {}, None, None, {}, <<>>)
  /\ DOMAIN <<>> = {}
<1>1. DOMAIN <<>> = {}
  OBVIOUS
<1> QED
  BY <1>1, TokensAssumption DEF RowOK, Locations, Acquiring, Holding

\* A row of the table.
LEMMA RowOf ==
  ASSUME Rows, NEW r \in Requests
  PROVE  Row(r) /\ Tables
  BY DEF Rows

\* The request of a row that ends is idle.
LEMMA EndMoves ==
  ASSUME Rows, NEW r \in Requests, End(r)
  PROVE  Moves(r, "idle", None, {}, None, None, {}, <<>>)
  BY RowOf DEF End, Go, Set, Forget, Moves, Tables

\* Reading goes on with the loop.
LEMMA LoopRow ==
  ASSUME NEW r \in Requests, Row(r), pc[r] \in {"getSticky", "checkSticky"}
  PROVE  RowOK("probe", subject[r], candidates[r], exclude[r], None,
               candidates[r] \ {exclude[r]}, loads[r])
  BY DEF Row, RowOK, Locations, Acquiring, Holding

\* The steps that read from Redis, or begin or end an operation: no count changes, and the
\* request neither has a lease nor gets one.
Reads(r) ==
  \/ \E s \in Subjects, C \in ActiveLists : Begin(r, s, C)
  \/ GetSticky(r) \/ CheckSticky(r) \/ Probe(r) \/ Load(r) \/ NoneHealthy(r)

LEMMA ReadMoves ==
  ASSUME Rows, Shared, NEW r \in Requests, Reads(r)
  PROVE  /\ UNCHANGED <<redisVars, memVars, failures, leaked>>
         /\ pc[r] \notin Holding \cup {"del"}
         /\ \E p \in Acquiring \cup {"idle"} : \E s, C, x, l, T, m :
              RowOK(p, s, C, x, l, T, m) /\ Moves(r, p, s, C, x, l, T, m)
<1> DEFINE Goal == \E p \in Acquiring \cup {"idle"} : \E s, C, x, l, T, m :
                     RowOK(p, s, C, x, l, T, m) /\ Moves(r, p, s, C, x, l, T, m)
<1>0. UNCHANGED <<redisVars, memVars, failures, leaked>> /\ pc[r] \notin Holding \cup {"del"}
  BY DEF Reads, Begin, GetSticky, CheckSticky, Probe, Load, NoneHealthy, Holding
<1>r. Row(r) /\ Tables
  BY RowOf
<1>a. "idle" \in Acquiring \cup {"idle"} /\ "getSticky" \in Acquiring
      /\ "checkSticky" \in Acquiring /\ "incrSticky" \in Acquiring /\ "probe" \in Acquiring
      /\ "load" \in Acquiring
  BY DEF Acquiring
<1>1. ASSUME NEW s \in Subjects, NEW C \in ActiveLists, Begin(r, s, C)
      PROVE  Goal
  <2>1. RowOK("getSticky", s, C, exclude[r], lease[r], todo[r], loads[r])
    BY <1>1, <1>r, RedisAssumption DEF Begin, Row, RowOK, Locations, Acquiring, Holding
  <2>2. Moves(r, "getSticky", s, C, exclude[r], lease[r], todo[r], loads[r])
    BY <1>1, <1>r DEF Begin, Go, Set, Moves, Tables
  <2> QED
    BY <1>a, <2>1, <2>2
<1>2. ASSUME GetSticky(r)
      PROVE  Goal
  <2> DEFINE t == sticky[subject[r]]
  <2>1. CASE t \in candidates[r] \ {exclude[r]}
    <3>1. RowOK("checkSticky", subject[r], candidates[r], exclude[r], t, todo[r], loads[r])
      BY <1>2, <1>r, <2>1, TokensAssumption
      DEF GetSticky, Row, RowOK, Locations, Acquiring, Holding
    <3>2. Moves(r, "checkSticky", subject[r], candidates[r], exclude[r], t, todo[r], loads[r])
      BY <1>2, <1>r, <2>1 DEF GetSticky, Go, Set, Moves, Tables
    <3> QED
      BY <1>a, <3>1, <3>2
  <2>2. CASE ~ (t \in candidates[r] \ {exclude[r]})
    <3>1. pc[r] = "getSticky" /\ EnterLoop(r)
          /\ UNCHANGED <<subject, candidates, exclude, loads>>
      BY <1>2, <2>2 DEF GetSticky
    <3>2. Moves(r, "probe", subject[r], candidates[r], exclude[r], None,
                candidates[r] \ {exclude[r]}, loads[r])
      BY <1>r, <3>1 DEF EnterLoop, Go, Set, Moves, Tables
    <3> QED
      BY <1>a, <1>r, <3>1, <3>2, LoopRow
  <2> QED
    BY <2>1, <2>2
<1>3. ASSUME CheckSticky(r)
      PROVE  Goal
  <2>1. CASE lease[r] \in cooling
    <3>1. pc[r] = "checkSticky" /\ EnterLoop(r)
          /\ UNCHANGED <<subject, candidates, exclude, loads>>
      BY <1>3, <2>1 DEF CheckSticky
    <3>2. Moves(r, "probe", subject[r], candidates[r], exclude[r], None,
                candidates[r] \ {exclude[r]}, loads[r])
      BY <1>r, <3>1 DEF EnterLoop, Go, Set, Moves, Tables
    <3> QED
      BY <1>a, <1>r, <3>1, <3>2, LoopRow
  <2>2. CASE lease[r] \notin cooling
    <3>1. RowOK("incrSticky", subject[r], candidates[r], exclude[r], lease[r], todo[r], loads[r])
      BY <1>3, <1>r DEF CheckSticky, Row, RowOK, Locations, Acquiring, Holding
    <3>2. Moves(r, "incrSticky", subject[r], candidates[r], exclude[r], lease[r], todo[r],
                loads[r])
      BY <1>3, <1>r, <2>2 DEF CheckSticky, Go, Set, Moves, Tables
    <3> QED
      BY <1>a, <3>1, <3>2
  <2> QED
    BY <2>1, <2>2
<1>4. ASSUME Probe(r)
      PROVE  Goal
  <2>1. NextCandidate(r) \in todo[r]
    BY <1>4, <1>r, NextIsLeft DEF Probe, Row, RowOK
  <2>2. CASE NextCandidate(r) \in cooling
    <3> DEFINE left == todo[r] \ {NextCandidate(r)}
    <3>1. RowOK("probe", subject[r], candidates[r], exclude[r], lease[r], left, loads[r])
      BY <1>4, <1>r DEF Probe, Row, RowOK, Locations, Acquiring, Holding
    <3>2. Moves(r, "probe", subject[r], candidates[r], exclude[r], lease[r], left, loads[r])
      BY <1>4, <1>r, <2>2 DEF Probe, Set, Moves, Tables
    <3> QED
      BY <1>a, <3>1, <3>2
  <2>3. CASE NextCandidate(r) \notin cooling
    <3>1. RowOK("load", subject[r], candidates[r], exclude[r], lease[r], todo[r], loads[r])
      BY <1>4, <1>r DEF Probe, Row, RowOK, Locations, Acquiring, Holding
    <3>2. Moves(r, "load", subject[r], candidates[r], exclude[r], lease[r], todo[r], loads[r])
      BY <1>4, <1>r, <2>3 DEF Probe, Go, Set, Moves, Tables
    <3> QED
      BY <1>a, <3>1, <3>2
  <2> QED
    BY <2>2, <2>3
<1>5. ASSUME Load(r)
      PROVE  Goal
  <2> DEFINE n == NextCandidate(r)
             left == todo[r] \ {n}
             read == [t \in DOMAIN loads[r] \cup {n} |-> IF t = n THEN count[t] ELSE loads[r][t]]
  <2>1. n \in todo[r]
    BY <1>5, <1>r, NextIsLeft DEF Load, Row, RowOK
  <2>2. Moves(r, "probe", subject[r], candidates[r], exclude[r], lease[r], left, read)
    BY <1>5, <1>r DEF Load, Go, Set, Moves, Tables
  <2>3. DOMAIN read = DOMAIN loads[r] \cup {n} /\ \A t \in DOMAIN read : read[t] \in Int
    BY <1>r, <2>1 DEF Row, RowOK, Shared
  <2> HIDE DEF n, left, read
  <2>4. RowOK("probe", subject[r], candidates[r], exclude[r], lease[r], left, read)
    BY <1>5, <1>r, <2>1, <2>3
    DEF Load, Row, RowOK, Locations, Acquiring, Holding, left
  <2> QED
    BY <1>a, <2>2, <2>4
<1>6. ASSUME NoneHealthy(r)
      PROVE  Goal
  <2>1. Moves(r, "idle", None, {}, None, None, {}, <<>>)
    BY <1>6, EndMoves DEF NoneHealthy
  <2> QED
    BY <1>a, <2>1, IdleRow
<1>7. Goal
  BY <1>1, <1>2, <1>3, <1>4, <1>5, <1>6 DEF Reads
<1> QED
  BY <1>0, <1>7

\* The steps that count a request for the token it is given.
LEMMA TakeMoves ==
  ASSUME Rows, Shared, NEW r \in Requests, IncrSticky(r) \/ Commit(r)
  PROVE  /\ UNCHANGED <<cooling, memVars, failures, leaked>>
         /\ sticky' \in [Subjects -> Tokens \cup {None}]
         /\ pc[r] \notin Holding \cup {"del"}
         /\ \E t \in Tokens :
              /\ count' = [count EXCEPT ![t] = @ + 1]
              /\ \E s, C, x, T, m :
                   RowOK("held", s, C, x, t, T, m) /\ Moves(r, "held", s, C, x, t, T, m)
<1>r. Row(r) /\ Tables
  BY RowOf
<1>1. UNCHANGED <<cooling, memVars, failures, leaked>> /\ pc[r] \notin Holding \cup {"del"}
  BY DEF IncrSticky, Commit, Holding
<1> DEFINE Goal == \E t \in Tokens :
                     /\ count' = [count EXCEPT ![t] = @ + 1]
                     /\ \E s, C, x, T, m : RowOK("held", s, C, x, t, T, m)
                                          /\ Moves(r, "held", s, C, x, t, T, m)
<1>2. ASSUME IncrSticky(r)
      PROVE  Goal /\ sticky' = sticky
  <2>1. RowOK("held", subject[r], candidates[r], exclude[r], lease[r], todo[r], loads[r])
        /\ lease[r] \in Tokens
    BY <1>2, <1>r DEF IncrSticky, Row, RowOK, Locations, Acquiring, Holding
  <2>2. Moves(r, "held", subject[r], candidates[r], exclude[r], lease[r], todo[r], loads[r])
    BY <1>2, <1>r DEF IncrSticky, Go, locals, Moves, Tables
  <2>3. count' = [count EXCEPT ![lease[r]] = @ + 1] /\ sticky' = sticky
    BY <1>2 DEF IncrSticky, Set
  <2> QED
    BY <2>1, <2>2, <2>3
<1>3. ASSUME Commit(r)
      PROVE  Goal /\ sticky' \in [Subjects -> Tokens \cup {None}]
  <2> DEFINE t == Selected(loads[r])
  <2>1. t \in DOMAIN loads[r]
    BY <1>3, <1>r, SelectedIsRead DEF Commit, Row, RowOK
  <2>2. t \in Tokens /\ t # exclude[r] /\ pc[r] = "probe" /\ todo[r] = {}
        /\ subject[r] \in Subjects
    BY <1>3, <1>r, <2>1 DEF Commit, Row, RowOK
  <2>3. Moves(r, "held", subject[r], candidates[r], exclude[r], t, todo[r], <<>>)
    BY <1>3, <1>r DEF Commit, Go, Set, Moves, Tables
  <2>4. count' = [count EXCEPT ![t] = @ + 1] /\ sticky' = [sticky EXCEPT ![subject[r]] = t]
    BY <1>3 DEF Commit, Set
  <2> HIDE DEF t
  <2>5. RowOK("held", subject[r], candidates[r], exclude[r], t, todo[r], <<>>)
    BY <1>r, <2>2, IdleRow DEF Row, RowOK, Locations, Acquiring, Holding
  <2>6. sticky' \in [Subjects -> Tokens \cup {None}]
    BY <2>2, <2>4 DEF Shared
  <2> QED
    BY <2>2, <2>3, <2>4, <2>5, <2>6
<1> QED
  BY <1>1, <1>2, <1>3 DEF Shared

\* The steps between an answer and the release: the lease stays.
LEMMA AnswerMoves ==
  ASSUME Rows, Shared, NEW r \in Requests, Answered(r) \/ Mark(r) \/ MarkFails(r)
  PROVE  /\ UNCHANGED <<count, sticky, memory, leaked>> /\ pc[r] \in Holding /\ lease[r] \in Tokens
         /\ \E p \in Holding : \E s, C, x, T, m :
              RowOK(p, s, C, x, lease[r], T, m) /\ Moves(r, p, s, C, x, lease[r], T, m)
<1>r. Row(r) /\ Tables
  BY RowOf
<1>h. "mark" \in Holding /\ "decr" \in Holding
  BY DEF Holding
<1>1. UNCHANGED <<count, sticky, memory, leaked>> /\ pc[r] \in {"held", "mark"}
  BY DEF Answered, Mark, MarkFails, memVars, redisVars
<1>2. lease[r] \in Tokens /\ todo[r] = {} /\ DOMAIN loads[r] = {} /\ pc[r] \in Holding
  BY <1>1, <1>r DEF Row, RowOK, Holding
<1> DEFINE Goal == \E p \in Holding : \E s, C, x, T, m :
                     RowOK(p, s, C, x, lease[r], T, m) /\ Moves(r, p, s, C, x, lease[r], T, m)
           failed == IF exclude[r] = None THEN lease[r] ELSE exclude[r]
<1>3. RowOK("mark", subject[r], candidates[r], failed, lease[r], todo[r], loads[r])
  BY <1>r, <1>1, <1>2 DEF Row, RowOK, Locations, Acquiring, Holding
<1>4. RowOK("decr", subject[r], candidates[r], exclude[r], lease[r], todo[r], loads[r])
  BY <1>r, <1>1, <1>2 DEF Row, RowOK, Locations, Acquiring, Holding
<1>5. ASSUME Answered(r)
      PROVE  Goal
  <2>1. CASE pc' = [pc EXCEPT ![r] = "mark"] /\ exclude' = [exclude EXCEPT ![r] = failed]
    <3>1. Moves(r, "mark", subject[r], candidates[r], failed, lease[r], todo[r], loads[r])
      BY <1>5, <1>r, <2>1 DEF Answered, Moves, Tables
    <3> QED
      BY <1>h, <1>3, <3>1
  <2>2. CASE pc' = [pc EXCEPT ![r] = "decr"] /\ exclude' = exclude
    <3>1. Moves(r, "decr", subject[r], candidates[r], exclude[r], lease[r], todo[r], loads[r])
      BY <1>5, <1>r, <2>2 DEF Answered, Moves, Tables
    <3> QED
      BY <1>h, <1>4, <3>1
  <2> QED
    BY <1>5, <2>1, <2>2 DEF Answered, Go, Set
<1>6. ASSUME Mark(r) \/ MarkFails(r)
      PROVE  Goal
  <2>1. Moves(r, "decr", subject[r], candidates[r], exclude[r], lease[r], todo[r], loads[r])
    BY <1>6, <1>r DEF Mark, MarkFails, Go, locals, Moves, Tables
  <2> QED
    BY <1>h, <1>4, <2>1
<1> QED
  BY <1>1, <1>2, <1>5, <1>6

\* ReleaseToken returns to the retry or ends the request.
LEMMA ReleasedMoves ==
  ASSUME Rows, NEW r \in Requests, pc[r] \in {"decr", "del"}, Released(r)
  PROVE  \E p \in {"getSticky", "idle"} : \E s, C, x, l, T, m :
           RowOK(p, s, C, x, l, T, m) /\ Moves(r, p, s, C, x, l, T, m)
<1>r. Row(r) /\ Tables
  BY RowOf
<1>1. CASE exclude[r] = lease[r]
  <2>1. PICK C \in ActiveLists : candidates' = Set(candidates, r, C)
    BY <1>1 DEF Released
  <2>2. Moves(r, "getSticky", subject[r], C, exclude[r], None, todo[r], loads[r])
    BY <1>1, <1>r, <2>1 DEF Released, Go, Set, Moves, Tables
  <2>3. RowOK("getSticky", subject[r], C, exclude[r], None, todo[r], loads[r])
    BY <1>r, RedisAssumption DEF Row, RowOK, Locations, Acquiring, Holding
  <2> QED
    BY <2>2, <2>3
<1>2. CASE exclude[r] # lease[r]
  <2>1. Moves(r, "idle", None, {}, None, None, {}, <<>>)
    BY <1>2, EndMoves DEF Released
  <2> QED
    BY <2>1, IdleRow
<1> QED
  BY <1>1, <1>2

\* acquireLocal gives the request a token of its list that is neither excluded nor resting,
\* or ends it.
LEMMA LocalMoves ==
  ASSUME Rows, Shared, NEW r \in Requests, pc[r] \in Acquiring, AcquireLocal(r)
  PROVE  /\ memory' \in [Instances -> [Tokens -> Nat]]
         /\ \A i \in Instances, t \in Tokens : memory'[i][t] <= memory[i][t] + 1
         /\ \E p \in {"held", "idle"} : \E s, C, x, l, T, m :
              RowOK(p, s, C, x, l, T, m) /\ Moves(r, p, s, C, x, l, T, m)
<1>r. Row(r) /\ Tables
  BY RowOf
<1> DEFINE eligible == candidates[r] \ ({exclude[r]} \cup resting[Home[r]])
<1>1. CASE eligible = {}
  <2>1. Moves(r, "idle", None, {}, None, None, {}, <<>>) /\ memory' = memory
    BY <1>1, EndMoves DEF AcquireLocal
  <2>2. \A i \in Instances, t \in Tokens : memory'[i][t] <= memory[i][t] + 1
    BY <2>1 DEF Shared
  <2> QED
    BY <2>1, <2>2, IdleRow DEF Shared
<1>2. CASE eligible # {}
  <2>1. PICK t \in eligible :
          /\ memory' = [memory EXCEPT ![Home[r]][t] = @ + 1]
          /\ lease' = Set(lease, r, t)
          /\ todo' = Set(todo, r, {})
          /\ loads' = Set(loads, r, <<>>)
          /\ Go(r, "held")
          /\ UNCHANGED <<subject, candidates, exclude>>
    BY <1>2 DEF AcquireLocal
  <2>2. t \in Tokens /\ t # exclude[r] /\ subject[r] \in Subjects
    BY <1>r, <2>1 DEF Row, RowOK, Acquiring
  <2>3. Moves(r, "held", subject[r], candidates[r], exclude[r], t, {}, <<>>)
    BY <1>r, <2>1 DEF Go, Set, Moves, Tables
  <2>4. RowOK("held", subject[r], candidates[r], exclude[r], t, {}, <<>>)
    BY <1>r, <2>2, IdleRow DEF Row, RowOK, Locations, Acquiring, Holding
  <2>5. /\ memory' \in [Instances -> [Tokens -> Nat]]
        /\ \A i \in Instances, u \in Tokens : memory'[i][u] <= memory[i][u] + 1
    <3>1. Home[r] \in Instances
      BY RedisAssumption
    <3> QED
      BY <2>1, <2>2, <3>1 DEF Shared
  <2> QED
    BY <2>3, <2>4, <2>5
<1> QED
  BY <1>1, <1>2

-----------------------------------------------------------------------------
(* The steps keep the rows and the types.                                  *)

\* What a request may do, by what it does to the counts.
LEMMA RequestKinds ==
  ASSUME NEW r \in Requests,
         \/ \E s \in Subjects, C \in ActiveLists : Begin(r, s, C)
         \/ RequestStep(r) \/ RequestFails(r)
  PROVE  \/ Reads(r) \/ IncrSticky(r) \/ Commit(r) \/ Answered(r) \/ Mark(r)
         \/ Decr(r) \/ Del(r) \/ AcquireFails(r) \/ MarkFails(r) \/ DecrFails(r) \/ DelFails(r)
  BY DEF RequestStep, RequestFails, Reads

\* Every step keeps the rows.
LEMMA RowsNext == Shared /\ Rows /\ [Next]_vars => Rows'
<1> SUFFICES ASSUME Shared, Rows, [Next]_vars
             PROVE  Rows'
  OBVIOUS
<1>1. ASSUME NEW r \in Requests, Reads(r)
      PROVE  Rows'
  BY <1>1, ReadMoves, MoveKeepsRows
<1>2. ASSUME NEW r \in Requests, IncrSticky(r) \/ Commit(r)
      PROVE  Rows'
  BY <1>2, TakeMoves, MoveKeepsRows
<1>3. ASSUME NEW r \in Requests, Answered(r) \/ Mark(r) \/ MarkFails(r)
      PROVE  Rows'
  BY <1>3, AnswerMoves, MoveKeepsRows
<1>4. ASSUME NEW r \in Requests, Decr(r)
      PROVE  Rows'
  <2>1. CASE Released(r)
    BY <1>4, <2>1, ReleasedMoves, MoveKeepsRows DEF Decr
  <2>2. CASE ~ Released(r)
    <3>1. pc[r] = "decr" /\ Go(r, "del") /\ UNCHANGED locals
      BY <1>4, <2>2 DEF Decr
    <3>2. Row(r) /\ Tables
      BY RowOf
    <3>3. Moves(r, "del", subject[r], candidates[r], exclude[r], lease[r], todo[r], loads[r])
      BY <3>1, <3>2 DEF Go, locals, Moves, Tables
    <3>4. RowOK("del", subject[r], candidates[r], exclude[r], lease[r], todo[r], loads[r])
      BY <3>1, <3>2 DEF Row, RowOK, Locations, Acquiring, Holding
    <3> QED
      BY <3>3, <3>4, MoveKeepsRows
  <2> QED
    BY <2>1, <2>2
<1>5. ASSUME NEW r \in Requests, Del(r) \/ DecrFails(r) \/ DelFails(r)
      PROVE  Rows'
  <2>1. pc[r] \in {"decr", "del"} /\ Released(r)
    BY <1>5 DEF Del, DecrFails, DelFails
  <2> QED
    BY <2>1, ReleasedMoves, MoveKeepsRows
<1>6. ASSUME NEW r \in Requests, AcquireFails(r)
      PROVE  Rows'
  <2>1. pc[r] \in Acquiring /\ AcquireLocal(r)
    BY <1>6 DEF AcquireFails
  <2> QED
    BY <2>1, LocalMoves, MoveKeepsRows
<1>7. ASSUME NEW i \in Instances, Crash(i)
      PROVE  Rows'
  <2>1. Tables'
    BY <1>7 DEF Crash, Tables
  <2>2. ASSUME NEW q \in Requests
        PROVE  Row(q)'
    <3>1. CASE Home[q] = i
      <4>1. /\ pc'[q] = "idle" /\ subject'[q] = None /\ candidates'[q] = {} /\ exclude'[q] = None
            /\ lease'[q] = None /\ todo'[q] = {} /\ loads'[q] = <<>>
        BY <1>7, <3>1 DEF Crash
      <4> QED
        BY <4>1, IdleRow DEF Row
    <3>2. CASE Home[q] # i
      <4>1. /\ pc'[q] = pc[q] /\ subject'[q] = subject[q] /\ candidates'[q] = candidates[q]
            /\ exclude'[q] = exclude[q] /\ lease'[q] = lease[q] /\ todo'[q] = todo[q]
            /\ loads'[q] = loads[q]
        BY <1>7, <3>2 DEF Crash
      <4>2. Row(q)
        BY RowOf
      <4> QED
        BY <4>1, <4>2 DEF Row
    <3> QED
      BY <3>1, <3>2
  <2> QED
    BY <2>1, <2>2 DEF Rows
<1>8. CASE Expire \/ UNCHANGED vars
  <2>1. UNCHANGED <<pc, subject, candidates, exclude, lease, todo, loads>>
    BY <1>8 DEF Expire, vars, locals
  <2>2. \A q \in Requests : Row(q)' = Row(q)
    BY <2>1 DEF Row
  <2> QED
    BY <2>1, <2>2 DEF Rows, Tables
<1> QED
  BY <1>1, <1>2, <1>3, <1>4, <1>5, <1>6, <1>7, <1>8, RequestKinds DEF Next

\* A command of acquireRedis that fails may have counted the request for a token, and
\* nothing will take that back.
LEMMA AcquireFailsCounts ==
  ASSUME Rows, Shared, NEW r \in Requests, AcquireFails(r)
  PROVE  /\ pc[r] \in Acquiring /\ AcquireLocal(r) /\ Fail /\ UNCHANGED resting
         /\ \/ UNCHANGED <<redisVars, leaked>>
            \/ /\ \E t \in Tokens : /\ count' = [count EXCEPT ![t] = count[t] + 1]
                                    /\ leaked' = [leaked EXCEPT ![t] = leaked[t] + 1]
               /\ sticky' \in [Subjects -> Tokens \cup {None}] /\ UNCHANGED cooling
<1>1. pc[r] \in Acquiring /\ AcquireLocal(r) /\ Fail /\ UNCHANGED resting
  BY DEF AcquireFails
<1>2. Row(r)
  BY RowOf
<1>3. CASE UNCHANGED <<redisVars, leaked>>
  BY <1>1, <1>3
<1>4. CASE /\ pc[r] = "incrSticky"
           /\ count' = Set(count, lease[r], count[lease[r]] + 1)
           /\ leaked' = Set(leaked, lease[r], leaked[lease[r]] + 1)
           /\ UNCHANGED <<sticky, cooling>>
  <2>1. lease[r] \in Tokens
    BY <1>2, <1>4 DEF Row, RowOK
  <2> QED
    BY <1>1, <1>4, <2>1 DEF Set, Shared
<1>5. CASE /\ pc[r] = "probe" /\ todo[r] = {} /\ DOMAIN loads[r] # {}
           /\ count' = Set(count, Selected(loads[r]), count[Selected(loads[r])] + 1)
           /\ leaked' = Set(leaked, Selected(loads[r]), leaked[Selected(loads[r])] + 1)
           /\ sticky' = Set(sticky, subject[r], Selected(loads[r]))
           /\ UNCHANGED cooling
  <2> DEFINE t == Selected(loads[r])
  <2>1. t \in DOMAIN loads[r]
    BY <1>2, <1>5, SelectedIsRead DEF Row, RowOK
  <2>2. t \in Tokens /\ subject[r] \in Subjects
    BY <1>2, <1>5, <2>1 DEF Row, RowOK
  <2>3. /\ count' = [count EXCEPT ![t] = count[t] + 1]
        /\ leaked' = [leaked EXCEPT ![t] = leaked[t] + 1]
        /\ sticky' = [sticky EXCEPT ![subject[r]] = t]
    BY <1>5 DEF Set
  <2> HIDE DEF t
  <2>4. sticky' \in [Subjects -> Tokens \cup {None}]
    BY <2>2, <2>3 DEF Shared
  <2> QED
    BY <1>1, <1>5, <2>2, <2>3, <2>4
<1> QED
  BY <1>3, <1>4, <1>5 DEF AcquireFails

\* A DECR that fails may not have been executed, and then the count of the token leaks.
LEMMA DecrFailsCounts ==
  ASSUME Rows, Shared, NEW r \in Requests, DecrFails(r)
  PROVE  /\ pc[r] = "decr" /\ Released(r) /\ Fail /\ UNCHANGED <<sticky, cooling, resting>>
         /\ lease[r] \in Tokens
         /\ \E d \in {0, 1} :
              /\ count' = [count EXCEPT ![lease[r]] = count[lease[r]] - d]
              /\ leaked' = [leaked EXCEPT ![lease[r]] = leaked[lease[r]] + 1 - d]
         /\ memory' \in [Instances -> [Tokens -> Nat]]
         /\ \A i \in Instances, t \in Tokens : memory'[i][t] <= memory[i][t]
<1>1. /\ pc[r] = "decr" /\ Released(r) /\ Fail /\ UNCHANGED <<sticky, cooling, resting>>
      /\ \E d \in {0, 1} :
           /\ count' = [count EXCEPT ![lease[r]] = count[lease[r]] - d]
           /\ leaked' = [leaked EXCEPT ![lease[r]] = leaked[lease[r]] + 1 - d]
  BY DEF DecrFails, Set
<1>2. lease[r] \in Tokens /\ Home[r] \in Instances
  BY <1>1, RowOf, RedisAssumption DEF Row, RowOK, Holding
<1> DEFINE k == memory[Home[r]][lease[r]]
           k2 == IF k > 1 THEN k - 1 ELSE 0
<1>3. k \in Nat /\ k2 \in Nat /\ k2 <= k
  BY <1>2 DEF Shared
<1>4. memory' = [memory EXCEPT ![Home[r]][lease[r]] = k2]
  BY DEF DecrFails
<1> HIDE DEF k2
<1>5. /\ memory' \in [Instances -> [Tokens -> Nat]]
      /\ \A i \in Instances, t \in Tokens : memory'[i][t] <= memory[i][t]
  BY <1>2, <1>3, <1>4 DEF Shared
<1> QED
  BY <1>1, <1>2, <1>5

\* Every step keeps the types of what is shared.
LEMMA SharedNext == Shared /\ Rows /\ [Next]_vars => Shared'
<1> SUFFICES ASSUME Shared, Rows, [Next]_vars
             PROVE  Shared'
  OBVIOUS
<1>c. ASSUME NEW t \in Tokens, NEW n \in Int, count' = [count EXCEPT ![t] = n]
      PROVE  count' \in [Tokens -> Int]
  BY <1>c DEF Shared
<1>k. ASSUME NEW t \in Tokens, NEW n \in Nat, leaked' = [leaked EXCEPT ![t] = n]
      PROVE  leaked' \in [Tokens -> Nat]
  BY <1>k DEF Shared
<1>n. \A t \in Tokens : count[t] \in Int /\ count[t] + 1 \in Int /\ count[t] - 1 \in Int
                     /\ leaked[t] \in Nat /\ leaked[t] + 1 \in Nat
  BY DEF Shared
<1>f. Fail => failures' \in 0 .. MaxFailures
  BY RedisAssumption DEF Fail, Shared
<1>l. ASSUME NEW r \in Requests, pc[r] \in {"checkSticky", "incrSticky", "del"} \cup Holding
      PROVE  lease[r] \in Tokens /\ Home[r] \in Instances
  BY <1>l, RowOf, RedisAssumption DEF Row, RowOK
<1>1. ASSUME NEW r \in Requests, Reads(r)
      PROVE  Shared'
  <2>1. UNCHANGED <<redisVars, memVars, failures, leaked>>
    BY <1>1, ReadMoves
  <2> QED
    BY <2>1 DEF Shared, redisVars, memVars
<1>2. ASSUME NEW r \in Requests, IncrSticky(r) \/ Commit(r)
      PROVE  Shared'
  <2>1. /\ UNCHANGED <<cooling, memVars, failures, leaked>>
        /\ sticky' \in [Subjects -> Tokens \cup {None}]
        /\ \E t \in Tokens : count' = [count EXCEPT ![t] = count[t] + 1]
    BY <1>2, TakeMoves
  <2>2. count' \in [Tokens -> Int]
    BY <1>c, <1>n, <2>1
  <2> QED
    BY <2>1, <2>2 DEF Shared, memVars
<1>3. ASSUME NEW r \in Requests, Answered(r) \/ Mark(r) \/ MarkFails(r)
      PROVE  Shared'
  <2>1. UNCHANGED <<count, sticky, memory, leaked>> /\ lease[r] \in Tokens /\ Home[r] \in Instances
    BY <1>3, AnswerMoves, RedisAssumption
  <2>2. cooling' \subseteq Tokens /\ failures' \in 0 .. MaxFailures
    BY <1>3, <1>f, <2>1 DEF Answered, Mark, MarkFails, Shared, redisVars, memVars
  <2>3. resting' \in [Instances -> SUBSET Tokens]
    BY <1>3, <2>1 DEF Answered, Mark, MarkFails, Shared, redisVars, memVars
  <2> QED
    BY <2>1, <2>2, <2>3 DEF Shared
<1>4. ASSUME NEW r \in Requests, Decr(r) \/ Del(r)
      PROVE  Shared'
  <2>1. lease[r] \in Tokens
    BY <1>4, <1>l DEF Decr, Del, Holding
  <2>2. \E n \in Int : count' = [count EXCEPT ![lease[r]] = n]
    BY <1>4, <1>n, <2>1 DEF Decr, Del, Set
  <2>3. count' \in [Tokens -> Int]
    BY <1>c, <2>1, <2>2
  <2> QED
    BY <1>4, <2>3 DEF Decr, Del, Shared, memVars
<1>5. ASSUME NEW r \in Requests, DecrFails(r)
      PROVE  Shared'
  <2>1. /\ Fail /\ UNCHANGED <<sticky, cooling, resting>> /\ lease[r] \in Tokens
        /\ memory' \in [Instances -> [Tokens -> Nat]]
    BY <1>5, DecrFailsCounts
  <2>2. PICK d \in {0, 1} :
          /\ count' = [count EXCEPT ![lease[r]] = count[lease[r]] - d]
          /\ leaked' = [leaked EXCEPT ![lease[r]] = leaked[lease[r]] + 1 - d]
    BY <1>5, DecrFailsCounts
  <2>3. count[lease[r]] - d \in Int /\ leaked[lease[r]] + 1 - d \in Nat
    BY <1>n, <2>1
  <2>4. count' \in [Tokens -> Int]
    BY <1>c, <2>1, <2>2, <2>3
  <2>5. leaked' \in [Tokens -> Nat]
    BY <1>k, <2>1, <2>2, <2>3
  <2> QED
    BY <1>f, <2>1, <2>4, <2>5 DEF Shared
<1>10. ASSUME NEW r \in Requests, DelFails(r)
       PROVE  Shared'
  <2>1. lease[r] \in Tokens
    BY <1>10, <1>l DEF DelFails
  <2>2. PICK v \in {0, count[lease[r]]} : count' = [count EXCEPT ![lease[r]] = v]
    BY <1>10 DEF DelFails, Set
  <2>3. v \in Int
    BY <1>n, <2>1, <2>2
  <2>4. count' \in [Tokens -> Int]
    BY <1>c, <2>1, <2>2, <2>3
  <2> QED
    BY <1>10, <1>f, <2>4 DEF DelFails, Shared, memVars
<1>6. ASSUME NEW r \in Requests, AcquireFails(r)
      PROVE  Shared'
  <2>1. pc[r] \in Acquiring /\ AcquireLocal(r) /\ Fail /\ UNCHANGED resting
    BY <1>6, AcquireFailsCounts
  <2>2. memory' \in [Instances -> [Tokens -> Nat]]
    BY <2>1, LocalMoves
  <2>3. CASE UNCHANGED <<redisVars, leaked>>
    BY <1>f, <2>1, <2>2, <2>3 DEF Shared, redisVars
  <2>4. CASE /\ \E t \in Tokens : /\ count' = [count EXCEPT ![t] = count[t] + 1]
                                  /\ leaked' = [leaked EXCEPT ![t] = leaked[t] + 1]
             /\ sticky' \in [Subjects -> Tokens \cup {None}] /\ UNCHANGED cooling
    <3>1. count' \in [Tokens -> Int] /\ leaked' \in [Tokens -> Nat]
      BY <1>c, <1>k, <1>n, <2>4
    <3> QED
      BY <1>f, <2>1, <2>2, <2>4, <3>1 DEF Shared
  <2> QED
    BY <1>6, <2>3, <2>4, AcquireFailsCounts
<1>7. ASSUME NEW i \in Instances, Crash(i)
      PROVE  Shared'
  <2>1. \A t \in Tokens : Cardinality({r \in Counted(t) : Home[r] = i}) \in Nat
    BY CrashedHolders
  <2> DEFINE lost(t) == Cardinality({r \in Counted(t) : Home[r] = i})
  <2>2. leaked' = [t \in Tokens |-> leaked[t] + lost(t)] /\ \A t \in Tokens : lost(t) \in Nat
    BY <1>7, <2>1, Zenon DEF Crash
  <2> HIDE DEF lost
  <2>3. leaked' \in [Tokens -> Nat]
    <3>1. \A t \in Tokens : leaked[t] + lost(t) \in Nat
      BY <1>n, <2>2
    <3> QED
      BY <2>2, <3>1
  <2>4. Fail /\ UNCHANGED redisVars
    BY <1>7, Zenon DEF Crash
  <2>5. memory' = [memory EXCEPT ![i] = [t \in Tokens |-> 0]]
    BY <1>7, Zenon DEF Crash
  <2>6. resting' = [resting EXCEPT ![i] = {}]
    BY <1>7, Zenon DEF Crash
  <2>7. memory' \in [Instances -> [Tokens -> Nat]] /\ resting' \in [Instances -> SUBSET Tokens]
    BY <2>5, <2>6 DEF Shared
  <2> QED
    BY <1>f, <2>3, <2>4, <2>7 DEF Shared, redisVars
<1>8. CASE Expire
  BY <1>8 DEF Expire, Shared, Set
<1>9. CASE UNCHANGED vars
  BY <1>9 DEF vars, redisVars, memVars, Shared
<1> QED
  BY <1>1, <1>2, <1>3, <1>4, <1>5, <1>6, <1>7, <1>8, <1>9, <1>10, RequestKinds DEF Next

-----------------------------------------------------------------------------
(* The counts.                                                             *)

\* The steps in which no command fails and no instance stops, but for Expire.
Works(r) ==
  Reads(r) \/ IncrSticky(r) \/ Commit(r) \/ Answered(r) \/ Mark(r) \/ Decr(r) \/ Del(r)

\* They change neither what has leaked nor what is counted in memory.
LEMMA WorksEffect ==
  /\ \A r \in Requests : Works(r) => UNCHANGED <<failures, leaked, memory>>
  /\ Expire \/ UNCHANGED vars => UNCHANGED <<failures, leaked, memory>>
<1>1. \A r \in Requests : Works(r) => UNCHANGED <<failures, leaked, memory>>
  BY DEF Works, Reads, Begin, GetSticky, CheckSticky, Probe, Load, NoneHealthy, IncrSticky,
         Commit, Answered, Mark, Decr, Del, memVars
<1>2. Expire \/ UNCHANGED vars => UNCHANGED <<failures, leaked, memory>>
  BY DEF Expire, vars, memVars
<1> QED
  BY <1>1, <1>2

\* Every step works, fails, stops an instance, or lets a key expire.
LEMMA StepKinds ==
  ASSUME [Next]_vars
  PROVE  \/ \E r \in Requests : \/ Works(r)
                                \/ AcquireFails(r) \/ MarkFails(r) \/ DecrFails(r) \/ DelFails(r)
         \/ \E i \in Instances : Crash(i)
         \/ Expire \/ UNCHANGED vars
  BY RequestKinds DEF Next, Works

\* What fails is one failure more.
LEMMA FailEffect ==
  ASSUME Shared, Fail
  PROVE  failures \in Nat /\ failures' = failures + 1 /\ failures' # 0
  BY RedisAssumption DEF Shared, Fail

\* Only a failure leaks, and counts once at most in memory.
LEMMA LeaksNext == Shared /\ Rows /\ LeaksPaid /\ Shared' /\ [Next]_vars => LeaksPaid'
<1> SUFFICES ASSUME Shared, Rows, LeaksPaid, Shared', [Next]_vars
             PROVE  LeaksPaid'
  OBVIOUS
<1> DEFINE Grows == \A i \in Instances, t \in Tokens : memory'[i][t] <= memory[i][t] + 1
<1>0. failures \in Nat /\ \A i \in Instances, t \in Tokens : memory[i][t] \in Nat
  BY RedisAssumption DEF Shared
<1>n. \A i \in Instances, t \in Tokens : memory'[i][t] \in Nat
  BY DEF Shared
<1>1. ASSUME UNCHANGED <<failures, leaked, memory>>
      PROVE  LeaksPaid'
  BY <1>1 DEF LeaksPaid
<1>2. ASSUME Fail, Grows
      PROVE  LeaksPaid'
  <2>1. failures' = failures + 1 /\ failures' # 0
    BY <1>2, FailEffect
  <2>2. ASSUME NEW i \in Instances, NEW t \in Tokens
        PROVE  memory'[i][t] <= failures'
    <3>1. memory'[i][t] <= memory[i][t] + 1 /\ memory[i][t] <= failures
      BY <1>2 DEF LeaksPaid
    <3> QED
      BY <1>0, <1>n, <2>1, <3>1
  <2> QED
    BY <2>1, <2>2 DEF LeaksPaid
<1>3. ASSUME NEW r \in Requests, Works(r)
      PROVE  LeaksPaid'
  BY <1>1, <1>3, WorksEffect
<1>4. ASSUME NEW r \in Requests, AcquireFails(r)
      PROVE  LeaksPaid'
  <2>1. pc[r] \in Acquiring /\ AcquireLocal(r) /\ Fail
    BY <1>4, AcquireFailsCounts
  <2>2. Grows
    BY <2>1, LocalMoves
  <2> QED
    BY <1>2, <2>1, <2>2
<1>5. ASSUME NEW r \in Requests, MarkFails(r) \/ DelFails(r)
      PROVE  LeaksPaid'
  <2>1. Fail /\ memory' = memory
    BY <1>5 DEF MarkFails, DelFails, memVars
  <2>2. Grows
    BY <1>0, <2>1
  <2> QED
    BY <1>2, <2>1, <2>2
<1>6. ASSUME NEW r \in Requests, DecrFails(r)
      PROVE  LeaksPaid'
  <2>1. Fail /\ \A i \in Instances, t \in Tokens : memory'[i][t] <= memory[i][t]
    BY <1>6, DecrFailsCounts
  <2>2. Grows
    BY <1>0, <1>n, <2>1
  <2> QED
    BY <1>2, <2>1, <2>2
<1>7. ASSUME NEW i \in Instances, Crash(i)
      PROVE  LeaksPaid'
  <2>1. Fail /\ memory' = [memory EXCEPT ![i] = [t \in Tokens |-> 0]]
    BY <1>7 DEF Crash
  <2>2. Grows
    <3> SUFFICES ASSUME NEW j \in Instances, NEW t \in Tokens
                 PROVE  memory'[j][t] <= memory[j][t] + 1
      OBVIOUS
    <3>1. memory'[j][t] = IF j = i THEN 0 ELSE memory[j][t]
      BY <2>1 DEF Shared
    <3> QED
      BY <1>0, <3>1
  <2> QED
    BY <1>2, <2>1, <2>2
<1>8. ASSUME Expire \/ UNCHANGED vars
      PROVE  LeaksPaid'
  BY <1>1, <1>8, WorksEffect
<1> QED
  BY <1>3, <1>4, <1>5, <1>6, <1>7, <1>8, StepKinds

\* The count of a token and its holders move together, or the count is lost or leaks.
LEMMA CountNext == Shared /\ Rows /\ CountWithinLeases /\ [Next]_vars => CountWithinLeases'
<1> SUFFICES ASSUME Shared, Rows, CountWithinLeases, [Next]_vars, NEW t \in Tokens
             PROVE  /\ count'[t] <= Cardinality(Counted(t)') + leaked'[t]
                    /\ failures' = 0 /\ count'[t] < 0
                         => \E r \in Requests : pc'[r] = "del" /\ lease'[r] = t
  BY DEF CountWithinLeases, Counted
<1> DEFINE Goal == /\ count'[t] <= Cardinality(Counted(t)') + leaked'[t]
                   /\ failures' = 0 /\ count'[t] < 0
                        => \E r \in Requests : pc'[r] = "del" /\ lease'[r] = t
<1>0. count[t] \in Int /\ leaked[t] \in Nat
  BY DEF Shared
<1>i. /\ count[t] <= Cardinality(Counted(t)) + leaked[t]
      /\ failures = 0 /\ count[t] < 0 => \E r \in Requests : pc[r] = "del" /\ lease[r] = t
  BY DEF CountWithinLeases
<1>h. Cardinality(Counted(t)) \in Nat
  BY HoldersFinite
<1>w. ASSUME NEW r \in Requests, Works(r)
      PROVE  failures' = failures /\ leaked'[t] = leaked[t]
  BY <1>w, WorksEffect
\* A request that is about to delete the key is where it was unless it moves.
<1>d. ASSUME NEW r \in Requests, pc[r] # "del",
             NEW p, NEW s, NEW C, NEW x, NEW l, NEW T, NEW m, Moves(r, p, s, C, x, l, T, m),
             failures = 0, count[t] < 0
      PROVE  \E q \in Requests : pc'[q] = "del" /\ lease'[q] = t
  <2>1. PICK q \in Requests : pc[q] = "del" /\ lease[q] = t
    BY <1>d, <1>i
  <2> QED
    BY <1>d, <2>1 DEF Moves
<1>1. ASSUME NEW r \in Requests, Reads(r)
      PROVE  Goal
  <2>w. failures' = failures /\ leaked'[t] = leaked[t]
    BY <1>1, <1>w DEF Works
  <2>1. /\ count' = count /\ pc[r] \notin Holding \cup {"del"}
        /\ \E p \in Acquiring \cup {"idle"} : \E s, C, x, l, T, m : Moves(r, p, s, C, x, l, T, m)
    BY <1>1, ReadMoves DEF redisVars
  <2>2. PICK p \in Acquiring \cup {"idle"} : \E s, C, x, l, T, m : Moves(r, p, s, C, x, l, T, m)
    BY <2>1
  <2>3. PICK s, C, x, l, T, m : Moves(r, p, s, C, x, l, T, m)
    BY <2>2
  <2>4. p \notin Holding
    BY DEF Acquiring, Holding
  <2>5. Counted(t)' = Counted(t) \ {r} /\ r \notin Counted(t)
    BY <2>1, <2>3, <2>4, MoveChangesHolders DEF Counted
  <2>6. Counted(t)' = Counted(t)
    BY <2>5
  <2>7. failures = 0 /\ count[t] < 0 => \E q \in Requests : pc'[q] = "del" /\ lease'[q] = t
    BY <1>d, <2>1, <2>3
  <2> QED
    BY <1>i, <2>w, <2>1, <2>6, <2>7
<1>2. ASSUME NEW r \in Requests, IncrSticky(r) \/ Commit(r)
      PROVE  Goal
  <2>w. failures' = failures /\ leaked'[t] = leaked[t]
    BY <1>2, <1>w DEF Works
  <2>1. pc[r] \notin Holding \cup {"del"}
    BY <1>2, TakeMoves
  <2>2. PICK u \in Tokens :
          /\ count' = [count EXCEPT ![u] = @ + 1]
          /\ \E s, C, x, T, m :
               RowOK("held", s, C, x, u, T, m) /\ Moves(r, "held", s, C, x, u, T, m)
    BY <1>2, TakeMoves
  <2>3. PICK s, C, x, T, m : Moves(r, "held", s, C, x, u, T, m)
    BY <2>2
  <2>4. "held" \in Holding /\ r \notin Counted(t)
    BY <2>1 DEF Holding, Counted
  <2>5. Counted(t)' = IF u = t THEN Counted(t) \cup {r} ELSE Counted(t) \ {r}
    BY <2>3, <2>4, MoveChangesHolders
  <2>6. Cardinality(Counted(t)') = IF u = t THEN Cardinality(Counted(t)) + 1
                                   ELSE Cardinality(Counted(t))
    BY <2>4, <2>5, HoldersFinite
  <2>7. count'[t] = IF u = t THEN count[t] + 1 ELSE count[t]
    BY <2>2 DEF Shared
  <2>8. failures = 0 /\ count[t] < 0 => \E q \in Requests : pc'[q] = "del" /\ lease'[q] = t
    BY <1>d, <2>1, <2>3
  <2> QED
    BY <1>0, <1>h, <1>i, <2>w, <2>6, <2>7, <2>8
<1>3. ASSUME NEW r \in Requests, Answered(r) \/ Mark(r)
      PROVE  Goal
  <2>w. failures' = failures /\ leaked'[t] = leaked[t]
    BY <1>3, <1>w DEF Works
  <2>1. /\ count' = count /\ pc[r] \in Holding /\ lease[r] \in Tokens
        /\ \E p \in Holding : \E s, C, x, T, m : Moves(r, p, s, C, x, lease[r], T, m)
    BY <1>3, AnswerMoves
  <2>2. PICK p \in Holding : \E s, C, x, T, m : Moves(r, p, s, C, x, lease[r], T, m)
    BY <2>1
  <2>3. PICK s, C, x, T, m : Moves(r, p, s, C, x, lease[r], T, m)
    BY <2>2
  <2>4. Counted(t)' = IF lease[r] = t THEN Counted(t) \cup {r} ELSE Counted(t) \ {r}
    BY <2>3, MoveChangesHolders
  <2>5. Counted(t)' = Counted(t)
    BY <2>1, <2>4 DEF Counted
  <2>6. pc[r] # "del"
    BY <2>1 DEF Holding
  <2>7. failures = 0 /\ count[t] < 0 => \E q \in Requests : pc'[q] = "del" /\ lease'[q] = t
    BY <1>d, <2>3, <2>6
  <2> QED
    BY <1>i, <2>w, <2>1, <2>5, <2>7
<1>4. ASSUME NEW r \in Requests, Decr(r)
      PROVE  Goal
  <2>w. failures' = failures /\ leaked'[t] = leaked[t]
    BY <1>4, <1>w DEF Works
  <2>1. Row(r) /\ Tables /\ pc[r] = "decr" /\ pc[r] # "del"
    BY <1>4, RowOf DEF Decr
  <2>2. lease[r] \in Tokens /\ pc[r] \in Holding
    BY <2>1 DEF Row, RowOK, Holding
  <2>3. count' = [count EXCEPT ![lease[r]] = @ - 1]
    BY <1>4 DEF Decr, Set
  <2>4. count'[t] = IF lease[r] = t THEN count[t] - 1 ELSE count[t]
    BY <2>2, <2>3 DEF Shared
  <2>5. \E p \in {"del", "getSticky", "idle"} : \E s, C, x, l, T, m :
          /\ Moves(r, p, s, C, x, l, T, m)
          /\ count'[lease[r]] <= 0 => p = "del" /\ l = lease[r]
    <3>1. CASE count'[lease[r]] <= 0
      <4>1. Go(r, "del") /\ UNCHANGED locals
        BY <1>4, <3>1 DEF Decr
      <4>2. Moves(r, "del", subject[r], candidates[r], exclude[r], lease[r], todo[r], loads[r])
        BY <2>1, <4>1 DEF Go, locals, Moves, Tables
      <4> QED
        BY <4>2
    <3>2. CASE ~ (count'[lease[r]] <= 0)
      <4>1. Released(r)
        BY <1>4, <3>2 DEF Decr
      <4>2. \E p \in {"getSticky", "idle"} : \E s, C, x, l, T, m : Moves(r, p, s, C, x, l, T, m)
        BY <2>1, <4>1, ReleasedMoves
      <4> QED
        BY <3>2, <4>2
    <3> QED
      BY <3>1, <3>2
  <2>6. PICK p \in {"del", "getSticky", "idle"} : \E s, C, x, l, T, m :
          /\ Moves(r, p, s, C, x, l, T, m)
          /\ count'[lease[r]] <= 0 => p = "del" /\ l = lease[r]
    BY <2>5
  <2>7. PICK s, C, x, l, T, m : /\ Moves(r, p, s, C, x, l, T, m)
                                /\ count'[lease[r]] <= 0 => p = "del" /\ l = lease[r]
    BY <2>6
  <2>8. p \notin Holding
    BY DEF Holding
  <2>9. Counted(t)' = Counted(t) \ {r} /\ (r \in Counted(t) <=> lease[r] = t)
    BY <2>2, <2>7, <2>8, MoveChangesHolders DEF Counted
  <2>10. Cardinality(Counted(t)') = IF lease[r] = t THEN Cardinality(Counted(t)) - 1
                                    ELSE Cardinality(Counted(t))
    BY <2>9, HoldersFinite
  <2>11. CASE lease[r] = t
    <3>1. count'[t] < 0 => pc'[r] = "del" /\ lease'[r] = t
      BY <1>0, <2>4, <2>7, <2>11 DEF Moves
    <3> QED
      BY <1>0, <1>h, <1>i, <2>w, <2>4, <2>10, <2>11, <3>1
  <2>12. CASE lease[r] # t
    <3>1. failures = 0 /\ count[t] < 0 => \E q \in Requests : pc'[q] = "del" /\ lease'[q] = t
      BY <1>d, <2>1, <2>7
    <3> QED
      BY <1>i, <2>w, <2>4, <2>10, <2>12, <3>1
  <2> QED
    BY <2>11, <2>12
<1>5. ASSUME NEW r \in Requests, Del(r)
      PROVE  Goal
  <2>w. failures' = failures /\ leaked'[t] = leaked[t]
    BY <1>5, <1>w DEF Works
  <2>1. Row(r) /\ pc[r] = "del" /\ Released(r) /\ count' = [count EXCEPT ![lease[r]] = 0]
    BY <1>5, RowOf DEF Del, Set
  <2>2. PICK p \in {"getSticky", "idle"} : \E s, C, x, l, T, m : Moves(r, p, s, C, x, l, T, m)
    BY <2>1, ReleasedMoves
  <2>3. PICK s, C, x, l, T, m : Moves(r, p, s, C, x, l, T, m)
    BY <2>2
  <2>4. p \notin Holding /\ r \notin Counted(t)
    BY <2>1 DEF Holding, Counted
  <2>5. Counted(t)' = Counted(t)
    BY <2>3, <2>4, MoveChangesHolders
  <2>6. count'[t] = IF lease[r] = t THEN 0 ELSE count[t]
    BY <2>1 DEF Shared
  <2>7. CASE lease[r] = t
    BY <1>0, <1>h, <2>w, <2>5, <2>6, <2>7
  <2>8. CASE lease[r] # t
    <3>1. failures = 0 /\ count[t] < 0 => \E q \in Requests : pc'[q] = "del" /\ lease'[q] = t
      <4>1. SUFFICES ASSUME failures = 0, count[t] < 0
                     PROVE  \E q \in Requests : pc'[q] = "del" /\ lease'[q] = t
        OBVIOUS
      <4>2. PICK q \in Requests : pc[q] = "del" /\ lease[q] = t
        BY <1>i, <4>1
      <4> QED
        BY <2>3, <2>8, <4>2 DEF Moves
    <3> QED
      BY <1>i, <2>w, <2>5, <2>6, <2>8, <3>1
  <2> QED
    BY <2>7, <2>8
<1>6. ASSUME Expire \/ UNCHANGED vars
      PROVE  Goal
  <2>1. UNCHANGED <<count, pc, lease, leaked, failures>>
    BY <1>6 DEF Expire, vars, redisVars, locals
  <2>2. Counted(t)' = Counted(t)
    BY <2>1 DEF Counted
  <2> QED
    BY <1>i, <2>1, <2>2
<1>7. ASSUME NEW r \in Requests, AcquireFails(r)
      PROVE  Goal
  <2>1. pc[r] \in Acquiring /\ AcquireLocal(r) /\ Fail
    BY <1>7, AcquireFailsCounts
  <2>2. failures' # 0
    BY <2>1, FailEffect
  <2>3. \/ count'[t] = count[t] /\ leaked'[t] = leaked[t]
        \/ count'[t] = count[t] + 1 /\ leaked'[t] = leaked[t] + 1
    <3>1. CASE UNCHANGED <<redisVars, leaked>>
      BY <3>1 DEF redisVars
    <3>2. CASE \E u \in Tokens : /\ count' = [count EXCEPT ![u] = count[u] + 1]
                                 /\ leaked' = [leaked EXCEPT ![u] = leaked[u] + 1]
      BY <3>2 DEF Shared
    <3> QED
      BY <1>7, <3>1, <3>2, AcquireFailsCounts
  <2>4. PICK p \in {"held", "idle"} : \E s, C, x, l, T, m : Moves(r, p, s, C, x, l, T, m)
    BY <2>1, LocalMoves
  <2>5. PICK s, C, x, l, T, m : Moves(r, p, s, C, x, l, T, m)
    BY <2>4
  <2>6. r \notin Counted(t)
    BY <2>1 DEF Counted, Acquiring, Holding
  <2>7. Counted(t)' = Counted(t) \cup {r} \/ Counted(t)' = Counted(t) \ {r}
    BY <2>5, MoveChangesHolders
  <2>8. Cardinality(Counted(t)') \in {Cardinality(Counted(t)), Cardinality(Counted(t)) + 1}
    BY <2>6, <2>7, HoldersFinite
  <2> QED
    BY <1>0, <1>h, <1>i, <2>2, <2>3, <2>8
<1>8. ASSUME NEW r \in Requests, MarkFails(r)
      PROVE  Goal
  <2>1. /\ count' = count /\ leaked' = leaked /\ pc[r] \in Holding /\ lease[r] \in Tokens
        /\ \E p \in Holding : \E s, C, x, T, m : Moves(r, p, s, C, x, lease[r], T, m)
    BY <1>8, AnswerMoves
  <2>2. PICK p \in Holding : \E s, C, x, T, m : Moves(r, p, s, C, x, lease[r], T, m)
    BY <2>1
  <2>3. PICK s, C, x, T, m : Moves(r, p, s, C, x, lease[r], T, m)
    BY <2>2
  <2>4. Counted(t)' = IF lease[r] = t THEN Counted(t) \cup {r} ELSE Counted(t) \ {r}
    BY <2>3, MoveChangesHolders
  <2>5. Counted(t)' = Counted(t)
    BY <2>1, <2>4 DEF Counted
  <2>6. failures' # 0
    BY <1>8, FailEffect DEF MarkFails
  <2> QED
    BY <1>i, <2>1, <2>5, <2>6
<1>9. ASSUME NEW r \in Requests, DecrFails(r)
      PROVE  Goal
  <2>1. pc[r] = "decr" /\ Released(r) /\ Fail /\ lease[r] \in Tokens
    BY <1>9, DecrFailsCounts
  <2>2. failures' # 0
    BY <2>1, FailEffect
  <2>3. PICK d \in {0, 1} :
          /\ count' = [count EXCEPT ![lease[r]] = count[lease[r]] - d]
          /\ leaked' = [leaked EXCEPT ![lease[r]] = leaked[lease[r]] + 1 - d]
    BY <1>9, DecrFailsCounts
  <2>4. PICK p \in {"getSticky", "idle"} : \E s, C, x, l, T, m : Moves(r, p, s, C, x, l, T, m)
    BY <2>1, ReleasedMoves
  <2>5. PICK s, C, x, l, T, m : Moves(r, p, s, C, x, l, T, m)
    BY <2>4
  <2>6. p \notin Holding
    BY DEF Holding
  <2>7. Counted(t)' = Counted(t) \ {r} /\ (r \in Counted(t) <=> lease[r] = t)
    BY <2>1, <2>5, <2>6, MoveChangesHolders DEF Counted, Holding
  <2>8. Cardinality(Counted(t)') = IF lease[r] = t THEN Cardinality(Counted(t)) - 1
                                   ELSE Cardinality(Counted(t))
    BY <2>7, HoldersFinite
  <2>9. /\ count'[t] = IF lease[r] = t THEN count[t] - d ELSE count[t]
        /\ leaked'[t] = IF lease[r] = t THEN leaked[t] + 1 - d ELSE leaked[t]
    BY <2>3 DEF Shared
  <2> QED
    BY <1>0, <1>h, <1>i, <2>2, <2>8, <2>9
<1>10. ASSUME NEW r \in Requests, DelFails(r)
       PROVE  Goal
  <2>1. pc[r] = "del" /\ Released(r) /\ leaked' = leaked /\ failures' # 0
    BY <1>10, FailEffect DEF DelFails
  <2>2. PICK p \in {"getSticky", "idle"} : \E s, C, x, l, T, m : Moves(r, p, s, C, x, l, T, m)
    BY <2>1, ReleasedMoves
  <2>3. PICK s, C, x, l, T, m : Moves(r, p, s, C, x, l, T, m)
    BY <2>2
  <2>4. p \notin Holding /\ r \notin Counted(t)
    BY <2>1 DEF Holding, Counted
  <2>5. Counted(t)' = Counted(t)
    BY <2>3, <2>4, MoveChangesHolders
  <2>6. count'[t] \in {0, count[t]}
    <3>1. PICK v \in {0, count[lease[r]]} : count' = [count EXCEPT ![lease[r]] = v]
      BY <1>10 DEF DelFails, Set
    <3> QED
      BY <3>1 DEF Shared
  <2> QED
    BY <1>0, <1>h, <1>i, <2>1, <2>5, <2>6
<1>11. ASSUME NEW i \in Instances, Crash(i)
       PROVE  Goal
  <2> DEFINE lost == Cardinality({r \in Counted(t) : Home[r] = i})
  <2>1. /\ Fail /\ count' = count
        /\ leaked' = [u \in Tokens |->
                        leaked[u] + Cardinality({r \in Counted(u) : Home[r] = i})]
        /\ pc' = [r \in Requests |-> IF Home[r] = i THEN "idle" ELSE pc[r]]
        /\ lease' = [r \in Requests |-> IF Home[r] = i THEN None ELSE lease[r]]
    BY <1>11 DEF Crash, redisVars
  <2>2. leaked'[t] = leaked[t] + lost
    BY <2>1
  <2>3. Counted(t)' = {r \in Counted(t) : Home[r] # i}
    BY <2>1 DEF Counted, Holding
  <2>4. failures' # 0
    BY <2>1, FailEffect
  <2>5. /\ lost \in Nat /\ Cardinality(Counted(t)') \in Nat
        /\ Cardinality(Counted(t)) = lost + Cardinality(Counted(t)')
    BY <2>3, CrashedHolders
  <2> HIDE DEF lost
  <2> QED
    BY <1>0, <1>i, <2>1, <2>2, <2>4, <2>5
<1> HIDE DEF Goal
<1>12. Goal
  BY <1>1, <1>2, <1>3, <1>4, <1>5, <1>6, <1>7, <1>8, <1>9, <1>10, <1>11, StepKinds DEF Works
<1> QED
  BY <1>12 DEF Goal

-----------------------------------------------------------------------------
(* The theorems.                                                           *)

\* Initially no request is in progress and nothing is counted.
LEMMA CoordinatorInit == Init => CoordinatorInv
<1> SUFFICES ASSUME Init
             PROVE  CoordinatorInv
  OBVIOUS
<1>1. Shared
  BY RedisAssumption DEF Init, Shared
<1>2. Rows
  <2>1. Tables
    BY DEF Init, Tables
  <2>2. ASSUME NEW r \in Requests
        PROVE  Row(r)
    <3>1. /\ pc[r] = "idle" /\ subject[r] = None /\ candidates[r] = {} /\ exclude[r] = None
          /\ lease[r] = None /\ todo[r] = {} /\ loads[r] = <<>>
      BY DEF Init
    <3> QED
      BY <3>1, IdleRow DEF Row
  <2> QED
    BY <2>1, <2>2 DEF Rows
<1>3. LeaksPaid
  BY DEF Init, LeaksPaid
<1>4. CountWithinLeases
  <2>1. ASSUME NEW t \in Tokens
        PROVE  count[t] = 0 /\ leaked[t] = 0 /\ Cardinality(Counted(t)) \in Nat
    BY <2>1, HoldersFinite DEF Init
  <2> QED
    BY <2>1 DEF CountWithinLeases
<1> QED
  BY <1>1, <1>2, <1>3, <1>4 DEF CoordinatorInv

\* Every step keeps the invariant.
LEMMA CoordinatorNext == CoordinatorInv /\ [Next]_vars => CoordinatorInv'
  BY SharedNext, RowsNext, LeaksNext, CountNext DEF CoordinatorInv

\* The invariant of every behaviour.
THEOREM CoordinatorInvAlways == Spec => []CoordinatorInv
  BY CoordinatorInit, CoordinatorNext, PTL DEF Spec

\* The coordinator hands out tokens it was given and counts them in integers; what its
\* loop chooses by CHOOSE exists.
THEOREM RedisCoordinatorTypes == Spec => []TypeOK
<1>1. CoordinatorInv => TypeOK
  <2> SUFFICES ASSUME CoordinatorInv
               PROVE  TypeOK
    OBVIOUS
  <2>1. Shared /\ Tables /\ \A r \in Requests : Row(r)
    BY DEF CoordinatorInv, Rows
  <2>2. /\ pc \in [Requests -> Locations]
        /\ subject \in [Requests -> Subjects \cup {None}]
        /\ candidates \in [Requests -> SUBSET Tokens]
        /\ exclude \in [Requests -> Tokens \cup {None}]
    BY <2>1 DEF Row, RowOK, Tables
  <2>3. /\ lease \in [Requests -> Tokens \cup {None}]
        /\ todo \in [Requests -> SUBSET Tokens]
        /\ \A r \in Requests : /\ DOMAIN loads[r] \subseteq Tokens
                               /\ \A t \in DOMAIN loads[r] : loads[r][t] \in Int
    BY <2>1 DEF Row, RowOK, Tables
  <2> QED
    BY <2>1, <2>2, <2>3 DEF Shared, TypeOK
<1> QED
  BY <1>1, CoordinatorInvAlways, PTL

\* DECR and DEL in any order with the INCRs of others may lose counts, but the shared load
\* of a token never counts more requests than hold it, besides one for each INCR whose
\* reply was lost, each DECR that was not executed and each lease of an instance that
\* stopped.
THEOREM CountsNeverExceedLeases == Spec => []CountWithinLeases
<1>1. CoordinatorInv => CountWithinLeases
  BY DEF CoordinatorInv
<1> QED
  BY <1>1, CoordinatorInvAlways, PTL

\* The races heal: with no request in progress no token counts as loaded but for what
\* leaked, in Redis or, once for each failure at most, in memory.
THEOREM CountsDrain == Spec => []DrainsToZero
<1>1. CoordinatorInv => DrainsToZero
  <2> SUFFICES ASSUME CoordinatorInv, Idle
               PROVE  /\ \A t \in Tokens : count[t] <= leaked[t]
                      /\ \A i \in Instances, t \in Tokens : memory[i][t] <= failures
                      /\ failures = 0 => NoLoad
    BY DEF DrainsToZero
  <2>1. ASSUME NEW t \in Tokens
        PROVE  count[t] <= leaked[t] /\ count[t] \in Int /\ (failures = 0 => ~ (count[t] < 0))
    <3>1. Counted(t) = {}
      BY DEF Idle, Counted, Holding
    <3>2. Cardinality(Counted(t)) = 0
      BY <3>1, FS_EmptySet
    <3>3. count[t] \in Int /\ leaked[t] \in Nat
      BY DEF CoordinatorInv, Shared
    <3>4. count[t] <= 0 + leaked[t] /\ (failures = 0 => ~ (count[t] < 0))
      BY <3>2 DEF CoordinatorInv, CountWithinLeases, Idle
    <3> QED
      BY <3>3, <3>4
  <2>2. \A i \in Instances, t \in Tokens : memory[i][t] <= failures /\ memory[i][t] \in Nat
    BY DEF CoordinatorInv, LeaksPaid, Shared
  <2>3. failures = 0 => \A t \in Tokens : leaked[t] = 0
    BY DEF CoordinatorInv, LeaksPaid
  <2>4. failures = 0 => NoLoad
    BY <2>1, <2>2, <2>3 DEF NoLoad
  <2> QED
    BY <2>1, <2>2, <2>4
<1> QED
  BY <1>1, CoordinatorInvAlways, PTL

\* Whatever fails or crashes, a request never holds the token its retry excludes.
THEOREM RetryIsElsewhere == Spec => []RetryExcludesRefused
<1>1. CoordinatorInv => RetryExcludesRefused
  BY DEF CoordinatorInv, Rows, Row, RowOK, RetryExcludesRefused
<1> QED
  BY <1>1, CoordinatorInvAlways, PTL

-----------------------------------------------------------------------------
(* The commands a request has before it.                                   *)

Local(r) ==
  <<pc[r], subject[r], candidates[r], exclude[r], lease[r], todo[r], loads[r]>>

Most == Cardinality(Tokens)

\* The commands of an attempt from each location on, with n candidates left to read.
StepsOfAttempt(p, n) ==
  CASE p = "getSticky" -> 8 + 2 * Most
    [] p = "checkSticky" -> 7 + 2 * Most
    [] p = "incrSticky" -> 6 + 2 * Most
    [] p = "probe" -> 5 + 2 * n
    [] p = "load" -> 4 + 2 * n
    [] p = "held" -> 4
    [] p = "mark" -> 3
    [] p = "decr" -> 2
    [] p = "del" -> 1
    [] OTHER -> 0

\* The token of this attempt may yet be refused, or has been and is to be retried.
MayRetry(r) == pc[r] # "idle" /\ exclude[r] \in {None, lease[r]}

StepsLeft(r) ==
  StepsOfAttempt(pc[r], Cardinality(todo[r])) + IF MayRetry(r) THEN 9 + 2 * Most ELSE 0

Nearer(r) == StepsLeft(r)' < StepsLeft(r)

\* A request in progress is nearer to its end after each command of its own, failed or
\* not, and is left alone by the steps of the others, unless they end it.
Advances(r) ==
  pc[r] # "idle" => /\ RequestStep(r) \/ RequestFails(r) => Nearer(r)
                    /\ Nearer(r) \/ Local(r)' = Local(r)

\* What is left to read can be counted, and is no more than there are tokens.
LEMMA TodoCounted ==
  ASSUME NEW T \in SUBSET Tokens
  PROVE  /\ Most \in Nat /\ Cardinality(T) \in 0 .. Most
         /\ \A t \in T : Cardinality(T \ {t}) = Cardinality(T) - 1 /\ Cardinality(T) >= 1
<1>1. IsFiniteSet(T) /\ Cardinality(T) \in Nat /\ Most \in Nat /\ Cardinality(T) <= Most
  BY TokensAssumption, FS_Subset, FS_CardinalityType DEF Most
<1>2. ASSUME NEW t \in T
      PROVE  Cardinality(T \ {t}) = Cardinality(T) - 1 /\ Cardinality(T) >= 1
  <2>1. Cardinality(T \ {t}) = Cardinality(T) - 1 /\ IsFiniteSet(T \ {t})
    BY <1>1, FS_RemoveElement
  <2>2. Cardinality(T \ {t}) \in Nat
    BY <2>1, FS_CardinalityType
  <2> QED
    BY <1>1, <2>1, <2>2
<1> QED
  BY <1>1, <1>2

\* The scale, with the readings of n candidates between the sticky token and the lease.
LEMMA Scale ==
  ASSUME Most \in Nat, NEW n \in 0 .. Most
  PROVE  /\ StepsOfAttempt("getSticky", n) = 8 + 2 * Most
         /\ StepsOfAttempt("checkSticky", n) = 7 + 2 * Most
         /\ StepsOfAttempt("incrSticky", n) = 6 + 2 * Most
         /\ StepsOfAttempt("probe", n) = 5 + 2 * n
         /\ StepsOfAttempt("load", n) = 4 + 2 * n
         /\ StepsOfAttempt("held", n) = 4
         /\ StepsOfAttempt("mark", n) = 3
         /\ StepsOfAttempt("decr", n) = 2
         /\ StepsOfAttempt("del", n) = 1
         /\ StepsOfAttempt("idle", n) = 0
  BY DEF StepsOfAttempt

\* A request is on the scale, and off its bottom while it is in progress.
LEMMA OnScale ==
  ASSUME Rows, NEW r \in Requests
  PROVE  /\ todo[r] \in SUBSET Tokens /\ Most \in Nat /\ Cardinality(todo[r]) \in 0 .. Most
         /\ StepsOfAttempt(pc[r], Cardinality(todo[r])) \in 0 .. 8 + 2 * Most
         /\ pc[r] # "idle" => StepsOfAttempt(pc[r], Cardinality(todo[r])) >= 1
<1>1. pc[r] \in Locations /\ todo[r] \in SUBSET Tokens
  BY RowOf DEF Row, RowOK
<1>2. Most \in Nat /\ Cardinality(todo[r]) \in 0 .. Most
  BY <1>1, TodoCounted
<1> DEFINE n == Cardinality(todo[r])
<1> HIDE DEF n
<1>3. /\ StepsOfAttempt(pc[r], n) \in 0 .. 8 + 2 * Most
      /\ pc[r] # "idle" => StepsOfAttempt(pc[r], n) >= 1
  BY <1>1, <1>2, Scale DEF Locations, Acquiring, Holding, n
<1> QED
  BY <1>1, <1>2, <1>3 DEF n

\* Within an attempt the scale alone counts.
LEMMA WithinAttempt ==
  ASSUME Rows, Rows', NEW r \in Requests, MayRetry(r)' => MayRetry(r),
         StepsOfAttempt(pc'[r], Cardinality(todo'[r]))
           < StepsOfAttempt(pc[r], Cardinality(todo[r]))
  PROVE  Nearer(r)
<1> DEFINE a == StepsOfAttempt(pc[r], Cardinality(todo[r]))
           b == StepsOfAttempt(pc'[r], Cardinality(todo'[r]))
<1>1. a \in Int /\ Most \in Nat
  BY OnScale
<1>2. b \in Int /\ Most' = Most
  <2>1. StepsOfAttempt(pc[r], Cardinality(todo[r]))' = b /\ Most' = Most
    BY Zenon DEF StepsOfAttempt, Most
  <2>2. (StepsOfAttempt(pc[r], Cardinality(todo[r])) \in 0 .. 8 + 2 * Most)'
    BY OnScale, PTL
  <2> QED
    BY <1>1, <2>1, <2>2
<1>3. StepsLeft(r) = a + IF MayRetry(r) THEN 9 + 2 * Most ELSE 0
  BY Zenon DEF StepsLeft
<1>4. StepsLeft(r)' = b + IF MayRetry(r)' THEN 9 + 2 * Most ELSE 0
  BY Zenon DEF StepsLeft, StepsOfAttempt, Most
<1>5. b < a
  OBVIOUS
<1> HIDE DEF a, b
<1> QED
  BY <1>1, <1>2, <1>3, <1>4, <1>5 DEF Nearer

\* The retry starts the scale again, and is the last.
LEMMA ToRetry ==
  ASSUME Rows, Rows', NEW r \in Requests, pc[r] # "idle", MayRetry(r), ~ MayRetry(r)'
  PROVE  Nearer(r)
<1> DEFINE a == StepsOfAttempt(pc[r], Cardinality(todo[r]))
           b == StepsOfAttempt(pc'[r], Cardinality(todo'[r]))
<1>1. a \in Int /\ a >= 1 /\ Most \in Nat
  BY OnScale
<1>2. b \in Int /\ b <= 8 + 2 * Most
  <2>1. StepsOfAttempt(pc[r], Cardinality(todo[r]))' = b /\ Most' = Most
    BY Zenon DEF StepsOfAttempt, Most
  <2>2. (StepsOfAttempt(pc[r], Cardinality(todo[r])) \in 0 .. 8 + 2 * Most)'
    BY OnScale, PTL
  <2> QED
    BY <1>1, <2>1, <2>2
<1>3. StepsLeft(r) = a + (9 + 2 * Most)
  BY Zenon DEF StepsLeft
<1>4. StepsLeft(r)' = b + 0
  BY Zenon DEF StepsLeft, StepsOfAttempt, Most
<1> HIDE DEF a, b
<1> QED
  BY <1>1, <1>2, <1>3, <1>4 DEF Nearer

\* The token of a step is not the one to exclude, so that the right to a retry does not
\* come back.
LEMMA NoNewRetry ==
  ASSUME NEW r \in Requests, pc[r] # "idle",
         \/ exclude'[r] = exclude[r] /\ (lease'[r] \in {None, lease[r]} \/ lease'[r] # exclude[r])
         \/ exclude[r] = None
  PROVE  MayRetry(r)' => MayRetry(r)
  BY DEF MayRetry

\* The steps that read come nearer to the lease.
LEMMA ReadsAdvance ==
  ASSUME Rows, Rows', Shared, NEW r \in Requests, Reads(r), pc[r] # "idle"
  PROVE  Nearer(r)
<1>r. Row(r) /\ Tables
  BY RowOf
<1> DEFINE n == Cardinality(todo[r])
           C == candidates[r] \ {exclude[r]}
<1>1. todo[r] \in SUBSET Tokens /\ C \in SUBSET Tokens
  BY <1>r DEF Row, RowOK
<1>2. Most \in Nat /\ n \in 0 .. Most /\ Cardinality(C) \in 0 .. Most
  BY <1>1, TodoCounted
<1> HIDE DEF n, C
<1>3. ASSUME GetSticky(r)
      PROVE  Nearer(r)
  <2>1. pc[r] = "getSticky" /\ exclude' = exclude
    BY <1>3 DEF GetSticky
  <2>2. CASE sticky[subject[r]] \in candidates[r] \ {exclude[r]}
    <3>1. pc'[r] = "checkSticky" /\ todo' = todo /\ lease'[r] # exclude[r]
      BY <1>3, <1>r, <2>2 DEF GetSticky, Go, Set, Tables
    <3> QED
      BY <1>2, <2>1, <3>1, Scale, WithinAttempt, NoNewRetry DEF n
  <2>3. CASE ~ (sticky[subject[r]] \in candidates[r] \ {exclude[r]})
    <3>1. pc'[r] = "probe" /\ todo'[r] = C /\ lease'[r] = None
      BY <1>3, <1>r, <2>3 DEF GetSticky, EnterLoop, Go, Set, Tables, C
    <3>2. StepsOfAttempt("probe", Cardinality(C)) < StepsOfAttempt("getSticky", n)
      BY <1>2, Scale
    <3> QED
      BY <2>1, <3>1, <3>2, WithinAttempt, NoNewRetry DEF n
  <2> QED
    BY <2>2, <2>3
<1>4. ASSUME CheckSticky(r)
      PROVE  Nearer(r)
  <2>1. pc[r] = "checkSticky" /\ exclude' = exclude
    BY <1>4 DEF CheckSticky
  <2>2. CASE lease[r] \in cooling
    <3>1. pc'[r] = "probe" /\ todo'[r] = C /\ lease'[r] = None
      BY <1>4, <1>r, <2>2 DEF CheckSticky, EnterLoop, Go, Set, Tables, C
    <3>2. StepsOfAttempt("probe", Cardinality(C)) < StepsOfAttempt("checkSticky", n)
      BY <1>2, Scale
    <3> QED
      BY <2>1, <3>1, <3>2, WithinAttempt, NoNewRetry DEF n
  <2>3. CASE lease[r] \notin cooling
    <3>1. pc'[r] = "incrSticky" /\ todo' = todo /\ lease' = lease
      BY <1>4, <1>r, <2>3 DEF CheckSticky, Go, Set, Tables
    <3> QED
      BY <1>2, <2>1, <3>1, Scale, WithinAttempt, NoNewRetry DEF n
  <2> QED
    BY <2>2, <2>3
<1>5. ASSUME Probe(r) \/ Load(r)
      PROVE  Nearer(r)
  <2> DEFINE left == todo[r] \ {NextCandidate(r)}
  <2>1. exclude' = exclude /\ lease' = lease /\ todo[r] # {}
    BY <1>5, <1>r DEF Probe, Load, Row, RowOK
  <2>2. NextCandidate(r) \in todo[r]
    BY <1>1, <2>1, NextIsLeft
  <2>3. Cardinality(left) = n - 1 /\ n >= 1 /\ Cardinality(left) \in 0 .. Most
    BY <1>1, <1>2, <2>2, TodoCounted DEF n
  <2>4. \/ pc[r] = "probe" /\ pc'[r] = "probe" /\ todo'[r] = left
        \/ pc[r] = "probe" /\ pc'[r] = "load" /\ todo' = todo
        \/ pc[r] = "load" /\ pc'[r] = "probe" /\ todo'[r] = left
    BY <1>5, <1>r DEF Probe, Load, Go, Set, Tables
  <2> HIDE DEF left
  <2>5. /\ StepsOfAttempt("probe", Cardinality(left)) < StepsOfAttempt("load", n)
        /\ StepsOfAttempt("load", n) < StepsOfAttempt("probe", n)
        /\ StepsOfAttempt("probe", Cardinality(left)) < StepsOfAttempt("probe", n)
    BY <1>2, <2>3, Scale
  <2>6. MayRetry(r)' => MayRetry(r)
    BY <2>1, NoNewRetry
  <2> QED
    BY <2>4, <2>5, <2>6, WithinAttempt DEF n
<1>6. ASSUME NoneHealthy(r)
      PROVE  Nearer(r)
  <2>1. pc[r] = "probe" /\ pc'[r] = "idle" /\ todo'[r] = {}
    BY <1>6, <1>r DEF NoneHealthy, End, Forget, Go, Set, Tables
  <2>2. StepsOfAttempt("idle", Cardinality({})) < StepsOfAttempt("probe", n)
    BY <1>2, Scale, FS_EmptySet
  <2>3. MayRetry(r)' => MayRetry(r)
    BY <2>1 DEF MayRetry
  <2> QED
    BY <2>1, <2>2, <2>3, WithinAttempt DEF n
<1>7. ~ \E s \in Subjects, C2 \in ActiveLists : Begin(r, s, C2)
  BY DEF Begin
<1> QED
  BY <1>3, <1>4, <1>5, <1>6, <1>7 DEF Reads

\* A token is given by Redis or, when a command fails, in memory; or there is none.
LEMMA TakesAdvance ==
  ASSUME Rows, Rows', Shared, NEW r \in Requests, IncrSticky(r) \/ Commit(r) \/ AcquireFails(r)
  PROVE  Nearer(r)
<1>r. Row(r) /\ Tables
  BY RowOf
<1> DEFINE n == Cardinality(todo[r])
           k == Cardinality(todo'[r])
<1>1. Most \in Nat /\ n \in 0 .. Most /\ k \in 0 .. Most /\ (pc[r] = "load" => n >= 1)
  <2>1. todo[r] \in SUBSET Tokens /\ todo'[r] \in SUBSET Tokens
        /\ (pc[r] = "load" => todo[r] # {})
    BY <1>r DEF Row, RowOK, Rows
  <2> QED
    BY <2>1, TodoCounted
<1>2. pc[r] \in Acquiring
  BY DEF IncrSticky, Commit, AcquireFails, Acquiring
<1>3. /\ pc'[r] \in {"held", "idle"}
      /\ pc'[r] = "held" => exclude'[r] = exclude[r]
                            /\ (lease'[r] = lease[r] \/ lease'[r] # exclude[r])
  <2>1. CASE IncrSticky(r)
    BY <1>r, <2>1 DEF IncrSticky, Go, locals, Tables
  <2>2. CASE Commit(r)
    <3>1. Selected(loads[r]) \in DOMAIN loads[r]
      BY <2>2, <1>r, SelectedIsRead DEF Commit, Row, RowOK
    <3>2. Selected(loads[r]) # exclude[r]
      BY <1>r, <3>1 DEF Row, RowOK
    <3> QED
      BY <1>r, <2>2, <3>2 DEF Commit, Go, Set, Tables
  <2>3. CASE AcquireFails(r)
    <3>1. AcquireLocal(r)
      BY <2>3 DEF AcquireFails
    <3>2. CASE End(r)
      BY <1>r, <3>2 DEF End, Go, Tables
    <3>3. CASE \E t \in candidates[r] \ ({exclude[r]} \cup resting[Home[r]]) :
                 lease' = Set(lease, r, t) /\ Go(r, "held") /\ UNCHANGED exclude
      BY <1>r, <3>3 DEF Go, Set, Tables
    <3> QED
      BY <3>1, <3>2, <3>3 DEF AcquireLocal
  <2> QED
    BY <2>1, <2>2, <2>3
<1>4. MayRetry(r)' => MayRetry(r)
  BY <1>2, <1>3 DEF MayRetry, Acquiring
<1> HIDE DEF n, k
<1>5. StepsOfAttempt(pc'[r], k) < StepsOfAttempt(pc[r], n)
  <2>1. \A p \in {"held", "idle"} : StepsOfAttempt(p, k) \in 0 .. 4
    BY <1>1, Scale
  <2>2. StepsOfAttempt(pc[r], n) \in Int /\ StepsOfAttempt(pc[r], n) > 4
    BY <1>1, <1>2, Scale DEF Acquiring
  <2> QED
    BY <1>3, <2>1, <2>2
<1> QED
  BY <1>4, <1>5, WithinAttempt DEF n, k

\* From the answer on to the release.
LEMMA AnswersAdvance ==
  ASSUME Rows, Rows', Shared, NEW r \in Requests, Answered(r) \/ Mark(r) \/ MarkFails(r)
  PROVE  Nearer(r)
<1>r. Row(r) /\ Tables
  BY RowOf
<1> DEFINE n == Cardinality(todo[r])
<1>1. Most \in Nat /\ n \in 0 .. Most
  BY OnScale
<1>2. /\ todo' = todo /\ lease' = lease
      /\ \/ pc[r] = "held" /\ pc'[r] \in {"mark", "decr"}
            /\ (exclude'[r] = exclude[r] \/ exclude[r] = None)
         \/ pc[r] = "mark" /\ pc'[r] = "decr" /\ exclude' = exclude
  <2>1. CASE Answered(r)
    BY <1>r, <2>1 DEF Answered, Go, Set, Tables
  <2>2. CASE Mark(r) \/ MarkFails(r)
    BY <1>r, <2>2 DEF Mark, MarkFails, Go, locals, Tables
  <2> QED
    BY <2>1, <2>2
<1>3. MayRetry(r)' => MayRetry(r)
  BY <1>2, NoNewRetry
<1> HIDE DEF n
<1>4. StepsOfAttempt(pc'[r], n) < StepsOfAttempt(pc[r], n)
  BY <1>1, <1>2, Scale
<1> QED
  BY <1>2, <1>3, <1>4, WithinAttempt DEF n

\* Each command of ReleaseToken is the last, or a DECR that the DEL follows.
LEMMA ReleaseCommands ==
  ASSUME NEW r \in Requests, Decr(r) \/ Del(r) \/ DecrFails(r) \/ DelFails(r)
  PROVE  /\ pc[r] \in {"decr", "del"}
         /\ Released(r) \/ (pc[r] = "decr" /\ Go(r, "del") /\ UNCHANGED locals)
<1>1. CASE Decr(r)
  BY <1>1, Zenon DEF Decr
<1>2. CASE Del(r)
  BY <1>2, Zenon DEF Del
<1>3. CASE DecrFails(r)
  BY <1>3, Zenon DEF DecrFails
<1>4. CASE DelFails(r)
  BY <1>4, Zenon DEF DelFails
<1> QED
  BY <1>1, <1>2, <1>3, <1>4

\* After the release there is the retry with the token excluded, or the end.
LEMMA ReleasesAdvance ==
  ASSUME Rows, Rows', Shared, NEW r \in Requests, pc[r] \in {"decr", "del"},
         Released(r) \/ (pc[r] = "decr" /\ Go(r, "del") /\ UNCHANGED locals)
  PROVE  Nearer(r)
<1>r. Row(r) /\ Tables
  BY RowOf
<1> DEFINE n == Cardinality(todo[r])
           k == Cardinality(todo'[r])
<1>1. Most \in Nat /\ n \in 0 .. Most /\ k \in 0 .. Most
  <2>1. todo[r] \in SUBSET Tokens /\ todo'[r] \in SUBSET Tokens
    BY <1>r DEF Row, RowOK, Rows
  <2> QED
    BY <2>1, TodoCounted
<1> HIDE DEF n, k
<1>2. CASE Released(r) /\ exclude[r] = lease[r]
  <2>1. /\ lease[r] \in Tokens /\ exclude'[r] = exclude[r] /\ lease'[r] = None
    BY <1>r, <1>2 DEF Released, Set, Tables, Row, RowOK, Holding
  <2>2. MayRetry(r) /\ ~ MayRetry(r)'
    BY <1>2, <2>1, TokensAssumption DEF MayRetry
  <2> QED
    BY <2>2, ToRetry
<1>3. CASE Released(r) /\ exclude[r] # lease[r]
  <2>1. pc'[r] = "idle"
    BY <1>r, <1>3 DEF Released, End, Go, Tables
  <2>2. ~ MayRetry(r)'
    BY <2>1 DEF MayRetry
  <2>3. StepsOfAttempt("idle", k) < StepsOfAttempt(pc[r], n)
    BY <1>1, Scale
  <2> QED
    BY <2>1, <2>2, <2>3, WithinAttempt DEF n, k
<1>4. CASE pc[r] = "decr" /\ Go(r, "del") /\ UNCHANGED locals
  <2>1. pc'[r] = "del" /\ exclude' = exclude /\ lease' = lease /\ n = k
    BY <1>r, <1>4 DEF Go, locals, Tables, n, k
  <2>2. MayRetry(r)' => MayRetry(r)
    BY <1>4, <2>1, NoNewRetry
  <2>3. StepsOfAttempt("del", k) < StepsOfAttempt("decr", n)
    BY <1>1, Scale
  <2> QED
    BY <1>4, <2>1, <2>2, <2>3, WithinAttempt DEF n, k
<1> QED
  BY <1>2, <1>3, <1>4

\* A request is not touched by the commands of another.
LEMMA OthersStay ==
  ASSUME Rows, Shared, NEW r \in Requests, NEW q \in Requests, q # r,
         Reads(q) \/ IncrSticky(q) \/ Commit(q) \/ AcquireFails(q)
         \/ Answered(q) \/ Mark(q) \/ MarkFails(q)
         \/ Decr(q) \/ Del(q) \/ DecrFails(q) \/ DelFails(q)
  PROVE  Local(r)' = Local(r)
<1>1. ASSUME NEW p, NEW s, NEW C, NEW x, NEW l, NEW T, NEW m, Moves(q, p, s, C, x, l, T, m)
      PROVE  Local(r)' = Local(r)
  BY <1>1 DEF Moves, Local
<1>2. CASE Reads(q)
  BY <1>1, <1>2, ReadMoves
<1>3. CASE IncrSticky(q) \/ Commit(q)
  BY <1>1, <1>3, TakeMoves
<1>4. CASE Answered(q) \/ Mark(q) \/ MarkFails(q)
  BY <1>1, <1>4, AnswerMoves
<1>5. CASE AcquireFails(q)
  BY <1>1, <1>5, LocalMoves DEF AcquireFails
<1>6. CASE Decr(q) \/ Del(q) \/ DecrFails(q) \/ DelFails(q)
  <2>1. /\ pc[q] \in {"decr", "del"}
        /\ Released(q) \/ (Go(q, "del") /\ UNCHANGED locals)
    BY <1>6, ReleaseCommands
  <2>2. CASE Released(q)
    BY <1>1, <2>1, <2>2, ReleasedMoves
  <2>3. CASE Go(q, "del") /\ UNCHANGED locals
    BY <2>3, RowOf DEF Go, locals, Tables, Local
  <2> QED
    BY <2>1, <2>2, <2>3
<1> QED
  BY <1>2, <1>3, <1>4, <1>5, <1>6

\* Every step of the instances leaves a request alone or brings it nearer to its end.
LEMMA AdvancesStep ==
  ASSUME Rows, Rows', Shared, [Next]_vars, NEW r \in Requests
  PROVE  Advances(r)
<1>1. ASSUME RequestStep(r) \/ RequestFails(r), pc[r] # "idle"
      PROVE  Nearer(r)
  <2>1. CASE Decr(r) \/ Del(r) \/ DecrFails(r) \/ DelFails(r)
    <3>1. /\ pc[r] \in {"decr", "del"}
          /\ Released(r) \/ (pc[r] = "decr" /\ Go(r, "del") /\ UNCHANGED locals)
      BY <2>1, ReleaseCommands
    <3> QED
      BY <3>1, ReleasesAdvance
  <2> QED
    BY <1>1, <2>1, RequestKinds, ReadsAdvance, TakesAdvance, AnswersAdvance
<1>2. ASSUME NEW q \in Requests, q # r,
             \/ \E s \in Subjects, C \in ActiveLists : Begin(q, s, C)
             \/ RequestStep(q) \/ RequestFails(q)
      PROVE  Local(r)' = Local(r)
  BY <1>2, RequestKinds, OthersStay
<1>3. ASSUME NEW s \in Subjects, NEW C \in ActiveLists, Begin(r, s, C)
      PROVE  pc[r] = "idle"
  BY <1>3 DEF Begin
<1>4. ASSUME NEW i \in Instances, Crash(i), pc[r] # "idle"
      PROVE  Nearer(r) \/ Local(r)' = Local(r)
  <2>1. CASE Home[r] = i
    <3>1. pc'[r] = "idle" /\ todo'[r] = {}
      BY <1>4, <2>1 DEF Crash
    <3>2. ~ MayRetry(r)'
      BY <3>1 DEF MayRetry
    <3>3. StepsOfAttempt("idle", Cardinality({})) = 0
      BY OnScale, Scale, FS_EmptySet
    <3>4. StepsOfAttempt(pc[r], Cardinality(todo[r])) \in Int
          /\ StepsOfAttempt(pc[r], Cardinality(todo[r])) >= 1
      BY <1>4, OnScale
    <3> QED
      BY <3>1, <3>2, <3>3, <3>4, WithinAttempt
  <2>2. CASE Home[r] # i
    BY <1>4, <2>2 DEF Crash, Local
  <2> QED
    BY <2>1, <2>2
<1>5. ASSUME Expire \/ UNCHANGED vars
      PROVE  Local(r)' = Local(r)
  BY <1>5 DEF Expire, vars, locals, Local
<1>6. pc[r] # "idle" => Nearer(r) \/ Local(r)' = Local(r)
  BY <1>1, <1>2, <1>3, <1>4, <1>5 DEF Next
<1> QED
  BY <1>1, <1>6 DEF Advances

\* Whatever fails, expires or crashes, a request ends after a number of its own commands
\* that the tokens alone bound: the loop reads each candidate once, and the one retry
\* excludes its token, so that there is no second.
THEOREM RequestsAdvance == Spec => [][\A r \in Requests : Advances(r)]_vars
<1>1. CoordinatorInv /\ CoordinatorInv' /\ [Next]_vars => [\A r \in Requests : Advances(r)]_vars
  BY AdvancesStep DEF CoordinatorInv
<1> QED
  BY <1>1, CoordinatorInvAlways, PTL DEF Spec
=============================================================================
