------------------------ MODULE RedisRateLimit_proofs -----------------------
(***************************************************************************)
(* What instances sharing the buckets of one Redis admit, for any number   *)
(* of instances, calls, subjects, windows and failures.                    *)
(***************************************************************************)
EXTENDS RedisRateLimit, FiniteSetTheorems, TLAPS

-----------------------------------------------------------------------------
(* The invariant.                                                          *)

\* Calls begin in a window that has come.
Begun == \A c \in Calls : call[c] # Gone => call[c].start <= clock

\* Nothing was admitted in a window to come; a bucket outlives the window after
\* its own.
InTime ==
  \A s \in Subjects, w \in Windows :
    /\ w > clock => shared[s][w] = 0 /\ own[s][w] = 0
    /\ expires[s][w] # Never => w + 2 <= expires[s][w]

AtMostLimit(n) == IF n <= Limit THEN n ELSE Limit

\* A bucket that cannot have expired counts, within the limit, what Redis admitted.
BucketCounts ==
  \A s \in Subjects, w \in Windows :
    clock <= w + 1 => shared[s][w] <= AtMostLimit(bucket[s][w])

\* What Redis admitted beyond a limit came two windows late or more.
SharedBound ==
  \A s \in Subjects, w \in Windows : shared[s][w] <= Limit + stale[s]

\* As long as Redis answers, no instance decides on its own.
NoneAlone ==
  failures = 0 => \A s \in Subjects, w \in Windows : own[s][w] = 0

\* The admissions the instances have counted in memory for a window, each as the
\* instance and the number it had there.
Slots(s, w) ==
  {slot \in Instances \X (1 .. Limit) :
     /\ windows[slot[1]][s].started = w
     /\ slot[2] <= windows[slot[1]][s].count}

\* How often an instance may have lost what it counted for a subject.
Losses(s) == late[s] + stops

\* In the window the clock is in, what instances admitted on their own takes a slot of
\* one of them, unless a late call has taken the slots of its instance away, or the
\* instance has stopped.
SlotsCount ==
  \A s \in Subjects : own[s][clock] <= Limit * Losses(s) + Cardinality(Slots(s, clock))

\* A limit for each instance, one for each late call, and one for each stop.
OwnBound ==
  \A s \in Subjects, w \in Windows :
    own[s][w] <= Limit * (Cardinality(Instances) + Losses(s))

RedisInv ==
  /\ TypeOK /\ Begun /\ InTime
  /\ BucketCounts /\ SharedBound /\ NoneAlone
  /\ SlotsCount /\ OwnBound
  /\ BucketsExpire

USE DEF Gone

-----------------------------------------------------------------------------
(* Types.                                                                  *)

\* What the counters in memory of an instance are.
Entries == [started : Windows \cup {Never}, count : Nat]

\* The numbers the arithmetic is about.
LEMMA Numbers ==
  /\ Limit \in Nat /\ Limit > 0 /\ MaxWindow \in Nat /\ MaxFailures \in Nat
  /\ MaxStops \in Nat /\ IsFiniteSet(Instances)
  /\ Never \in Int /\ \A n \in Nat : n # Never
  BY RedisRateAssumption DEF Never

\* A call that is in progress has its place, its subject and its window.
LEMMA CallType ==
  ASSUME TypeOK, NEW c \in Calls, call[c].pc \in {"incr", "expire"}
  PROVE  /\ call[c] \in Located /\ call[c].subject \in Subjects /\ call[c].start \in Windows
         /\ call[c].at \in Instances
  BY DEF TypeOK, Located

\* The counters of an instance stay counters.
LEMMA AllowType ==
  ASSUME NEW f \in [Subjects -> Entries], NEW s \in Subjects, NEW w \in Windows
  PROVE  CoordinatorAllow(f, s, w, Limit) \in [Subjects -> Entries]
<1>1. NoWindow \in Entries
  BY DEF NoWindow, Entries, Never
<1>2. Current(f, s, w).count \in Nat
  BY DEF Current, Entries
<1>3. Counted(f, s, w) \in [Subjects -> Entries]
  BY <1>2 DEF Counted, Entries
<1>4. Purged(Counted(f, s, w), w) \in [Subjects -> Entries]
  BY <1>1, <1>3 DEF Purged
<1> QED
  BY <1>4 DEF CoordinatorAllow

\* The history of what was admitted and when.
HistoryType ==
  /\ shared \in [Subjects -> [Windows -> Nat]] /\ own \in [Subjects -> [Windows -> Nat]]
  /\ stale \in [Subjects -> Nat] /\ late \in [Subjects -> Nat]

\* What a verdict of Redis changes in the history, subject by subject.
LEMMA SharedEffect ==
  ASSUME TypeOK, Begun, NEW c \in Calls, call[c].pc = "incr", NEW v, DecideShared(c, v)
  PROVE  /\ call[c].subject \in Subjects /\ call[c].start \in Windows
         /\ call[c].start <= clock
         /\ HistoryType' /\ UNCHANGED <<own, late>>
         /\ \A s \in Subjects, w \in Windows :
              shared'[s][w] = IF v /\ s = call[c].subject /\ w = call[c].start
                              THEN shared[s][w] + 1 ELSE shared[s][w]
         /\ \A s \in Subjects :
              stale'[s] = IF v /\ s = call[c].subject /\ clock > call[c].start + 1
                          THEN stale[s] + 1 ELSE stale[s]
<1>1. call[c] \in Located /\ call[c].subject \in Subjects /\ call[c].start \in Windows
  BY CallType
<1>2. call[c].start <= clock
  BY <1>1 DEF Begun, Located
<1>3. /\ shared' \in [Subjects -> [Windows -> Nat]]
      /\ \A s \in Subjects, w \in Windows :
           shared'[s][w] = IF v /\ s = call[c].subject /\ w = call[c].start
                           THEN shared[s][w] + 1 ELSE shared[s][w]
  BY <1>1 DEF DecideShared, TypeOK
<1>4. /\ stale' \in [Subjects -> Nat]
      /\ \A s \in Subjects :
           stale'[s] = IF v /\ s = call[c].subject /\ clock > call[c].start + 1
                       THEN stale[s] + 1 ELSE stale[s]
  BY <1>1 DEF DecideShared, TypeOK
<1>5. UNCHANGED <<own, late>> /\ own \in [Subjects -> [Windows -> Nat]]
      /\ late \in [Subjects -> Nat]
  BY DEF DecideShared, TypeOK
<1> QED
  BY <1>1, <1>2, <1>3, <1>4, <1>5 DEF HistoryType

\* What a verdict of an instance changes in the history, subject by subject.
LEMMA AloneEffect ==
  ASSUME TypeOK, Begun, NEW c \in Calls, call[c].pc = "incr", NEW v, DecideAlone(c, v)
  PROVE  /\ call[c].subject \in Subjects /\ call[c].start \in Windows
         /\ call[c].start <= clock
         /\ HistoryType' /\ UNCHANGED <<shared, stale>>
         /\ \A s \in Subjects, w \in Windows :
              own'[s][w] = IF v /\ s = call[c].subject /\ w = call[c].start
                           THEN own[s][w] + 1 ELSE own[s][w]
         /\ \A s \in Subjects :
              late'[s] = IF v /\ s = call[c].subject /\ clock > call[c].start
                         THEN late[s] + 1 ELSE late[s]
<1>1. call[c] \in Located /\ call[c].subject \in Subjects /\ call[c].start \in Windows
  BY CallType
<1>2. call[c].start <= clock
  BY <1>1 DEF Begun, Located
<1>3. /\ own' \in [Subjects -> [Windows -> Nat]]
      /\ \A s \in Subjects, w \in Windows :
           own'[s][w] = IF v /\ s = call[c].subject /\ w = call[c].start
                        THEN own[s][w] + 1 ELSE own[s][w]
  BY <1>1 DEF DecideAlone, TypeOK
<1>4. /\ late' \in [Subjects -> Nat]
      /\ \A s \in Subjects :
           late'[s] = IF v /\ s = call[c].subject /\ clock > call[c].start
                      THEN late[s] + 1 ELSE late[s]
  BY <1>1 DEF DecideAlone, TypeOK
<1>5. UNCHANGED <<shared, stale>> /\ shared \in [Subjects -> [Windows -> Nat]]
      /\ stale \in [Subjects -> Nat]
  BY DEF DecideAlone, TypeOK
<1> QED
  BY <1>1, <1>2, <1>3, <1>4, <1>5 DEF HistoryType

\* What a count changes in the buckets.
LEMMA IncrementEffect ==
  ASSUME TypeOK, NEW c \in Calls, call[c].pc = "incr"
  PROVE  /\ \A s \in Subjects, w \in Windows :
              Incremented(c)[s][w] = IF s = call[c].subject /\ w = call[c].start
                                     THEN bucket[s][w] + 1 ELSE bucket[s][w]
         /\ Incremented(c) \in [Subjects -> [Windows -> Nat]]
         /\ BucketOf(c) = bucket[call[c].subject][call[c].start]
         /\ BucketOf(c) \in Nat
<1>1. call[c].subject \in Subjects /\ call[c].start \in Windows
  BY CallType
<1> QED
  BY <1>1 DEF Incremented, BucketOf, TypeOK

\* Initially everything has its type.
LEMMA TypeInit == Init => TypeOK
  BY Numbers DEF Init, TypeOK, Windows, NoWindow, Never

\* Every step keeps the types.
LEMMA TypeNext == TypeOK /\ Begun /\ [Next]_vars => TypeOK'
<1> SUFFICES ASSUME TypeOK, Begun, [Next]_vars
             PROVE  TypeOK'
  OBVIOUS
<1>0. /\ clock \in Windows /\ failures \in 0 .. MaxFailures /\ stops \in 0 .. MaxStops
      /\ unset \in SUBSET (Subjects \X Windows)
  BY DEF TypeOK
<1>f. ASSUME Fail
      PROVE  failures' \in 0 .. MaxFailures
  BY <1>0, <1>f, Numbers DEF Fail
<1>1. ASSUME NEW c \in Calls, NEW i \in Instances, NEW s \in Subjects, Begin(c, i, s)
      PROVE  TypeOK'
  BY <1>1 DEF Begin, TypeOK, Located, history, verdicts
<1>2. ASSUME NEW c \in Calls, Incr(c)
      PROVE  TypeOK'
  <2>1. call[c] \in Located /\ call[c].subject \in Subjects /\ call[c].start \in Windows
    BY <1>2, CallType DEF Incr
  <2>2. PICK v : DecideShared(c, v)
    BY <1>2, Zenon DEF Incr
  <2>3. HistoryType'
    BY <1>2, <2>2, SharedEffect DEF Incr
  <2>4. bucket' \in [Subjects -> [Windows -> Nat]]
    BY <1>2, IncrementEffect DEF Incr
  <2>5. call' \in [Calls -> {Gone} \cup Located]
    BY <1>2, <2>1 DEF Incr, TypeOK, Located
  <2> QED
    BY <1>2, <2>3, <2>4, <2>5 DEF Incr, TypeOK, HistoryType
<1>3. ASSUME NEW c \in Calls, ExpireBucket(c)
      PROVE  TypeOK'
  <2>1. call[c].subject \in Subjects /\ call[c].start \in Windows
    BY <1>3, CallType DEF ExpireBucket
  <2>2. clock + 2 \in Nat
    BY <1>0, Numbers DEF Windows
  <2>3. expires' \in [Subjects -> [Windows -> Nat \cup {Never}]]
    BY <1>3, <2>1, <2>2 DEF ExpireBucket, TypeOK
  <2>4. call' \in [Calls -> {Gone} \cup Located]
    BY <1>3 DEF ExpireBucket, TypeOK
  <2> QED
    BY <1>3, <2>3, <2>4 DEF ExpireBucket, TypeOK, history, verdicts
<1>4. ASSUME NEW c \in Calls, IncrFails(c)
      PROVE  TypeOK'
  <2>1. /\ call[c] \in Located /\ call[c].subject \in Subjects /\ call[c].start \in Windows
        /\ call[c].at \in Instances
    BY <1>4, CallType DEF IncrFails
  <2>2. PICK v : DecideAlone(c, v)
    BY <1>4, Zenon DEF IncrFails
  <2>3. HistoryType'
    BY <1>4, <2>2, AloneEffect DEF IncrFails
  <2>4. bucket' \in [Subjects -> [Windows -> Nat]]
    BY <1>4, IncrementEffect DEF IncrFails, CountedOrNot, TypeOK
  <2>5. windows' \in [Instances -> [Subjects -> [started : Windows \cup {Never}, count : Nat]]]
    BY <1>4, <2>1, AllowType, Numbers DEF IncrFails, TypeOK, Entries
  <2>6. call' \in [Calls -> {Gone} \cup Located]
    BY <1>4 DEF IncrFails, TypeOK
  <2>7. unset' \in SUBSET (Subjects \X Windows)
    BY <1>0, <1>4, <2>1 DEF IncrFails, CountedOrNot, BucketId
  <2> QED
    BY <1>0, <1>4, <1>f, <2>3, <2>4, <2>5, <2>6, <2>7 DEF IncrFails, TypeOK, HistoryType
<1>5. ASSUME NEW c \in Calls, ExpireFails(c)
      PROVE  TypeOK'
  <2>1. call[c].subject \in Subjects /\ call[c].start \in Windows
    BY <1>5, CallType DEF ExpireFails
  <2>2. unset' \in SUBSET (Subjects \X Windows)
    BY <1>0, <1>5, <2>1 DEF ExpireFails, BucketId
  <2> QED
    BY <1>5, <1>f, <2>2 DEF ExpireFails, TypeOK, verdicts
<1>9. ASSUME NEW i \in Instances, Stop(i)
      PROVE  TypeOK'
  <2>1. stops' \in 0 .. MaxStops
    BY <1>0, <1>9, Numbers DEF Stop
  <2>2. call' \in [Calls -> {Gone} \cup Located]
    BY <1>9 DEF Stop, TypeOK
  <2>3. windows' \in [Instances -> [Subjects -> [started : Windows \cup {Never}, count : Nat]]]
    BY <1>9 DEF Stop, TypeOK, NoWindow
  <2>4. unset' \in SUBSET (Subjects \X Windows)
    <3>1. \A c \in Calls : call[c].pc = "expire" => BucketId(c) \in Subjects \X Windows
      BY CallType DEF BucketId
    <3> QED
      BY <1>0, <1>9, <3>1 DEF Stop
  <2> QED
    BY <1>9, <2>1, <2>2, <2>3, <2>4 DEF Stop, TypeOK, verdicts
<1>6. ASSUME NEW s \in Subjects, NEW w \in Windows, Expired(s, w)
      PROVE  TypeOK'
  BY <1>6 DEF Expired, TypeOK, history, verdicts
<1>7. ASSUME NextWindow
      PROVE  TypeOK'
  <2>1. clock' \in Windows
    BY <1>7, <1>0, Numbers DEF NextWindow, Windows
  <2> QED
    BY <1>7, <2>1 DEF NextWindow, TypeOK, history, verdicts
<1>8. CASE UNCHANGED vars
  BY <1>8 DEF vars, history, verdicts, TypeOK
<1> QED
  BY <1>1, <1>2, <1>3, <1>4, <1>5, <1>6, <1>7, <1>8, <1>9 DEF Next

-----------------------------------------------------------------------------
(* Calls, windows and expiry.                                              *)

\* No call is of a window to come.
LEMMA BegunNext == TypeOK /\ Begun /\ [Next]_vars => Begun'
<1> SUFFICES ASSUME TypeOK, Begun, [Next]_vars
             PROVE  Begun'
  OBVIOUS
<1>0. clock \in Windows /\ \A c \in Calls : call[c] # Gone => call[c] \in Located
  BY DEF TypeOK
<1>1. ASSUME NEW c \in Calls, NEW i \in Instances, NEW s \in Subjects, Begin(c, i, s)
      PROVE  Begun'
  BY <1>0, <1>1, Numbers DEF Begin, Begun, TypeOK, Windows
<1>2. ASSUME NEW c \in Calls, Incr(c)
      PROVE  Begun'
  BY <1>2, <1>0 DEF Incr, Begun, TypeOK, Located
<1>3. ASSUME NEW c \in Calls, ExpireBucket(c)
      PROVE  Begun'
  BY <1>3 DEF ExpireBucket, Begun, TypeOK
<1>4. ASSUME NEW c \in Calls, IncrFails(c)
      PROVE  Begun'
  BY <1>4 DEF IncrFails, Begun, TypeOK
<1>5. ASSUME NEW c \in Calls, ExpireFails(c)
      PROVE  Begun'
  BY <1>5 DEF ExpireFails, Begun, TypeOK
<1>6. ASSUME NEW s \in Subjects, NEW w \in Windows, Expired(s, w)
      PROVE  Begun'
  BY <1>6 DEF Expired, Begun
<1>7. ASSUME NextWindow
      PROVE  Begun'
  BY <1>7, <1>0, Numbers DEF NextWindow, Begun, Located, Windows
<1>8. CASE UNCHANGED vars
  BY <1>8 DEF vars, Begun
<1>9. ASSUME NEW i \in Instances, Stop(i)
      PROVE  Begun'
  BY <1>9 DEF Stop, Begun
<1> QED
  BY <1>1, <1>2, <1>3, <1>4, <1>5, <1>6, <1>7, <1>8, <1>9 DEF Next

\* Windows to come admit nothing, and buckets outlive the window after theirs.
LEMMA InTimeNext == TypeOK /\ Begun /\ InTime /\ [Next]_vars => InTime'
<1> SUFFICES ASSUME TypeOK, Begun, InTime, [Next]_vars,
                    NEW s \in Subjects, NEW w \in Windows
             PROVE  /\ w > clock' => shared'[s][w] = 0 /\ own'[s][w] = 0
                    /\ expires'[s][w] # Never => w + 2 <= expires'[s][w]
  BY DEF InTime
<1> DEFINE Goal == /\ w > clock' => shared'[s][w] = 0 /\ own'[s][w] = 0
                   /\ expires'[s][w] # Never => w + 2 <= expires'[s][w]
<1>0. /\ clock \in Int /\ w \in Int /\ expires[s][w] \in Nat \cup {Never}
  BY Numbers DEF TypeOK, Windows
<1>i. /\ w > clock => shared[s][w] = 0 /\ own[s][w] = 0
      /\ expires[s][w] # Never => w + 2 <= expires[s][w]
  BY DEF InTime
<1>1. ASSUME UNCHANGED <<clock, verdicts, expires>>
      PROVE  Goal
  BY <1>1, <1>i DEF verdicts
<1>2. ASSUME NEW c \in Calls, Incr(c)
      PROVE  Goal
  <2>1. PICK v : DecideShared(c, v)
    BY <1>2, Zenon DEF Incr
  <2>2. call[c].pc = "incr" /\ UNCHANGED <<clock, expires>>
    BY <1>2 DEF Incr
  <2>3. call[c].start <= clock /\ call[c].start \in Int
    BY <2>1, <2>2, SharedEffect DEF Windows
  <2>4. w > clock => w # call[c].start
    BY <1>0, <2>3
  <2>5. w > clock => shared'[s][w] = shared[s][w] /\ own'[s][w] = own[s][w]
    BY <2>1, <2>2, <2>4, SharedEffect
  <2> QED
    BY <1>i, <2>2, <2>5
<1>3. ASSUME NEW c \in Calls, ExpireBucket(c)
      PROVE  Goal
  <2>1. call[c] \in Located /\ call[c].subject \in Subjects /\ call[c].start \in Windows
    BY <1>3, CallType DEF ExpireBucket
  <2>2. call[c].start <= clock /\ call[c].start \in Int
    BY <2>1 DEF Begun, Located, Windows
  <2>3. expires'[s][w] = IF BucketOf(c) # 0 /\ s = call[c].subject /\ w = call[c].start
                         THEN clock + 2 ELSE expires[s][w]
    BY <1>3, <2>1 DEF ExpireBucket, TypeOK
  <2>4. UNCHANGED <<clock, shared, own>>
    BY <1>3 DEF ExpireBucket, history, verdicts
  <2> QED
    BY <1>0, <1>i, <2>2, <2>3, <2>4
<1>4. ASSUME NEW c \in Calls, IncrFails(c)
      PROVE  Goal
  <2>1. PICK v : DecideAlone(c, v)
    BY <1>4, Zenon DEF IncrFails
  <2>2. call[c].pc = "incr" /\ UNCHANGED <<clock, expires>>
    BY <1>4 DEF IncrFails
  <2>3. call[c].start <= clock /\ call[c].start \in Int
    BY <2>1, <2>2, AloneEffect DEF Windows
  <2>4. w > clock => w # call[c].start
    BY <1>0, <2>3
  <2>5. w > clock => shared'[s][w] = shared[s][w] /\ own'[s][w] = own[s][w]
    BY <2>1, <2>2, <2>4, AloneEffect
  <2> QED
    BY <1>i, <2>2, <2>5
<1>5. ASSUME NEW u \in Subjects, NEW x \in Windows, Expired(u, x)
      PROVE  Goal
  BY <1>5, <1>i DEF Expired, TypeOK, history, verdicts
<1>6. ASSUME NextWindow
      PROVE  Goal
  BY <1>0, <1>6, <1>i DEF NextWindow, history, verdicts
<1>7. ASSUME NEW c \in Calls, NEW i \in Instances, NEW u \in Subjects, Begin(c, i, u)
      PROVE  Goal
  BY <1>1, <1>7 DEF Begin, history
<1>8. ASSUME NEW c \in Calls, ExpireFails(c)
      PROVE  Goal
  BY <1>1, <1>8 DEF ExpireFails
<1>9. ASSUME UNCHANGED vars
      PROVE  Goal
  BY <1>1, <1>9 DEF vars, history
<1>11. ASSUME NEW i \in Instances, Stop(i)
      PROVE  Goal
  BY <1>1, <1>11 DEF Stop
<1> HIDE DEF Goal
<1>10. Goal
  BY <1>2, <1>3, <1>4, <1>5, <1>6, <1>7, <1>8, <1>9, <1>11 DEF Next
<1> QED
  BY <1>10 DEF Goal

-----------------------------------------------------------------------------
(* What Redis admits.                                                      *)

\* A bucket that has not expired counts what was admitted, so that a call that is
\* counted within the limit is also admitted within it.
LEMMA SharedNext ==
  TypeOK /\ Begun /\ InTime /\ BucketCounts /\ SharedBound /\ [Next]_vars
    => BucketCounts' /\ SharedBound'
<1> SUFFICES ASSUME TypeOK, Begun, InTime, BucketCounts, SharedBound, [Next]_vars,
                    NEW s \in Subjects, NEW w \in Windows
             PROVE  /\ clock' <= w + 1 => shared'[s][w] <= AtMostLimit(bucket'[s][w])
                    /\ shared'[s][w] <= Limit + stale'[s]
  BY DEF BucketCounts, SharedBound, AtMostLimit
<1> DEFINE Goal == /\ clock' <= w + 1 => shared'[s][w] <= AtMostLimit(bucket'[s][w])
                   /\ shared'[s][w] <= Limit + stale'[s]
<1>0. /\ clock \in Int /\ w \in Int /\ Limit \in Nat
      /\ shared[s][w] \in Nat /\ stale[s] \in Nat /\ bucket[s][w] \in Nat
  BY Numbers DEF TypeOK, Windows
<1>i. /\ clock <= w + 1 => shared[s][w] <= AtMostLimit(bucket[s][w])
      /\ shared[s][w] <= Limit + stale[s]
  BY DEF BucketCounts, SharedBound
<1>1. ASSUME UNCHANGED <<shared, stale>>, clock' = clock \/ clock' = clock + 1,
             clock' <= w + 1 => bucket'[s][w] \in {bucket[s][w], bucket[s][w] + 1}
      PROVE  Goal
  BY <1>0, <1>i, <1>1 DEF AtMostLimit
<1>2. ASSUME NEW c \in Calls, Incr(c)
      PROVE  Goal
  <2> DEFINE within == BucketOf(c) + 1 <= Limit
             mine == s = call[c].subject /\ w = call[c].start
  <2>1. /\ call[c].pc = "incr" /\ UNCHANGED clock /\ bucket' = Incremented(c)
        /\ DecideShared(c, within)
    BY <1>2 DEF Incr
  <2>a. within <=> BucketOf(c) + 1 <= Limit
    OBVIOUS
  <2> HIDE DEF within
  <2>2. /\ shared'[s][w] = IF within /\ mine THEN shared[s][w] + 1 ELSE shared[s][w]
        /\ stale'[s] = IF within /\ s = call[c].subject /\ clock > call[c].start + 1
                       THEN stale[s] + 1 ELSE stale[s]
    BY <2>1, SharedEffect
  <2>3. /\ bucket'[s][w] = IF mine THEN bucket[s][w] + 1 ELSE bucket[s][w]
        /\ mine => BucketOf(c) = bucket[s][w]
    BY <2>1, IncrementEffect
  <2>4. CASE within /\ mine /\ clock <= w + 1
    <3>1. shared'[s][w] = shared[s][w] + 1 /\ bucket'[s][w] = bucket[s][w] + 1
          /\ bucket[s][w] + 1 <= Limit /\ stale'[s] = stale[s] /\ clock' = clock
      BY <1>0, <2>1, <2>2, <2>3, <2>4, <2>a
    <3> QED
      BY <1>0, <1>i, <2>4, <3>1 DEF AtMostLimit
  <2>5. CASE within /\ mine /\ ~ (clock <= w + 1)
    <3>1. shared'[s][w] = shared[s][w] + 1 /\ stale'[s] = stale[s] + 1 /\ clock' = clock
      BY <1>0, <2>1, <2>2, <2>5
    <3> QED
      BY <1>0, <1>i, <2>5, <3>1
  <2>6. CASE ~ (within /\ mine)
    <3>1. shared'[s][w] = shared[s][w] /\ stale'[s] \in {stale[s], stale[s] + 1}
          /\ bucket'[s][w] \in {bucket[s][w], bucket[s][w] + 1} /\ clock' = clock
      BY <2>1, <2>2, <2>3, <2>6
    <3> QED
      BY <1>0, <1>i, <3>1 DEF AtMostLimit
  <2> QED
    BY <2>4, <2>5, <2>6
<1>4. ASSUME NEW c \in Calls, IncrFails(c)
      PROVE  Goal
  <2>1. PICK v : DecideAlone(c, v)
    BY <1>4, Zenon DEF IncrFails
  <2>2. /\ call[c].pc = "incr" /\ UNCHANGED clock /\ bucket' \in {bucket, Incremented(c)}
    BY <1>4 DEF IncrFails, CountedOrNot
  <2>3. UNCHANGED <<shared, stale>>
    BY <2>1 DEF DecideAlone
  <2>4. bucket'[s][w] \in {bucket[s][w], bucket[s][w] + 1}
    BY <2>2, IncrementEffect
  <2> QED
    BY <1>1, <2>2, <2>3, <2>4
<1>6. ASSUME NEW u \in Subjects, NEW x \in Windows, Expired(u, x)
      PROVE  Goal
  <2>1. expires[u][x] = clock /\ bucket' = [bucket EXCEPT ![u][x] = 0]
        /\ UNCHANGED <<clock, shared, stale>>
    BY <1>6 DEF Expired, history, verdicts
  <2>2. expires[u][x] # Never
    BY <2>1, Numbers DEF TypeOK, Windows
  <2>3. x + 2 <= clock
    BY <2>1, <2>2 DEF InTime
  <2>4. clock <= w + 1 => w # x
    BY <1>0, <2>3, Numbers DEF Windows
  <2>5. clock <= w + 1 => bucket'[s][w] = bucket[s][w]
    BY <2>1, <2>4 DEF TypeOK
  <2> QED
    BY <1>1, <2>1, <2>5
<1>7. ASSUME NextWindow
      PROVE  Goal
  <2>1. UNCHANGED <<bucket, shared, stale>> /\ clock' = clock + 1
    BY <1>7 DEF NextWindow, history, verdicts
  <2> QED
    BY <1>1, <2>1
<1>8. ASSUME NEW c \in Calls, NEW i \in Instances, NEW u \in Subjects, Begin(c, i, u)
      PROVE  Goal
  BY <1>1, <1>8 DEF Begin, history, verdicts
<1>9. ASSUME NEW c \in Calls, ExpireBucket(c) \/ ExpireFails(c)
      PROVE  Goal
  BY <1>1, <1>9 DEF ExpireBucket, ExpireFails, history, verdicts
<1>10. ASSUME UNCHANGED vars
       PROVE  Goal
  BY <1>1, <1>10 DEF vars, history, verdicts
<1>12. ASSUME NEW i \in Instances, Stop(i)
       PROVE  Goal
  BY <1>1, <1>12 DEF Stop, verdicts
<1> HIDE DEF Goal
<1>11. Goal
  BY <1>2, <1>4, <1>6, <1>7, <1>8, <1>9, <1>10, <1>12 DEF Next
<1> QED
  BY <1>11 DEF Goal

\* Only a call whose INCR fails is decided by its instance.
LEMMA NoneAloneNext == TypeOK /\ Begun /\ NoneAlone /\ [Next]_vars => NoneAlone'
<1> SUFFICES ASSUME TypeOK, Begun, NoneAlone, [Next]_vars, failures' = 0
             PROVE  failures = 0 /\ UNCHANGED own
  BY DEF NoneAlone
<1>0. failures \in Nat
  BY DEF TypeOK
<1>1. ~ Fail
  BY <1>0 DEF Fail
<1> QED
  BY <1>1 DEF Next, Begin, Incr, DecideShared, ExpireBucket, IncrFails, ExpireFails, Expired,
     Stop, NextWindow, vars, history, verdicts

-----------------------------------------------------------------------------
(* The expiry of buckets.                                                  *)

\* The call that creates a bucket is the one that gives it its expiry, and only if its
\* INCR or its EXPIRE fails, or its instance stops before, the bucket goes without.
LEMMA ExpiryNext == TypeOK /\ Begun /\ BucketsExpire /\ [Next]_vars => BucketsExpire'
<1> DEFINE About(e, s, w) ==
             \E i \in Instances : e = [pc |-> "expire", at |-> i, subject |-> s, start |-> w]
           Ends(s, w) == expires[s][w] # Never \/ \E c \in Calls : About(call[c], s, w)
<1> SUFFICES ASSUME TypeOK, Begun, BucketsExpire, [Next]_vars,
                    NEW s \in Subjects, NEW w \in Windows, bucket'[s][w] > 0,
                    <<s, w>> \notin unset'
             PROVE  \/ expires'[s][w] # Never
                    \/ \E c \in Calls : About(call'[c], s, w)
  BY DEF BucketsExpire
<1>0. /\ bucket[s][w] \in Nat /\ clock + 2 # Never
  BY Numbers DEF TypeOK, Windows
<1>i. bucket[s][w] > 0 /\ <<s, w>> \notin unset => Ends(s, w)
  BY DEF BucketsExpire
<1>k. ASSUME bucket[s][w] > 0, <<s, w>> \notin unset, UNCHANGED expires,
             NEW c \in Calls, ~ About(call[c], s, w), NEW v, call' = [call EXCEPT ![c] = v]
      PROVE  \/ expires'[s][w] # Never
             \/ \E d \in Calls : About(call'[d], s, w)
  BY <1>i, <1>k DEF TypeOK
<1>1. ASSUME NEW c \in Calls, NEW i \in Instances, NEW u \in Subjects, Begin(c, i, u)
      PROVE  \/ expires'[s][w] # Never
             \/ \E d \in Calls : About(call'[d], s, w)
  <2>1. ~ About(call[c], s, w)
    <3> SUFFICES ASSUME NEW j \in Instances,
                        call[c] = [pc |-> "expire", at |-> j, subject |-> s, start |-> w]
                 PROVE  FALSE
      OBVIOUS
    <3>1. call[c].pc = "expire"
      OBVIOUS
    <3> QED
      BY <1>1, <3>1 DEF Begin
  <2> QED
    BY <1>1, <1>k, <2>1 DEF Begin, history
<1>2. ASSUME NEW c \in Calls, Incr(c)
      PROVE  \/ expires'[s][w] # Never
             \/ \E d \in Calls : About(call'[d], s, w)
  <2>1. /\ call[c] \in Located /\ call[c].pc = "incr" /\ call[c].at \in Instances
        /\ UNCHANGED <<unset, expires>>
    BY <1>2, CallType DEF Incr
  <2>2. CASE bucket[s][w] > 0
    <3>1. ~ About(call[c], s, w)
      <4> SUFFICES ASSUME NEW j \in Instances,
                          call[c] = [pc |-> "expire", at |-> j, subject |-> s, start |-> w]
                   PROVE  FALSE
        OBVIOUS
      <4>1. call[c].pc = "expire"
        OBVIOUS
      <4> QED
        BY <2>1, <4>1
    <3>2. PICK v : call' = [call EXCEPT ![c] = v]
      BY <1>2 DEF Incr
    <3> QED
      BY <1>k, <2>1, <2>2, <3>1, <3>2
  <2>3. CASE ~ (bucket[s][w] > 0)
    <3>1. s = call[c].subject /\ w = call[c].start /\ BucketOf(c) = 0
      BY <1>0, <1>2, <2>3, IncrementEffect DEF Incr
    <3>2. call' = [call EXCEPT ![c] = [@ EXCEPT !.pc = "expire"]]
      BY <1>2, <3>1 DEF Incr
    <3>3. About([call[c] EXCEPT !.pc = "expire"], s, w)
      BY <2>1, <3>1 DEF Located
    <3>4. About(call'[c], s, w)
      BY <3>2, <3>3 DEF TypeOK
    <3> QED
      BY <3>4
  <2> QED
    BY <2>2, <2>3
<1>3. ASSUME NEW c \in Calls, ExpireBucket(c)
      PROVE  \/ expires'[s][w] # Never
             \/ \E d \in Calls : About(call'[d], s, w)
  <2>1. /\ call[c] \in Located /\ call[c].subject \in Subjects /\ call[c].start \in Windows
        /\ UNCHANGED <<unset, bucket>> /\ call' = [call EXCEPT ![c] = Gone]
    BY <1>3, CallType DEF ExpireBucket, history
  <2>2. CASE About(call[c], s, w)
    <3>1. BucketOf(c) # 0 /\ s = call[c].subject /\ w = call[c].start
      BY <2>1, <2>2 DEF BucketOf
    <3>2. expires'[s][w] = clock + 2
      BY <1>3, <3>1 DEF ExpireBucket, TypeOK
    <3> QED
      BY <1>0, <3>2
  <2>3. CASE ~ About(call[c], s, w)
    <3>1. expires[s][w] # Never => expires'[s][w] # Never
      BY <1>0, <1>3, <2>1 DEF ExpireBucket, TypeOK
    <3>2. \A d \in Calls : About(call[d], s, w) => About(call'[d], s, w)
      BY <2>1, <2>3 DEF TypeOK
    <3> QED
      BY <1>i, <2>1, <3>1, <3>2
  <2> QED
    BY <2>2, <2>3
<1>4. ASSUME NEW c \in Calls, IncrFails(c)
      PROVE  \/ expires'[s][w] # Never
             \/ \E d \in Calls : About(call'[d], s, w)
  <2>1. /\ call[c].pc = "incr" /\ UNCHANGED expires /\ CountedOrNot(c)
        /\ call' = [call EXCEPT ![c] = Gone]
    BY <1>4 DEF IncrFails
  <2>2. bucket[s][w] > 0 /\ <<s, w>> \notin unset
    <3>1. CASE UNCHANGED <<bucket, unset>>
      BY <3>1
    <3>2. CASE /\ bucket' = Incremented(c)
               /\ unset' = IF BucketOf(c) = 0 THEN unset \cup {BucketId(c)} ELSE unset
      <4>1. bucket'[s][w] = IF s = call[c].subject /\ w = call[c].start
                            THEN bucket[s][w] + 1 ELSE bucket[s][w]
        BY <2>1, <3>2, IncrementEffect
      <4>2. s = call[c].subject /\ w = call[c].start => BucketOf(c) # 0
        BY <3>2 DEF BucketId
      <4>3. s = call[c].subject /\ w = call[c].start => bucket[s][w] # 0
        BY <4>2 DEF BucketOf
      <4> QED
        BY <1>0, <3>2, <4>1, <4>3
    <3> QED
      BY <2>1, <3>1, <3>2 DEF CountedOrNot
  <2>3. ~ About(call[c], s, w)
    <3> SUFFICES ASSUME NEW j \in Instances,
                        call[c] = [pc |-> "expire", at |-> j, subject |-> s, start |-> w]
                 PROVE  FALSE
      OBVIOUS
    <3>1. call[c].pc = "expire"
      OBVIOUS
    <3> QED
      BY <2>1, <3>1
  <2> QED
    BY <1>k, <2>1, <2>2, <2>3
<1>5. ASSUME NEW c \in Calls, ExpireFails(c)
      PROVE  \/ expires'[s][w] # Never
             \/ \E d \in Calls : About(call'[d], s, w)
  <2>1. /\ UNCHANGED <<bucket, expires>> /\ unset' = unset \cup {BucketId(c)}
        /\ call' = [call EXCEPT ![c] = Gone]
    BY <1>5 DEF ExpireFails
  <2>2. ~ About(call[c], s, w)
    <3> SUFFICES ASSUME NEW j \in Instances,
                        call[c] = [pc |-> "expire", at |-> j, subject |-> s, start |-> w]
                 PROVE  FALSE
      OBVIOUS
    <3>1. BucketId(c) = <<s, w>>
      BY DEF BucketId
    <3> QED
      BY <2>1, <3>1
  <2> QED
    BY <1>k, <2>1, <2>2
<1>8. ASSUME NEW i \in Instances, Stop(i)
      PROVE  \/ expires'[s][w] # Never
             \/ \E d \in Calls : About(call'[d], s, w)
  <2>1. /\ UNCHANGED <<bucket, expires>> /\ <<s, w>> \notin unset
        /\ \A d \in Calls : \/ call'[d] = call[d]
                            \/ call[d].pc = "expire" => BucketId(d) # <<s, w>>
    BY <1>8 DEF Stop
  <2>2. \A d \in Calls : About(call[d], s, w) => About(call'[d], s, w)
    <3> SUFFICES ASSUME NEW d \in Calls, NEW j \in Instances,
                        call[d] = [pc |-> "expire", at |-> j, subject |-> s, start |-> w]
                 PROVE  call'[d] = call[d]
      OBVIOUS
    <3>1. call[d].pc = "expire" /\ BucketId(d) = <<s, w>>
      BY DEF BucketId
    <3> QED
      BY <2>1, <3>1
  <2> QED
    BY <1>i, <2>1, <2>2
<1>6. ASSUME NEW u \in Subjects, NEW x \in Windows, Expired(u, x)
      PROVE  \/ expires'[s][w] # Never
             \/ \E d \in Calls : About(call'[d], s, w)
  <2>1. ~ (u = s /\ x = w)
    BY <1>6 DEF Expired, TypeOK
  <2>2. bucket'[s][w] = bucket[s][w] /\ expires'[s][w] = expires[s][w]
        /\ UNCHANGED <<unset, call>>
    BY <1>6, <2>1 DEF Expired, TypeOK, history
  <2> QED
    BY <1>i, <2>2
<1>7. CASE NextWindow \/ UNCHANGED vars
  BY <1>7, <1>i DEF NextWindow, vars, history
<1> QED
  BY <1>1, <1>2, <1>3, <1>4, <1>5, <1>6, <1>7, <1>8 DEF Next

-----------------------------------------------------------------------------
(* The quota while Redis comes and goes.                                   *)

\* Each instance has a limit of slots for a subject and a window.
LEMMA SlotsBound ==
  ASSUME NEW s, NEW w
  PROVE  /\ IsFiniteSet(Slots(s, w))
         /\ Cardinality(Slots(s, w)) \in Nat
         /\ Cardinality(Slots(s, w)) <= Cardinality(Instances) * Limit
         /\ Cardinality(Instances) \in Nat
<1>1. IsFiniteSet(1 .. Limit) /\ Cardinality(1 .. Limit) = Limit
  BY FS_Interval, Numbers
<1>2. /\ IsFiniteSet(Instances \X (1 .. Limit))
      /\ Cardinality(Instances \X (1 .. Limit)) = Cardinality(Instances) * Limit
  BY <1>1, FS_Product, Numbers
<1>3. Slots(s, w) \subseteq Instances \X (1 .. Limit)
  BY DEF Slots
<1> QED
  BY <1>2, <1>3, FS_Subset, FS_CardinalityType, Numbers

\* The same after a step.
LEMMA SlotsBoundNext ==
  ASSUME NEW s, NEW w
  PROVE  /\ IsFiniteSet(Slots(s, w)')
         /\ Cardinality(Slots(s, w)') \in Nat
         /\ Cardinality(Slots(s, w)') <= Cardinality(Instances) * Limit
<1>1. IsFiniteSet(1 .. Limit) /\ Cardinality(1 .. Limit) = Limit
  BY FS_Interval, Numbers
<1>2. /\ IsFiniteSet(Instances \X (1 .. Limit))
      /\ Cardinality(Instances \X (1 .. Limit)) = Cardinality(Instances) * Limit
  BY <1>1, FS_Product, Numbers
<1>3. Slots(s, w)' \subseteq Instances \X (1 .. Limit)
  BY DEF Slots
<1> QED
  BY <1>2, <1>3, FS_Subset, FS_CardinalityType, Numbers

\* An admission in memory takes a slot that was free.
LEMMA SlotTaken ==
  ASSUME TypeOK, NEW i \in Instances, NEW s \in Subjects, NEW w \in Windows,
         Admits(windows[i], s, w, Limit),
         windows' = [windows EXCEPT ![i] = CoordinatorAllow(@, s, w, Limit)]
  PROVE  /\ Cardinality(Slots(s, w)) + 1 <= Cardinality(Slots(s, w)')
         /\ Cardinality(Slots(s, w)') \in Nat
<1> DEFINE k == Current(windows[i], s, w).count
           slot == <<i, k + 1>>
<1>1. windows[i] \in [Subjects -> Entries]
  BY DEF TypeOK, Entries
<1>2. k \in Nat /\ k + 1 \in 1 .. Limit
  BY <1>1, Numbers DEF Current, Admits, Entries
<1>3. \A j \in Instances : j # i => windows'[j] = windows[j]
  BY DEF TypeOK
<1>4. windows'[i][s] = [started |-> w, count |-> k + 1]
  <2>1. windows'[i] = Purged(Counted(windows[i], s, w), w)
    BY DEF TypeOK, CoordinatorAllow
  <2>2. Counted(windows[i], s, w)[s] = [started |-> w, count |-> k + 1]
        /\ DOMAIN Counted(windows[i], s, w) = Subjects
    BY <1>1 DEF Counted
  <2>3. ~ (w < w)
    BY Numbers DEF Windows
  <2> QED
    BY <2>1, <2>2, <2>3 DEF Purged
<1>5. slot \notin Slots(s, w)
  BY <1>1, <1>2 DEF Slots, Current, Entries
<1>6. slot \in Slots(s, w)'
  BY <1>2, <1>4 DEF Slots
<1>7. ASSUME NEW x \in Slots(s, w)
      PROVE  x \in Slots(s, w)'
  <2>1. /\ x \in Instances \X (1 .. Limit) /\ windows[x[1]][s].started = w
        /\ x[2] <= windows[x[1]][s].count /\ x[1] \in Instances /\ x[2] \in Nat
    BY <1>7 DEF Slots
  <2>2. CASE x[1] = i
    <3>1. windows[i][s].count = k
      BY <2>1, <2>2 DEF Current
    <3>2. windows'[x[1]][s].started = w /\ x[2] <= windows'[x[1]][s].count
      BY <1>2, <1>4, <2>1, <2>2, <3>1
    <3> QED
      BY <2>1, <3>2 DEF Slots
  <2>3. CASE x[1] # i
    BY <1>3, <2>1, <2>3 DEF Slots
  <2> QED
    BY <2>2, <2>3
<1> HIDE DEF k, slot
<1>8. Slots(s, w) \cup {slot} \subseteq Slots(s, w)'
  BY <1>6, <1>7
<1>9. IsFiniteSet(Slots(s, w)) /\ Cardinality(Slots(s, w)) \in Nat
  BY SlotsBound
<1>10. Cardinality(Slots(s, w) \cup {slot}) = Cardinality(Slots(s, w)) + 1
  BY <1>5, <1>9, FS_AddElement
<1>11. IsFiniteSet(Slots(s, w)')
  BY SlotsBoundNext
<1> QED
  BY <1>8, <1>10, <1>11, FS_Subset, FS_CardinalityType

\* What a subject has in memory in a window is not dropped by the calls of others that
\* are of that window or an earlier one.
LEMMA SlotsStay ==
  ASSUME TypeOK, NEW i \in Instances, NEW s \in Subjects, NEW w \in Windows,
         windows' = [windows EXCEPT ![i] = CoordinatorAllow(@, s, w, Limit)],
         NEW k \in Windows, w <= k,
         NEW u \in Subjects, u # s \/ ~ Admits(windows[i], s, w, Limit)
  PROVE  Slots(u, k)' = Slots(u, k)
<1>1. windows[i] \in [Subjects -> Entries]
  BY DEF TypeOK, Entries
<1>2. \A j \in Instances : j # i => windows'[j] = windows[j]
  BY DEF TypeOK
<1>3. CASE ~ Admits(windows[i], s, w, Limit)
  BY <1>2, <1>3 DEF TypeOK, CoordinatorAllow, Slots
<1>4. CASE u # s /\ Admits(windows[i], s, w, Limit)
  <2>1. windows'[i] = Purged(Counted(windows[i], s, w), w)
    BY <1>4 DEF TypeOK, CoordinatorAllow
  <2>2. Counted(windows[i], s, w)[u] = windows[i][u]
        /\ DOMAIN Counted(windows[i], s, w) = Subjects
    BY <1>1, <1>4 DEF Counted
  <2>3. windows'[i][u] = IF windows[i][u].started < w THEN NoWindow ELSE windows[i][u]
    BY <2>1, <2>2 DEF Purged
  <2>4. /\ windows[i][u].started < w => windows[i][u].started # k
        /\ NoWindow.started # k
    BY <1>1, Numbers DEF Entries, Windows, NoWindow
  <2>5. /\ windows'[i][u].started = k <=> windows[i][u].started = k
        /\ windows[i][u].started = k => windows'[i][u] = windows[i][u]
    BY <2>3, <2>4
  <2>6. ASSUME NEW x \in Instances \X (1 .. Limit)
        PROVE  /\ windows'[x[1]][u].started = k <=> windows[x[1]][u].started = k
               /\ windows[x[1]][u].started = k => windows'[x[1]][u] = windows[x[1]][u]
    BY <1>2, <2>5
  <2> QED
    BY <2>6 DEF Slots
<1> QED
  BY <1>3, <1>4

\* Whatever a call does to the counters of its instance, no more than the slots of that
\* instance are lost.
LEMMA SlotsLost ==
  ASSUME TypeOK, NEW i \in Instances, NEW s, NEW w,
         \A j \in Instances : j # i => windows'[j] = windows[j]
  PROVE  /\ Cardinality(Slots(s, w)) <= Limit + Cardinality(Slots(s, w)')
         /\ Cardinality(Slots(s, w)') \in Nat
<1> DEFINE its == {i} \X (1 .. Limit)
<1>1. IsFiniteSet(1 .. Limit) /\ Cardinality(1 .. Limit) = Limit
  BY FS_Interval, Numbers
<1>2. IsFiniteSet(its) /\ Cardinality(its) = Limit
  <2>1. IsFiniteSet({i}) /\ Cardinality({i}) = 1
    BY FS_Singleton
  <2>2. /\ IsFiniteSet({i} \X (1 .. Limit))
        /\ Cardinality({i} \X (1 .. Limit)) = Cardinality({i}) * Cardinality(1 .. Limit)
    BY <1>1, <2>1, FS_Product
  <2>3. 1 * Limit = Limit
    BY Numbers
  <2> QED
    BY <1>1, <2>1, <2>2, <2>3
<1>3. IsFiniteSet(Slots(s, w)')
  BY SlotsBoundNext
<1>4. Slots(s, w) \subseteq its \cup Slots(s, w)'
  BY DEF Slots
<1> HIDE DEF its
<1>5. /\ IsFiniteSet(its \cup Slots(s, w)')
      /\ Cardinality(its \cup Slots(s, w)')
           = Cardinality(its) + Cardinality(Slots(s, w)') - Cardinality(its \cap Slots(s, w)')
  BY <1>2, <1>3, FS_Union
<1>6. Cardinality(Slots(s, w)) <= Cardinality(its \cup Slots(s, w)')
  BY <1>4, <1>5, FS_Subset
<1>7. Cardinality(its \cap Slots(s, w)') \in Nat
  BY <1>2, FS_Intersection, FS_CardinalityType
<1>8. Cardinality(Slots(s, w)') \in Nat /\ Cardinality(Slots(s, w)) \in Nat
  BY <1>3, FS_CardinalityType, SlotsBound
<1> QED
  BY <1>2, <1>5, <1>6, <1>7, <1>8, Numbers

\* The products the bounds are made of.
LEMMA Products ==
  ASSUME NEW m \in Nat, NEW n \in Nat, NEW l \in Nat
  PROVE  /\ m * l \in Nat /\ m * (n + l) \in Nat
         /\ m * (l + 1) = m * l + m
         /\ m * (n + l) = n * m + m * l
         /\ m * (n + (l + 1)) = m * (n + l) + m
         /\ m + m * (n + l) = m * (1 + n + l)
  OBVIOUS

\* A call of the current window that is admitted takes a slot, and a late one or a stop
\* takes at most those of an instance away.
LEMMA SlotsNext ==
  TypeOK /\ Begun /\ InTime /\ SlotsCount /\ [Next]_vars => SlotsCount'
<1> SUFFICES ASSUME TypeOK, Begun, InTime, SlotsCount, [Next]_vars,
                    NEW s \in Subjects
             PROVE  own'[s][clock'] <= Limit * Losses(s)' + Cardinality(Slots(s, clock)')
  BY DEF SlotsCount, Slots
<1>w. PICK w \in Windows : w = clock
  BY DEF TypeOK
<1> DEFINE held == Cardinality(Slots(s, w))
           held2 == Cardinality(Slots(s, w)')
           Goal == own'[s][w] <= Limit * Losses(s)' + held2
<1>0. /\ clock = w /\ w \in Windows /\ w \in Int
      /\ own[s][w] \in Nat /\ late[s] \in Nat /\ stops \in Nat
      /\ Losses(s) \in Nat /\ Limit \in Nat /\ Limit > 0
  BY <1>w, Numbers DEF TypeOK, Windows, Losses
<1>h. held \in Nat
  BY SlotsBound
<1>i. own[s][w] <= Limit * Losses(s) + held
  BY <1>0 DEF SlotsCount
<1>p. Limit * Losses(s) \in Nat /\ Limit * (Losses(s) + 1) = Limit * Losses(s) + Limit
  BY <1>0, Products
<1>1. ASSUME UNCHANGED windows, own'[s][w] = own[s][w], Losses(s)' = Losses(s)
      PROVE  Goal
  <2>1. Slots(s, w)' = Slots(s, w)
    BY <1>1 DEF Slots
  <2> QED
    BY <1>i, <1>1, <2>1
<1> HIDE DEF held, held2
<1>2. UNCHANGED clock /\ Goal =>
        own'[s][clock'] <= Limit * Losses(s)' + Cardinality(Slots(s, clock)')
  BY <1>0 DEF held2, Slots
<1>4. ASSUME NEW c \in Calls, IncrFails(c)
      PROVE  Goal
  <2> DEFINE admits == Admits(windows[call[c].at], call[c].subject, call[c].start, Limit)
  <2>i. PICK i \in Instances, u \in Subjects, a \in Windows :
             i = call[c].at /\ u = call[c].subject /\ a = call[c].start /\ a <= clock
    <3>1. call[c] \in Located /\ call[c].at \in Instances
      BY <1>4, CallType DEF IncrFails
    <3> QED
      BY <3>1 DEF Located, Begun
  <2>a. admits <=> Admits(windows[i], u, a, Limit)
    BY <2>i
  <2>1. /\ call[c].pc = "incr" /\ UNCHANGED <<clock, stops>>
        /\ windows' = [windows EXCEPT ![i] = CoordinatorAllow(@, u, a, Limit)]
        /\ DecideAlone(c, admits)
    BY <1>4, <2>i DEF IncrFails
  <2> HIDE DEF admits
  <2>2. /\ own'[s][w] = IF admits /\ s = u /\ w = a THEN own[s][w] + 1 ELSE own[s][w]
        /\ late'[s] = IF admits /\ s = u /\ w > a THEN late[s] + 1 ELSE late[s]
    BY <1>0, <2>1, <2>i, AloneEffect
  <2>b. /\ late'[s] = late[s] => Losses(s)' = Losses(s)
        /\ late'[s] = late[s] + 1 => Losses(s)' = Losses(s) + 1
    BY <1>0, <2>1 DEF Losses
  <2>3. CASE admits /\ s = u /\ w = a
    <3>1. held + 1 <= held2 /\ held2 \in Nat
      BY <1>0, <2>1, <2>3, <2>a, SlotTaken DEF held, held2
    <3>2. own'[s][w] = own[s][w] + 1 /\ Losses(s)' = Losses(s)
      BY <1>0, <2>2, <2>3, <2>b
    <3> QED
      BY <1>0, <1>h, <1>i, <1>p, <3>1, <3>2
  <2>4. CASE admits /\ s = u /\ w > a
    <3>1. \A j \in Instances : j # i => windows'[j] = windows[j]
      BY <2>1 DEF TypeOK
    <3>2. held <= Limit + held2 /\ held2 \in Nat
      BY <3>1, SlotsLost DEF held, held2
    <3>3. own'[s][w] = own[s][w] /\ Losses(s)' = Losses(s) + 1
      BY <1>0, <2>2, <2>4, <2>b
    <3>4. Limit * Losses(s)' = Limit * Losses(s) + Limit
      BY <1>p, <3>3
    <3> QED
      BY <1>0, <1>h, <1>i, <1>p, <3>2, <3>3, <3>4
  <2>5. CASE ~ (admits /\ s = u)
    <3>1. held2 = held
      <4>1. w \in Windows /\ a <= w
        BY <1>0, <2>i
      <4>2. s # u \/ ~ Admits(windows[i], u, a, Limit)
        BY <2>5, <2>a
      <4> QED
        BY <2>1, <4>1, <4>2, SlotsStay DEF held, held2
    <3>2. own'[s][w] = own[s][w] /\ Losses(s)' = Losses(s)
      BY <2>2, <2>5, <2>b
    <3> QED
      BY <1>i, <3>1, <3>2
  <2>6. w = a \/ w > a
    BY <1>0, <2>i DEF Windows
  <2> QED
    BY <2>3, <2>4, <2>5, <2>6
<1>7. ASSUME NextWindow
      PROVE  own'[s][clock'] <= Limit * Losses(s)' + Cardinality(Slots(s, clock)')
  <2>1. clock' = clock + 1 /\ clock' \in Windows /\ UNCHANGED <<own, late, stops, windows>>
    BY <1>0, <1>7, Numbers DEF NextWindow, Windows, history, verdicts
  <2>2. own'[s][clock'] = 0
    BY <1>0, <2>1 DEF InTime
  <2>3. Slots(s, clock)' = Slots(s, clock')
    BY <2>1 DEF Slots
  <2>4. Cardinality(Slots(s, clock')) \in Nat
    BY SlotsBound
  <2>5. Losses(s)' = Losses(s)
    BY <2>1 DEF Losses
  <2> QED
    BY <1>0, <1>p, <2>2, <2>3, <2>4, <2>5
<1>8. ASSUME UNCHANGED <<clock, windows, own, late, stops>>
      PROVE  Goal
  BY <1>8, <1>1 DEF Losses
<1>16. ASSUME NEW i \in Instances, Stop(i)
       PROVE  Goal
  <2>1. \A j \in Instances : j # i => windows'[j] = windows[j]
    BY <1>16 DEF Stop, TypeOK
  <2>2. held <= Limit + held2 /\ held2 \in Nat
    BY <2>1, SlotsLost DEF held, held2
  <2>3. own'[s][w] = own[s][w] /\ Losses(s)' = Losses(s) + 1
    BY <1>0, <1>16 DEF Stop, verdicts, Losses
  <2>4. Limit * Losses(s)' = Limit * Losses(s) + Limit
    BY <1>p, <2>3
  <2> QED
    BY <1>0, <1>h, <1>i, <1>p, <2>2, <2>3, <2>4
<1> HIDE DEF Goal
<1> DEFINE Now == own'[s][clock'] <= Limit * Losses(s)' + Cardinality(Slots(s, clock)')
<1>9. ASSUME NEW c \in Calls, NEW i \in Instances, NEW u \in Subjects, Begin(c, i, u)
      PROVE  Now
  BY <1>2, <1>8, <1>9 DEF Begin, history, verdicts
<1>10. ASSUME NEW c \in Calls, Incr(c) \/ ExpireBucket(c) \/ ExpireFails(c)
       PROVE  Now
  BY <1>2, <1>8, <1>10 DEF Incr, DecideShared, ExpireBucket, ExpireFails, history, verdicts
<1>11. ASSUME NEW c \in Calls, IncrFails(c)
       PROVE  Now
  BY <1>2, <1>4, <1>11 DEF IncrFails
<1>12. ASSUME NEW u \in Subjects, NEW x \in Windows, Expired(u, x)
       PROVE  Now
  BY <1>2, <1>8, <1>12 DEF Expired, history, verdicts
<1>13. ASSUME UNCHANGED vars
       PROVE  Now
  BY <1>2, <1>8, <1>13 DEF vars, history, verdicts
<1>17. ASSUME NEW i \in Instances, Stop(i)
       PROVE  Now
  BY <1>2, <1>16, <1>17 DEF Stop
<1> HIDE DEF Now
<1>14. NextWindow => Now
  BY <1>7 DEF Now
<1>15. Now
  BY <1>9, <1>10, <1>11, <1>12, <1>13, <1>14, <1>17 DEF Next
<1> QED
  BY <1>15 DEF Now

\* A call that an instance admits is of the current window, whose slots are limited, or
\* a late one.
LEMMA OwnNext ==
  TypeOK /\ Begun /\ OwnBound /\ TypeOK' /\ SlotsCount' /\ [Next]_vars => OwnBound'
<1> SUFFICES ASSUME TypeOK, Begun, OwnBound, TypeOK', SlotsCount', [Next]_vars,
                    NEW s \in Subjects, NEW w \in Windows
             PROVE  own'[s][w] <= Limit * (Cardinality(Instances) + Losses(s)')
  BY DEF OwnBound
<1>n. PICK n \in Nat : n = Cardinality(Instances)
  BY SlotsBound
<1>0. /\ Limit \in Nat /\ Limit > 0 /\ w \in Int /\ clock \in Int
      /\ own[s][w] \in Nat /\ own'[s][w] \in Nat /\ late[s] \in Nat /\ stops \in Nat
      /\ Losses(s) \in Nat /\ Losses(s)' \in Nat
  <2>1. own[s][w] \in Nat /\ late[s] \in Nat /\ stops \in Nat /\ clock \in Windows
        /\ Losses(s) \in Nat
    BY DEF TypeOK, Losses
  <2>2. own'[s][w] \in Nat /\ Losses(s)' \in Nat
    BY DEF TypeOK, Losses
  <2> QED
    BY <2>1, <2>2, Numbers DEF Windows
<1>i. own[s][w] <= Limit * (n + Losses(s))
  BY <1>n DEF OwnBound
<1>p. /\ Limit * (n + Losses(s)) \in Nat
      /\ Limit * (n + (Losses(s) + 1)) = Limit * (n + Losses(s)) + Limit
  BY <1>0, Products
<1>1. ASSUME UNCHANGED <<own, late, stops>>
      PROVE  own'[s][w] <= Limit * (n + Losses(s)')
  BY <1>i, <1>1 DEF Losses
<1>2. ASSUME NEW c \in Calls, IncrFails(c)
      PROVE  own'[s][w] <= Limit * (n + Losses(s)')
  <2>1. PICK v : DecideAlone(c, v)
    BY <1>2, Zenon DEF IncrFails
  <2>2. call[c].pc = "incr" /\ UNCHANGED <<clock, stops>>
    BY <1>2 DEF IncrFails
  <2> DEFINE mine == v /\ s = call[c].subject /\ w = call[c].start
  <2>3. /\ own'[s][w] = IF mine THEN own[s][w] + 1 ELSE own[s][w]
        /\ late'[s] = IF v /\ s = call[c].subject /\ clock > call[c].start
                      THEN late[s] + 1 ELSE late[s]
        /\ call[c].start <= clock
    BY <2>1, <2>2, AloneEffect
  <2>b. /\ late'[s] = late[s] => Losses(s)' = Losses(s)
        /\ late'[s] = late[s] + 1 => Losses(s)' = Losses(s) + 1
    BY <1>0, <2>2 DEF Losses
  <2>4. CASE mine /\ clock > w
    <3>1. own'[s][w] = own[s][w] + 1 /\ Losses(s)' = Losses(s) + 1
      BY <2>3, <2>4, <2>b
    <3>2. own'[s][w] <= Limit * (n + Losses(s)) + Limit
      BY <1>0, <1>i, <1>p, <3>1
    <3> QED
      BY <1>p, <3>1, <3>2
  <2>5. CASE mine /\ ~ (clock > w)
    <3>1. w = clock'
      BY <1>0, <2>2, <2>3, <2>5
    <3>2. own'[s][w] <= Limit * Losses(s)' + Cardinality(Slots(s, clock)')
      BY <3>1 DEF SlotsCount, Slots
    <3>3. Cardinality(Slots(s, clock)') \in Nat /\ Cardinality(Slots(s, clock)') <= n * Limit
      <4>1. /\ Cardinality(Slots(s, w)') \in Nat
            /\ Cardinality(Slots(s, w)') <= Cardinality(Instances) * Limit
        BY SlotsBoundNext
      <4>2. Slots(s, clock)' = Slots(s, w)'
        BY <3>1 DEF Slots
      <4> QED
        BY <1>n, <4>1, <4>2
    <3>4. Limit * Losses(s)' \in Nat /\ n * Limit \in Nat
          /\ Limit * (n + Losses(s)') = n * Limit + Limit * Losses(s)'
      BY <1>0, Products
    <3> QED
      BY <1>0, <3>2, <3>3, <3>4
  <2>6. CASE ~ mine
    <3>1. own'[s][w] = own[s][w] /\ Losses(s)' \in {Losses(s), Losses(s) + 1}
      BY <2>3, <2>6, <2>b
    <3>2. Limit * (n + Losses(s)) <= Limit * (n + Losses(s)')
      BY <1>0, <1>p, <3>1
    <3>3. Limit * (n + Losses(s)') \in Nat
      BY <1>0, Products
    <3> QED
      BY <1>0, <1>i, <1>p, <3>1, <3>2, <3>3
  <2> QED
    BY <2>4, <2>5, <2>6
<1>3. ASSUME NEW c \in Calls, NEW i \in Instances, NEW u \in Subjects, Begin(c, i, u)
      PROVE  UNCHANGED <<own, late, stops>>
  BY <1>3 DEF Begin, history, verdicts
<1>4. ASSUME NEW c \in Calls, Incr(c) \/ ExpireBucket(c) \/ ExpireFails(c)
      PROVE  UNCHANGED <<own, late, stops>>
  BY <1>4 DEF Incr, DecideShared, ExpireBucket, ExpireFails, history, verdicts
<1>5. ASSUME NEW u \in Subjects, NEW x \in Windows, Expired(u, x)
      PROVE  UNCHANGED <<own, late, stops>>
  BY <1>5 DEF Expired, history, verdicts
<1>6. ASSUME NextWindow \/ UNCHANGED vars
      PROVE  UNCHANGED <<own, late, stops>>
  BY <1>6 DEF NextWindow, vars, history, verdicts
<1>8. ASSUME NEW i \in Instances, Stop(i)
      PROVE  own'[s][w] <= Limit * (n + Losses(s)')
  <2>1. own'[s][w] = own[s][w] /\ Losses(s)' = Losses(s) + 1
    BY <1>0, <1>8 DEF Stop, verdicts, Losses
  <2> QED
    BY <1>0, <1>i, <1>p, <2>1
<1>7. \/ UNCHANGED <<own, late, stops>>
      \/ \E c \in Calls : IncrFails(c)
      \/ \E i \in Instances : Stop(i)
  BY <1>3, <1>4, <1>5, <1>6, Zenon DEF Next
<1> QED
  BY <1>1, <1>2, <1>7, <1>8, <1>n

-----------------------------------------------------------------------------
(* The theorems.                                                           *)

\* Initially nothing is counted.
LEMMA RedisInit == Init => RedisInv
<1> SUFFICES ASSUME Init
             PROVE  RedisInv
  OBVIOUS
<1>1. TypeOK
  BY TypeInit
<1>2. Begun /\ BucketsExpire /\ InTime
  BY <1>1, Numbers DEF Init, Begun, BucketsExpire, InTime, Windows
<1>3. BucketCounts /\ SharedBound /\ NoneAlone
  BY <1>1, Numbers DEF Init, BucketCounts, SharedBound, NoneAlone, AtMostLimit
<1>4. ASSUME NEW s \in Subjects, NEW w \in Windows
      PROVE  /\ own[s][w] = 0 /\ own[s][clock] = 0
             /\ Limit * Losses(s) \in Nat /\ Cardinality(Slots(s, clock)) \in Nat
             /\ Limit * (Cardinality(Instances) + Losses(s)) \in Nat
  <2>1. own[s][w] = 0 /\ own[s][clock] = 0 /\ Losses(s) \in Nat
    BY <1>1 DEF Init, TypeOK, Losses
  <2> QED
    BY <2>1, Products, SlotsBound, Numbers
<1>5. SlotsCount
  BY <1>1, <1>4 DEF SlotsCount, TypeOK
<1>6. OwnBound
  BY <1>4 DEF OwnBound
<1> QED
  BY <1>1, <1>2, <1>3, <1>5, <1>6 DEF RedisInv

\* Every step keeps the invariant.
LEMMA RedisNext == RedisInv /\ [Next]_vars => RedisInv'
<1> SUFFICES ASSUME RedisInv, [Next]_vars
             PROVE  RedisInv'
  OBVIOUS
<1>0. /\ TypeOK /\ Begun /\ InTime /\ BucketCounts /\ SharedBound /\ NoneAlone
      /\ SlotsCount /\ OwnBound /\ BucketsExpire
  BY DEF RedisInv
<1>1. TypeOK' /\ Begun' /\ InTime'
  BY <1>0, TypeNext, BegunNext, InTimeNext
<1>2. BucketCounts' /\ SharedBound' /\ NoneAlone' /\ BucketsExpire'
  BY <1>0, SharedNext, NoneAloneNext, ExpiryNext
<1>3. SlotsCount'
  BY <1>0, SlotsNext
<1>4. OwnBound'
  BY <1>0, <1>1, <1>3, OwnNext
<1> QED
  BY <1>1, <1>2, <1>3, <1>4 DEF RedisInv

\* The invariant of every behaviour.
THEOREM RedisInvAlways == Spec => []RedisInv
  BY RedisInit, RedisNext, PTL DEF Spec

\* Coordinator.Allow keeps its counters numbers and its calls in their places.
THEOREM RedisTypeCorrect == Spec => []TypeOK
<1>1. RedisInv => TypeOK
  BY DEF RedisInv
<1> QED
  BY <1>1, RedisInvAlways, PTL

\* As long as no command fails, whatever instances stop, all of them together admit at
\* most Limit calls of a subject in a window, and one for each that came two windows late
\* or more: INCR counts in the window the call began in, whose bucket has not expired
\* before.
THEOREM SharedQuotaHolds == Spec => []SharedQuota
<1>1. RedisInv => SharedQuota
  <2> SUFFICES ASSUME RedisInv, failures = 0, NEW s \in Subjects, NEW w \in Windows
               PROVE  shared[s][w] + own[s][w] <= Limit + stale[s]
    BY DEF SharedQuota
  <2>1. own[s][w] = 0 /\ shared[s][w] <= Limit + stale[s] /\ shared[s][w] \in Nat
    BY DEF RedisInv, NoneAlone, SharedBound, TypeOK
  <2> QED
    BY <2>1
<1> QED
  BY <1>1, RedisInvAlways, PTL

\* However often Redis fails and comes back, each instance adds at most one limit of
\* its own to that of the bucket, and one more for each call it admits late and each
\* time an instance stops and loses its counters.
THEOREM DegradedQuotaHolds == Spec => []DegradedQuota
<1>1. RedisInv => DegradedQuota
  <2> SUFFICES ASSUME RedisInv, NEW s \in Subjects, NEW w \in Windows
               PROVE  shared[s][w] + own[s][w]
                        <= Limit * (1 + Cardinality(Instances) + (late[s] + stops)) + stale[s]
    BY DEF DegradedQuota
  <2>n. PICK n \in Nat : n = Cardinality(Instances)
    BY SlotsBound
  <2>1. /\ shared[s][w] \in Nat /\ own[s][w] \in Nat /\ stale[s] \in Nat
        /\ late[s] \in Nat /\ stops \in Nat /\ Losses(s) \in Nat
        /\ shared[s][w] <= Limit + stale[s] /\ own[s][w] <= Limit * (n + Losses(s))
    BY <2>n DEF RedisInv, SharedBound, OwnBound, TypeOK, Losses
  <2>2. /\ Limit * (n + Losses(s)) \in Nat
        /\ Limit + Limit * (n + Losses(s)) = Limit * (1 + n + Losses(s))
    BY <2>1, Numbers, Products
  <2>3. shared[s][w] + own[s][w] <= Limit + Limit * (n + Losses(s)) + stale[s]
    BY <2>1, <2>2, Numbers
  <2> QED
    BY <2>2, <2>3, <2>n DEF Losses
<1> QED
  BY <1>1, RedisInvAlways, PTL

\* The call that creates a bucket gives it its expiry, so that a bucket stays for ever
\* only if the answer of its first INCR was lost, its EXPIRE failed, or the instance
\* stopped between the two.
THEOREM BucketsDoExpire == Spec => []BucketsExpire
<1>1. RedisInv => BucketsExpire
  BY DEF RedisInv
<1> QED
  BY <1>1, RedisInvAlways, PTL
=============================================================================
