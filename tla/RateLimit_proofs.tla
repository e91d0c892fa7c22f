-------------------------- MODULE RateLimit_proofs --------------------------
(***************************************************************************)
(* What the fixed-window limiter promises, for any number of calls,        *)
(* subjects and windows and any set of limits.                             *)
(***************************************************************************)
EXTENDS RateLimit, TLAPS

-----------------------------------------------------------------------------
(* The counters.                                                           *)

Entries == [started : Windows \cup {Never}, count : Nat]

\* The counters after an admission: the others keep their window or are dropped.
Admission(f, s, w) ==
  [u \in Subjects |->
     IF u = s THEN [started |-> w, count |-> Current(f, s, w).count + 1]
     ELSE IF f[u].started < w THEN NoWindow ELSE f[u]]

\* What the map of the coordinator is after an admission, subject by subject.
LEMMA CoordinatorAdmission ==
  ASSUME NEW f \in [Subjects -> Entries], NEW s \in Subjects, NEW w \in Windows,
         NEW m \in Nat, Admits(f, s, w, m)
  PROVE  CoordinatorAllow(f, s, w, m) = Admission(f, s, w)
<1>1. w \in Int /\ ~ (w < w)
  BY RateLimitAssumption DEF Windows
<1>2. Counted(f, s, w) =
        [u \in Subjects |-> IF u = s THEN [started |-> w, count |-> Current(f, s, w).count + 1]
                            ELSE f[u]]
  BY DEF Counted, Entries
<1> QED
  BY <1>1, <1>2 DEF CoordinatorAllow, Purged, Admission

\* The Limiter purges first, yet admits as the counter it finds says.
LEMMA LimiterEffect ==
  ASSUME NEW f \in [Subjects -> Entries], NEW s \in Subjects, NEW w \in Windows, NEW m \in Nat
  PROVE  /\ LimiterAdmits(f, s, w, m) <=> Admits(f, s, w, m)
         /\ LimiterAllow(f, s, w, m) =
              [u \in Subjects |->
                 IF u = s /\ Admits(f, s, w, m)
                 THEN [started |-> w, count |-> Current(f, s, w).count + 1]
                 ELSE IF f[u].started < w THEN NoWindow ELSE f[u]]
<1>1. Current(Purged(f, w), s, w).count = Current(f, s, w).count
  BY DEF Purged, Current, NoWindow, Entries, Windows, Never
<1> QED
  BY <1>1 DEF LimiterAllow, LimiterAdmits, Admits, Purged, Counted, Entries

\* The counter a call finds is a number.
LEMMA CurrentType ==
  ASSUME NEW f \in [Subjects -> Entries], NEW s \in Subjects, NEW w
  PROVE  Current(f, s, w).count \in Nat
  BY DEF Current, Entries

\* An absent entry has the type of an entry.
LEMMA NoWindowType == NoWindow \in Entries
  BY DEF NoWindow, Entries, Never

-----------------------------------------------------------------------------
(* The invariant.                                                          *)

CallsBegun == \A c \in Calls : call[c] # Gone => call[c].start <= clock

NoneAhead ==
  \A s \in Subjects : windows[s].started <= clock /\ subject[s].started <= clock

\* A counter never exceeds what was admitted in its window.
CountIsAdmitted ==
  \A s \in Subjects, w \in Windows :
    windows[s].started = w => windows[s].count <= admitted[s][w]

\* As long as no request was admitted late, nor decided in this window with a
\* limit that is no longer in force, both counters of the window are the same.
Exact ==
  \A s \in Subjects :
    late[s] = 0 /\ s \notin raced => Current(subject, s, clock).count = Current(windows, s, clock).count

\* What n late requests may have made of the highest limit max: a window whose
\* counter is there lacks what they lost of it, one that is still to be entered
\* by requests in time has admitted no more than it lost.
Within(s, max, n) ==
  /\ windows[s].count <= max
  /\ \A w \in Windows :
       /\ admitted[s][w] <= max * (1 + n)
       /\ windows[s].started = w => admitted[s][w] <= windows[s].count + max * n
       /\ clock <= w /\ windows[s].started < w => admitted[s][w] <= max * n

Bounded == \A s \in Subjects : \E max \in Limits : Within(s, max, late[s])

IInv ==
  /\ TypeOK
  /\ CallsBegun
  /\ NoneAhead
  /\ CountIsAdmitted
  /\ Exact
  /\ Bounded

\* The few facts of multiplication that the bound needs.
LEMMA Times ==
  ASSUME NEW a \in Nat, NEW n \in Nat
  PROVE  /\ a * 0 = 0 /\ a * n \in Nat /\ a * (1 + n) = a * n + a
         /\ \A b \in Nat : a <= b => a * n <= b * n /\ a * (1 + n) <= b * (1 + n)
<1>1. a * 0 = 0 /\ a * n \in Nat /\ a * (1 + n) = a * n + a
  OBVIOUS
<1>2. ASSUME NEW b \in Nat, a <= b
      PROVE  a * n <= b * n /\ a * (1 + n) <= b * (1 + n)
  <2>1. b - a \in Nat /\ (b - a) * n \in Nat
    BY <1>2
  <2>2. b * n = a * n + (b - a) * n
    OBVIOUS
  <2>3. a * n <= b * n
    BY <1>1, <2>1, <2>2
  <2>4. b * (1 + n) = b * n + b
    OBVIOUS
  <2> QED
    BY <1>1, <1>2, <2>3, <2>4
<1> QED
  BY <1>1, <1>2

\* The invariant holds when the server starts.
LEMMA InitInvariant == Init => IInv
<1> SUFFICES ASSUME Init PROVE IInv
  OBVIOUS
<1>1. 0 \in Windows /\ Windows \subseteq Nat /\ Limits \subseteq Nat
  BY RateLimitAssumption DEF Windows
<1>2. TypeOK
  BY <1>1 DEF Init, TypeOK, Entry, NoWindow
<1>3. CallsBegun /\ NoneAhead /\ CountIsAdmitted
  BY <1>1 DEF Init, CallsBegun, NoneAhead, CountIsAdmitted, NoWindow, Never
<1>4. Exact
  BY <1>1 DEF Init, Exact, Current, NoWindow, Never
<1>5. Bounded
  <2> SUFFICES ASSUME NEW s \in Subjects
               PROVE  \E max \in Limits : Within(s, max, late[s])
    BY DEF Bounded
  <2>1. /\ limit \in Limits /\ limit \in Nat
        /\ late[s] = 0 /\ windows[s].count = 0 /\ windows[s].started = -1
        /\ \A w \in Windows : admitted[s][w] = 0 /\ w \in Nat
    BY <1>1 DEF Init, NoWindow, Never
  <2>2. limit * 0 = 0 /\ limit * (1 + 0) = limit
    BY <2>1, Times
  <2> QED
    BY <2>1, <2>2 DEF Within
<1> QED
  BY <1>2, <1>3, <1>4, <1>5 DEF IInv

\* What a call that is being decided has read.
LEMMA DecidingCall ==
  ASSUME IInv, NEW c \in Calls, call[c].pc = "deciding"
  PROVE  /\ call[c].subject \in Subjects
         /\ call[c].start \in Windows
         /\ call[c].start <= clock
         /\ call[c].limit \in Limits
         /\ call[c].limit \in Nat
<1>1. call[c] \in Deciding
  <2>1. call[c] \in {Gone} \cup Calling \cup Deciding
    BY DEF IInv, TypeOK
  <2>2. \A x \in Calling : x.pc = "begun"
    BY DEF Calling
  <2> QED
    BY <2>1, <2>2 DEF Gone
<1>2. call[c] # Gone
  BY DEF Gone
<1>3. call[c].start <= clock
  BY <1>2 DEF IInv, CallsBegun
<1>4. /\ call[c].subject \in Subjects
      /\ call[c].start \in Windows
      /\ call[c].limit \in Limits
  BY <1>1 DEF Deciding
<1> QED
  BY <1>3, <1>4, RateLimitAssumption

\* Deciding a call keeps the invariant.
LEMMA AllowInvariant ==
  ASSUME IInv, NEW c \in Calls, Allow(c)
  PROVE  IInv'
<1> DEFINE s == call[c].subject
           w == call[c].start
           m == call[c].limit
<1>1. /\ s \in Subjects /\ w \in Windows /\ w <= clock /\ m \in Limits /\ m \in Nat
      /\ clock \in Windows
  BY DecidingCall DEF Allow, IInv, TypeOK
<1>2. windows \in [Subjects -> Entries] /\ subject \in [Subjects -> Entries]
      /\ admitted \in [Subjects -> [Windows -> Nat]]
  BY DEF IInv, TypeOK, Entry, Entries
<1>3. Windows \subseteq Nat
  BY RateLimitAssumption DEF Windows
<1>4. /\ UNCHANGED <<clock, limit>> /\ call' = [call EXCEPT ![c] = Gone]
      /\ late' = IF Admitted(c) /\ w < clock THEN [late EXCEPT ![s] = @ + 1] ELSE late
      /\ raced' = IF m = limit THEN raced ELSE raced \cup {s}
  BY DEF Allow
<1>5. CallsBegun'
  BY <1>1, <1>4 DEF IInv, CallsBegun, TypeOK, Gone
<1>6. subject' =
        [u \in Subjects |->
           IF u = s /\ Admits(subject, s, w, limit)
           THEN [started |-> w, count |-> Current(subject, s, w).count + 1]
           ELSE IF subject[u].started < w THEN NoWindow ELSE subject[u]]
  BY <1>1, <1>2, LimiterEffect, RateLimitAssumption DEF Allow, IInv, TypeOK
<1>7. subject' \in [Subjects -> Entries] /\ \A u \in Subjects : subject'[u].started <= clock
  <2>1. Current(subject, s, w).count + 1 \in Nat
    BY <1>1, <1>2, CurrentType
  <2>2. [started |-> w, count |-> Current(subject, s, w).count + 1] \in Entries
    BY <1>1, <2>1 DEF Entries
  <2>3. \A u \in Subjects : subject'[u] \in Entries
    BY <1>2, <1>6, <2>2, NoWindowType
  <2>4. \A u \in Subjects : subject'[u].started <= clock
    BY <1>1, <1>3, <1>6 DEF IInv, NoneAhead, NoWindow, Never
  <2> QED
    BY <1>6, <2>3, <2>4
<1>8. /\ call' \in [Calls -> {Gone} \cup Calling \cup Deciding]
      /\ late \in [Subjects -> Nat] /\ late' \in [Subjects -> Nat]
      /\ raced' \in SUBSET Subjects
      /\ clock' \in Windows /\ limit' \in Limits
  BY <1>1, <1>4 DEF IInv, TypeOK
<1>9. w \in Nat /\ clock \in Nat
  BY <1>1, <1>3
<1>10. CASE ~ Admitted(c)
  <2>1. windows' = windows /\ admitted' = admitted /\ late' = late /\ ~ Admits(windows, s, w, m)
    BY <1>4, <1>10 DEF Allow, Admitted, CoordinatorAllow
  <2>2. TypeOK'
    BY <1>7, <1>8, <2>1 DEF IInv, TypeOK, Entry, Entries
  <2>3. NoneAhead'
    BY <1>4, <1>7, <2>1 DEF IInv, NoneAhead
  <2>4. CountIsAdmitted'
    BY <2>1 DEF IInv, CountIsAdmitted
  <2>5. Exact'
    <3> SUFFICES ASSUME NEW u \in Subjects, late[u] = 0, u \notin raced'
                 PROVE  Current(subject', u, clock).count = Current(windows, u, clock).count
      BY <1>4, <2>1 DEF Exact
    <3>0. u \notin raced /\ (u = s => m = limit)
      BY <1>1, <1>4 DEF IInv, TypeOK
    <3>1. Current(subject, u, clock).count = Current(windows, u, clock).count
      BY <3>0 DEF IInv, Exact
    <3>2. CASE w = clock
      <4>1. u = s => ~ Admits(subject, s, w, limit)
        BY <2>1, <3>0, <3>1, <3>2 DEF Admits
      <4>2. Current(subject', u, clock).count = Current(subject, u, clock).count
        BY <1>1, <1>2, <1>3, <1>6, <3>2, <4>1 DEF Current, NoWindow, Never
      <4> QED
        BY <3>1, <4>2
    <3>3. CASE w # clock
      <4>1. CASE u = s /\ Admits(subject, s, w, limit)
        <5>1. windows[s].started = w
          BY <1>1, <2>1, RateLimitAssumption DEF Admits, Current
        <5>2. Current(windows, s, clock).count = 0
          BY <3>3, <5>1 DEF Current
        <5>3. subject'[s].started = w
          BY <1>1, <1>6, <4>1
        <5>4. Current(subject', s, clock).count = 0
          BY <3>3, <5>3 DEF Current
        <5> QED
          BY <4>1, <5>2, <5>4
      <4>2. CASE ~ (u = s /\ Admits(subject, s, w, limit))
        <5>1. subject'[u] = IF subject[u].started < w THEN NoWindow ELSE subject[u]
          BY <1>6, <4>2
        <5>2. w < clock
          BY <1>1, <1>9, <3>3
        <5>3. Current(subject', u, clock).count = Current(subject, u, clock).count
          BY <1>2, <1>9, <5>1, <5>2 DEF Current, NoWindow, Never
        <5> QED
          BY <3>1, <5>3
      <4> QED
        BY <4>1, <4>2
    <3> QED
      BY <3>2, <3>3
  <2>6. Bounded'
    BY <2>1, <1>4 DEF IInv, Bounded, Within
  <2> QED
    BY <1>5, <2>2, <2>3, <2>4, <2>5, <2>6 DEF IInv
<1>11. CASE Admitted(c)
  <2> DEFINE n == Current(windows, s, w).count
  <2>1. Admits(windows, s, w, m) /\ n \in Nat /\ n < m
    BY <1>1, <1>2, <1>11, CurrentType DEF Admitted, Admits
  <2>2. windows' = [u \in Subjects |->
                      IF u = s THEN [started |-> w, count |-> n + 1]
                      ELSE IF windows[u].started < w THEN NoWindow ELSE windows[u]]
    <3>1. windows' = CoordinatorAllow(windows, s, w, m)
      BY DEF Allow
    <3>2. CoordinatorAllow(windows, s, w, m) = Admission(windows, s, w)
      BY <1>1, <1>2, <2>1, CoordinatorAdmission
    <3> QED
      BY <3>1, <3>2 DEF Admission
  <2>3. admitted' = [admitted EXCEPT ![s][w] = @ + 1]
    BY <1>11 DEF Allow
  <2>4. admitted' \in [Subjects -> [Windows -> Nat]]
    BY <1>1, <1>2, <2>3
  <2>5. windows' \in [Subjects -> Entries] /\ \A u \in Subjects : windows'[u].started <= clock
    <3>1. [started |-> w, count |-> n + 1] \in Entries
      BY <1>1, <2>1 DEF Entries
    <3>2. \A u \in Subjects : windows'[u] \in Entries
      BY <1>2, <2>2, <3>1, NoWindowType
    <3>3. \A u \in Subjects : windows'[u].started <= clock
      BY <1>1, <1>3, <2>2 DEF IInv, NoneAhead, NoWindow, Never
    <3> QED
      BY <2>2, <3>2, <3>3
  <2>6. TypeOK'
    BY <1>7, <1>8, <2>4, <2>5 DEF IInv, TypeOK, Entry, Entries
  <2>7. NoneAhead'
    BY <1>4, <1>7, <2>5 DEF NoneAhead
  <2>8. CountIsAdmitted'
    <3> SUFFICES ASSUME NEW u \in Subjects, NEW v \in Windows, windows'[u].started = v
                 PROVE  windows'[u].count <= admitted'[u][v]
      BY DEF CountIsAdmitted
    <3>1. CASE u = s
      <4>1. v = w /\ windows'[s].count = n + 1
        BY <2>2, <3>1
      <4>2. n <= admitted[s][w]
        BY <1>1, <1>2 DEF IInv, CountIsAdmitted, Current
      <4>3. admitted'[s][w] = admitted[s][w] + 1
        BY <1>1, <1>2, <2>3
      <4> QED
        BY <1>1, <1>2, <2>1, <3>1, <4>1, <4>2, <4>3
    <3>2. CASE u # s
      <4>1. v \in Nat /\ windows'[u] = windows[u]
        BY <1>3, <2>2, <3>2 DEF NoWindow, Never
      <4>2. admitted'[u] = admitted[u]
        BY <1>2, <2>3, <3>2
      <4> QED
        BY <4>1, <4>2 DEF IInv, CountIsAdmitted
    <3> QED
      BY <3>1, <3>2
  <2>9. Exact'
    <3> SUFFICES ASSUME NEW u \in Subjects, late'[u] = 0, u \notin raced'
                 PROVE  Current(subject', u, clock).count = Current(windows', u, clock).count
      BY <1>4 DEF Exact
    <3>0. u \notin raced /\ (u = s => m = limit)
      BY <1>1, <1>4 DEF IInv, TypeOK
    <3>1. late[u] = 0 /\ (u = s => w = clock)
      <4>1. u = s => ~ (w < clock)
        BY <1>1, <1>4, <1>8, <1>11
      <4>2. late[u] = 0
        BY <1>1, <1>4, <1>8, <4>1
      <4> QED
        BY <1>1, <1>9, <4>1, <4>2
    <3>2. Current(subject, u, clock).count = Current(windows, u, clock).count
      BY <3>0, <3>1 DEF IInv, Exact
    <3>3. CASE u = s
      <4>1. Admits(subject, s, w, limit)
        BY <2>1, <3>0, <3>1, <3>2, <3>3 DEF Admits
      <4>2. Current(windows', s, clock).count = n + 1
        BY <1>1, <2>2, <3>1, <3>3 DEF Current
      <4>3. Current(subject', s, clock).count = n + 1
        BY <1>1, <1>6, <3>1, <3>2, <3>3, <4>1 DEF Current
      <4> QED
        BY <3>3, <4>2, <4>3
    <3>4. CASE u # s
      <4>1. Current(windows', u, clock).count = Current(windows, u, clock).count
        BY <1>1, <1>2, <1>9, <2>2, <3>4 DEF Current, NoWindow, Never
      <4>2. Current(subject', u, clock).count = Current(subject, u, clock).count
        BY <1>1, <1>2, <1>9, <1>6, <3>4 DEF Current, NoWindow, Never
      <4> QED
        BY <3>2, <4>1, <4>2
    <3> QED
      BY <3>3, <3>4
  <2>10. Bounded'
    <3> SUFFICES ASSUME NEW u \in Subjects
                 PROVE  \E max \in Limits : Within(u, max, late[u])'
      BY DEF Bounded
    <3>1. PICK old \in Limits : Within(u, old, late[u])
      BY DEF IInv, Bounded
    <3>2. CASE u # s
      <4>1. late'[u] = late[u] /\ admitted'[u] = admitted[u]
            /\ windows'[u] = IF windows[u].started < w THEN NoWindow ELSE windows[u]
        BY <1>1, <1>2, <1>4, <1>8, <2>2, <2>3, <3>2
      <4>2. old \in Nat /\ Windows \subseteq Nat /\ windows[u] \in Entries
        BY <1>2, <1>3, RateLimitAssumption
      <4>3. Within(u, old, late[u])'
        <5>1. windows'[u].count <= old
          BY <3>1, <4>1, <4>2 DEF Within, NoWindow
        <5>2. ASSUME NEW v \in Windows
              PROVE  /\ windows'[u].started = v => windows'[u] = windows[u]
                     /\ clock <= v /\ windows'[u].started < v => windows[u].started < v
          BY <1>1, <1>9, <4>1, <4>2 DEF NoWindow, Never, Entries
        <5> QED
          BY <1>4, <3>1, <4>1, <5>1, <5>2 DEF Within
      <4> QED
        BY <4>3
    <3>3. CASE u = s
      <4> DEFINE k == late[s]
      <4>0. old \in Nat
        BY RateLimitAssumption
      <4>1. PICK max \in Limits : max \in Nat /\ old \in Nat /\ old <= max /\ m <= max /\ k \in Nat
        BY <1>1, <1>8, <4>0
      <4> DEFINE a == max * k
                 b == max * (1 + k)
      <4>2. /\ a \in Nat /\ b = a + max
            /\ old * k <= a /\ old * (1 + k) <= b
            /\ old * k \in Nat /\ old * (1 + k) \in Nat
        BY <4>1, Times
      <4> HIDE DEF a, b, k
      <4>3. ASSUME NEW v \in Windows
            PROVE  /\ admitted[s][v] \in Nat /\ v \in Nat
                   /\ admitted[s][v] <= b
                   /\ windows[s].started = v => admitted[s][v] <= windows[s].count + a
                   /\ clock <= v /\ windows[s].started < v => admitted[s][v] <= a
        <5>1. /\ admitted[s][v] \in Nat /\ v \in Nat /\ windows[s].count \in Nat
          BY <1>1, <1>2, <1>3 DEF Entries
        <5>2. /\ admitted[s][v] <= old * (1 + k)
              /\ windows[s].started = v => admitted[s][v] <= windows[s].count + old * k
              /\ clock <= v /\ windows[s].started < v => admitted[s][v] <= old * k
          BY <3>1, <3>3 DEF Within, k
        <5> QED
          BY <4>2, <5>1, <5>2
      <4>4. windows'[s].count = n + 1 /\ windows'[s].started = w /\ n + 1 <= max
        BY <1>1, <2>1, <2>2, <4>1
      <4>5. ASSUME NEW v \in Windows
            PROVE  admitted'[s][v] = IF v = w THEN admitted[s][v] + 1 ELSE admitted[s][v]
        BY <1>1, <1>2, <2>3
      <4>6. n = IF windows[s].started = w THEN windows[s].count ELSE 0
        BY DEF Current
      <4>7. windows[s].started <= clock /\ windows[s].started \in Int
        <5>1. windows[s] \in Entries
          BY <1>1, <1>2
        <5> QED
          BY <1>1, <1>3, <5>1 DEF IInv, NoneAhead, Entries, Never
      <4>8. CASE w < clock
        <5>1. late'[s] = k + 1
          BY <1>1, <1>4, <1>8, <1>11, <4>8 DEF k
        <5>2. max * late'[s] = b /\ max * (1 + late'[s]) = b + max
          BY <4>1, <5>1, Times DEF b
        <5>3. ASSUME NEW v \in Windows
              PROVE  /\ admitted'[s][v] <= b + max
                     /\ w = v => admitted'[s][v] <= n + 1 + b
                     /\ clock <= v /\ w < v => admitted'[s][v] <= b
          BY <1>9, <2>1, <4>1, <4>2, <4>3, <4>4, <4>5, <4>8
        <5>4. Within(u, max, late[u])'
          BY <1>4, <3>3, <4>4, <5>2, <5>3 DEF Within
        <5> QED
          BY <5>4
      <4>9. CASE ~ (w < clock)
        <5>1. late'[s] = k /\ w = clock
          BY <1>1, <1>4, <1>9, <4>9 DEF k
        <5>2. max * late'[s] = a /\ max * (1 + late'[s]) = b
          BY <5>1 DEF a, b
        <5>3. ASSUME NEW v \in Windows
              PROVE  /\ admitted'[s][v] <= b
                     /\ w = v => admitted'[s][v] <= n + 1 + a
                     /\ clock <= v /\ w < v => admitted'[s][v] <= a
          <6>1. CASE v = w
            <7>1. admitted[s][w] <= n + a
              <8>1. CASE windows[s].started = w
                BY <1>1, <4>3, <4>6, <8>1
              <8>2. CASE windows[s].started # w
                BY <1>1, <1>9, <2>1, <4>2, <4>3, <4>6, <4>7, <5>1, <8>2
              <8> QED
                BY <8>1, <8>2
            <7> QED
              BY <1>1, <2>1, <4>1, <4>2, <4>3, <4>4, <4>5, <6>1, <7>1
          <6>2. CASE v # w
            <7>1. admitted'[s][v] = admitted[s][v]
              BY <4>5, <6>2
            <7> QED
              BY <1>9, <4>3, <4>7, <5>1, <6>2, <7>1
          <6> QED
            BY <6>1, <6>2
        <5>4. Within(u, max, late[u])'
          BY <1>4, <3>3, <4>4, <5>2, <5>3 DEF Within
        <5> QED
          BY <5>4
      <4> QED
        BY <4>8, <4>9
    <3> QED
      BY <3>2, <3>3
  <2> QED
    BY <1>5, <2>6, <2>7, <2>8, <2>9, <2>10 DEF IInv
<1> QED
  BY <1>10, <1>11

\* So does every other step.
LEMMA NextInvariant == IInv /\ [Next]_vars => IInv'
<1> SUFFICES ASSUME IInv, [Next]_vars PROVE IInv'
  OBVIOUS
<1>1. /\ clock \in Windows /\ limit \in Limits /\ Windows \subseteq Nat
      /\ admitted \in [Subjects -> [Windows -> Nat]]
      /\ windows \in [Subjects -> Entry] /\ subject \in [Subjects -> Entry]
  BY RateLimitAssumption DEF IInv, TypeOK, Windows
<1>2. ASSUME UNCHANGED <<clock, windows, subject, admitted, late, raced>>,
             CallsBegun', limit' \in Limits,
             call' \in [Calls -> {Gone} \cup Calling \cup Deciding]
      PROVE  IInv'
  <2>1. TypeOK'
    BY <1>2 DEF IInv, TypeOK
  <2>2. NoneAhead' /\ CountIsAdmitted' /\ Bounded'
    BY <1>2 DEF IInv, NoneAhead, CountIsAdmitted, Bounded, Within
  <2>3. Exact'
    BY <1>2 DEF IInv, Exact
  <2> QED
    BY <1>2, <2>1, <2>2, <2>3 DEF IInv
<1>3. ASSUME NEW c \in Calls, NEW s \in Subjects, Begin(c, s) PROVE IInv'
  <2>1. [pc |-> "begun", subject |-> s, start |-> clock] \in Calling
    BY <1>1 DEF Calling
  <2>2. call' \in [Calls -> {Gone} \cup Calling \cup Deciding]
    BY <1>3, <2>1 DEF Begin, IInv, TypeOK
  <2>3. CallsBegun'
    BY <1>1, <1>3 DEF Begin, IInv, TypeOK, CallsBegun
  <2> QED
    BY <1>1, <1>2, <1>3, <2>2, <2>3 DEF Begin
<1>4. ASSUME NEW c \in Calls, ReadLimit(c) PROVE IInv'
  <2>1. call[c] \in {Gone} \cup Calling \cup Deciding /\ call[c].pc = "begun"
    BY <1>4 DEF ReadLimit, IInv, TypeOK
  <2>2. \A x \in Deciding : x.pc = "deciding"
    BY DEF Deciding
  <2>3. call[c] \in Calling /\ call[c] # Gone
    BY <2>1, <2>2 DEF Gone
  <2>4. call[c].subject \in Subjects /\ call[c].start \in Windows
    BY <2>3 DEF Calling
  <2>5. [pc |-> "deciding", subject |-> call[c].subject, start |-> call[c].start,
         limit |-> limit] \in Deciding
    BY <1>1, <2>4 DEF Deciding
  <2>6. call' \in [Calls -> {Gone} \cup Calling \cup Deciding]
    BY <1>4, <2>5 DEF ReadLimit, IInv, TypeOK
  <2>7. CallsBegun'
    BY <1>4, <2>3 DEF ReadLimit, IInv, TypeOK, CallsBegun
  <2> QED
    BY <1>1, <1>2, <1>4, <2>6, <2>7 DEF ReadLimit
<1>5. ASSUME NEW c \in Calls, Allow(c) PROVE IInv'
  BY <1>5, AllowInvariant
<1>6. ASSUME NEW v \in Limits, SetLimit(v) PROVE IInv'
  BY <1>2, <1>6 DEF SetLimit, IInv, TypeOK, CallsBegun
<1>7. CASE NextWindow
  <2>1. /\ clock' = clock + 1 /\ clock' \in Windows
        /\ UNCHANGED <<limit, windows, subject, call, admitted, late>>
        /\ raced' = {}
    BY <1>1, <1>7, RateLimitAssumption DEF NextWindow, Windows
  <2>2. TypeOK'
    BY <2>1 DEF IInv, TypeOK
  <2>3. CallsBegun'
    <3> SUFFICES ASSUME NEW c \in Calls, call[c] # Gone PROVE call[c].start <= clock + 1
      BY <2>1 DEF CallsBegun
    <3>1. call[c] \in Calling \cup Deciding
      BY DEF IInv, TypeOK
    <3>2. call[c].start \in Windows
      BY <3>1 DEF Calling, Deciding
    <3>3. call[c].start <= clock
      BY DEF IInv, CallsBegun
    <3>4. call[c].start \in Int /\ clock \in Int
      BY <1>1, <3>2 DEF Windows
    <3> QED
      BY <3>3, <3>4
  <2>4. \A u \in Subjects : /\ windows[u].started \in Int /\ windows[u].started <= clock
                            /\ subject[u].started \in Int /\ subject[u].started <= clock
    <3> SUFFICES ASSUME NEW u \in Subjects
                 PROVE  windows[u].started \in Int /\ subject[u].started \in Int
      BY DEF IInv, NoneAhead
    <3>1. \A e \in Entry : e.started \in Int
      BY DEF Entry, Never, Windows
    <3> QED
      BY <1>1, <3>1
  <2>5. NoneAhead'
    BY <1>1, <2>1, <2>4 DEF NoneAhead
  <2>6. CountIsAdmitted'
    BY <2>1 DEF IInv, CountIsAdmitted
  <2>7. Exact'
    BY <1>1, <2>1, <2>4 DEF Exact, Current
  <2>8. Bounded'
    <3>1. \A w \in Windows : clock' <= w => clock <= w
      BY <1>1, <2>1
    <3> QED
      BY <2>1, <3>1 DEF IInv, Bounded, Within
  <2> QED
    BY <2>2, <2>3, <2>5, <2>6, <2>7, <2>8 DEF IInv
<1>8. CASE UNCHANGED vars
  BY <1>2, <1>8 DEF vars, IInv, TypeOK, CallsBegun
<1> QED
  BY <1>3, <1>4, <1>5, <1>6, <1>7, <1>8 DEF Next

\* It holds for ever: no step of a call, an administrator or the clock breaks it.
LEMMA Invariant == Spec => []IInv
  BY InitInvariant, NextInvariant, PTL DEF Spec

\* Every variable stays in its type whatever calls, administrators and clock do.
THEOREM TypeCorrect == Spec => []TypeOK
  BY Invariant, PTL DEF IInv

\* No subject gets more than the highest limit in a window, and as much again for
\* each request of its own that was admitted late.
THEOREM QuotaCorrect == Spec => []QuotaPerLateCall
<1>1. IInv => QuotaPerLateCall
  BY DEF IInv, Bounded, Within, QuotaPerLateCall
<1> QED
  BY <1>1, Invariant, PTL

\* The Limiter, with the limit of the moment it decides, and the coordinator, with
\* the one read before, decide alike on the requests of a subject none of which
\* was admitted late, or in this window decided across a change of the limit.
THEOREM LimiterCorrect == Spec => []LimiterAgrees
<1>1. IInv => LimiterAgrees
  <2> SUFFICES ASSUME IInv, NEW s \in Subjects, NEW m \in Limits, late[s] = 0, s \notin raced
               PROVE  Admits(windows, s, clock, m) = LimiterAdmits(subject, s, clock, m)
    BY DEF LimiterAgrees
  <2>1. clock \in Windows /\ m \in Nat /\ subject \in [Subjects -> Entries]
    BY RateLimitAssumption DEF IInv, TypeOK, Entry, Entries
  <2>2. LimiterAdmits(subject, s, clock, m) <=> Admits(subject, s, clock, m)
    BY <2>1, LimiterEffect
  <2>3. Current(subject, s, clock).count = Current(windows, s, clock).count
    BY DEF IInv, Exact
  <2> QED
    BY <2>2, <2>3 DEF Admits, LimiterAdmits
<1> QED
  BY <1>1, Invariant, PTL

\* A 429 is deserved, however late the call.
THEOREM RejectionCorrect == Spec => NoFalseRejection
<1> DEFINE Deserved(c) ==
      call[c].pc = "deciding" /\ call'[c] = Gone /\ admitted' = admitted
        => admitted[call[c].subject][call[c].start] >= call[c].limit
<1>1. ASSUME IInv, [Next]_vars, NEW c \in Calls PROVE Deserved(c)
  <2> SUFFICES ASSUME call[c].pc = "deciding", call'[c] = Gone, admitted' = admitted
               PROVE  admitted[call[c].subject][call[c].start] >= call[c].limit
    OBVIOUS
  <2> DEFINE s == call[c].subject
             w == call[c].start
  <2>1. s \in Subjects /\ w \in Windows /\ call[c].limit \in Nat /\ call[c] # Gone
    BY <1>1, DecidingCall DEF Gone
  <2>2. /\ windows \in [Subjects -> Entries] /\ admitted \in [Subjects -> [Windows -> Nat]]
        /\ call \in [Calls -> {Gone} \cup Calling \cup Deciding]
    BY <1>1 DEF IInv, TypeOK, Entry, Entries
  <2>3. Allow(c)
    BY <1>1, <2>1, <2>2
       DEF Next, Begin, ReadLimit, Allow, SetLimit, NextWindow, vars, Gone
  <2>4. ~ Admits(windows, s, w, call[c].limit)
    <3>1. admitted[s][w] + 1 # admitted[s][w]
      BY <2>1, <2>2
    <3> QED
      BY <2>1, <2>2, <2>3, <3>1 DEF Allow, Admitted
  <2>5. Current(windows, s, w).count <= admitted[s][w]
    BY <1>1, <2>1, <2>2 DEF IInv, CountIsAdmitted, Current
  <2> QED
    BY <2>1, <2>2, <2>4, <2>5, CurrentType DEF Admits
<1>2. IInv /\ [Next]_vars => [\A c \in Calls : Deserved(c)]_vars
  BY <1>1
<1> QED
  BY <1>2, Invariant, PTL DEF Spec, NoFalseRejection
=============================================================================
