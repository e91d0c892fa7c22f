------------------------- MODULE ConsolePages_proofs ---------------------------
(***************************************************************************)
(* Lemmas for Console_proofs: what each page of the console keeps true,    *)
(* for any number of requests in flight, keys, tokens, settings, captchas  *)
(* and pages of records.                                                   *)
(*                                                                         *)
(* The invariant of a page gives the type of its requests and answers and  *)
(* ties its flags to the requests in flight: a flag is set exactly while   *)
(* one of its requests is there, which no list of types says.              *)
(*                                                                         *)
(* A second invariant of each page, its name ends in Current, says what is *)
(* shown, or will be once the answer to the request sent last is: no load  *)
(* was answered after a newer one was, and the newest one saw the data as  *)
(* they are now, or a write it did not see is about to load again.         *)
(***************************************************************************)
EXTENDS Console, FiniteSetTheorems, TLAPS

-----------------------------------------------------------------------------
(* The requests in flight, a sequence s.                                   *)

Requests(ops, withs, answers) ==
  [op : ops, with : withs, answer : answers \cup {Pending, Failed}]

\* None, or exactly one, of the operations ops is in flight.
NoCall(s, ops) == \A k \in DOMAIN s : s[k].op \notin ops
OneCall(s, ops) == \E k \in DOMAIN s : \A j \in DOMAIN s : s[j].op \in ops <=> j = k

Without(s, i) == SubSeq(s, 1, i - 1) \o SubSeq(s, i + 1, Len(s))

\* The requests that are left when one is continued from keep their order.
LEMMA WithoutIs ==
  ASSUME NEW S, NEW s \in Seq(S), NEW i \in DOMAIN s
  PROVE  /\ Without(s, i) \in Seq(S)
         /\ Len(Without(s, i)) = Len(s) - 1
         /\ \A k \in 1 .. Len(s) - 1 : Without(s, i)[k] = IF k < i THEN s[k] ELSE s[k + 1]
<1> DEFINE a == SubSeq(s, 1, i - 1)
           b == SubSeq(s, i + 1, Len(s))
<1>1. i \in 1 .. Len(s) /\ Len(s) \in Nat
  OBVIOUS
<1>2. /\ a \in Seq(S) /\ Len(a) = i - 1
      /\ \A k \in 1 .. i - 1 : a[k] = s[k]
  BY <1>1
<1>3. /\ b \in Seq(S) /\ Len(b) = Len(s) - i
      /\ \A k \in 1 .. Len(s) - i : b[k] = s[i + k]
  BY <1>1
<1> HIDE DEF a, b
<1>4. Without(s, i) = a \o b
  BY DEF Without, a, b
<1>5. /\ a \o b \in Seq(S)
      /\ Len(a \o b) = Len(s) - 1
      /\ \A k \in 1 .. Len(s) - 1 : (a \o b)[k] = IF k <= Len(a) THEN a[k] ELSE b[k - Len(a)]
  BY <1>1, <1>2, <1>3
<1>6. ASSUME NEW k \in 1 .. Len(s) - 1
      PROVE  (a \o b)[k] = IF k < i THEN s[k] ELSE s[k + 1]
  <2>1. CASE k < i
    BY <1>1, <1>2, <1>5, <2>1
  <2>2. CASE ~ (k < i)
    <3>1. k - Len(a) \in 1 .. Len(s) - i /\ i + (k - Len(a)) = k + 1 /\ ~ (k <= Len(a))
      BY <1>1, <1>2, <2>2
    <3> QED
      BY <1>3, <1>5, <2>2, <3>1
  <2> QED
    BY <2>1, <2>2
<1> QED
  BY <1>4, <1>5, <1>6

\* Where the request that comes to be at j was.
Place(i, j) == IF j < i THEN j ELSE j + 1

\* Where the requests that remain came from.
LEMMA WithoutPlaces ==
  ASSUME NEW S, NEW s \in Seq(S), NEW i \in DOMAIN s
  PROVE  LET w == Without(s, i)
         IN  /\ \A j \in DOMAIN w : Place(i, j) \in DOMAIN s \ {i} /\ w[j] = s[Place(i, j)]
             /\ \A k \in DOMAIN s \ {i} : \E j \in DOMAIN w : Place(i, j) = k
             /\ \A j, l \in DOMAIN w : Place(i, j) = Place(i, l) => j = l
<1> DEFINE w == Without(s, i)
<1>1. /\ w \in Seq(S) /\ Len(w) = Len(s) - 1
      /\ \A k \in 1 .. Len(s) - 1 : w[k] = IF k < i THEN s[k] ELSE s[k + 1]
  BY WithoutIs
<1>2. /\ DOMAIN w = 1 .. Len(s) - 1 /\ DOMAIN s = 1 .. Len(s) /\ Len(s) \in Nat
      /\ i \in 1 .. Len(s)
  BY <1>1
<1> HIDE DEF w
<1>3. ASSUME NEW j \in DOMAIN w
      PROVE  Place(i, j) \in DOMAIN s \ {i} /\ w[j] = s[Place(i, j)]
  BY <1>1, <1>2 DEF Place
<1>4. ASSUME NEW k \in DOMAIN s \ {i}
      PROVE  \E j \in DOMAIN w : Place(i, j) = k
  <2>1. CASE k < i
    BY <1>2, <2>1 DEF Place
  <2>2. CASE k > i
    <3>1. k - 1 \in DOMAIN w /\ ~ (k - 1 < i) /\ (k - 1) + 1 = k
      BY <1>2, <2>2
    <3> QED
      BY <3>1 DEF Place
  <2> QED
    BY <1>2, <2>1, <2>2
<1>5. \A j, l \in DOMAIN w : Place(i, j) = Place(i, l) => j = l
  BY <1>2 DEF Place
<1> QED
  BY <1>3, <1>4, <1>5 DEF w

\* A request less.
LEMMA WithoutFacts ==
  ASSUME NEW S, NEW s \in Seq(S), NEW i \in DOMAIN s, NEW ops
  PROVE  /\ Without(s, i) \in Seq(S)
         /\ NoCall(s, ops) => NoCall(Without(s, i), ops)
         /\ s[i].op \notin ops /\ NoCall(Without(s, i), ops) => NoCall(s, ops)
         /\ s[i].op \notin ops /\ OneCall(s, ops) => OneCall(Without(s, i), ops)
         /\ s[i].op \in ops /\ OneCall(s, ops) => NoCall(Without(s, i), ops)
<1> DEFINE w == Without(s, i)
<1>1. w \in Seq(S)
  BY WithoutIs
<1>2. /\ \A j \in DOMAIN w : Place(i, j) \in DOMAIN s \ {i} /\ w[j] = s[Place(i, j)]
      /\ \A k \in DOMAIN s \ {i} : \E j \in DOMAIN w : Place(i, j) = k
      /\ \A j, l \in DOMAIN w : Place(i, j) = Place(i, l) => j = l
  BY WithoutPlaces
<1> HIDE DEF w
<1>3. NoCall(s, ops) => NoCall(w, ops)
  BY <1>2 DEF NoCall
<1>4. s[i].op \notin ops /\ NoCall(w, ops) => NoCall(s, ops)
  BY <1>2 DEF NoCall
<1>5. s[i].op \in ops /\ OneCall(s, ops) => NoCall(w, ops)
  BY <1>2 DEF NoCall, OneCall
<1>6. ASSUME s[i].op \notin ops, OneCall(s, ops)
      PROVE  OneCall(w, ops)
  <2>1. PICK k \in DOMAIN s : \A j \in DOMAIN s : s[j].op \in ops <=> j = k
    BY <1>6 DEF OneCall
  <2>2. PICK l \in DOMAIN w : Place(i, l) = k
    BY <1>2, <1>6, <2>1
  <2>3. \A j \in DOMAIN w : w[j].op \in ops <=> j = l
    BY <1>2, <2>1, <2>2
  <2> QED
    BY <2>3 DEF OneCall
<1> QED
  BY <1>1, <1>3, <1>4, <1>5, <1>6 DEF w

\* A request more.
LEMMA AppendFacts ==
  ASSUME NEW S, NEW s \in Seq(S), NEW c \in S, NEW ops
  PROVE  /\ s \o <<c>> \in Seq(S)
         /\ c.op \notin ops /\ NoCall(s, ops) => NoCall(s \o <<c>>, ops)
         /\ c.op \in ops => ~NoCall(s \o <<c>>, ops)
         /\ NoCall(s \o <<c>>, ops) => NoCall(s, ops)
         /\ c.op \notin ops /\ OneCall(s, ops) => OneCall(s \o <<c>>, ops)
         /\ c.op \in ops /\ NoCall(s, ops) => OneCall(s \o <<c>>, ops)
<1> DEFINE t == s \o <<c>>
<1>1. /\ t \in Seq(S) /\ Len(t) = Len(s) + 1 /\ Len(s) \in Nat
      /\ \A k \in 1 .. Len(s) : t[k] = s[k]
      /\ t[Len(s) + 1] = c
  OBVIOUS
<1>2. DOMAIN t = 1 .. Len(s) + 1 /\ DOMAIN s = 1 .. Len(s)
  BY <1>1
<1> HIDE DEF t
<1>3. DOMAIN t = DOMAIN s \cup {Len(s) + 1} /\ Len(s) + 1 \notin DOMAIN s
  BY <1>1, <1>2
<1>4. \A k \in DOMAIN s : t[k] = s[k]
  BY <1>1, <1>2
<1>5. /\ c.op \notin ops /\ NoCall(s, ops) => NoCall(t, ops)
      /\ c.op \in ops => ~NoCall(t, ops)
      /\ NoCall(t, ops) => NoCall(s, ops)
  BY <1>1, <1>3, <1>4 DEF NoCall
<1>6. c.op \notin ops /\ OneCall(s, ops) => OneCall(t, ops)
  BY <1>1, <1>3, <1>4 DEF OneCall
<1>7. c.op \in ops /\ NoCall(s, ops) => OneCall(t, ops)
  BY <1>1, <1>3, <1>4 DEF OneCall, NoCall
<1> QED
  BY <1>1, <1>5, <1>6, <1>7 DEF t

\* A request answered.
LEMMA AnswerFacts ==
  ASSUME NEW S, NEW s \in Seq(S), NEW i \in DOMAIN s, NEW v,
         [s[i] EXCEPT !.answer = v] \in S, [s[i] EXCEPT !.answer = v].op = s[i].op, NEW ops
  PROVE  /\ [s EXCEPT ![i].answer = v] \in Seq(S)
         /\ NoCall([s EXCEPT ![i].answer = v], ops) <=> NoCall(s, ops)
         /\ OneCall(s, ops) => OneCall([s EXCEPT ![i].answer = v], ops)
<1> DEFINE t == [s EXCEPT ![i].answer = v]
<1>1. /\ t \in Seq(S) /\ DOMAIN t = DOMAIN s
      /\ \A k \in DOMAIN s : t[k] = IF k = i THEN [s[i] EXCEPT !.answer = v] ELSE s[k]
  OBVIOUS
<1>2. \A k \in DOMAIN s : t[k].op \in ops <=> s[k].op \in ops
  BY <1>1
<1> HIDE DEF t
<1>3. NoCall(t, ops) <=> NoCall(s, ops)
  BY <1>1, <1>2 DEF NoCall
<1>4. OneCall(s, ops) => OneCall(t, ops)
  BY <1>1, <1>2 DEF OneCall
<1> QED
  BY <1>1, <1>3, <1>4 DEF t

\* What NoCall and OneCall say of the set of such requests.
LEMMA SentIs ==
  ASSUME NEW s, NEW ops, NEW sent, sent = {k \in DOMAIN s : s[k].op \in ops}
  PROVE  /\ NoCall(s, ops) <=> sent = {}
         /\ OneCall(s, ops) => Cardinality(sent) = 1
<1>1. NoCall(s, ops) <=> sent = {}
  BY DEF NoCall
<1>2. ASSUME OneCall(s, ops)
      PROVE  Cardinality(sent) = 1
  <2>1. PICK k : sent = {k}
    BY <1>2 DEF OneCall
  <2> QED
    BY <2>1, FS_Singleton
<1> QED
  BY <1>1, <1>2

-----------------------------------------------------------------------------
(* What a page shows, as long as no load was overtaken.                    *)

\* An answer that brings something, not an error.
Good(a) == a \notin {Pending, Failed}

\* A write was executed, and its continuation, which loads, is still to come.
Executed(s) == \E k \in DOMAIN s : s[k].op # "load" /\ Good(s[k].answer)

\* Loads are answered in the order they were sent; errors come in any order.
InOrder(s) == \A j, k \in Loads(s) : j < k /\ Good(s[k].answer) => s[j].answer # Pending

Latest(s, k) == k \in Loads(s) /\ \A j \in Loads(s) : j <= k

\* What is shown, or will be when the load sent last is applied, is the data as
\* they are now, but for a write of the page, which loads again.
UpToDate(s, shown, error, data, moved) ==
  /\ InOrder(s)
  /\ Loads(s) = {} /\ ~error /\ ~moved => shown = data \/ Executed(s)
  /\ \A k \in Loads(s) : Latest(s, k) /\ Good(s[k].answer) /\ ~moved => s[k].answer = data \/ Executed(s)

\* The load sent last has yet to read the data.
LEMMA NewLoad ==
  ASSUME NEW S, NEW s \in Seq(S), NEW c, c.op = "load", c.answer = Pending, InOrder(s),
         NEW shown, NEW error, NEW data, NEW moved
  PROVE  UpToDate(s \o <<c>>, shown, error, data, moved)
<1> DEFINE t == s \o <<c>>
           n == Len(s) + 1
<1>1. /\ Len(s) \in Nat /\ DOMAIN s = 1 .. Len(s) /\ DOMAIN t = 1 .. n
      /\ \A k \in DOMAIN s : t[k] = s[k]
      /\ t[n] = c
  OBVIOUS
<1> HIDE DEF t
<1>2. Loads(t) = Loads(s) \cup {n} /\ \A k \in Loads(s) : k < n /\ k \in DOMAIN s
  BY <1>1 DEF Loads
<1>3. ~Good(t[n].answer)
  BY <1>1 DEF Good
<1>4. InOrder(t)
  <2>1. SUFFICES ASSUME NEW j \in Loads(t), NEW k \in Loads(t), j < k, Good(t[k].answer)
                 PROVE  t[j].answer # Pending
    BY DEF InOrder
  <2>2. k \in Loads(s) /\ j \in Loads(s)
    BY <1>1, <1>2, <1>3, <2>1
  <2> QED
    BY <1>1, <1>2, <2>1, <2>2 DEF InOrder
<1>5. \A k \in Loads(t) : Latest(t, k) => ~Good(t[k].answer)
  <2>1. SUFFICES ASSUME NEW k \in Loads(t), Latest(t, k)
                 PROVE  k = n
    BY <1>3
  <2> QED
    BY <1>1, <1>2, <2>1 DEF Latest
<1> QED
  BY <1>2, <1>4, <1>5 DEF UpToDate, t

\* A write is sent.
LEMMA NewWrite ==
  ASSUME NEW S, NEW s \in Seq(S), NEW c, c.op # "load", c.answer = Pending,
         NEW shown, NEW error, NEW data, NEW moved, UpToDate(s, shown, error, data, moved)
  PROVE  UpToDate(s \o <<c>>, shown, error, data, moved)
<1> DEFINE t == s \o <<c>>
<1>1. /\ Len(s) \in Nat /\ DOMAIN s = 1 .. Len(s) /\ DOMAIN t = 1 .. Len(s) + 1
      /\ \A k \in DOMAIN s : t[k] = s[k]
      /\ t[Len(s) + 1] = c
  OBVIOUS
<1> HIDE DEF t
<1>2. Loads(t) = Loads(s) /\ \A k \in Loads(s) : t[k] = s[k]
  BY <1>1 DEF Loads
<1>3. Executed(s) => Executed(t)
  BY <1>1 DEF Executed
<1>4. InOrder(t)
  BY <1>2 DEF InOrder, UpToDate
<1>5. \A k \in Loads(s) : Latest(t, k) => Latest(s, k)
  BY <1>2 DEF Latest
<1> QED
  BY <1>2, <1>3, <1>4, <1>5 DEF UpToDate, t

\* What is left of the loads when request i is continued from.
LEMMA LoadsWithout ==
  ASSUME NEW S, NEW s \in Seq(S), NEW i \in DOMAIN s
  PROVE  LET w == Without(s, i)
         IN  /\ \A j \in DOMAIN w : Place(i, j) \in DOMAIN s \ {i} /\ w[j] = s[Place(i, j)]
             /\ \A k \in DOMAIN s \ {i} : \E j \in DOMAIN w : Place(i, j) = k
             /\ \A j \in DOMAIN w : j \in Loads(w) <=> Place(i, j) \in Loads(s)
             /\ \A j, k \in DOMAIN w : j < k <=> Place(i, j) < Place(i, k)
             /\ DOMAIN w \subseteq Nat
<1> DEFINE w == Without(s, i)
<1>1. /\ \A j \in DOMAIN w : Place(i, j) \in DOMAIN s \ {i} /\ w[j] = s[Place(i, j)]
      /\ \A k \in DOMAIN s \ {i} : \E j \in DOMAIN w : Place(i, j) = k
  BY WithoutPlaces
<1>2. w \in Seq(S) /\ i \in Nat
  BY WithoutIs
<1> HIDE DEF w
<1>3. DOMAIN w \subseteq Nat
  BY <1>2
<1>4. \A j, k \in DOMAIN w : j < k <=> Place(i, j) < Place(i, k)
  BY <1>2, <1>3 DEF Place
<1>5. \A j \in DOMAIN w : j \in Loads(w) <=> Place(i, j) \in Loads(s)
  BY <1>1 DEF Loads
<1> QED
  BY <1>1, <1>3, <1>4, <1>5 DEF w

\* Loads stay in order when one request is gone.
LEMMA OrderWithout ==
  ASSUME NEW S, NEW s \in Seq(S), NEW i \in DOMAIN s, InOrder(s)
  PROVE  InOrder(Without(s, i))
<1> DEFINE w == Without(s, i)
<1>1. /\ \A j \in DOMAIN w : w[j] = s[Place(i, j)]
      /\ \A j \in DOMAIN w : j \in Loads(w) <=> Place(i, j) \in Loads(s)
      /\ \A j, k \in DOMAIN w : j < k <=> Place(i, j) < Place(i, k)
  BY LoadsWithout
<1> HIDE DEF w
<1>2. Loads(w) \subseteq DOMAIN w
  BY DEF Loads
<1>3. InOrder(w)
  BY <1>1, <1>2 DEF InOrder
<1> QED
  BY <1>3 DEF w

\* The oldest load is applied: what it brings is shown, or its error is.
LEMMA LoadApplied ==
  ASSUME NEW S, NEW s \in Seq(S), NEW i \in Loads(s), \A j \in Loads(s) : ~ (j < i),
         NEW shown, NEW error, NEW data, NEW moved, UpToDate(s, shown, error, data, moved),
         s[i].answer # Pending, NEW shown2, NEW error2,
         IF s[i].answer = Failed THEN error2 ELSE shown2 = s[i].answer
  PROVE  UpToDate(Without(s, i), shown2, error2, data, moved)
<1> DEFINE w == Without(s, i)
<1>0. i \in DOMAIN s /\ s[i].op = "load" /\ DOMAIN s \subseteq Nat
  BY DEF Loads
<1>1. /\ \A j \in DOMAIN w : Place(i, j) \in DOMAIN s \ {i} /\ w[j] = s[Place(i, j)]
      /\ \A k \in DOMAIN s \ {i} : \E j \in DOMAIN w : Place(i, j) = k
      /\ \A j \in DOMAIN w : j \in Loads(w) <=> Place(i, j) \in Loads(s)
      /\ \A j, k \in DOMAIN w : j < k <=> Place(i, j) < Place(i, k)
      /\ DOMAIN w \subseteq Nat
  BY <1>0, LoadsWithout
<1>2. InOrder(w)
  BY <1>0, OrderWithout DEF UpToDate
<1> HIDE DEF w
<1>3. Loads(w) \subseteq DOMAIN w /\ Loads(s) \subseteq DOMAIN s
  BY DEF Loads
<1>4. Executed(s) => Executed(w)
  <2>1. SUFFICES ASSUME NEW k \in DOMAIN s, s[k].op # "load", Good(s[k].answer)
                 PROVE  Executed(w)
    BY DEF Executed
  <2>2. PICK j \in DOMAIN w : Place(i, j) = k
    BY <1>0, <1>1, <2>1
  <2> QED
    BY <1>1, <2>1, <2>2 DEF Executed
<1>5. ASSUME Loads(w) = {}, ~error2, ~moved
      PROVE  shown2 = data \/ Executed(w)
  <2>1. \A k \in Loads(s) : k = i
    BY <1>1, <1>3, <1>5
  <2>2. Latest(s, i)
    BY <1>0, <2>1 DEF Latest
  <2>3. s[i].answer = shown2 /\ Good(s[i].answer)
    BY <1>5 DEF Good
  <2> QED
    BY <1>4, <1>5, <2>2, <2>3 DEF UpToDate
<1>6. ASSUME NEW k \in Loads(w), Latest(w, k), Good(w[k].answer), ~moved
      PROVE  w[k].answer = data \/ Executed(w)
  <2>1. Place(i, k) \in Loads(s) /\ w[k] = s[Place(i, k)]
    BY <1>1, <1>3, <1>6
  <2>2. Latest(s, Place(i, k))
    <3>1. SUFFICES ASSUME NEW l \in Loads(s)
                   PROVE  l <= Place(i, k)
      BY <2>1 DEF Latest
    <3>2. CASE l = i
      BY <1>0, <1>3, <2>1, <3>2
    <3>3. CASE l # i
      <4>1. PICK j \in DOMAIN w : Place(i, j) = l
        BY <1>1, <1>3, <3>1, <3>3
      <4>2. j \in Loads(w)
        BY <1>1, <3>1, <4>1
      <4>3. j <= k
        BY <1>6, <4>2 DEF Latest
      <4>4. ~ (k < j)
        BY <1>1, <1>3, <4>2, <4>3
      <4> QED
        BY <1>0, <1>1, <1>3, <2>1, <4>1, <4>4
    <3> QED
      BY <3>2, <3>3
  <2> QED
    BY <1>4, <1>6, <2>1, <2>2 DEF UpToDate
<1> QED
  BY <1>2, <1>5, <1>6 DEF UpToDate, w

\* A write that failed is continued from, and loads nothing.
LEMMA WriteForgotten ==
  ASSUME NEW S, NEW s \in Seq(S), NEW i \in DOMAIN s, s[i].op # "load", s[i].answer = Failed,
         NEW shown, NEW error, NEW data, NEW moved, UpToDate(s, shown, error, data, moved)
  PROVE  UpToDate(Without(s, i), shown, error, data, moved)
<1> DEFINE w == Without(s, i)
<1>1. /\ \A j \in DOMAIN w : Place(i, j) \in DOMAIN s \ {i} /\ w[j] = s[Place(i, j)]
      /\ \A k \in DOMAIN s \ {i} : \E j \in DOMAIN w : Place(i, j) = k
      /\ \A j \in DOMAIN w : j \in Loads(w) <=> Place(i, j) \in Loads(s)
      /\ \A j, k \in DOMAIN w : j < k <=> Place(i, j) < Place(i, k)
      /\ DOMAIN w \subseteq Nat
  BY LoadsWithout
<1>2. InOrder(w)
  BY OrderWithout DEF UpToDate
<1> HIDE DEF w
<1>3. /\ Loads(w) \subseteq DOMAIN w /\ Loads(s) \subseteq DOMAIN s /\ i \notin Loads(s)
      /\ DOMAIN s \subseteq Nat
  BY DEF Loads
<1>4. Executed(s) => Executed(w)
  <2>1. SUFFICES ASSUME NEW k \in DOMAIN s, s[k].op # "load", Good(s[k].answer)
                 PROVE  Executed(w)
    BY DEF Executed
  <2>2. PICK j \in DOMAIN w : Place(i, j) = k
    BY <1>1, <2>1 DEF Good
  <2> QED
    BY <1>1, <2>1, <2>2 DEF Executed
<1>5. Loads(w) = {} => Loads(s) = {}
  BY <1>1, <1>3
<1>6. ASSUME NEW k \in Loads(w), Latest(w, k)
      PROVE  Latest(s, Place(i, k)) /\ w[k] = s[Place(i, k)]
  <2>1. Place(i, k) \in Loads(s) /\ w[k] = s[Place(i, k)]
    BY <1>1, <1>3
  <2>2. ASSUME NEW l \in Loads(s)
        PROVE  l <= Place(i, k)
    <3>1. PICK j \in DOMAIN w : Place(i, j) = l
      BY <1>1, <1>3
    <3>2. j \in Loads(w)
      BY <1>1, <3>1
    <3>3. j <= k
      BY <1>6, <3>2 DEF Latest
    <3>4. ~ (k < j)
      BY <1>1, <1>3, <3>2, <3>3
    <3> QED
      BY <1>1, <1>3, <2>1, <3>1, <3>4
  <2> QED
    BY <2>1, <2>2 DEF Latest
<1>7. \A k \in Loads(w) : Latest(w, k) /\ Good(w[k].answer) /\ ~moved => w[k].answer = data \/ Executed(w)
  BY <1>4, <1>6 DEF UpToDate, Latest
<1> QED
  BY <1>2, <1>4, <1>5, <1>7 DEF UpToDate, w

\* t is s with the answer v to request i.
Answers(s, i, v, t) ==
  /\ DOMAIN t = DOMAIN s /\ t[i].op = s[i].op /\ t[i].with = s[i].with /\ t[i].answer = v
  /\ \A k \in DOMAIN s \ {i} : t[k] = s[k]

Shaped(S) == \A c \in S : c = [op |-> c.op, with |-> c.with, answer |-> c.answer]

\* Requests have no other field.
LEMMA RequestsShaped ==
  ASSUME NEW ops, NEW withs, NEW answers
  PROVE  Shaped(Requests(ops, withs, answers))
  BY DEF Shaped, Requests

\* What it is to answer a request.
LEMMA Answering ==
  ASSUME NEW S, Shaped(S), NEW s \in Seq(S), NEW i \in DOMAIN s, NEW v
  PROVE  Answers(s, i, v, [s EXCEPT ![i].answer = v])
<1> DEFINE t == [s EXCEPT ![i].answer = v]
<1>1. /\ DOMAIN t = DOMAIN s /\ t[i] = [s[i] EXCEPT !.answer = v]
      /\ \A k \in DOMAIN s \ {i} : t[k] = s[k]
  OBVIOUS
<1>2. s[i] = [op |-> s[i].op, with |-> s[i].with, answer |-> s[i].answer]
  BY DEF Shaped
<1>3. t[i].op = s[i].op /\ t[i].with = s[i].with /\ t[i].answer = v
  BY <1>1, <1>2
<1> QED
  BY <1>1, <1>3 DEF Answers

\* An answered load is a load still.
LEMMA AnswersKeepLoads ==
  ASSUME NEW s, NEW i \in DOMAIN s, NEW v, NEW t, Answers(s, i, v, t)
  PROVE  Loads(t) = Loads(s)
  BY DEF Answers, Loads

\* Load i reads the data, and no older one is still unanswered.
LEMMA LoadServed ==
  ASSUME NEW S, NEW s \in Seq(S), NEW i \in Loads(s), NEW v,
         s[i].answer = Pending, \A j \in Loads(s) : j < i => s[j].answer # Pending,
         NEW shown, NEW error, NEW data, NEW moved, InOrder(s), ~moved => v = data,
         NEW t, Answers(s, i, v, t)
  PROVE  UpToDate(t, shown, error, data, moved)
<1>0. i \in DOMAIN s /\ s[i].op = "load" /\ DOMAIN s \subseteq Nat /\ Loads(s) \subseteq DOMAIN s
  BY DEF Loads
<1>1. /\ t[i].answer = v
      /\ \A k \in DOMAIN s \ {i} : t[k] = s[k]
      /\ Loads(t) = Loads(s)
  BY <1>0, AnswersKeepLoads DEF Answers
<1>2. InOrder(t)
  <2>1. SUFFICES ASSUME NEW j \in Loads(s), NEW k \in Loads(s), j < k, Good(t[k].answer)
                 PROVE  t[j].answer # Pending
    BY <1>1 DEF InOrder
  <2>2. CASE k = i
    BY <1>0, <1>1, <2>1, <2>2
  <2>3. CASE k # i
    <3>1. s[j].answer # Pending
      BY <1>0, <1>1, <2>1, <2>3 DEF InOrder
    <3> QED
      BY <1>0, <1>1, <2>1, <3>1
  <2> QED
    BY <2>2, <2>3
<1>3. ASSUME NEW k \in Loads(s), Latest(s, k), Good(t[k].answer), ~moved
      PROVE  t[k].answer = data
  <2>1. CASE k = i
    BY <1>1, <1>3, <2>1
  <2>2. CASE k # i
    <3>1. i < k
      BY <1>0, <1>3, <2>2 DEF Latest
    <3> QED
      BY <1>0, <1>1, <1>3, <2>2, <3>1 DEF InOrder
  <2> QED
    BY <2>1, <2>2
<1> QED
  BY <1>1, <1>2, <1>3 DEF UpToDate, Latest

\* A request fails, and the data are as they were unless moved says so.
LEMMA CallFailed ==
  ASSUME NEW S, NEW s \in Seq(S), NEW i \in DOMAIN s, s[i].answer = Pending,
         NEW shown, NEW error, NEW data, NEW moved, UpToDate(s, shown, error, data, moved),
         NEW t, Answers(s, i, Failed, t)
  PROVE  UpToDate(t, shown, error, data, moved)
<1>1. /\ DOMAIN t = DOMAIN s /\ t[i].answer = Failed
      /\ \A k \in DOMAIN s \ {i} : t[k] = s[k]
      /\ Loads(t) = Loads(s)
  BY AnswersKeepLoads DEF Answers
<1>2. \A k \in DOMAIN s : Good(t[k].answer) => k # i /\ t[k] = s[k]
  BY <1>1 DEF Good
<1>3. Loads(s) \subseteq DOMAIN s
  BY DEF Loads
<1>4. Executed(s) => Executed(t)
  BY <1>1 DEF Executed, Good
<1>5. InOrder(t)
  <2>1. SUFFICES ASSUME NEW j \in Loads(s), NEW k \in Loads(s), j < k, Good(t[k].answer)
                 PROVE  t[j].answer # Pending
    BY <1>1 DEF InOrder
  <2>2. s[j].answer # Pending
    BY <1>2, <1>3, <2>1 DEF InOrder, UpToDate
  <2> QED
    BY <1>1, <1>3, <2>1, <2>2 DEF InOrder, UpToDate
<1>6. \A k \in Loads(s) : Latest(t, k) /\ Good(t[k].answer) /\ ~moved => t[k].answer = data \/ Executed(t)
  BY <1>1, <1>2, <1>3, <1>4 DEF UpToDate, Latest
<1> QED
  BY <1>1, <1>4, <1>5, <1>6 DEF UpToDate

\* A write of the page is executed: it will be loaded.
LEMMA WriteExecuted ==
  ASSUME NEW S, NEW s \in Seq(S), NEW i \in DOMAIN s, NEW v,
         s[i].op # "load", Good(v), InOrder(s),
         NEW shown, NEW error, NEW data, NEW moved,
         NEW t, Answers(s, i, v, t)
  PROVE  UpToDate(t, shown, error, data, moved)
<1>1. /\ DOMAIN t = DOMAIN s /\ t[i].op = s[i].op /\ t[i].answer = v
      /\ \A k \in DOMAIN s \ {i} : t[k] = s[k]
      /\ Loads(t) = Loads(s)
  BY AnswersKeepLoads DEF Answers
<1>2. Executed(t)
  BY <1>1 DEF Executed
<1>3. \A k \in Loads(s) : t[k] = s[k]
  BY <1>1 DEF Loads
<1> QED
  BY <1>1, <1>2, <1>3 DEF UpToDate, InOrder, Latest

\* What is shown, error and data being those of a page.
Shows(shown, error, data) == ~overtaken => UpToDate(calls, shown, error, data, changed)

\* A load is sent: an older one still in flight stays one that was overtaken.
LEMMA LoadSent ==
  ASSUME NEW S, NEW s \in Seq(S), NEW c, c.op = "load", c.answer = Pending,
         NEW before, NEW after, after = Forget(s, <<c>>, before), ~before => InOrder(s),
         NEW shown, NEW error, NEW data, NEW moved
  PROVE  ~after => UpToDate(s \o <<c>>, shown, error, data, moved)
<1>1. Loads(s) = {} => InOrder(s)
  BY DEF InOrder
<1>2. ~after => InOrder(s)
  BY <1>1 DEF Forget
<1> QED
  BY <1>2, NewLoad

\* A write is sent, which leaves the loads as they are.
LEMMA WriteSent ==
  ASSUME NEW s, NEW c, c.op # "load", NEW before, NEW after, after = Forget(s, <<c>>, before)
  PROVE  ~after => ~before
<1>1. Loads(<<c>>) = {}
  BY DEF Loads
<1> QED
  BY <1>1 DEF Forget

\* A request is continued from and nothing is sent: what was overtaken stays so.
LEMMA KeptOrder ==
  ASSUME NEW s, NEW i, NEW before, NEW after,
         after = Forget(Without(s, i), <<>>, before \/ (i \in Loads(s) /\ \E j \in Loads(s) : j < i))
  PROVE  ~after => ~before /\ (i \in Loads(s) => \A j \in Loads(s) : ~ (j < i))
<1>1. Loads(<<>>) = {}
  BY DEF Loads
<1> QED
  BY <1>1 DEF Forget

\* When others have changed the data, only the order of the loads matters.
LEMMA Moved ==
  ASSUME NEW s, NEW shown, NEW error, NEW data, InOrder(s)
  PROVE  UpToDate(s, shown, error, data, TRUE)
  BY DEF UpToDate

\* A page is mounted with one load in flight.
LEMMA FirstLoad ==
  ASSUME NEW c, c.op = "load", c.answer = Pending, NEW shown, NEW error, NEW data, NEW moved
  PROVE  UpToDate(<<c>>, shown, error, data, moved)
<1>1. Loads(<<c>>) = {1}
  BY DEF Loads
<1> QED
  BY <1>1 DEF UpToDate, InOrder, Good

\* Once every answer is there, what is shown is the data.
LEMMA NothingInFlight ==
  ASSUME NEW s, s = <<>>, NEW shown, NEW error, NEW data, NEW moved,
         UpToDate(s, shown, error, data, moved), ~error, ~moved
  PROVE  shown = data
<1>1. Loads(s) = {} /\ ~Executed(s)
  BY DEF Loads, Executed
<1> QED
  BY <1>1 DEF UpToDate

\* What a load asks for says nothing of when it is answered.
LEMMA SameAnswers ==
  ASSUME NEW s, NEW t, DOMAIN t = DOMAIN s,
         \A k \in DOMAIN s : t[k].op = s[k].op /\ t[k].answer = s[k].answer,
         NEW shown, NEW error, NEW data, NEW moved, UpToDate(s, shown, error, data, moved)
  PROVE  UpToDate(t, shown, error, data, moved)
<1>1. Loads(t) = Loads(s) /\ Loads(s) \subseteq DOMAIN s
  BY DEF Loads
<1>2. Executed(s) => Executed(t)
  BY DEF Executed
<1>3. InOrder(t)
  BY <1>1 DEF InOrder, UpToDate
<1> QED
  BY <1>1, <1>2, <1>3 DEF UpToDate, Latest

\* The number of a write that was executed is no error.
LEMMA NumbersAreGood == \A n \in Nat : Good(n)
  BY ConsoleAssumption DEF Good

\* What is shown, or was asked for last, is what is asked for by the page.
Matches(s, asked, error, shown) ==
  IF s = <<>> THEN ~error => shown = asked ELSE s[Len(s)].with = asked

\* A handler sends one more request, for what is asked for now.
LEMMA AskedLast ==
  ASSUME NEW S, NEW s \in Seq(S), NEW c, NEW error, NEW shown
  PROVE  Matches(s \o <<c>>, c.with, error, shown)
  BY DEF Matches

\* The oldest request is continued from: what it brings is what it was sent for.
LEMMA BroughtOrAsked ==
  ASSUME NEW S, NEW s \in Seq(S), NEW i \in DOMAIN s, \A j \in DOMAIN s : ~ (j < i),
         NEW asked, NEW error, NEW shown, Matches(s, asked, error, shown),
         NEW error2, NEW shown2, IF s[i].answer = Failed THEN error2 ELSE shown2 = s[i].with
  PROVE  Matches(Without(s, i), asked, error2, shown2)
<1> DEFINE w == Without(s, i)
<1>1. /\ w \in Seq(S) /\ Len(w) = Len(s) - 1
      /\ \A k \in 1 .. Len(s) - 1 : w[k] = IF k < i THEN s[k] ELSE s[k + 1]
  BY WithoutIs
<1>2. Len(s) \in Nat /\ DOMAIN s = 1 .. Len(s) /\ i = 1 /\ s # <<>>
  <2>1. Len(s) \in Nat /\ DOMAIN s = 1 .. Len(s)
    OBVIOUS
  <2>2. i \in 1 .. Len(s) /\ ~ (1 < i)
    BY <2>1
  <2> QED
    BY <2>1, <2>2
<1> HIDE DEF w
<1>3. s[Len(s)].with = asked
  BY <1>2 DEF Matches
<1>4. CASE Len(s) = 1
  <2>1. w = <<>>
    BY <1>1, <1>4
  <2> QED
    BY <1>2, <1>3, <1>4, <2>1 DEF Matches, w
<1>5. CASE Len(s) # 1
  <2>1. Len(w) \in 1 .. Len(s) - 1 /\ Len(w) + 1 = Len(s)
    BY <1>1, <1>2, <1>5
  <2>2. w[Len(w)] = s[Len(s)] /\ w # <<>>
    BY <1>1, <1>2, <2>1
  <2> QED
    BY <1>3, <2>2 DEF Matches, w
<1> QED
  BY <1>4, <1>5

\* Answers say nothing of what was asked for.
LEMMA AskedStill ==
  ASSUME NEW S, NEW s \in Seq(S), NEW i \in DOMAIN s, NEW v, NEW t \in Seq(S), Answers(s, i, v, t),
         NEW asked, NEW error, NEW shown, Matches(s, asked, error, shown)
  PROVE  Matches(t, asked, error, shown)
<1>1. Len(t) = Len(s) /\ Len(s) \in Nat /\ DOMAIN s = 1 .. Len(s) /\ s # <<>> /\ t # <<>>
  BY DEF Answers
<1>2. t[Len(s)].with = s[Len(s)].with
  BY <1>1 DEF Answers
<1> QED
  BY <1>1, <1>2 DEF Matches

\* Two requests sent at once are sent one after the other.
LEMMA TwoSent ==
  ASSUME NEW S, NEW s \in Seq(S), NEW a \in S, NEW b \in S
  PROVE  s \o <<a, b>> = (s \o <<a>>) \o <<b>>
<1> DEFINE t == s \o <<a, b>>
           r == s \o <<a>>
           u == r \o <<b>>
<1>1. /\ t \in Seq(S) /\ Len(t) = Len(s) + 2
      /\ \A k \in 1 .. Len(s) : t[k] = s[k]
  OBVIOUS
<1>2. t[Len(s) + 1] = a /\ t[Len(s) + 2] = b
  OBVIOUS
<1>3. /\ r \in Seq(S) /\ Len(r) = Len(s) + 1 /\ r[Len(s) + 1] = a
      /\ \A k \in 1 .. Len(s) : r[k] = s[k]
  OBVIOUS
<1> HIDE DEF r, t
<1>4. /\ u \in Seq(S) /\ Len(u) = Len(r) + 1 /\ u[Len(r) + 1] = b
      /\ \A k \in 1 .. Len(r) : u[k] = r[k]
  BY <1>3
<1> HIDE DEF u
<1>5. \A k \in 1 .. Len(s) + 2 : t[k] = u[k]
  BY <1>1, <1>2, <1>3, <1>4
<1>6. t = u
  BY <1>1, <1>3, <1>4, <1>5
<1> QED
  BY <1>6 DEF t, u, r

-----------------------------------------------------------------------------
(* StatusPage.                                                             *)

StatusInv ==
  /\ view \in [status : 0 .. MaxWrites \cup {None}, loading : BOOLEAN, error : BOOLEAN]
  /\ writes \in 0 .. MaxWrites /\ table = writes
  /\ calls \in Seq(Requests({"load"}, {0}, 0 .. MaxWrites))
  /\ IF view.loading THEN OneCall(calls, {"load"}) ELSE NoCall(calls, {"load"})

\* The page is in its invariant when it is first shown.
LEMMA StatusMount ==
  Mount(Status!Initial, <<Load>>, Status!Data) => StatusInv'
<1> SUFFICES ASSUME Mount(Status!Initial, <<Load>>, Status!Data)
             PROVE  StatusInv'
  OBVIOUS
<1>1. Load \in Requests({"load"}, {0}, 0 .. MaxWrites) /\ Load.op = "load"
  BY DEF Load, Call, Requests
<1>2. calls' = <<Load>> /\ view' = Status!Initial /\ writes' = 0 /\ table' = 0
  BY DEF Mount, Status!Data
<1>3. OneCall(<<Load>>, {"load"})
  BY <1>1 DEF OneCall
<1>4. <<Load>> \in Seq(Requests({"load"}, {0}, 0 .. MaxWrites))
  BY <1>1
<1>5. view' = [status |-> None, loading |-> TRUE, error |-> FALSE]
  BY <1>2 DEF Status!Initial, Status!Loading
<1>6. 0 \in 0 .. MaxWrites
  BY ConsoleAssumption
<1> QED
  BY <1>2, <1>3, <1>4, <1>5, <1>6 DEF StatusInv

StatusPageStep ==
  \/ Status!User
  \/ \E i \in DOMAIN calls : Status!Answered(i) \/ Status!Serve(i) \/ Refuse(i)
  \/ Status!Others

\* A step of the page, of its answers or of the server keeps its invariant.
LEMMA StatusStays == StatusInv /\ StatusPageStep => StatusInv'
<1> SUFFICES ASSUME StatusInv, StatusPageStep
             PROVE  StatusInv'
  OBVIOUS
<1> DEFINE S == Requests({"load"}, {0}, 0 .. MaxWrites)
<1>0. Status!Load \in S /\ Status!Load.op = "load"
  BY DEF Status!Load, Status!Call, Requests
<1>1. CASE Status!User
  <2>1. /\ view' = [view EXCEPT !.loading = TRUE, !.error = FALSE]
        /\ calls' = calls \o <<Status!Load>> /\ ~view.loading
        /\ UNCHANGED <<table, writes>>
    BY <1>1 DEF Status!User, Status!Refresh, Status!Loading, Status!Send
  <2> HIDE DEF S
  <2> QED
    BY <1>0, <2>1, AppendFacts DEF StatusInv, S
<1>2. ASSUME NEW i \in DOMAIN calls, Status!Answered(i)
      PROVE  StatusInv'
  <2>1. /\ calls' = Without(calls, i) \o <<>>
        /\ calls[i].answer # Pending
        /\ UNCHANGED <<table, writes>>
        /\ view' = IF calls[i].answer = Failed THEN [view EXCEPT !.error = TRUE, !.loading = FALSE]
                   ELSE [view EXCEPT !.status = calls[i].answer, !.loading = FALSE]
    BY <1>2 DEF Status!Answered, Status!Loaded, Status!Continue, Status!Rest, Without,
                Status!Arrived
  <2>2. calls[i] \in S
    BY DEF StatusInv
  <2>3. calls[i].op = "load" /\ calls[i].answer \in 0 .. MaxWrites \cup {Pending, Failed}
    BY <2>2 DEF Requests
  <2> HIDE DEF S
  <2>4. Without(calls, i) \in Seq(S) /\ NoCall(Without(calls, i), {"load"})
    BY <2>3, WithoutFacts DEF StatusInv, S
  <2>5. calls' = Without(calls, i)
    BY <2>1, <2>4
  <2> QED
    BY <2>1, <2>3, <2>4, <2>5 DEF StatusInv, S
<1>3. ASSUME NEW i \in DOMAIN calls, Status!Serve(i) \/ Refuse(i)
      PROVE  StatusInv'
  <2>1. PICK v \in {table, Failed} : calls' = [calls EXCEPT ![i].answer = v]
    BY <1>3 DEF Status!Serve, Status!Read, Status!Answer, Refuse, Answer
  <2>2. UNCHANGED <<view, table, writes>>
    BY <1>3 DEF Status!Serve, Status!Read, Refuse
  <2>3. calls[i] \in S /\ v \in 0 .. MaxWrites \cup {Pending, Failed}
    BY <2>1 DEF StatusInv
  <2>4. /\ [calls[i] EXCEPT !.answer = v] \in S
        /\ [calls[i] EXCEPT !.answer = v].op = calls[i].op
    BY <2>3 DEF Requests
  <2> HIDE DEF S
  <2>5. calls \in Seq(S)
    BY DEF StatusInv, S
  <2>6. \A ops : /\ calls' \in Seq(S)
                 /\ OneCall(calls, ops) => OneCall(calls', ops)
                 /\ NoCall(calls, ops) => NoCall(calls', ops)
    BY <2>1, <2>4, <2>5, AnswerFacts
  <2> QED
    BY <2>2, <2>6 DEF StatusInv, S
<1>4. CASE Status!Others
  BY <1>4, ConsoleAssumption DEF Status!Others, Status!Elsewhere, Status!Counted, StatusInv
<1> QED
  BY <1>1, <1>2, <1>3, <1>4 DEF StatusPageStep

\* The invariant of the page implies its properties.
LEMMA StatusShows == StatusInv => Status!TypeOK /\ Status!BusyForCause
<1> SUFFICES ASSUME StatusInv
             PROVE  Status!TypeOK /\ Status!BusyForCause
  OBVIOUS
<1>1. Status!TypeOK
  BY DEF StatusInv, Status!TypeOK
<1>2. \A k \in DOMAIN calls : calls[k].op \in {"load"}
  <2>1. \A k \in DOMAIN calls : calls[k] \in Requests({"load"}, {0}, 0 .. MaxWrites)
    BY DEF StatusInv
  <2> QED
    BY <2>1 DEF Requests
<1>3. Len(calls) \in Nat /\ DOMAIN calls = 1 .. Len(calls)
  BY DEF StatusInv
<1>4. NoCall(calls, {"load"}) => calls = <<>>
  BY <1>2, <1>3 DEF NoCall, StatusInv
<1>5. OneCall(calls, {"load"}) => Len(calls) = 1
  <2>1. SUFFICES ASSUME NEW k \in DOMAIN calls, \A j \in DOMAIN calls : j = k
                 PROVE  Len(calls) = 1
    BY <1>2 DEF OneCall
  <2>2. 1 \in DOMAIN calls /\ Len(calls) \in DOMAIN calls
    BY <1>3
  <2> QED
    BY <2>1, <2>2
<1> QED
  BY <1>1, <1>4, <1>5 DEF Status!BusyForCause, StatusInv

\* Loads of this page are sent one at a time, and none is overtaken.
StatusCurrent == ~overtaken /\ UpToDate(calls, view.status, view.error, table, changed)

\* The page of the status has asked for what it will show.
LEMMA StatusMountCurrent ==
  Mount(Status!Initial, <<Load>>, Status!Data) => StatusCurrent'
<1> SUFFICES ASSUME Mount(Status!Initial, <<Load>>, Status!Data)
             PROVE  StatusCurrent'
  OBVIOUS
<1>1. calls' = <<Load>> /\ ~overtaken' /\ Load.op = "load" /\ Load.answer = Pending
  BY DEF Mount, Load, Call
<1> QED
  BY <1>1, FirstLoad DEF StatusCurrent

\* A step of the page, of its answers or of the server keeps what it shows.
LEMMA StatusStaysCurrent == StatusInv /\ StatusCurrent /\ StatusPageStep => StatusCurrent'
<1> SUFFICES ASSUME StatusInv, StatusCurrent, StatusPageStep
             PROVE  StatusCurrent'
  OBVIOUS
<1> DEFINE S == Requests({"load"}, {0}, 0 .. MaxWrites)
<1>0. /\ calls \in Seq(S) /\ \A i \in DOMAIN calls : calls[i].op = "load"
      /\ Load \in S /\ Load.op = "load" /\ Load.answer = Pending /\ Status!Load = Load
      /\ InOrder(calls) /\ ~overtaken
  <2>1. calls \in Seq(S) /\ \A i \in DOMAIN calls : calls[i] \in S
    BY DEF StatusInv
  <2> QED
    BY <2>1 DEF Requests, Load, Call, Status!Load, Status!Call, StatusCurrent, UpToDate
<1>a. \A i \in DOMAIN calls : i \in Loads(calls) /\ \A j \in Loads(calls) : ~ (j < i)
  <2>0. Loads(calls) \subseteq Nat /\ DOMAIN calls \subseteq Nat
    BY <1>0 DEF Loads
  <2>1. OneCall(calls, {"load"}) \/ NoCall(calls, {"load"})
    BY DEF StatusInv
  <2> QED
    BY <1>0, <2>0, <2>1 DEF OneCall, NoCall, Loads
<1> HIDE DEF S
<1>1. CASE Status!User
  <2>1. /\ calls' = calls \o <<Load>>
        /\ overtaken' = Forget(calls, <<Load>>, overtaken)
    BY <1>0, <1>1 DEF Status!User, Status!Refresh, Status!Send, Status!Forget, Status!Loads, Forget, Loads
  <2>2. ~overtaken'
    BY <1>0, <2>1 DEF Forget
  <2> QED
    BY <1>0, <2>1, <2>2, LoadSent DEF StatusCurrent
<1>2. ASSUME NEW i \in DOMAIN calls, Status!Answered(i)
      PROVE  StatusCurrent'
  <2>1. /\ calls' = Without(calls, i) \o <<>>
        /\ calls[i].answer # Pending
        /\ overtaken' = Forget(Without(calls, i), <<>>,
                               overtaken \/ (i \in Loads(calls) /\ \E j \in Loads(calls) : j < i))
        /\ UNCHANGED <<table, changed>>
        /\ view' = IF calls[i].answer = Failed THEN [view EXCEPT !.error = TRUE, !.loading = FALSE]
                   ELSE [view EXCEPT !.status = calls[i].answer, !.loading = FALSE]
    BY <1>2 DEF Status!Answered, Status!Loaded, Status!Continue, Status!Rest, Without,
                Status!Arrived, Status!Forget, Status!Loads, Forget, Loads
  <2>2. calls' = Without(calls, i)
    BY <1>0, <2>1, WithoutIs
  <2>3. ~overtaken'
    BY <1>0, <1>a, <2>1 DEF Forget
  <2>4. IF calls[i].answer = Failed THEN view'.error ELSE view'.status = calls[i].answer
    BY <2>1 DEF StatusInv
  <2>5. UpToDate(calls, view.status, view.error, table, changed)
    BY DEF StatusCurrent
  <2>6. UpToDate(Without(calls, i), view'.status, view'.error, table, changed)
    BY <1>0, <1>a, <2>1, <2>4, <2>5, LoadApplied
  <2> QED
    BY <2>1, <2>2, <2>3, <2>6 DEF StatusCurrent
<1>3. ASSUME NEW i \in DOMAIN calls, Status!Serve(i)
      PROVE  StatusCurrent'
  <2>1. /\ calls' = [calls EXCEPT ![i].answer = table] /\ changed' = FALSE
        /\ overtaken' = (overtaken \/ \E j \in Loads(calls) : j < i /\ calls[j].answer = Pending)
        /\ calls[i].answer = Pending
        /\ UNCHANGED <<view, table>>
    BY <1>3 DEF Status!Serve, Status!Read, Status!Answer, Status!Waiting, Status!Loads, Loads
  <2>2. ~overtaken' /\ \A j \in Loads(calls) : j < i => calls[j].answer # Pending
    BY <1>0, <1>a, <2>1
  <2>3. Answers(calls, i, table, calls')
    BY <1>0, <2>1, RequestsShaped, Answering DEF S
  <2> QED
    BY <1>0, <1>a, <2>1, <2>2, <2>3, LoadServed DEF StatusCurrent
<1>4. ASSUME NEW i \in DOMAIN calls, Refuse(i)
      PROVE  StatusCurrent'
  <2>1. /\ calls' = [calls EXCEPT ![i].answer = Failed] /\ calls[i].answer = Pending
        /\ UNCHANGED <<view, table, changed, overtaken>>
    BY <1>4 DEF Refuse, Answer, history
  <2>2. Answers(calls, i, Failed, calls')
    BY <1>0, <2>1, RequestsShaped, Answering DEF S
  <2> QED
    BY <1>0, <2>1, <2>2, CallFailed DEF StatusCurrent
<1>5. CASE Status!Others
  <2>1. UNCHANGED <<view, calls, overtaken>> /\ changed' = TRUE
    BY <1>5 DEF Status!Others, Status!Elsewhere
  <2> QED
    BY <1>0, <2>1, Moved DEF StatusCurrent
<1> QED
  BY <1>1, <1>2, <1>3, <1>4, <1>5 DEF StatusPageStep

\* Once every answer is there, the status shown is current.
LEMMA StatusShowsCurrent == StatusCurrent => Status!ShownIsCurrent
<1> SUFFICES ASSUME StatusCurrent, calls = <<>>, ~changed, ~view.error
             PROVE  view.status = table
  BY DEF Status!ShownIsCurrent, Status!Quiet
<1> QED
  BY NothingInFlight DEF StatusCurrent

-----------------------------------------------------------------------------
(* DashboardPage.                                                          *)

DashboardRequests == Requests({"load"}, 0 .. MaxWrites \cup {None}, SUBSET (0 .. MaxWrites))

DashboardInv ==
  /\ view \in [shown : SUBSET (0 .. MaxWrites), refreshing : BOOLEAN, error : BOOLEAN]
  /\ writes \in 0 .. MaxWrites /\ table = writes
  /\ calls \in Seq(DashboardRequests)
  /\ view.refreshing => calls # <<>>

\* The page is in its invariant when it is first shown.
LEMMA DashboardMount ==
  Mount(Dashboard!Initial, <<Dashboard!Asking>>, Dashboard!Data) => DashboardInv'
<1> SUFFICES ASSUME Mount(Dashboard!Initial, <<Dashboard!Asking>>, Dashboard!Data)
             PROVE  DashboardInv'
  OBVIOUS
<1>1. Dashboard!Asking \in DashboardRequests
  BY DEF Dashboard!Asking, Dashboard!Call, DashboardRequests, Requests
<1>2. /\ calls' = <<Dashboard!Asking>>
      /\ writes' = 0 /\ table' = 0
      /\ view' = [shown |-> {}, refreshing |-> TRUE, error |-> FALSE]
  BY DEF Mount, Dashboard!Data, Dashboard!Initial, Dashboard!Loading
<1>3. calls' \in Seq(DashboardRequests) /\ calls' # <<>>
  BY <1>1, <1>2
<1> QED
  BY <1>2, <1>3, ConsoleAssumption DEF DashboardInv

\* A step of the page, of its answers or of the server keeps its invariant.
LEMMA DashboardStays ==
  ASSUME DashboardInv,
         \/ Dashboard!User
         \/ \E i \in DOMAIN calls : Dashboard!Answered(i) \/ Dashboard!Serve(i) \/ Refuse(i)
         \/ Dashboard!Others
  PROVE  DashboardInv'
<1>0. Dashboard!Asking \in DashboardRequests
  BY DEF Dashboard!Asking, Dashboard!Call, DashboardRequests, Requests
<1>1. CASE Dashboard!User
  <2>1. /\ view' = [view EXCEPT !.refreshing = TRUE, !.error = FALSE]
        /\ calls' = calls \o <<Dashboard!Asking>>
        /\ UNCHANGED <<table, writes>>
    BY <1>1 DEF Dashboard!User, Dashboard!Refresh, Dashboard!Interval, Dashboard!Loading, Dashboard!Send
  <2>2. calls' \in Seq(DashboardRequests) /\ calls' # <<>>
    BY <1>0, <2>1 DEF DashboardInv
  <2> QED
    BY <2>1, <2>2 DEF DashboardInv
<1>2. ASSUME NEW i \in DOMAIN calls, Dashboard!Answered(i)
      PROVE  DashboardInv'
  <2>1. /\ calls' = Without(calls, i) \o <<>>
        /\ calls[i].answer # Pending
        /\ UNCHANGED <<table, writes>>
        /\ view' = IF calls[i].answer = Failed THEN [view EXCEPT !.error = TRUE, !.refreshing = FALSE]
                   ELSE [view EXCEPT !.shown = calls[i].answer, !.refreshing = FALSE]
    BY <1>2 DEF Dashboard!Answered, Dashboard!Loaded, Dashboard!Continue, Dashboard!Rest, Without,
                Dashboard!Arrived
  <2>2. calls[i] \in DashboardRequests
    BY DEF DashboardInv
  <2>3. calls[i].answer \in {Pending, Failed} \cup SUBSET (0 .. MaxWrites)
    BY <2>2 DEF DashboardRequests, Requests
  <2>4. Without(calls, i) \in Seq(DashboardRequests)
    BY WithoutIs DEF DashboardInv
  <2>5. calls' \in Seq(DashboardRequests)
    BY <2>1, <2>4
  <2>6. view' \in [shown : SUBSET (0 .. MaxWrites), refreshing : {FALSE}, error : BOOLEAN]
    BY <2>1, <2>3 DEF DashboardInv
  <2> QED
    BY <2>1, <2>5, <2>6 DEF DashboardInv
<1>3. ASSUME NEW i \in DOMAIN calls, Dashboard!Serve(i) \/ Refuse(i)
      PROVE  DashboardInv'
  <2>1. calls[i] \in DashboardRequests
    BY DEF DashboardInv
  <2>2. \E c \in DashboardRequests : calls' = [calls EXCEPT ![i] = c]
    <3>1. CASE Dashboard!ServeOne(i)
      <4>1. calls' = [calls EXCEPT ![i].with = table] /\ table \in 0 .. MaxWrites
        BY <3>1 DEF Dashboard!ServeOne, DashboardInv
      <4> QED
        BY <2>1, <4>1 DEF DashboardRequests, Requests
    <3>2. CASE Dashboard!ServeOther(i)
      <4>1. /\ calls' = [calls EXCEPT ![i].answer = {calls[i].with, table}]
            /\ calls[i].with # None /\ table \in 0 .. MaxWrites
        BY <3>2 DEF Dashboard!ServeOther, Dashboard!Answer, DashboardInv
      <4>2. {calls[i].with, table} \in SUBSET (0 .. MaxWrites)
        BY <2>1, <4>1 DEF DashboardRequests, Requests
      <4> QED
        BY <2>1, <4>1, <4>2 DEF DashboardRequests, Requests
    <3>3. CASE Refuse(i)
      BY <2>1, <3>3 DEF Refuse, Answer, DashboardRequests, Requests
    <3> QED
      BY <1>3, <3>1, <3>2, <3>3 DEF Dashboard!Serve
  <2>3. calls' \in Seq(DashboardRequests) /\ (calls # <<>> => calls' # <<>>)
    BY <2>2 DEF DashboardInv
  <2>4. UNCHANGED <<view, table, writes>>
    BY <1>3 DEF Dashboard!Serve, Dashboard!ServeOne, Dashboard!ServeOther, Refuse
  <2> QED
    BY <2>3, <2>4 DEF DashboardInv
<1>4. CASE Dashboard!Others
  BY <1>4, ConsoleAssumption DEF Dashboard!Others, Dashboard!Elsewhere, Dashboard!Counted, DashboardInv
<1> QED
  BY <1>1, <1>2, <1>3, <1>4

\* The invariant of the page implies its properties.
LEMMA DashboardShows == DashboardInv => Dashboard!TypeOK /\ Dashboard!BusyForCause
  BY DEF DashboardInv, Dashboard!TypeOK, Dashboard!BusyForCause

DashboardCurrent == Shows(view.shown, view.error, {table})

\* The page of the dashboard has asked for what it will show.
LEMMA DashboardMountCurrent ==
  Mount(Dashboard!Initial, <<Dashboard!Asking>>, Dashboard!Data) => DashboardCurrent'
<1> SUFFICES ASSUME Mount(Dashboard!Initial, <<Dashboard!Asking>>, Dashboard!Data)
             PROVE  DashboardCurrent'
  OBVIOUS
<1>1. /\ calls' = <<Dashboard!Asking>>
      /\ Dashboard!Asking.op = "load" /\ Dashboard!Asking.answer = Pending
  BY DEF Mount, Dashboard!Asking, Dashboard!Call
<1> QED
  BY <1>1, FirstLoad DEF DashboardCurrent, Shows

\* A step of the page, of its answers or of the server keeps what it shows.
LEMMA DashboardStaysCurrent ==
  ASSUME DashboardInv, DashboardCurrent,
         \/ Dashboard!User
         \/ \E i \in DOMAIN calls : Dashboard!Answered(i) \/ Dashboard!Serve(i) \/ Refuse(i)
         \/ Dashboard!Others
  PROVE  DashboardCurrent'
<1>0. /\ calls \in Seq(DashboardRequests)
      /\ \A i \in DOMAIN calls : i \in Loads(calls)
      /\ Dashboard!Asking \in DashboardRequests
      /\ Dashboard!Asking.op = "load" /\ Dashboard!Asking.answer = Pending
      /\ ~overtaken => UpToDate(calls, view.shown, view.error, {table}, changed)
      /\ ~overtaken => InOrder(calls)
  <2>1. calls \in Seq(DashboardRequests) /\ \A i \in DOMAIN calls : calls[i] \in DashboardRequests
    BY DEF DashboardInv
  <2>2. \A i \in DOMAIN calls : i \in Loads(calls)
    BY <2>1 DEF DashboardRequests, Requests, Loads
  <2>3. Dashboard!Asking = [op |-> "load", with |-> None, answer |-> Pending]
    BY DEF Dashboard!Asking, Dashboard!Call
  <2> QED
    BY <2>1, <2>2, <2>3 DEF DashboardRequests, Requests, DashboardCurrent, Shows, UpToDate
<1>1. CASE Dashboard!User
  <2>1. /\ calls' = calls \o <<Dashboard!Asking>>
        /\ overtaken' = Forget(calls, <<Dashboard!Asking>>, overtaken)
    BY <1>1 DEF Dashboard!User, Dashboard!Refresh, Dashboard!Interval, Dashboard!Send,
                Dashboard!Forget, Dashboard!Loads, Forget, Loads
  <2> QED
    BY <1>0, <2>1, LoadSent DEF DashboardCurrent, Shows
<1>2. ASSUME NEW i \in DOMAIN calls, Dashboard!Answered(i)
      PROVE  DashboardCurrent'
  <2>1. /\ calls' = Without(calls, i) \o <<>>
        /\ calls[i].answer # Pending
        /\ overtaken' = Forget(Without(calls, i), <<>>,
                               overtaken \/ (i \in Loads(calls) /\ \E j \in Loads(calls) : j < i))
        /\ UNCHANGED <<table, changed>>
        /\ view' = IF calls[i].answer = Failed THEN [view EXCEPT !.error = TRUE, !.refreshing = FALSE]
                   ELSE [view EXCEPT !.shown = calls[i].answer, !.refreshing = FALSE]
    BY <1>2 DEF Dashboard!Answered, Dashboard!Loaded, Dashboard!Continue, Dashboard!Rest, Without,
                Dashboard!Arrived, Dashboard!Forget, Dashboard!Loads, Forget, Loads
  <2>2. calls' = Without(calls, i)
    BY <1>0, <2>1, WithoutIs
  <2>3. IF calls[i].answer = Failed THEN view'.error ELSE view'.shown = calls[i].answer
    BY <2>1 DEF DashboardInv
  <2>4. ASSUME ~overtaken'
        PROVE  UpToDate(Without(calls, i), view'.shown, view'.error, {table}, changed)
    <3>1. ~overtaken /\ \A j \in Loads(calls) : ~ (j < i)
      BY <1>0, <2>1, <2>4, KeptOrder
    <3> QED
      BY <1>0, <2>1, <2>3, <3>1, LoadApplied
  <2> QED
    BY <2>1, <2>2, <2>4 DEF DashboardCurrent, Shows
<1>3. ASSUME NEW i \in DOMAIN calls, Dashboard!ServeOne(i)
      PROVE  DashboardCurrent'
  <2>1. /\ calls' = [calls EXCEPT ![i].with = table]
        /\ UNCHANGED <<view, table, changed, overtaken>>
    BY <1>3 DEF Dashboard!ServeOne, Dashboard!history
  <2>2. /\ DOMAIN calls' = DOMAIN calls
        /\ \A k \in DOMAIN calls : calls'[k].op = calls[k].op /\ calls'[k].answer = calls[k].answer
    <3>1. calls[i] \in DashboardRequests
      BY <1>0
    <3> QED
      BY <1>0, <2>1, <3>1 DEF DashboardRequests, Requests
  <2>3. ~overtaken' => UpToDate(calls', view.shown, view.error, {table}, changed)
    BY <1>0, <2>1, <2>2, SameAnswers
  <2> QED
    BY <2>1, <2>3 DEF DashboardCurrent, Shows
<1>4. ASSUME NEW i \in DOMAIN calls, Dashboard!ServeOther(i)
      PROVE  DashboardCurrent'
  <2> DEFINE v == {calls[i].with, table}
  <2>1. /\ calls' = [calls EXCEPT ![i].answer = v] /\ changed' = (calls[i].with # table)
        /\ overtaken' = (overtaken \/ \E j \in Loads(calls) : j < i /\ calls[j].answer = Pending)
        /\ calls[i].answer = Pending
        /\ UNCHANGED <<view, table>>
    BY <1>4 DEF Dashboard!ServeOther, Dashboard!Answer, Dashboard!Waiting, Dashboard!Loads, Loads
  <2>2. ~changed' => v = {table}
    BY <2>1
  <2> HIDE DEF v
  <2>3. Answers(calls, i, v, calls')
    BY <1>0, <2>1, RequestsShaped, Answering DEF DashboardRequests
  <2>4. ~overtaken' => ~overtaken /\ \A j \in Loads(calls) : j < i => calls[j].answer # Pending
    BY <2>1
  <2>5. ~overtaken' => UpToDate(calls', view.shown, view.error, {table}, changed')
    BY <1>0, <2>1, <2>2, <2>3, <2>4, LoadServed
  <2> QED
    BY <2>1, <2>5 DEF DashboardCurrent, Shows
<1>5. ASSUME NEW i \in DOMAIN calls, Refuse(i)
      PROVE  DashboardCurrent'
  <2>1. /\ calls' = [calls EXCEPT ![i].answer = Failed] /\ calls[i].answer = Pending
        /\ UNCHANGED <<view, table, changed, overtaken>>
    BY <1>5 DEF Refuse, Answer, history
  <2>2. Answers(calls, i, Failed, calls')
    BY <1>0, <2>1, RequestsShaped, Answering DEF DashboardRequests
  <2> QED
    BY <1>0, <2>1, <2>2, CallFailed DEF DashboardCurrent, Shows
<1>6. CASE Dashboard!Others
  <2>1. UNCHANGED <<view, calls, overtaken>> /\ changed' = TRUE
    BY <1>6 DEF Dashboard!Others, Dashboard!Elsewhere
  <2> QED
    BY <1>0, <2>1, Moved DEF DashboardCurrent, Shows
<1> QED
  BY <1>1, <1>2, <1>3, <1>4, <1>5, <1>6 DEF Dashboard!Serve

\* Once every answer is there, the dashboard shown is current.
LEMMA DashboardShowsCurrent == DashboardCurrent => Dashboard!ShownIsCurrent
<1> SUFFICES ASSUME DashboardCurrent, calls = <<>>, ~overtaken, ~changed, ~view.error
             PROVE  view.shown = {table}
  BY DEF Dashboard!ShownIsCurrent, Dashboard!Quiet
<1> QED
  BY NothingInFlight DEF DashboardCurrent, Shows

-----------------------------------------------------------------------------
(* ApiKeyDetailPage.                                                       *)

Found == [id : Keys, offset : 0 .. MaxPages, total : 0 .. MaxPages]
DetailRequests == Requests({"load"}, [id : Keys, offset : 0 .. MaxPages], Found)

DetailInv ==
  /\ view \in [id : Keys, offset : 0 .. MaxPages, loading : BOOLEAN, error : BOOLEAN,
               detail : Found \cup {None}]
  /\ calls \in Seq(DetailRequests)
  /\ view.loading => calls # <<>>

\* The page is in its invariant when it is first shown.
LEMMA DetailMount ==
  ASSUME NEW v \in Detail!Initials, Mount(v, <<Detail!Asking(v)>>, Detail!Data)
  PROVE  DetailInv'
<1>1. PICK k \in Keys :
        v = [id |-> k, detail |-> None, offset |-> 0, loading |-> TRUE, error |-> FALSE]
  BY DEF Detail!Initials
<1>2. 0 \in 0 .. MaxPages
  BY ConsoleAssumption
<1>3. Detail!Asking(v) \in DetailRequests
  BY <1>1, <1>2 DEF Detail!Asking, Detail!Call, DetailRequests, Requests
<1>4. calls' = <<Detail!Asking(v)>> /\ view' = v
  BY DEF Mount
<1>5. calls' \in Seq(DetailRequests) /\ calls' # <<>>
  BY <1>3, <1>4
<1> QED
  BY <1>1, <1>2, <1>4, <1>5 DEF DetailInv

\* A step of the page, of its answers or of the server keeps its invariant.
LEMMA DetailStays ==
  ASSUME DetailInv,
         \/ Detail!User
         \/ \E i \in DOMAIN calls : Detail!Answered(i) \/ Detail!Serve(i) \/ Refuse(i)
  PROVE  DetailInv'
<1> DEFINE Views == [id : Keys, offset : 0 .. MaxPages, loading : BOOLEAN, error : BOOLEAN,
                     detail : Found \cup {None}]
<1>1. ASSUME NEW v \in Views, Detail!Effect(v)
      PROVE  DetailInv'
  <2>1. Detail!Asking(v) \in DetailRequests
    BY DEF Detail!Asking, Detail!Call, DetailRequests, Requests
  <2>2. /\ view' = [v EXCEPT !.loading = TRUE, !.error = FALSE]
        /\ calls' = calls \o <<Detail!Asking(v)>>
    BY <1>1 DEF Detail!Effect, Detail!Send
  <2>3. calls' \in Seq(DetailRequests) /\ calls' # <<>>
    BY <2>1, <2>2 DEF DetailInv
  <2> QED
    BY <2>2, <2>3 DEF DetailInv
<1>2. CASE Detail!User
  <2>1. view \in Views
    BY DEF DetailInv
  <2>2. CASE Detail!Refresh
    BY <1>1, <2>1, <2>2 DEF Detail!Refresh
  <2>3. CASE Detail!PreviousPage
    BY <1>1, <2>1, <2>3, ConsoleAssumption DEF Detail!PreviousPage, Detail!PageBefore
  <2>4. CASE Detail!NextPage
    <3>1. view.detail \in Found /\ view.offset + 1 < view.detail.total
      BY <2>1, <2>4 DEF Detail!NextPage, Detail!Paged
    <3>2. view.offset + 1 \in 0 .. MaxPages
      BY <2>1, <3>1, ConsoleAssumption DEF Found
    <3> QED
      BY <1>1, <2>1, <2>4, <3>2 DEF Detail!NextPage
  <2>5. ASSUME NEW k \in Keys, Detail!Visit(k)
        PROVE  DetailInv'
    BY <1>1, <2>1, <2>5 DEF Detail!Visit
  <2> QED
    BY <1>2, <2>2, <2>3, <2>4, <2>5 DEF Detail!User
<1>3. ASSUME NEW i \in DOMAIN calls, Detail!Answered(i)
      PROVE  DetailInv'
  <2>1. /\ calls' = Without(calls, i) \o <<>>
        /\ calls[i].answer # Pending
        /\ view' = IF calls[i].answer = Failed THEN [view EXCEPT !.error = TRUE, !.loading = FALSE]
                   ELSE [view EXCEPT !.detail = calls[i].answer, !.loading = FALSE]
    BY <1>3 DEF Detail!Answered, Detail!Loaded, Detail!Continue, Detail!Rest, Without,
                Detail!Arrived
  <2>2. calls[i] \in DetailRequests
    BY DEF DetailInv
  <2>3. calls[i].answer \in Found \cup {Pending, Failed}
    BY <2>2 DEF DetailRequests, Requests
  <2>4. Without(calls, i) \in Seq(DetailRequests)
    BY WithoutIs DEF DetailInv
  <2>5. calls' \in Seq(DetailRequests)
    BY <2>1, <2>4
  <2>6. view' \in Views /\ view'.loading = FALSE
    BY <2>1, <2>3 DEF DetailInv
  <2> QED
    BY <2>5, <2>6 DEF DetailInv
<1>4. ASSUME NEW i \in DOMAIN calls, Detail!Serve(i) \/ Refuse(i)
      PROVE  DetailInv'
  <2>1. calls[i] \in DetailRequests
    BY DEF DetailInv
  <2>2. \E v \in Found \cup {Failed} : calls' = [calls EXCEPT ![i].answer = v]
    <3>1. calls[i].with \in [id : Keys, offset : 0 .. MaxPages]
      BY <2>1 DEF DetailRequests, Requests
    <3> QED
      BY <1>4, <3>1 DEF Detail!Serve, Detail!Read, Detail!Answer, Refuse, Answer, Found
  <2>3. \E c \in DetailRequests : calls' = [calls EXCEPT ![i] = c]
    BY <2>1, <2>2 DEF DetailRequests, Requests
  <2>4. calls' \in Seq(DetailRequests) /\ (calls # <<>> => calls' # <<>>)
    BY <2>3 DEF DetailInv
  <2>5. UNCHANGED view
    BY <1>4 DEF Detail!Serve, Detail!Read, Refuse
  <2> QED
    BY <2>4, <2>5 DEF DetailInv
<1> QED
  BY <1>2, <1>3, <1>4

\* The invariant of the page implies its properties.
LEMMA DetailShows == DetailInv => Detail!TypeOK /\ Detail!BusyForCause
<1> SUFFICES ASSUME DetailInv
             PROVE  Detail!TypeOK /\ Detail!BusyForCause
  OBVIOUS
<1>1. \A i \in DOMAIN calls : calls[i] \in DetailRequests
  BY DEF DetailInv
<1>2. \A i \in DOMAIN calls : calls[i].with \in [id : Keys, offset : 0 .. MaxPages]
  BY <1>1 DEF DetailRequests, Requests
<1> QED
  BY <1>2 DEF DetailInv, Detail!TypeOK, Detail!BusyForCause, Found

\* What an answer brings is what its request asked for.
DetailBrings ==
  \A k \in DOMAIN calls : Good(calls[k].answer) =>
    calls[k].with = [id |-> calls[k].answer.id, offset |-> calls[k].answer.offset]

DetailCurrent ==
  /\ DetailBrings
  /\ ~overtaken => Matches(calls, Detail!Asking(view).with, view.error,
                           [id |-> view.detail.id, offset |-> view.detail.offset])

\* The page of the details of a key has asked for what it will show.
LEMMA DetailMountCurrent ==
  ASSUME NEW v \in Detail!Initials, Mount(v, <<Detail!Asking(v)>>, Detail!Data)
  PROVE  DetailCurrent'
<1>1. calls' = <<Detail!Asking(v)>> /\ view' = v
  BY DEF Mount
<1>2. Len(calls') = 1 /\ calls' # <<>> /\ calls'[1] = Detail!Asking(view') /\ DOMAIN calls' = {1}
  BY <1>1
<1>3. calls'[1].answer = Pending
  BY <1>2 DEF Detail!Asking, Detail!Call
<1> QED
  BY <1>2, <1>3 DEF DetailCurrent, DetailBrings, Matches, Good

\* A step of the page, of its answers or of the server keeps what it shows.
LEMMA DetailStaysCurrent ==
  ASSUME DetailInv, DetailCurrent,
         \/ Detail!User
         \/ \E i \in DOMAIN calls : Detail!Answered(i) \/ Detail!Serve(i) \/ Refuse(i)
  PROVE  DetailCurrent'
<1> DEFINE Views == [id : Keys, offset : 0 .. MaxPages, loading : BOOLEAN, error : BOOLEAN,
                     detail : Found \cup {None}]
           asked == Detail!Asking(view).with
           shown == [id |-> view.detail.id, offset |-> view.detail.offset]
<1>0. view \in Views /\ calls \in Seq(DetailRequests) /\ calls' \in Seq(DetailRequests)
  BY DetailStays DEF DetailInv
<1>a. DetailBrings /\ (~overtaken => Matches(calls, asked, view.error, shown))
  BY DEF DetailCurrent
<1>1. \A i \in DOMAIN calls : i \in Loads(calls) /\ calls[i] \in DetailRequests
  <2>1. \A i \in DOMAIN calls : calls[i] \in DetailRequests
    BY <1>0
  <2> QED
    BY <2>1 DEF DetailRequests, Requests, Loads
<1>3. ASSUME NEW s \in Seq(DetailRequests), NEW c, c.answer = Pending, calls' = s \o <<c>>,
             \A k \in DOMAIN s : Good(s[k].answer) => s[k].with = [id |-> s[k].answer.id, offset |-> s[k].answer.offset],
             c.with = Detail!Asking(view').with
      PROVE  DetailCurrent'
  <2>1. DetailBrings'
    <3>1. /\ DOMAIN calls' = 1 .. Len(s) + 1 /\ calls'[Len(s) + 1] = c
          /\ DOMAIN s = 1 .. Len(s) /\ Len(s) \in Nat
          /\ \A k \in DOMAIN s : calls'[k] = s[k]
      BY <1>3
    <3> QED
      BY <1>3, <3>1 DEF DetailBrings, Good
  <2>2. Matches(calls', c.with, view'.error, shown')
    BY <1>3, AskedLast
  <2> QED
    BY <1>3, <2>1, <2>2 DEF DetailCurrent
<1> HIDE DEF Views, asked
<1>4. ASSUME NEW v, v \in Views, Detail!Effect(v)
      PROVE  DetailCurrent'
  <2>1. /\ calls' = calls \o <<Detail!Asking(v)>>
        /\ view' = [v EXCEPT !.loading = TRUE, !.error = FALSE]
    BY <1>4 DEF Detail!Effect, Detail!Send
  <2>2. view'.id = v.id /\ view'.offset = v.offset
    BY <1>4, <2>1 DEF Views
  <2>3. Detail!Asking(v).with = Detail!Asking(view').with /\ Detail!Asking(v).answer = Pending
    BY <2>2 DEF Detail!Asking, Detail!Call
  <2> QED
    BY <1>0, <1>a, <1>3, <2>1, <2>3 DEF DetailBrings
<1>6. CASE Detail!Refresh \/ Detail!PreviousPage
  <2>1. CASE Detail!Refresh
    BY <1>0, <1>4, <2>1 DEF Detail!Refresh
  <2>2. CASE Detail!PreviousPage
    <3>1. Detail!PageBefore(view.offset) \in 0 .. MaxPages
      BY <1>0, <2>2, ConsoleAssumption DEF Detail!PreviousPage, Detail!PageBefore, Views
    <3>2. [view EXCEPT !.offset = Detail!PageBefore(view.offset)] \in Views
      BY <1>0, <3>1 DEF Views
    <3> QED
      BY <1>4, <2>2, <3>2 DEF Detail!PreviousPage
  <2> QED
    BY <1>6, <2>1, <2>2
<1>7. CASE Detail!NextPage
  <2>1. view.detail \in Found /\ view.offset + 1 < view.detail.total
    BY <1>0, <1>7 DEF Detail!NextPage, Detail!Paged, Views
  <2>2. view.offset + 1 \in 0 .. MaxPages
    BY <1>0, <2>1, ConsoleAssumption DEF Found, Views
  <2>3. [view EXCEPT !.offset = view.offset + 1] \in Views
    BY <1>0, <2>2 DEF Views
  <2> QED
    BY <1>4, <1>7, <2>3 DEF Detail!NextPage
<1>8. ASSUME NEW k \in Keys, Detail!Visit(k)
      PROVE  DetailCurrent'
  BY <1>0, <1>4, <1>8 DEF Detail!Visit, Views
<1>10. ASSUME NEW i \in DOMAIN calls, Detail!Answered(i)
       PROVE  DetailCurrent'
  <2> DEFINE w == Without(calls, i)
  <2>1. /\ calls' = w \o <<>>
        /\ calls[i].answer # Pending
        /\ overtaken' = Forget(w, <<>>, overtaken \/ (i \in Loads(calls) /\ \E j \in Loads(calls) : j < i))
        /\ view' = IF calls[i].answer = Failed THEN [view EXCEPT !.error = TRUE, !.loading = FALSE]
                   ELSE [view EXCEPT !.detail = calls[i].answer, !.loading = FALSE]
    BY <1>10 DEF Detail!Answered, Detail!Loaded, Detail!Continue, Detail!Rest, Without, Detail!Arrived,
                 Detail!Forget, Detail!Loads, Forget, Loads
  <2>2. calls' = w /\ \A j \in DOMAIN w : \E k \in DOMAIN calls : w[j] = calls[k]
    BY <1>0, <2>1, WithoutIs, WithoutPlaces
  <2>3. DetailBrings'
    BY <1>a, <2>2 DEF DetailBrings
  <2>4. IF calls[i].answer = Failed THEN view'.error ELSE shown' = calls[i].with
    BY <1>0, <1>a, <2>1 DEF DetailBrings, Good, Views
  <2>5. Detail!Asking(view').with = asked
    <3>1. view'.id = view.id /\ view'.offset = view.offset
      BY <1>0, <2>1 DEF Views
    <3> QED
      BY <3>1 DEF asked, Detail!Asking, Detail!Call
  <2>6. ASSUME ~overtaken'
        PROVE  Matches(w, asked, view'.error, shown')
    <3>1. ~overtaken /\ \A j \in Loads(calls) : ~ (j < i)
      BY <1>1, <2>1, <2>6, KeptOrder
    <3>2. \A j \in DOMAIN calls : ~ (j < i)
      BY <1>1, <3>1
    <3> HIDE DEF w
    <3> QED
      BY <1>0, <1>a, <2>4, <3>1, <3>2, BroughtOrAsked DEF w
  <2> QED
    BY <2>2, <2>3, <2>5, <2>6 DEF DetailCurrent
<1>11. ASSUME NEW i \in DOMAIN calls, NEW v, calls' = [calls EXCEPT ![i].answer = v],
              Good(v) => calls[i].with = [id |-> v.id, offset |-> v.offset], ~overtaken' => ~overtaken, view' = view
       PROVE  DetailCurrent'
  <2>1. Answers(calls, i, v, calls')
    BY <1>0, <1>11, RequestsShaped, Answering DEF DetailRequests
  <2>2. DetailBrings'
    BY <1>a, <1>11, <2>1 DEF DetailBrings, Answers
  <2>3. ~overtaken => Matches(calls', asked, view.error, shown)
    BY <1>0, <1>a, <2>1, AskedStill
  <2> QED
    BY <1>11, <2>2, <2>3 DEF DetailCurrent, asked
<1>12. ASSUME NEW i \in DOMAIN calls, Detail!Serve(i)
       PROVE  DetailCurrent'
  <2>1. PICK pages \in 0 .. MaxPages :
          Detail!Read(i, [id |-> calls[i].with.id, offset |-> calls[i].with.offset, total |-> pages])
    BY <1>12 DEF Detail!Serve
  <2> DEFINE v == [id |-> calls[i].with.id, offset |-> calls[i].with.offset, total |-> pages]
  <2>2. calls[i].with = [id |-> v.id, offset |-> v.offset]
    BY <1>1 DEF DetailRequests, Requests
  <2> HIDE DEF v
  <2>3. calls' = [calls EXCEPT ![i].answer = v] /\ (~overtaken' => ~overtaken) /\ view' = view
    BY <2>1 DEF Detail!Read, Detail!Answer, v
  <2> QED
    BY <1>11, <2>2, <2>3
<1>13. ASSUME NEW i \in DOMAIN calls, Refuse(i)
       PROVE  DetailCurrent'
  <2>1. calls' = [calls EXCEPT ![i].answer = Failed] /\ overtaken' = overtaken /\ view' = view
    BY <1>13 DEF Refuse, Answer, history
  <2>2. ~Good(Failed)
    BY DEF Good
  <2> QED
    BY <1>11, <2>1, <2>2
<1> QED
  BY <1>6, <1>7, <1>8, <1>10, <1>12, <1>13 DEF Detail!User

\* Once every answer is there, the details of a key shown is current.
LEMMA DetailShowsCurrent == DetailCurrent => Detail!ShownIsCurrent
  BY DEF DetailCurrent, Matches, Detail!ShownIsCurrent, Detail!Quiet, Detail!Asking, Detail!Call

-----------------------------------------------------------------------------
(* AuditLogsPage.                                                          *)

Page == [query : Audit!Queries, total : 0 .. MaxPages]
AuditRequests == Requests({"load"}, Audit!Queries, Page)

AuditInv ==
  /\ view \in [logs : Page \cup {Audit!NoLogs}, filter : Filters, path : Patterns,
               offset : 0 .. MaxPages, loading : BOOLEAN, error : BOOLEAN]
  /\ calls \in Seq(AuditRequests)
  /\ view.loading => calls # <<>>

\* The page is in its invariant when it is first shown.
LEMMA AuditMount ==
  Mount(Audit!Initial, <<Audit!Asking(Audit!Initial)>>, Audit!Data) => AuditInv'
<1> SUFFICES ASSUME Mount(Audit!Initial, <<Audit!Asking(Audit!Initial)>>, Audit!Data)
             PROVE  AuditInv'
  OBVIOUS
<1> DEFINE Views == [logs : Page \cup {Audit!NoLogs}, filter : Filters, path : Patterns,
                     offset : 0 .. MaxPages, loading : BOOLEAN, error : BOOLEAN]
<1>1. Audit!Initial \in Views
  <2> DEFINE v == [logs |-> Audit!NoLogs, filter |-> None, path |-> None, offset |-> 0,
                   loading |-> FALSE, error |-> FALSE]
  <2>1. v \in Views
    BY ConsoleAssumption
  <2> HIDE DEF v
  <2>2. [v EXCEPT !.loading = TRUE, !.error = FALSE] \in Views
    BY <2>1
  <2> QED
    BY <2>2 DEF Audit!Initial, Audit!Loading, v
<1>3. Audit!Asking(Audit!Initial) \in AuditRequests
  BY <1>1 DEF Audit!Asking, Audit!Call, AuditRequests, Requests, Audit!Queries
<1>4. calls' = <<Audit!Asking(Audit!Initial)>> /\ view' = Audit!Initial
  BY DEF Mount
<1>5. calls' \in Seq(AuditRequests) /\ calls' # <<>>
  BY <1>3, <1>4
<1> QED
  BY <1>1, <1>4, <1>5 DEF AuditInv

\* A step of the page, of its answers or of the server keeps its invariant.
LEMMA AuditStays ==
  ASSUME AuditInv,
         \/ Audit!User
         \/ \E i \in DOMAIN calls : Audit!Answered(i) \/ Audit!Serve(i) \/ Refuse(i)
  PROVE  AuditInv'
<1> DEFINE Views == [logs : Page \cup {Audit!NoLogs}, filter : Filters, path : Patterns,
                     offset : 0 .. MaxPages, loading : BOOLEAN, error : BOOLEAN]
<1>1. ASSUME NEW v \in Views
      PROVE  Audit!Asking(v) \in AuditRequests
  BY DEF Audit!Asking, Audit!Call, AuditRequests, Requests, Audit!Queries
<1>2. ASSUME NEW v \in Views, Audit!Effect(v)
      PROVE  AuditInv'
  <2>1. /\ view' = [v EXCEPT !.loading = TRUE, !.error = FALSE]
        /\ calls' = calls \o <<Audit!Asking(v)>>
    BY <1>2 DEF Audit!Effect, Audit!Loading, Audit!Send
  <2>2. calls' \in Seq(AuditRequests) /\ calls' # <<>>
    BY <1>1, <2>1 DEF AuditInv
  <2> QED
    BY <2>1, <2>2 DEF AuditInv
<1>3. CASE Audit!User
  <2>1. view \in Views
    BY DEF AuditInv
  <2>2. CASE Audit!Refresh
    BY <1>2, <2>1, <2>2 DEF Audit!Refresh
  <2>3. CASE Audit!Search
    <3> DEFINE v == [view EXCEPT !.offset = 0]
    <3>1. v \in Views
      BY <2>1, ConsoleAssumption
    <3>2. /\ view' = [v EXCEPT !.loading = TRUE, !.error = FALSE]
          /\ \/ calls' = calls \o <<Audit!Asking(view)>>
             \/ calls' = calls \o <<Audit!Asking(view), Audit!Asking(v)>>
      BY <2>3 DEF Audit!Search, Audit!Loading, Audit!Send
    <3>3. Audit!Asking(view) \in AuditRequests /\ Audit!Asking(v) \in AuditRequests
      BY <1>1, <2>1, <3>1
    <3> HIDE DEF v
    <3> DEFINE a == Audit!Asking(view)
               b == Audit!Asking(v)
    <3> HIDE DEF a, b
    <3>4. calls' = calls \o <<a>> \/ calls' = calls \o <<a, b>>
      BY <3>2 DEF a, b
    <3>5. a \in AuditRequests /\ b \in AuditRequests /\ calls \in Seq(AuditRequests)
      BY <3>3 DEF a, b, AuditInv
    <3>6. calls' \in Seq(AuditRequests) /\ calls' # <<>>
      <4>1. PICK next \in Seq(AuditRequests) : calls' = calls \o next /\ Len(next) > 0
        <5>1. <<a>> \in Seq(AuditRequests) /\ Len(<<a>>) > 0
          BY <3>5
        <5>2. <<a, b>> \in Seq(AuditRequests) /\ Len(<<a, b>>) > 0
          BY <3>5
        <5> QED
          BY <3>4, <5>1, <5>2, Zenon
      <4> QED
        BY <3>5, <4>1
    <3> QED
      BY <3>1, <3>2, <3>6 DEF AuditInv
  <2>4. CASE Audit!PreviousPage
    BY <1>2, <2>1, <2>4, ConsoleAssumption DEF Audit!PreviousPage, Audit!PageBefore
  <2>5. CASE Audit!NextPage
    <3>1. view.logs.total \in 0 .. MaxPages
      BY <2>1, ConsoleAssumption DEF Page, Audit!NoLogs
    <3>2. view.offset + 1 \in 0 .. MaxPages
      BY <2>1, <2>5, <3>1, ConsoleAssumption DEF Audit!NextPage
    <3> QED
      BY <1>2, <2>1, <2>5, <3>2 DEF Audit!NextPage
  <2>6. ASSUME NEW f \in Filters, Audit!SetFilter(f)
        PROVE  AuditInv'
    <3> DEFINE v == [view EXCEPT !.filter = f]
    <3>1. v \in Views /\ 0 \in 0 .. MaxPages
      BY <2>1, ConsoleAssumption
    <3> HIDE DEF v
    <3>2. [v EXCEPT !.offset = 0] \in Views
      BY <3>1
    <3>3. [view EXCEPT !.filter = f, !.offset = 0] \in Views
      BY <3>2 DEF v
    <3> QED
      BY <1>2, <2>6, <3>3 DEF Audit!SetFilter
  <2>7. ASSUME NEW p \in Patterns, Audit!SetPath(p)
        PROVE  AuditInv'
    BY <1>2, <2>1, <2>7 DEF Audit!SetPath
  <2> QED
    BY <1>3, <2>2, <2>3, <2>4, <2>5, <2>6, <2>7 DEF Audit!User
<1>4. ASSUME NEW i \in DOMAIN calls, Audit!Answered(i)
      PROVE  AuditInv'
  <2>1. /\ calls' = Without(calls, i) \o <<>>
        /\ calls[i].answer # Pending
        /\ view' = IF calls[i].answer = Failed THEN [view EXCEPT !.error = TRUE, !.loading = FALSE]
                   ELSE [view EXCEPT !.logs = calls[i].answer, !.loading = FALSE]
    BY <1>4 DEF Audit!Answered, Audit!Loaded, Audit!Continue, Audit!Rest, Without, Audit!Arrived
  <2>2. calls[i] \in AuditRequests
    BY DEF AuditInv
  <2>3. calls[i].answer \in Page \cup {Pending, Failed}
    BY <2>2 DEF AuditRequests, Requests
  <2>4. Without(calls, i) \in Seq(AuditRequests)
    BY WithoutIs DEF AuditInv
  <2>5. calls' \in Seq(AuditRequests)
    BY <2>1, <2>4
  <2>6. view' \in Views /\ view'.loading = FALSE
    BY <2>1, <2>3 DEF AuditInv
  <2> QED
    BY <2>5, <2>6 DEF AuditInv
<1>5. ASSUME NEW i \in DOMAIN calls, Audit!Serve(i) \/ Refuse(i)
      PROVE  AuditInv'
  <2>1. calls[i] \in AuditRequests
    BY DEF AuditInv
  <2>2. \E v \in Page \cup {Failed} : calls' = [calls EXCEPT ![i].answer = v]
    <3>1. calls[i].with \in Audit!Queries
      BY <2>1 DEF AuditRequests, Requests
    <3> QED
      BY <1>5, <3>1 DEF Audit!Serve, Audit!Read, Audit!Answer, Refuse, Answer, Page
  <2>3. \E c \in AuditRequests : calls' = [calls EXCEPT ![i] = c]
    BY <2>1, <2>2 DEF AuditRequests, Requests
  <2>4. calls' \in Seq(AuditRequests) /\ (calls # <<>> => calls' # <<>>)
    BY <2>3 DEF AuditInv
  <2>5. UNCHANGED view
    BY <1>5 DEF Audit!Serve, Audit!Read, Refuse
  <2> QED
    BY <2>4, <2>5 DEF AuditInv
<1> QED
  BY <1>3, <1>4, <1>5

\* The invariant of the page implies its properties.
LEMMA AuditShows == AuditInv => Audit!TypeOK /\ Audit!BusyForCause
<1> SUFFICES ASSUME AuditInv
             PROVE  Audit!TypeOK /\ Audit!BusyForCause
  OBVIOUS
<1>1. \A i \in DOMAIN calls : calls[i] \in AuditRequests
  BY DEF AuditInv
<1>2. \A i \in DOMAIN calls : calls[i].op = "load" /\ calls[i].with \in Audit!Queries
  BY <1>1 DEF AuditRequests, Requests
<1> QED
  BY <1>2 DEF AuditInv, Audit!TypeOK, Audit!BusyForCause, Page

\* What an answer brings is what its request asked for.
AuditBrings == \A k \in DOMAIN calls : Good(calls[k].answer) => calls[k].answer.query = calls[k].with

AuditCurrent ==
  /\ AuditBrings
  /\ ~overtaken => Matches(calls, Audit!Asking(view).with, view.error, view.logs.query)

\* The page of the audit log has asked for what it will show.
LEMMA AuditMountCurrent ==
  Mount(Audit!Initial, <<Audit!Asking(Audit!Initial)>>, Audit!Data) => AuditCurrent'
<1> SUFFICES ASSUME Mount(Audit!Initial, <<Audit!Asking(Audit!Initial)>>, Audit!Data)
             PROVE  AuditCurrent'
  OBVIOUS
<1>1. calls' = <<Audit!Asking(Audit!Initial)>> /\ view' = Audit!Initial
  BY DEF Mount
<1>2. Len(calls') = 1 /\ calls' # <<>> /\ calls'[1] = Audit!Asking(view') /\ DOMAIN calls' = {1}
  BY <1>1
<1>3. calls'[1].answer = Pending
  BY <1>2 DEF Audit!Asking, Audit!Call
<1> QED
  BY <1>2, <1>3 DEF AuditCurrent, AuditBrings, Matches, Good

\* A step of the page, of its answers or of the server keeps what it shows.
LEMMA AuditStaysCurrent ==
  ASSUME AuditInv, AuditCurrent,
         \/ Audit!User
         \/ \E i \in DOMAIN calls : Audit!Answered(i) \/ Audit!Serve(i) \/ Refuse(i)
  PROVE  AuditCurrent'
<1> DEFINE Views == [logs : Page \cup {Audit!NoLogs}, filter : Filters, path : Patterns,
                     offset : 0 .. MaxPages, loading : BOOLEAN, error : BOOLEAN]
           asked == Audit!Asking(view).with
<1>0. view \in Views /\ calls \in Seq(AuditRequests) /\ calls' \in Seq(AuditRequests)
  BY AuditStays DEF AuditInv
<1>a. AuditBrings /\ (~overtaken => Matches(calls, asked, view.error, view.logs.query))
  BY DEF AuditCurrent
<1>1. \A i \in DOMAIN calls : i \in Loads(calls) /\ calls[i] \in AuditRequests
  <2>1. \A i \in DOMAIN calls : calls[i] \in AuditRequests
    BY <1>0
  <2> QED
    BY <2>1 DEF AuditRequests, Requests, Loads
<1>2. \A v : /\ Audit!Asking(v).with = [filter |-> v.filter, path |-> v.path, offset |-> v.offset]
             /\ Audit!Asking(v).op = "load" /\ Audit!Asking(v).answer = Pending
  BY DEF Audit!Asking, Audit!Call
<1>3. ASSUME NEW s \in Seq(AuditRequests), NEW c, c.answer = Pending, calls' = s \o <<c>>,
             \A k \in DOMAIN s : Good(s[k].answer) => s[k].answer.query = s[k].with,
             c.with = Audit!Asking(view').with
      PROVE  AuditCurrent'
  <2>1. AuditBrings'
    <3>1. /\ DOMAIN calls' = 1 .. Len(s) + 1 /\ calls'[Len(s) + 1] = c
          /\ DOMAIN s = 1 .. Len(s) /\ Len(s) \in Nat
          /\ \A k \in DOMAIN s : calls'[k] = s[k]
      BY <1>3
    <3> QED
      BY <1>3, <3>1 DEF AuditBrings, Good
  <2>2. Matches(calls', c.with, view'.error, view'.logs.query)
    BY <1>3, AskedLast
  <2> QED
    BY <1>3, <2>1, <2>2 DEF AuditCurrent
<1> HIDE DEF Views, asked
<1>4. ASSUME NEW v, v \in Views, Audit!Effect(v)
      PROVE  AuditCurrent'
  <2>1. /\ calls' = calls \o <<Audit!Asking(v)>>
        /\ view' = [v EXCEPT !.loading = TRUE, !.error = FALSE]
    BY <1>4 DEF Audit!Effect, Audit!Loading, Audit!Send
  <2>2. view'.filter = v.filter /\ view'.path = v.path /\ view'.offset = v.offset
    BY <1>4, <2>1 DEF Views
  <2>3. Audit!Asking(v).with = Audit!Asking(view').with /\ Audit!Asking(v).answer = Pending
    BY <2>2 DEF Audit!Asking, Audit!Call
  <2> QED
    BY <1>0, <1>a, <1>3, <2>1, <2>3 DEF AuditBrings
<1>5. CASE Audit!Search
  <2> DEFINE v == [view EXCEPT !.offset = 0]
             a == Audit!Asking(view)
             b == Audit!Asking(v)
  <2>1. /\ view' = [v EXCEPT !.loading = TRUE, !.error = FALSE]
        /\ \/ v = view /\ calls' = calls \o <<a>>
           \/ calls' = calls \o <<a, b>>
    BY <1>5 DEF Audit!Search, Audit!Loading, Audit!Send
  <2>2. v \in Views
    <3>1. 0 \in 0 .. MaxPages
      BY ConsoleAssumption
    <3> QED
      BY <1>0, <3>1 DEF Views
  <2>3. a \in AuditRequests /\ b \in AuditRequests
    BY <1>0, <2>2 DEF Audit!Asking, Audit!Call, AuditRequests, Requests, Audit!Queries, Views
  <2>4. view'.filter = v.filter /\ view'.path = v.path /\ view'.offset = v.offset
    BY <2>1, <2>2 DEF Views
  <2> HIDE DEF v
  <2>5. /\ b.with = Audit!Asking(view').with /\ b.answer = Pending
        /\ a.answer = Pending
    BY <2>4 DEF Audit!Asking, Audit!Call
  <2> HIDE DEF a, b
  <2>6. CASE v = view /\ calls' = calls \o <<a>>
    BY <1>0, <1>a, <1>3, <2>5, <2>6 DEF AuditBrings, a, b
  <2>7. CASE calls' = calls \o <<a, b>>
    <3> DEFINE s == calls \o <<a>>
    <3>1. s \in Seq(AuditRequests) /\ calls' = s \o <<b>>
      BY <1>0, <2>3, <2>7, TwoSent
    <3>2. /\ DOMAIN s = 1 .. Len(calls) + 1 /\ s[Len(calls) + 1] = a
          /\ DOMAIN calls = 1 .. Len(calls) /\ Len(calls) \in Nat
          /\ \A k \in DOMAIN calls : s[k] = calls[k]
      BY <1>0
    <3> HIDE DEF s
    <3>3. \A k \in DOMAIN s : Good(s[k].answer) => s[k].answer.query = s[k].with
      BY <1>a, <2>5, <3>2 DEF AuditBrings, Good
    <3> QED
      BY <1>3, <2>5, <3>1, <3>3
  <2> QED
    BY <2>1, <2>6, <2>7
<1>6. CASE Audit!Refresh \/ Audit!PreviousPage
  <2>1. CASE Audit!Refresh
    BY <1>0, <1>4, <2>1 DEF Audit!Refresh
  <2>2. CASE Audit!PreviousPage
    <3>1. Audit!PageBefore(view.offset) \in 0 .. MaxPages
      BY <1>0, <2>2, ConsoleAssumption DEF Audit!PreviousPage, Audit!PageBefore, Views
    <3>2. [view EXCEPT !.offset = Audit!PageBefore(view.offset)] \in Views
      BY <1>0, <3>1 DEF Views
    <3> QED
      BY <1>4, <2>2, <3>2 DEF Audit!PreviousPage
  <2> QED
    BY <1>6, <2>1, <2>2
<1>7. CASE Audit!NextPage
  <2>1. view.logs.total \in 0 .. MaxPages
    BY <1>0, ConsoleAssumption DEF Page, Audit!NoLogs, Views
  <2>2. view.offset + 1 \in 0 .. MaxPages
    BY <1>0, <1>7, <2>1, ConsoleAssumption DEF Audit!NextPage, Views
  <2> QED
    BY <1>0, <1>4, <1>7, <2>2 DEF Audit!NextPage, Views
<1>8. ASSUME NEW f \in Filters, Audit!SetFilter(f)
      PROVE  AuditCurrent'
  <2> DEFINE v == [view EXCEPT !.filter = f]
  <2>0. 0 \in 0 .. MaxPages
    BY ConsoleAssumption
  <2>1. v \in Views /\ 0 \in 0 .. MaxPages
    BY <1>0, <2>0 DEF Views
  <2> HIDE DEF v
  <2>2. [v EXCEPT !.offset = 0] \in Views
    BY <2>1 DEF Views
  <2>3. [view EXCEPT !.filter = f, !.offset = 0] \in Views
    BY <2>2 DEF v
  <2> QED
    BY <1>4, <1>8, <2>3 DEF Audit!SetFilter
<1>9. ASSUME NEW p \in Patterns, Audit!SetPath(p)
      PROVE  AuditCurrent'
  BY <1>0, <1>4, <1>9 DEF Audit!SetPath, Views
<1>10. ASSUME NEW i \in DOMAIN calls, Audit!Answered(i)
       PROVE  AuditCurrent'
  <2> DEFINE w == Without(calls, i)
  <2>1. /\ calls' = w \o <<>>
        /\ calls[i].answer # Pending
        /\ overtaken' = Forget(w, <<>>, overtaken \/ (i \in Loads(calls) /\ \E j \in Loads(calls) : j < i))
        /\ view' = IF calls[i].answer = Failed THEN [view EXCEPT !.error = TRUE, !.loading = FALSE]
                   ELSE [view EXCEPT !.logs = calls[i].answer, !.loading = FALSE]
    BY <1>10 DEF Audit!Answered, Audit!Loaded, Audit!Continue, Audit!Rest, Without, Audit!Arrived,
                 Audit!Forget, Audit!Loads, Forget, Loads
  <2>2. calls' = w /\ \A j \in DOMAIN w : \E k \in DOMAIN calls : w[j] = calls[k]
    BY <1>0, <2>1, WithoutIs, WithoutPlaces
  <2>3. AuditBrings'
    BY <1>a, <2>2 DEF AuditBrings
  <2>4. IF calls[i].answer = Failed THEN view'.error ELSE view'.logs.query = calls[i].with
    BY <1>0, <1>a, <2>1 DEF AuditBrings, Good, Views
  <2>5. Audit!Asking(view').with = asked
    <3>1. view'.filter = view.filter /\ view'.path = view.path /\ view'.offset = view.offset
      BY <1>0, <2>1 DEF Views
    <3> QED
      BY <3>1 DEF asked, Audit!Asking, Audit!Call
  <2>6. ASSUME ~overtaken'
        PROVE  Matches(w, asked, view'.error, view'.logs.query)
    <3>1. ~overtaken /\ \A j \in Loads(calls) : ~ (j < i)
      BY <1>1, <2>1, <2>6, KeptOrder
    <3>2. \A j \in DOMAIN calls : ~ (j < i)
      BY <1>1, <3>1
    <3> HIDE DEF w
    <3> QED
      BY <1>0, <1>a, <2>4, <3>1, <3>2, BroughtOrAsked DEF w
  <2> QED
    BY <2>2, <2>3, <2>5, <2>6 DEF AuditCurrent
<1>11. ASSUME NEW i \in DOMAIN calls, NEW v, calls' = [calls EXCEPT ![i].answer = v],
              Good(v) => v.query = calls[i].with, ~overtaken' => ~overtaken, view' = view
       PROVE  AuditCurrent'
  <2>1. Answers(calls, i, v, calls')
    BY <1>0, <1>11, RequestsShaped, Answering DEF AuditRequests
  <2>2. AuditBrings'
    BY <1>a, <1>11, <2>1 DEF AuditBrings, Answers
  <2>3. ~overtaken => Matches(calls', asked, view.error, view.logs.query)
    BY <1>0, <1>a, <2>1, AskedStill
  <2> QED
    BY <1>11, <2>2, <2>3 DEF AuditCurrent, asked
<1>12. ASSUME NEW i \in DOMAIN calls, Audit!Serve(i)
       PROVE  AuditCurrent'
  <2>1. PICK pages \in 0 .. MaxPages : Audit!Read(i, [query |-> calls[i].with, total |-> pages])
    BY <1>12 DEF Audit!Serve
  <2> DEFINE v == [query |-> calls[i].with, total |-> pages]
  <2>2. v.query = calls[i].with
    OBVIOUS
  <2> HIDE DEF v
  <2>3. calls' = [calls EXCEPT ![i].answer = v] /\ (~overtaken' => ~overtaken) /\ view' = view
    BY <2>1 DEF Audit!Read, Audit!Answer, v
  <2> QED
    BY <1>11, <2>2, <2>3
<1>13. ASSUME NEW i \in DOMAIN calls, Refuse(i)
       PROVE  AuditCurrent'
  <2>1. calls' = [calls EXCEPT ![i].answer = Failed] /\ overtaken' = overtaken /\ view' = view
    BY <1>13 DEF Refuse, Answer, history
  <2>2. ~Good(Failed)
    BY DEF Good
  <2> QED
    BY <1>11, <2>1, <2>2
<1> QED
  BY <1>5, <1>6, <1>7, <1>8, <1>9, <1>10, <1>12, <1>13 DEF Audit!User

\* Once every answer is there, the audit log shown is current.
LEMMA AuditShowsCurrent == AuditCurrent => Audit!ShownIsCurrent
  BY DEF AuditCurrent, Matches, Audit!ShownIsCurrent, Audit!Quiet

-----------------------------------------------------------------------------
(* ApiKeysPage.                                                            *)

KeyLists == UNION {[S -> {"active", "disabled"}] : S \in SUBSET Keys}
BatchActions == {"enable", "disable", "delete"}
KeyViews ==
  [keys : KeyLists, loading : BOOLEAN, loadError : BOOLEAN, creating : BOOLEAN,
   secret : BOOLEAN, disabling : Keys \cup {None}, selected : SUBSET Keys,
   batch : {"none", "enable", "disable", "delete"}, batchSaving : BOOLEAN]

ApiKeysRequests ==
  Requests({"load"}, {0}, KeyLists) \cup Requests({"create"}, {None}, {0})
    \cup Requests({"disable"}, Keys, {0})
    \cup Requests({"batch"}, [ids : SUBSET Keys, action : BatchActions], {0})

\* What the flags of the view say of the requests s.
KeysBusy(v, s) ==
  /\ v.loading => ~NoCall(s, {"load"})
  /\ IF v.batchSaving THEN OneCall(s, {"batch"}) ELSE NoCall(s, {"batch"})

ApiKeysInv ==
  /\ view \in KeyViews
  /\ view.selected \subseteq DOMAIN view.keys
  /\ calls \in Seq(ApiKeysRequests)
  /\ table \in ApiKeys!Tables
  /\ KeysBusy(view, calls)

\* The page is in its invariant when it is first shown.
LEMMA ApiKeysMount ==
  Mount(ApiKeys!Initial, <<Load>>, ApiKeys!Data) => ApiKeysInv'
<1> SUFFICES ASSUME Mount(ApiKeys!Initial, <<Load>>, ApiKeys!Data)
             PROVE  ApiKeysInv'
  OBVIOUS
<1>1. calls' = <<Load>> /\ view' = ApiKeys!Initial /\ table' \in ApiKeys!Data
  BY DEF Mount
<1>2. Load \in ApiKeysRequests /\ Load.op = "load"
  BY DEF Load, Call, ApiKeysRequests, Requests
<1>3. /\ calls' \in Seq(ApiKeysRequests)
      /\ ~NoCall(calls', {"load"}) /\ NoCall(calls', {"batch"})
  BY <1>1, <1>2 DEF NoCall
<1>4. [k \in {} |-> "active"] \in KeyLists
  <2>1. [k \in {} |-> "active"] \in [{} -> {"active", "disabled"}] /\ {} \in SUBSET Keys
    OBVIOUS
  <2> QED
    BY <2>1 DEF KeyLists
<1>5. /\ ApiKeys!Initial \in KeyViews
      /\ ApiKeys!Initial.selected = {} /\ ~ApiKeys!Initial.batchSaving
  BY <1>4 DEF ApiKeys!Initial, KeyViews
<1>6. table' \in ApiKeys!Tables
  BY <1>1 DEF ApiKeys!Data, ApiKeys!Tables
<1> QED
  BY <1>1, <1>3, <1>5, <1>6 DEF ApiKeysInv, KeysBusy

\* A step of the administrator keeps the invariant of the page.
LEMMA ApiKeysUser ==
  ASSUME ApiKeysInv, ApiKeys!User
  PROVE  ApiKeysInv'
<1>0. /\ view \in KeyViews /\ view.selected \subseteq DOMAIN view.keys
      /\ calls \in Seq(ApiKeysRequests) /\ table \in ApiKeys!Tables
      /\ KeysBusy(view, calls)
  BY DEF ApiKeysInv
<1>1. ASSUME NEW v \in KeyViews, v.selected \subseteq DOMAIN v.keys,
             v.loading = view.loading, v.batchSaving = view.batchSaving, ApiKeys!Set(v)
      PROVE  ApiKeysInv'
  BY <1>0, <1>1 DEF ApiKeys!Set, ApiKeys!Local, ApiKeysInv, KeysBusy
<1>2. ASSUME NEW c \in ApiKeysRequests, ApiKeys!Send(<<c>>), view' \in KeyViews,
             view'.selected \subseteq DOMAIN view'.keys,
             view'.loading => view.loading \/ c.op = "load",
             IF c.op = "batch" THEN ~view.batchSaving /\ view'.batchSaving
             ELSE view'.batchSaving = view.batchSaving
      PROVE  ApiKeysInv'
  <2>1. calls' = calls \o <<c>> /\ UNCHANGED table
    BY <1>2 DEF ApiKeys!Send
  <2>2. calls' \in Seq(ApiKeysRequests)
    BY <1>0, <2>1, AppendFacts
  <2>3. view'.loading => ~NoCall(calls', {"load"})
    BY <1>0, <1>2, <2>1, AppendFacts DEF KeysBusy
  <2>4. IF view'.batchSaving THEN OneCall(calls', {"batch"}) ELSE NoCall(calls', {"batch"})
    BY <1>0, <1>2, <2>1, AppendFacts DEF KeysBusy
  <2> QED
    BY <1>0, <1>2, <2>1, <2>2, <2>3, <2>4 DEF ApiKeysInv, KeysBusy
<1>3. ApiKeys!Rows \subseteq DOMAIN view.keys /\ DOMAIN view.keys \subseteq Keys
  BY <1>0 DEF ApiKeys!Rows, KeyViews, KeyLists
<1>4. CASE ApiKeys!Refresh
  <2>1. /\ ApiKeys!Send(<<ApiKeys!Load>>)
        /\ view' = [view EXCEPT !.loading = TRUE, !.loadError = FALSE]
    BY <1>4 DEF ApiKeys!Refresh, ApiKeys!Loading
  <2>2. ApiKeys!Load \in ApiKeysRequests /\ ApiKeys!Load.op = "load"
    BY DEF ApiKeys!Load, ApiKeys!Call, ApiKeysRequests, Requests
  <2>3. view' \in KeyViews /\ view'.selected = view.selected /\ view'.keys = view.keys
        /\ view'.batchSaving = view.batchSaving
    BY <1>0, <2>1 DEF KeyViews
  <2> QED
    BY <1>0, <1>2, <2>1, <2>2, <2>3
<1>5. CASE ApiKeys!AskCreate
  BY <1>0, <1>1, <1>5 DEF ApiKeys!AskCreate, KeyViews
<1>6. CASE ApiKeys!Create
  <2>1. ApiKeys!Call("create", None) \in ApiKeysRequests /\ ApiKeys!Call("create", None).op = "create"
    BY DEF ApiKeys!Call, ApiKeysRequests, Requests
  <2> QED
    BY <1>0, <1>2, <1>6, <2>1 DEF ApiKeys!Create
<1>7. CASE ApiKeys!Disable
  <2>1. view.disabling \in Keys
    BY <1>0, <1>7 DEF ApiKeys!Disable, KeyViews
  <2> DEFINE c == ApiKeys!Call("disable", view.disabling)
  <2>2. c \in ApiKeysRequests /\ c.op = "disable"
    BY <2>1 DEF ApiKeys!Call, ApiKeysRequests, Requests
  <2> QED
    BY <1>0, <1>2, <1>7, <2>2 DEF ApiKeys!Disable
<1>8. ASSUME NEW k \in Keys, ApiKeys!AskDisable(k)
      PROVE  ApiKeysInv'
  BY <1>0, <1>1, <1>8 DEF ApiKeys!AskDisable, KeyViews
<1>9. ASSUME NEW k \in Keys, ApiKeys!ToggleSelected(k)
      PROVE  ApiKeysInv'
  <2>1. PICK S \in SUBSET DOMAIN view.keys : ApiKeys!Set([view EXCEPT !.selected = S])
    BY <1>0, <1>3, <1>9 DEF ApiKeys!ToggleSelected, KeyViews
  <2> QED
    BY <1>0, <1>1, <1>3, <2>1 DEF KeyViews
<1>10. ASSUME NEW k \in Keys, ApiKeys!AskEnable(k)
       PROVE  ApiKeysInv'
  BY <1>0, <1>1, <1>3, <1>10 DEF ApiKeys!AskEnable, KeyViews
<1>11. CASE ApiKeys!ToggleAll
  <2>1. PICK S \in SUBSET DOMAIN view.keys : ApiKeys!Set([view EXCEPT !.selected = S])
    BY <1>0, <1>3, <1>11 DEF ApiKeys!ToggleAll, KeyViews
  <2> QED
    BY <1>0, <1>1, <1>3, <2>1 DEF KeyViews
<1>12. CASE ApiKeys!ClearSelection
  BY <1>0, <1>1, <1>12 DEF ApiKeys!ClearSelection, KeyViews
<1>13. CASE ApiKeys!RunBatch
  <2> DEFINE c == ApiKeys!Call("batch", [ids |-> view.selected, action |-> view.batch])
  <2>1. view.batch \in BatchActions /\ view.selected \in SUBSET Keys
    BY <1>0, <1>13 DEF ApiKeys!RunBatch, KeyViews, BatchActions
  <2>2. c \in ApiKeysRequests /\ c.op = "batch"
    BY <2>1 DEF ApiKeys!Call, ApiKeysRequests, Requests
  <2>3. /\ ApiKeys!Send(<<c>>) /\ ~view.batchSaving
        /\ view' = [view EXCEPT !.batchSaving = TRUE]
    BY <1>13 DEF ApiKeys!RunBatch
  <2>4. /\ view' \in KeyViews /\ view'.selected = view.selected /\ view'.keys = view.keys
        /\ view'.loading = view.loading /\ view'.batchSaving
    BY <1>0, <2>3 DEF KeyViews
  <2> HIDE DEF c
  <2> QED
    BY <1>0, <1>2, <2>2, <2>3, <2>4
<1>14. ASSUME NEW action \in BatchActions, ApiKeys!AskBatch(action)
       PROVE  ApiKeysInv'
  BY <1>0, <1>1, <1>14 DEF ApiKeys!AskBatch, KeyViews, BatchActions
<1>15. CASE ApiKeys!CloseDialog
  BY <1>0, <1>1, <1>15 DEF ApiKeys!CloseDialog, KeyViews
<1>16. CASE ApiKeys!Escape
  BY <1>0, <1>1, <1>16 DEF ApiKeys!Escape, KeyViews
<1> QED
  BY <1>4, <1>5, <1>6, <1>7, <1>8, <1>9, <1>10, <1>11, <1>12, <1>13, <1>14, <1>15, <1>16
  DEF ApiKeys!User, BatchActions

\* A continuation keeps the invariant of the page.
LEMMA ApiKeysAnswered ==
  ASSUME ApiKeysInv, NEW i \in DOMAIN calls, ApiKeys!Answered(i)
  PROVE  ApiKeysInv'
<1> DEFINE w == Without(calls, i)
<1>0. /\ view \in KeyViews /\ view.selected \subseteq DOMAIN view.keys
      /\ calls \in Seq(ApiKeysRequests) /\ table \in ApiKeys!Tables
      /\ KeysBusy(view, calls)
  BY DEF ApiKeysInv
<1>1. \A next : ApiKeys!Continue(i, next) => calls' = w \o next /\ UNCHANGED table
  BY DEF ApiKeys!Continue, ApiKeys!Rest, Without
<1>2. w \in Seq(ApiKeysRequests) /\ calls[i] \in ApiKeysRequests
  BY <1>0, WithoutIs
<1>3. /\ ApiKeys!Load \in ApiKeysRequests /\ ApiKeys!Load.op = "load"
  BY DEF ApiKeys!Load, ApiKeys!Call, ApiKeysRequests, Requests
<1>4. ASSUME ApiKeys!Continue(i, <<>>), view' \in KeyViews, view'.selected \subseteq DOMAIN view'.keys,
             view'.loading => view.loading /\ calls[i].op # "load",
             view'.batchSaving <=> view.batchSaving /\ calls[i].op # "batch"
      PROVE  ApiKeysInv'
  <2>1. calls' = w /\ UNCHANGED table
    BY <1>1, <1>2, <1>4
  <2>2. view'.loading => ~NoCall(calls', {"load"})
    BY <1>0, <1>4, <2>1, WithoutFacts DEF KeysBusy
  <2>3. IF view'.batchSaving THEN OneCall(calls', {"batch"}) ELSE NoCall(calls', {"batch"})
    BY <1>0, <1>4, <2>1, WithoutFacts DEF KeysBusy
  <2> QED
    BY <1>0, <1>2, <1>4, <2>1, <2>2, <2>3 DEF ApiKeysInv, KeysBusy
<1>5. ASSUME ApiKeys!Continue(i, <<ApiKeys!Load>>), view' \in KeyViews,
             view'.selected \subseteq DOMAIN view'.keys,
             view'.batchSaving <=> view.batchSaving /\ calls[i].op # "batch"
      PROVE  ApiKeysInv'
  <2>1. calls' = w \o <<ApiKeys!Load>> /\ UNCHANGED table
    BY <1>1, <1>5
  <2>2. calls' \in Seq(ApiKeysRequests) /\ ~NoCall(calls', {"load"})
    BY <1>2, <1>3, <2>1, AppendFacts
  <2>3. IF view'.batchSaving THEN OneCall(w, {"batch"}) ELSE NoCall(w, {"batch"})
    BY <1>0, <1>5, WithoutFacts DEF KeysBusy
  <2>4. IF view'.batchSaving THEN OneCall(calls', {"batch"}) ELSE NoCall(calls', {"batch"})
    BY <1>2, <1>3, <2>1, <2>3, AppendFacts
  <2> QED
    BY <1>0, <1>5, <2>1, <2>2, <2>4 DEF ApiKeysInv, KeysBusy
<1> HIDE DEF w
<1>6. CASE ApiKeys!Loaded(i)
  <2>1. /\ calls[i].op = "load" /\ calls[i].answer # Pending
        /\ ApiKeys!Continue(i, <<>>)
        /\ view' = IF calls[i].answer = Failed THEN [view EXCEPT !.loadError = TRUE, !.loading = FALSE]
                   ELSE [view EXCEPT !.keys = calls[i].answer,
                                     !.selected = view.selected \cap DOMAIN calls[i].answer,
                                     !.loading = FALSE]
    BY <1>6 DEF ApiKeys!Loaded, ApiKeys!Show, ApiKeys!Arrived, ApiKeys!Sent
  <2>2. calls[i].answer \in KeyLists \cup {Pending, Failed}
    BY <1>2, <2>1 DEF ApiKeysRequests, Requests
  <2>3. /\ view' \in KeyViews /\ view'.selected \subseteq DOMAIN view'.keys
        /\ ~view'.loading /\ view'.batchSaving = view.batchSaving
    <3>1. CASE calls[i].answer = Failed
      BY <1>0, <2>1, <3>1 DEF KeyViews
    <3>2. CASE calls[i].answer # Failed
      <4>1. calls[i].answer \in KeyLists /\ view.selected \cap DOMAIN calls[i].answer \in SUBSET Keys
        BY <1>0, <2>1, <2>2, <3>2 DEF KeyViews
      <4>2. view' = [view EXCEPT !.keys = calls[i].answer,
                                 !.selected = view.selected \cap DOMAIN calls[i].answer,
                                 !.loading = FALSE]
        BY <2>1, <3>2
      <4> QED
        BY <1>0, <4>1, <4>2 DEF KeyViews
    <3> QED
      BY <3>1, <3>2
  <2> QED
    BY <1>4, <2>1, <2>3
<1>7. CASE ApiKeys!Created(i)
  <2>1. calls[i].op = "create"
    BY <1>7 DEF ApiKeys!Created, ApiKeys!Arrived, ApiKeys!Sent
  <2>2. CASE calls[i].answer = Failed
    BY <1>0, <1>4, <1>7, <2>1, <2>2 DEF ApiKeys!Created
  <2>3. CASE calls[i].answer # Failed
    <3>1. /\ ApiKeys!Continue(i, <<ApiKeys!Load>>)
          /\ view' = [[view EXCEPT !.loading = TRUE, !.loadError = FALSE]
                        EXCEPT !.secret = TRUE, !.creating = FALSE]
      BY <1>7, <2>3 DEF ApiKeys!Created, ApiKeys!Loading
    <3> QED
      BY <1>0, <1>5, <2>1, <3>1 DEF KeyViews
  <2> QED
    BY <2>2, <2>3
<1>8. CASE ApiKeys!Disabled(i)
  <2>1. calls[i].op = "disable"
    BY <1>8 DEF ApiKeys!Disabled, ApiKeys!Arrived, ApiKeys!Sent
  <2>2. CASE calls[i].answer = Failed
    <3>1. ApiKeys!Continue(i, <<>>) /\ view' = [view EXCEPT !.disabling = None]
      BY <1>8, <2>2 DEF ApiKeys!Disabled
    <3> QED
      BY <1>0, <1>4, <2>1, <3>1 DEF KeyViews
  <2>3. CASE calls[i].answer # Failed
    <3>1. /\ ApiKeys!Continue(i, <<ApiKeys!Load>>)
          /\ view' = [[view EXCEPT !.loading = TRUE, !.loadError = FALSE] EXCEPT !.disabling = None]
      BY <1>8, <2>3 DEF ApiKeys!Disabled, ApiKeys!Loading
    <3> QED
      BY <1>0, <1>5, <2>1, <3>1 DEF KeyViews
  <2> QED
    BY <2>2, <2>3
<1>9. CASE ApiKeys!BatchDone(i)
  <2>1. calls[i].op = "batch"
    BY <1>9 DEF ApiKeys!BatchDone, ApiKeys!Arrived, ApiKeys!Sent
  <2>2. CASE calls[i].answer = Failed
    <3>1. ApiKeys!Continue(i, <<>>) /\ view' = [view EXCEPT !.batchSaving = FALSE]
      BY <1>9, <2>2 DEF ApiKeys!BatchDone
    <3> QED
      BY <1>0, <1>4, <2>1, <3>1 DEF KeyViews
  <2>3. CASE calls[i].answer # Failed
    <3>1. /\ ApiKeys!Continue(i, <<ApiKeys!Load>>)
          /\ view' = [[view EXCEPT !.loading = TRUE, !.loadError = FALSE]
                        EXCEPT !.selected = {}, !.batch = "none", !.batchSaving = FALSE]
      BY <1>9, <2>3 DEF ApiKeys!BatchDone, ApiKeys!Loading
    <3> QED
      BY <1>0, <1>5, <2>1, <3>1 DEF KeyViews
  <2> QED
    BY <2>2, <2>3
<1> QED
  BY <1>6, <1>7, <1>8, <1>9 DEF ApiKeys!Answered

\* What the server does keeps the invariant of the page.
LEMMA ApiKeysServed ==
  ASSUME ApiKeysInv,
         (\E i \in DOMAIN calls : ApiKeys!Serve(i) \/ Refuse(i)) \/ ApiKeys!OtherAdmin
  PROVE  ApiKeysInv'
<1>0. /\ view \in KeyViews /\ view.selected \subseteq DOMAIN view.keys
      /\ calls \in Seq(ApiKeysRequests) /\ table \in ApiKeys!Tables
      /\ KeysBusy(view, calls)
  BY DEF ApiKeysInv
<1>1. ASSUME NEW i \in DOMAIN calls, NEW v, calls' = [calls EXCEPT ![i].answer = v],
             [calls[i] EXCEPT !.answer = v] \in ApiKeysRequests,
             [calls[i] EXCEPT !.answer = v].op = calls[i].op,
             UNCHANGED view, table' \in ApiKeys!Tables
      PROVE  ApiKeysInv'
  <2>1. \A ops : /\ calls' \in Seq(ApiKeysRequests)
                 /\ NoCall(calls', ops) <=> NoCall(calls, ops)
                 /\ OneCall(calls, ops) => OneCall(calls', ops)
    BY <1>0, <1>1, AnswerFacts
  <2>2. KeysBusy(view', calls')
    BY <1>0, <1>1, <2>1 DEF KeysBusy
  <2> QED
    BY <1>0, <1>1, <2>1, <2>2 DEF ApiKeysInv
<1>2. ASSUME NEW i \in DOMAIN calls
      PROVE  /\ [calls[i] EXCEPT !.answer = Failed] \in ApiKeysRequests
             /\ [calls[i] EXCEPT !.answer = Failed].op = calls[i].op
  <2>1. calls[i] \in ApiKeysRequests
    BY <1>0
  <2> QED
    BY <2>1 DEF ApiKeysRequests, Requests
<1>3. ASSUME NEW i \in DOMAIN calls, Refuse(i)
      PROVE  ApiKeysInv'
  <2>1. calls' = [calls EXCEPT ![i].answer = Failed] /\ UNCHANGED <<view, table>>
    BY <1>3 DEF Refuse, Answer
  <2> QED
    BY <1>0, <1>1, <1>2, <2>1
<1>4. ASSUME NEW i \in DOMAIN calls, ApiKeys!Read(i, ApiKeys!Listing)
      PROVE  ApiKeysInv'
  <2>1. /\ calls[i].op = "load" /\ UNCHANGED <<view, table>>
        /\ calls' = [calls EXCEPT ![i].answer = ApiKeys!Listing]
    BY <1>4 DEF ApiKeys!Read, ApiKeys!Waiting, ApiKeys!Sent, ApiKeys!Answer
  <2>2. ApiKeys!Listing \in KeyLists
    <3> DEFINE D == {x \in Keys : ApiKeys!Exists(x)}
    <3>1. D \in SUBSET Keys
      OBVIOUS
    <3>2. ApiKeys!Listing \in [D -> {"active", "disabled"}]
      BY DEF ApiKeys!Listing, ApiKeys!Exists
    <3> QED
      BY <3>1, <3>2 DEF KeyLists
  <2>3. calls[i] \in ApiKeysRequests
    BY <1>0
  <2>4. /\ [calls[i] EXCEPT !.answer = ApiKeys!Listing] \in ApiKeysRequests
        /\ [calls[i] EXCEPT !.answer = ApiKeys!Listing].op = calls[i].op
    BY <2>1, <2>2, <2>3 DEF ApiKeysRequests, Requests
  <2> QED
    BY <1>0, <1>1, <2>1, <2>4
<1>5. ASSUME NEW i \in DOMAIN calls, NEW o \in ApiKeys!Outcomes(i),
             ApiKeys!Write(i, o.table, o.answer) \/ ApiKeys!Lose(i, o.table)
      PROVE  ApiKeysInv'
  <2>1. calls[i] \in ApiKeysRequests
    BY <1>0
  <2>2. calls[i].op # "load" /\ o.answer = 0 /\ o.table \in ApiKeys!Tables
    <3> DEFINE after(S, st) == [k \in Keys |-> IF k \in S THEN st ELSE table[k]]
    <3>1. \A S, st : st \in {"active", "disabled", "deleted"} => after(S, st) \in ApiKeys!Tables
      BY <1>0 DEF ApiKeys!Tables
    <3> HIDE DEF after
    <3>2. CASE calls[i].op = "create"
      <4>1. \E k \in Keys : o = [table |-> after({k}, "active"), answer |-> 0]
        BY <3>2 DEF ApiKeys!Outcomes, after
      <4> QED
        BY <3>1, <3>2, <4>1
    <3>3. CASE calls[i].op = "disable"
      <4>1. \E k : o = [table |-> after({k}, "disabled"), answer |-> 0]
        BY <3>3 DEF ApiKeys!Outcomes, after
      <4> QED
        BY <3>1, <3>3, <4>1
    <3>4. CASE calls[i].op \notin {"create", "disable"}
      <4>1. /\ calls[i].op = "batch"
            /\ o = [table |-> after(calls[i].with.ids,
                                    CASE calls[i].with.action = "enable" -> "active"
                                      [] calls[i].with.action = "disable" -> "disabled"
                                      [] OTHER -> "deleted"), answer |-> 0]
        BY <3>4 DEF ApiKeys!Outcomes, after
      <4> QED
        BY <3>1, <4>1
    <3> QED
      BY <3>2, <3>3, <3>4
  <2>3. \E v \in {0, Failed} : /\ calls' = [calls EXCEPT ![i].answer = v]
                               /\ UNCHANGED view /\ table' = o.table
    BY <1>5, <2>2 DEF ApiKeys!Write, ApiKeys!Lose, ApiKeys!Answer
  <2>4. ASSUME NEW v \in {0, Failed}
        PROVE  /\ [calls[i] EXCEPT !.answer = v] \in ApiKeysRequests
               /\ [calls[i] EXCEPT !.answer = v].op = calls[i].op
    BY <2>1, <2>2 DEF ApiKeysRequests, Requests
  <2> QED
    BY <1>1, <2>2, <2>3, <2>4
<1>6. CASE ApiKeys!OtherAdmin
  <2>1. PICK k \in Keys, st \in {"active", "disabled", "deleted"} :
          ApiKeys!Elsewhere([table EXCEPT ![k] = st])
    BY <1>6 DEF ApiKeys!OtherAdmin
  <2>2. table' \in ApiKeys!Tables /\ UNCHANGED <<view, calls>>
    BY <1>0, <2>1 DEF ApiKeys!Elsewhere, ApiKeys!Tables
  <2> QED
    BY <1>0, <2>2 DEF ApiKeysInv
<1> QED
  BY <1>3, <1>4, <1>5, <1>6 DEF ApiKeys!Serve

\* The invariant of the page implies its properties.
LEMMA ApiKeysShows ==
  ApiKeysInv => ApiKeys!TypeOK /\ ApiKeys!SelectedAreListed /\ ApiKeys!BusyForCause
<1> SUFFICES ASSUME ApiKeysInv
             PROVE  ApiKeys!TypeOK /\ ApiKeys!SelectedAreListed /\ ApiKeys!BusyForCause
  OBVIOUS
<1>1. \A i \in DOMAIN calls : calls[i] \in ApiKeysRequests
  BY DEF ApiKeysInv
<1>2. \A i \in DOMAIN calls : calls[i].op \in {"load", "create", "disable", "batch"}
  BY <1>1 DEF ApiKeysRequests, Requests
<1>3. ApiKeys!TypeOK
  BY <1>2 DEF ApiKeysInv, ApiKeys!TypeOK, KeyViews, KeyLists
<1>4. ApiKeys!Cardinality(ApiKeys!Sent("batch")) = Cardinality(ApiKeys!Sent("batch"))
  BY DEF ApiKeys!Cardinality, Cardinality
<1>5. \A op : ApiKeys!Sent(op) = {k \in DOMAIN calls : calls[k].op \in {op}}
  BY DEF ApiKeys!Sent
<1>6. /\ \A op : NoCall(calls, {op}) <=> ApiKeys!Sent(op) = {}
      /\ OneCall(calls, {"batch"}) => Cardinality(ApiKeys!Sent("batch")) = 1
  BY <1>5, SentIs
<1>7. ApiKeys!BusyForCause
  BY <1>4, <1>6 DEF ApiKeysInv, KeysBusy, ApiKeys!BusyForCause
<1> QED
  BY <1>3, <1>7 DEF ApiKeysInv, ApiKeys!SelectedAreListed

ApiKeysCurrent == Shows(view.keys, view.loadError, ApiKeys!Listing)

\* The page of the list of keys has asked for what it will show.
LEMMA ApiKeysMountCurrent ==
  Mount(ApiKeys!Initial, <<Load>>, ApiKeys!Data) => ApiKeysCurrent'
<1> SUFFICES ASSUME Mount(ApiKeys!Initial, <<Load>>, ApiKeys!Data)
             PROVE  ApiKeysCurrent'
  OBVIOUS
<1>1. calls' = <<Load>> /\ Load.op = "load" /\ Load.answer = Pending
  BY DEF Mount, Load, Call
<1> QED
  BY <1>1, FirstLoad DEF ApiKeysCurrent, Shows

\* A step of the administrator keeps what the page shows.
LEMMA ApiKeysUserCurrent ==
  ASSUME ApiKeysInv, ApiKeysCurrent, ApiKeys!User
  PROVE  ApiKeysCurrent'
<1> DEFINE Now == ApiKeys!Listing
<1>0. /\ view \in KeyViews /\ calls \in Seq(ApiKeysRequests)
      /\ ~overtaken => UpToDate(calls, view.keys, view.loadError, Now, changed)
      /\ ~overtaken => InOrder(calls)
  BY DEF ApiKeysInv, ApiKeysCurrent, Shows, UpToDate
<1>1. ASSUME UNCHANGED table
      PROVE  Now' = Now
  BY <1>1 DEF ApiKeys!Listing, ApiKeys!Exists
<1>2. ASSUME NEW v, ApiKeys!Set(v), v.keys = view.keys, v.loadError = view.loadError
      PROVE  ApiKeysCurrent'
  <2>1. view' = v /\ UNCHANGED <<calls, table, changed, overtaken>>
    BY <1>2 DEF ApiKeys!Set, ApiKeys!Local, ApiKeys!history
  <2>2. Now' = Now
    BY <1>1, <2>1
  <2> QED
    BY <1>0, <1>2, <2>1, <2>2 DEF ApiKeysCurrent, Shows
<1>3. ASSUME NEW c, c.answer = Pending, ApiKeys!Send(<<c>>),
             c.op = "load" \/ (view'.keys = view.keys /\ view'.loadError = view.loadError)
      PROVE  ApiKeysCurrent'
  <2>1. /\ calls' = calls \o <<c>> /\ UNCHANGED <<table, changed>>
        /\ overtaken' = Forget(calls, <<c>>, overtaken)
    BY <1>3 DEF ApiKeys!Send, ApiKeys!Forget, ApiKeys!Loads, Forget, Loads
  <2>2. Now' = Now
    BY <1>1, <2>1
  <2>3. CASE c.op = "load"
    BY <1>0, <1>3, <2>1, <2>3, LoadSent DEF ApiKeysCurrent, Shows
  <2>4. CASE c.op # "load"
    <3> HIDE DEF Now
    <3>0. ~overtaken' => ~overtaken
      BY <2>1, <2>4, WriteSent
    <3>1. ~overtaken' => UpToDate(calls', view.keys, view.loadError, Now, changed)
      BY <1>0, <1>3, <2>1, <2>4, <3>0, NewWrite
    <3> QED
      BY <1>3, <2>1, <2>2, <2>4, <3>1 DEF ApiKeysCurrent, Shows, Now
  <2> QED
    BY <2>3, <2>4
<1> HIDE DEF Now
<1>4. CASE ApiKeys!Refresh
  <2>1. ApiKeys!Load.op = "load" /\ ApiKeys!Load.answer = Pending
    BY DEF ApiKeys!Load, ApiKeys!Call
  <2> QED
    BY <1>3, <1>4, <2>1 DEF ApiKeys!Refresh
<1>5. CASE ApiKeys!Create \/ ApiKeys!Disable
  <2>1. PICK op, with :
          /\ op \in {"create", "disable"} /\ UNCHANGED view
          /\ ApiKeys!Send(<<[op |-> op, with |-> with, answer |-> Pending]>>)
    BY <1>5 DEF ApiKeys!Create, ApiKeys!Disable, ApiKeys!Call
  <2> QED
    BY <1>3, <2>1
<1>6. CASE ApiKeys!RunBatch
  <2>1. PICK with :
          /\ ApiKeys!Send(<<[op |-> "batch", with |-> with, answer |-> Pending]>>)
          /\ view' = [view EXCEPT !.batchSaving = TRUE]
    BY <1>6 DEF ApiKeys!RunBatch, ApiKeys!Call
  <2>2. view'.keys = view.keys /\ view'.loadError = view.loadError
    BY <1>0, <2>1 DEF KeyViews
  <2> QED
    BY <1>3, <2>1, <2>2
<1>7. CASE \/ ApiKeys!AskCreate \/ ApiKeys!ToggleAll \/ ApiKeys!ClearSelection
           \/ ApiKeys!CloseDialog \/ ApiKeys!Escape
  BY <1>0, <1>2, <1>7 DEF ApiKeys!AskCreate, ApiKeys!ToggleAll, ApiKeys!ClearSelection,
     ApiKeys!CloseDialog, ApiKeys!Escape, KeyViews
<1>8. ASSUME NEW k \in Keys, ApiKeys!AskDisable(k) \/ ApiKeys!ToggleSelected(k) \/ ApiKeys!AskEnable(k)
      PROVE  ApiKeysCurrent'
  BY <1>0, <1>2, <1>8 DEF ApiKeys!AskDisable, ApiKeys!ToggleSelected, ApiKeys!AskEnable, KeyViews
<1>9. ASSUME NEW action, ApiKeys!AskBatch(action)
      PROVE  ApiKeysCurrent'
  BY <1>0, <1>2, <1>9 DEF ApiKeys!AskBatch, KeyViews
<1> QED
  BY <1>4, <1>5, <1>6, <1>7, <1>8, <1>9 DEF ApiKeys!User

\* A continuation shows what it brings, or loads, when it is not that of a failure.
LEMMA ApiKeysAnsweredCurrent ==
  ASSUME ApiKeysInv, ApiKeysCurrent, NEW i \in DOMAIN calls, ApiKeys!Answered(i)
  PROVE  ApiKeysCurrent'
<1> DEFINE Now == ApiKeys!Listing
           w == Without(calls, i)
<1>0. /\ view \in KeyViews /\ calls \in Seq(ApiKeysRequests)
      /\ ~overtaken => UpToDate(calls, view.keys, view.loadError, Now, changed)
      /\ ~overtaken => InOrder(calls)
      /\ w \in Seq(ApiKeysRequests)
  BY WithoutIs DEF ApiKeysInv, ApiKeysCurrent, Shows, UpToDate
<1>1. ASSUME NEW next, ApiKeys!Continue(i, next)
      PROVE  /\ calls' = w \o next /\ UNCHANGED <<table, changed>>
             /\ overtaken' = Forget(w, next, overtaken \/ (i \in Loads(calls) /\ \E j \in Loads(calls) : j < i))
             /\ Now' = Now
  BY <1>1 DEF ApiKeys!Continue, ApiKeys!Rest, Without, ApiKeys!Forget, ApiKeys!Loads, Forget, Loads,
              ApiKeys!Listing, ApiKeys!Exists
<1>2. ASSUME calls[i].op # "load", calls[i].answer = Failed, ApiKeys!Continue(i, <<>>),
             view'.keys = view.keys /\ view'.loadError = view.loadError
      PROVE  ApiKeysCurrent'
  <2> HIDE DEF w, Now
  <2>1. /\ calls' = w /\ UNCHANGED <<table, changed>> /\ Now' = Now
        /\ overtaken' = Forget(w, <<>>, overtaken \/ (i \in Loads(calls) /\ \E j \in Loads(calls) : j < i))
    BY <1>0, <1>1, <1>2
  <2>2. ~overtaken' => ~overtaken
    BY <2>1, KeptOrder DEF w
  <2>3. ~overtaken => UpToDate(w, view.keys, view.loadError, Now, changed)
    BY <1>0, <1>2, WriteForgotten DEF w
  <2> QED
    BY <1>2, <2>1, <2>2, <2>3 DEF ApiKeysCurrent, Shows, Now
<1>3. ASSUME calls[i].op # "load", ApiKeys!Continue(i, <<ApiKeys!Load>>)
      PROVE  ApiKeysCurrent'
  <2>1. ApiKeys!Load.op = "load" /\ ApiKeys!Load.answer = Pending
    BY DEF ApiKeys!Load, ApiKeys!Call
  <2> HIDE DEF w, Now
  <2>2. i \notin Loads(calls)
    BY <1>3 DEF Loads
  <2>3. calls' = w \o <<ApiKeys!Load>> /\ overtaken' = Forget(w, <<ApiKeys!Load>>, overtaken)
    BY <1>1, <1>3, <2>2 DEF Forget
  <2>4. ~overtaken => InOrder(w)
    BY <1>0, OrderWithout DEF w
  <2>5. ~overtaken' => UpToDate(calls', view'.keys, view'.loadError, Now', changed')
    BY <1>0, <2>1, <2>3, <2>4, LoadSent
  <2> QED
    BY <2>5 DEF ApiKeysCurrent, Shows, Now
<1>4. CASE ApiKeys!Loaded(i)
  <2>1. /\ calls[i].op = "load" /\ calls[i].answer # Pending
        /\ ApiKeys!Continue(i, <<>>)
        /\ view' = IF calls[i].answer = Failed THEN [view EXCEPT !.loadError = TRUE, !.loading = FALSE]
                   ELSE [view EXCEPT !.keys = calls[i].answer,
                                     !.selected = view.selected \cap DOMAIN calls[i].answer,
                                     !.loading = FALSE]
    BY <1>4 DEF ApiKeys!Loaded, ApiKeys!Show, ApiKeys!Arrived, ApiKeys!Sent
  <2>2. IF calls[i].answer = Failed THEN view'.loadError ELSE view'.keys = calls[i].answer
    BY <1>0, <2>1 DEF KeyViews
  <2> HIDE DEF w, Now
  <2>3. /\ calls' = w /\ UNCHANGED <<table, changed>> /\ Now' = Now
        /\ overtaken' = Forget(w, <<>>, overtaken \/ (i \in Loads(calls) /\ \E j \in Loads(calls) : j < i))
    BY <1>0, <1>1, <2>1
  <2>4. i \in Loads(calls)
    BY <2>1 DEF Loads
  <2>5. ASSUME ~overtaken'
        PROVE  UpToDate(w, view'.keys, view'.loadError, Now, changed)
    <3>1. ~overtaken /\ \A j \in Loads(calls) : ~ (j < i)
      BY <2>3, <2>4, <2>5, KeptOrder DEF w
    <3> QED
      BY <1>0, <2>1, <2>2, <2>4, <3>1, LoadApplied DEF w
  <2> QED
    BY <2>3, <2>5 DEF ApiKeysCurrent, Shows, Now
<1>5. CASE ApiKeys!Created(i) \/ ApiKeys!Disabled(i) \/ ApiKeys!BatchDone(i)
  <2>1. calls[i].op # "load"
    BY <1>5 DEF ApiKeys!Created, ApiKeys!Disabled, ApiKeys!BatchDone, ApiKeys!Arrived, ApiKeys!Sent
  <2>2. CASE calls[i].answer # Failed
    <3>1. ApiKeys!Continue(i, <<ApiKeys!Load>>)
      BY <1>5, <2>2 DEF ApiKeys!Created, ApiKeys!Disabled, ApiKeys!BatchDone
    <3> QED
      BY <1>3, <2>1, <3>1
  <2>3. CASE calls[i].answer = Failed
    <3>1. /\ ApiKeys!Continue(i, <<>>)
          /\ \/ view' = view \/ view' = [view EXCEPT !.disabling = None]
             \/ view' = [view EXCEPT !.batchSaving = FALSE]
      BY <1>5, <2>3 DEF ApiKeys!Created, ApiKeys!Disabled, ApiKeys!BatchDone
    <3>2. view'.keys = view.keys /\ view'.loadError = view.loadError
      BY <1>0, <3>1 DEF KeyViews
    <3> QED
      BY <1>2, <2>1, <2>3, <3>1, <3>2
  <2> QED
    BY <2>2, <2>3
<1> QED
  BY <1>4, <1>5 DEF ApiKeys!Answered

\* What the server does is read by the load sent last, or loaded by a continuation.
LEMMA ApiKeysServedCurrent ==
  ASSUME ApiKeysInv, ApiKeysCurrent,
         (\E i \in DOMAIN calls : ApiKeys!Serve(i) \/ Refuse(i)) \/ ApiKeys!OtherAdmin
  PROVE  ApiKeysCurrent'
<1> DEFINE Now == ApiKeys!Listing
<1>0. /\ calls \in Seq(ApiKeysRequests)
      /\ ~overtaken => UpToDate(calls, view.keys, view.loadError, Now, changed)
      /\ ~overtaken => InOrder(calls)
  BY DEF ApiKeysInv, ApiKeysCurrent, Shows, UpToDate
<1>1. ASSUME NEW i \in DOMAIN calls, NEW v, calls' = [calls EXCEPT ![i].answer = v]
      PROVE  Answers(calls, i, v, calls')
  <2>1. Shaped(ApiKeysRequests)
    BY RequestsShaped DEF ApiKeysRequests, Shaped
  <2> QED
    BY <1>0, <1>1, <2>1, Answering
<1>2. ASSUME UNCHANGED table
      PROVE  Now' = Now
  BY <1>2 DEF ApiKeys!Listing, ApiKeys!Exists
<1> HIDE DEF Now
<1>3. ASSUME NEW i \in DOMAIN calls, Refuse(i)
      PROVE  ApiKeysCurrent'
  <2>1. /\ calls' = [calls EXCEPT ![i].answer = Failed] /\ calls[i].answer = Pending
        /\ UNCHANGED <<view, table, changed, overtaken>>
    BY <1>3 DEF Refuse, Answer, history
  <2>2. Answers(calls, i, Failed, calls')
    BY <1>1, <2>1
  <2>3. ~overtaken => UpToDate(calls', view.keys, view.loadError, Now, changed)
    BY <1>0, <2>1, <2>2, CallFailed
  <2> QED
    BY <1>2, <2>1, <2>3 DEF ApiKeysCurrent, Shows, Now
<1>4. ASSUME NEW i \in DOMAIN calls, ApiKeys!Read(i, ApiKeys!Listing)
      PROVE  ApiKeysCurrent'
  <2>1. /\ calls' = [calls EXCEPT ![i].answer = Now] /\ changed' = FALSE
        /\ calls[i].op = "load" /\ calls[i].answer = Pending
        /\ overtaken' = (overtaken \/ \E j \in Loads(calls) : j < i /\ calls[j].answer = Pending)
        /\ UNCHANGED <<view, table>>
    BY <1>4 DEF ApiKeys!Read, ApiKeys!Answer, ApiKeys!Waiting, ApiKeys!Sent, ApiKeys!Loads, Loads, Now
  <2>2. Answers(calls, i, Now, calls') /\ i \in Loads(calls)
    BY <1>1, <2>1 DEF Loads
  <2>3. ~overtaken' => ~overtaken /\ \A j \in Loads(calls) : j < i => calls[j].answer # Pending
    BY <2>1
  <2>4. ~overtaken' => UpToDate(calls', view.keys, view.loadError, Now, changed')
    BY <1>0, <2>1, <2>2, <2>3, LoadServed
  <2> QED
    BY <1>2, <2>1, <2>4 DEF ApiKeysCurrent, Shows, Now
<1>5. ASSUME NEW i \in DOMAIN calls, NEW o \in ApiKeys!Outcomes(i), ApiKeys!Write(i, o.table, o.answer)
      PROVE  ApiKeysCurrent'
  <2>1. calls[i].op # "load" /\ o.answer = 0
    BY DEF ApiKeys!Outcomes
  <2>2. /\ calls' = [calls EXCEPT ![i].answer = 0]
        /\ UNCHANGED <<view, changed, overtaken>>
    BY <1>5, <2>1 DEF ApiKeys!Write, ApiKeys!Answer, ApiKeys!history
  <2>3. Answers(calls, i, 0, calls') /\ Good(0)
    BY <1>1, <2>2, NumbersAreGood
  <2>4. ~overtaken => UpToDate(calls', view.keys, view.loadError, Now', changed)
    BY <1>0, <2>1, <2>3, WriteExecuted
  <2> QED
    BY <2>2, <2>4 DEF ApiKeysCurrent, Shows, Now
<1>6. ASSUME NEW i \in DOMAIN calls, NEW t, ApiKeys!Lose(i, t)
      PROVE  ApiKeysCurrent'
  <2>1. /\ calls' = [calls EXCEPT ![i].answer = Failed] /\ calls[i].answer = Pending
        /\ changed' = TRUE /\ UNCHANGED <<view, overtaken>>
    BY <1>6 DEF ApiKeys!Lose, ApiKeys!Answer
  <2>2. Answers(calls, i, Failed, calls')
    BY <1>1, <2>1
  <2>3. ~overtaken => InOrder(calls')
    BY <1>0, <2>1, <2>2, CallFailed DEF UpToDate
  <2>4. ~overtaken => UpToDate(calls', view.keys, view.loadError, Now', TRUE)
    BY <2>3, Moved
  <2> QED
    BY <2>1, <2>4 DEF ApiKeysCurrent, Shows, Now
<1>7. CASE ApiKeys!OtherAdmin
  <2>1. changed' = TRUE /\ UNCHANGED <<view, calls, overtaken>>
    BY <1>7 DEF ApiKeys!OtherAdmin, ApiKeys!Elsewhere
  <2>2. ~overtaken => UpToDate(calls, view.keys, view.loadError, Now', TRUE)
    BY <1>0, Moved
  <2> QED
    BY <2>1, <2>2 DEF ApiKeysCurrent, Shows, Now
<1> QED
  BY <1>3, <1>4, <1>5, <1>6, <1>7 DEF ApiKeys!Serve

\* Once every answer is there, the list of keys shown is current.
LEMMA ApiKeysShowsCurrent == ApiKeysCurrent => ApiKeys!ShownIsCurrent
<1> SUFFICES ASSUME ApiKeysCurrent, calls = <<>>, ~overtaken, ~changed, ~view.loadError
             PROVE  view.keys = ApiKeys!Listing
  BY DEF ApiKeys!ShownIsCurrent, ApiKeys!Quiet
<1> QED
  BY NothingInFlight DEF ApiKeysCurrent, Shows

-----------------------------------------------------------------------------
(* TokensPage.                                                             *)

TokenLists == UNION {[S -> {"enabled", "disabled"}] : S \in SUBSET Tokens}
TokenViews ==
  [tokens : TokenLists, loading : BOOLEAN, loadError : BOOLEAN, creating : BOOLEAN,
   saving : BOOLEAN, pending : Tokens \cup {None}, enabled : BOOLEAN,
   deleting : Tokens \cup {None}]

PoolRequests ==
  Requests({"load"}, {0}, TokenLists) \cup Requests({"create"}, {None}, {0})
    \cup Requests({"enable", "disable", "delete"}, Tokens, {0})

Saves == {"create", "enable", "disable", "delete"}

\* What the flags of the view say of the requests s.
PoolBusy(v, s) ==
  /\ v.loading => ~NoCall(s, {"load"})
  /\ IF v.saving THEN OneCall(s, Saves) ELSE NoCall(s, Saves)

PoolInv ==
  /\ view \in TokenViews
  /\ calls \in Seq(PoolRequests)
  /\ table \in Pool!Tables
  /\ PoolBusy(view, calls)

\* The page is in its invariant when it is first shown.
LEMMA PoolMount ==
  Mount(Pool!Initial, <<Load>>, Pool!Data) => PoolInv'
<1> SUFFICES ASSUME Mount(Pool!Initial, <<Load>>, Pool!Data)
             PROVE  PoolInv'
  OBVIOUS
<1>1. calls' = <<Load>> /\ view' = Pool!Initial /\ table' \in Pool!Data
  BY DEF Mount
<1>2. Load \in PoolRequests /\ Load.op = "load"
  BY DEF Load, Call, PoolRequests, Requests
<1>3. /\ calls' \in Seq(PoolRequests)
      /\ ~NoCall(calls', {"load"}) /\ NoCall(calls', Saves)
  BY <1>1, <1>2 DEF NoCall, Saves
<1>4. [t \in {} |-> "enabled"] \in TokenLists
  <2>1. [t \in {} |-> "enabled"] \in [{} -> {"enabled", "disabled"}] /\ {} \in SUBSET Tokens
    OBVIOUS
  <2> QED
    BY <2>1 DEF TokenLists
<1>5. Pool!Initial \in TokenViews /\ ~Pool!Initial.saving
  BY <1>4 DEF Pool!Initial, TokenViews
<1>6. table' \in Pool!Tables
  BY <1>1 DEF Pool!Data, Pool!Tables
<1> QED
  BY <1>1, <1>3, <1>5, <1>6 DEF PoolInv, PoolBusy

\* A step of the administrator keeps the invariant of the page.
LEMMA PoolUser ==
  ASSUME PoolInv, Pool!User
  PROVE  PoolInv'
<1>0. /\ view \in TokenViews /\ calls \in Seq(PoolRequests) /\ table \in Pool!Tables
      /\ PoolBusy(view, calls)
  BY DEF PoolInv
<1>1. ASSUME NEW v \in TokenViews, v.loading = view.loading, v.saving = view.saving, Pool!Set(v)
      PROVE  PoolInv'
  BY <1>0, <1>1 DEF Pool!Set, Pool!Local, PoolInv, PoolBusy
<1>2. ASSUME NEW c \in PoolRequests, c.op \in Saves, Pool!Save(c)
      PROVE  PoolInv'
  <2>1. calls' = calls \o <<c>> /\ ~view.saving /\ view' = [view EXCEPT !.saving = TRUE]
        /\ UNCHANGED table
    BY <1>2 DEF Pool!Save, Pool!Send
  <2>2. /\ calls' \in Seq(PoolRequests) /\ OneCall(calls', Saves)
        /\ ~NoCall(calls, {"load"}) => ~NoCall(calls', {"load"})
    BY <1>0, <1>2, <2>1, AppendFacts DEF PoolBusy
  <2>3. view' \in TokenViews /\ view'.loading = view.loading /\ view'.saving
    BY <1>0, <2>1 DEF TokenViews
  <2> QED
    BY <1>0, <2>1, <2>2, <2>3 DEF PoolInv, PoolBusy
<1>3. \A op, t : Pool!Call(op, t).op = op
  BY DEF Pool!Call
<1>4. CASE Pool!Refresh
  <2>1. /\ calls' = calls \o <<Pool!Load>> /\ UNCHANGED table
        /\ view' = [view EXCEPT !.loading = TRUE, !.loadError = FALSE]
    BY <1>4 DEF Pool!Refresh, Pool!Loading, Pool!Send
  <2>2. Pool!Load \in PoolRequests /\ Pool!Load.op = "load"
    BY DEF Pool!Load, Pool!Call, PoolRequests, Requests
  <2>3. view' \in TokenViews /\ view'.saving = view.saving
    BY <1>0, <2>1 DEF TokenViews
  <2>4. Pool!Load.op \notin Saves
    BY <2>2 DEF Saves
  <2>5. /\ calls' \in Seq(PoolRequests) /\ ~NoCall(calls', {"load"})
        /\ OneCall(calls, Saves) => OneCall(calls', Saves)
        /\ NoCall(calls, Saves) => NoCall(calls', Saves)
    BY <1>0, <2>1, <2>2, <2>4, AppendFacts
  <2> QED
    BY <1>0, <2>1, <2>3, <2>5 DEF PoolInv, PoolBusy
<1>5. CASE Pool!AskCreate
  BY <1>0, <1>1, <1>5 DEF Pool!AskCreate, TokenViews
<1>6. CASE Pool!CloseDialog \/ Pool!Escape
  BY <1>0, <1>1, <1>6 DEF Pool!CloseDialog, Pool!Escape, TokenViews
<1>7. CASE Pool!Create
  <2>1. Pool!Call("create", None) \in PoolRequests
    BY DEF Pool!Call, PoolRequests, Requests
  <2> QED
    BY <1>2, <1>3, <1>7, <2>1 DEF Pool!Create, Saves
<1>8. CASE Pool!Toggle
  <2>1. PICK op \in {"enable", "disable"} : Pool!Save(Pool!Call(op, view.pending))
    BY <1>8 DEF Pool!Toggle
  <2>2. view.pending \in Tokens
    BY <1>0, <1>8 DEF Pool!Toggle, TokenViews
  <2>3. Pool!Call(op, view.pending) \in PoolRequests
    BY <2>2 DEF Pool!Call, PoolRequests, Requests
  <2> QED
    BY <1>2, <1>3, <2>1, <2>3 DEF Saves
<1>9. CASE Pool!Remove
  <2>1. view.deleting \in Tokens
    BY <1>0, <1>9 DEF Pool!Remove, TokenViews
  <2>2. Pool!Call("delete", view.deleting) \in PoolRequests
    BY <2>1 DEF Pool!Call, PoolRequests, Requests
  <2> QED
    BY <1>2, <1>3, <1>9, <2>2 DEF Pool!Remove, Saves
<1>10. ASSUME NEW t \in Tokens, Pool!AskToggle(t) \/ Pool!AskDelete(t)
       PROVE  PoolInv'
  BY <1>0, <1>1, <1>10 DEF Pool!AskToggle, Pool!AskDelete, TokenViews
<1> QED
  BY <1>4, <1>5, <1>6, <1>7, <1>8, <1>9, <1>10 DEF Pool!User

\* A continuation keeps the invariant of the page.
LEMMA PoolAnswered ==
  ASSUME PoolInv, NEW i \in DOMAIN calls, Pool!Answered(i)
  PROVE  PoolInv'
<1> DEFINE w == Without(calls, i)
<1>0. /\ view \in TokenViews /\ calls \in Seq(PoolRequests) /\ table \in Pool!Tables
      /\ PoolBusy(view, calls)
  BY DEF PoolInv
<1>1. \A next : Pool!Continue(i, next) => calls' = w \o next /\ UNCHANGED table
  BY DEF Pool!Continue, Pool!Rest, Without
<1>2. w \in Seq(PoolRequests) /\ calls[i] \in PoolRequests
  BY <1>0, WithoutIs
<1>3. Pool!Load \in PoolRequests /\ Pool!Load.op = "load" /\ Pool!Load.op \notin Saves
  BY DEF Pool!Load, Pool!Call, PoolRequests, Requests, Saves
<1>4. ASSUME NEW ops \in SUBSET Saves, NEW closed \in TokenViews,
             closed.loading = view.loading, Pool!Settle(i, ops, closed)
      PROVE  PoolInv'
  <2>1. calls[i].op \in Saves /\ calls[i].op # "load"
    BY <1>4 DEF Pool!Settle, Pool!Arrived, Pool!Sent, Saves
  <2>2. NoCall(w, Saves) /\ (view.loading => ~NoCall(w, {"load"}))
    BY <1>0, <2>1, WithoutFacts DEF PoolBusy
  <2> HIDE DEF w
  <2>3. CASE calls[i].answer = Failed
    <3>1. Pool!Continue(i, <<>>) /\ view' = [view EXCEPT !.saving = FALSE]
      BY <1>4, <2>3 DEF Pool!Settle
    <3>2. calls' = w /\ UNCHANGED table
      BY <1>1, <1>2, <3>1
    <3>3. view' \in TokenViews /\ view'.loading = view.loading /\ ~view'.saving
      BY <1>0, <3>1 DEF TokenViews
    <3> QED
      BY <1>0, <1>2, <2>2, <3>2, <3>3 DEF PoolInv, PoolBusy
  <2>4. CASE calls[i].answer # Failed
    <3>1. /\ Pool!Continue(i, <<Pool!Load>>)
          /\ view' = [[closed EXCEPT !.saving = FALSE] EXCEPT !.loading = TRUE, !.loadError = FALSE]
      BY <1>4, <2>4 DEF Pool!Settle, Pool!Loading
    <3>2. calls' = w \o <<Pool!Load>> /\ UNCHANGED table
      BY <1>1, <3>1
    <3>3. view' \in TokenViews /\ ~view'.saving
      BY <1>4, <3>1 DEF TokenViews
    <3>4. calls' \in Seq(PoolRequests) /\ ~NoCall(calls', {"load"}) /\ NoCall(calls', Saves)
      BY <1>2, <1>3, <2>2, <3>2, AppendFacts
    <3> QED
      BY <1>0, <3>2, <3>3, <3>4 DEF PoolInv, PoolBusy
  <2> QED
    BY <2>3, <2>4
<1>5. CASE Pool!Loaded(i)
  <2>1. /\ calls[i].op = "load" /\ calls[i].op \notin Saves /\ calls[i].answer # Pending
        /\ Pool!Continue(i, <<>>)
        /\ view' = IF calls[i].answer = Failed THEN [view EXCEPT !.loadError = TRUE, !.loading = FALSE]
                   ELSE [view EXCEPT !.tokens = calls[i].answer, !.loading = FALSE]
    BY <1>5 DEF Pool!Loaded, Pool!Arrived, Pool!Sent, Saves
  <2>2. calls[i].answer \in TokenLists \cup {Pending, Failed}
    BY <1>2, <2>1 DEF PoolRequests, Requests
  <2>3. view' \in TokenViews /\ ~view'.loading /\ view'.saving = view.saving
    BY <1>0, <2>1, <2>2 DEF TokenViews
  <2>4. IF view.saving THEN OneCall(w, Saves) ELSE NoCall(w, Saves)
    BY <1>0, <2>1, WithoutFacts DEF PoolBusy
  <2> HIDE DEF w
  <2>5. calls' = w /\ UNCHANGED table
    BY <1>1, <1>2, <2>1
  <2> QED
    BY <1>0, <1>2, <2>3, <2>4, <2>5 DEF PoolInv, PoolBusy
<1>6. CASE Pool!Created(i)
  BY <1>0, <1>4, <1>6 DEF Pool!Created, TokenViews, Saves
<1>7. CASE Pool!Toggled(i)
  BY <1>0, <1>4, <1>7 DEF Pool!Toggled, TokenViews, Saves
<1>8. CASE Pool!Removed(i)
  BY <1>0, <1>4, <1>8 DEF Pool!Removed, TokenViews, Saves
<1> QED
  BY <1>5, <1>6, <1>7, <1>8 DEF Pool!Answered

\* What the server does keeps the invariant of the page.
LEMMA PoolServed ==
  ASSUME PoolInv,
         (\E i \in DOMAIN calls : Pool!Serve(i) \/ Refuse(i)) \/ Pool!OtherAdmin
  PROVE  PoolInv'
<1>0. /\ view \in TokenViews /\ calls \in Seq(PoolRequests) /\ table \in Pool!Tables
      /\ PoolBusy(view, calls)
  BY DEF PoolInv
<1>1. ASSUME NEW i \in DOMAIN calls, NEW v, calls' = [calls EXCEPT ![i].answer = v],
             [calls[i] EXCEPT !.answer = v] \in PoolRequests,
             [calls[i] EXCEPT !.answer = v].op = calls[i].op,
             UNCHANGED view, table' \in Pool!Tables
      PROVE  PoolInv'
  <2>1. \A ops : /\ calls' \in Seq(PoolRequests)
                 /\ NoCall(calls', ops) <=> NoCall(calls, ops)
                 /\ OneCall(calls, ops) => OneCall(calls', ops)
    BY <1>0, <1>1, AnswerFacts
  <2>2. PoolBusy(view', calls')
    BY <1>0, <1>1, <2>1 DEF PoolBusy
  <2> QED
    BY <1>0, <1>1, <2>1, <2>2 DEF PoolInv
<1>2. ASSUME NEW i \in DOMAIN calls, NEW v \in {0, Failed}, v = Failed \/ calls[i].op \in Saves
      PROVE  /\ [calls[i] EXCEPT !.answer = v] \in PoolRequests
             /\ [calls[i] EXCEPT !.answer = v].op = calls[i].op
  <2>1. calls[i] \in PoolRequests
    BY <1>0
  <2> QED
    BY <1>2, <2>1 DEF PoolRequests, Requests, Saves
<1>3. ASSUME NEW i \in DOMAIN calls, Refuse(i)
      PROVE  PoolInv'
  <2>1. calls' = [calls EXCEPT ![i].answer = Failed] /\ UNCHANGED <<view, table>>
    BY <1>3 DEF Refuse, Answer
  <2> QED
    BY <1>0, <1>1, <1>2, <2>1
<1>4. ASSUME NEW i \in DOMAIN calls, Pool!Read(i, Pool!Listing)
      PROVE  PoolInv'
  <2>1. /\ calls[i].op = "load" /\ UNCHANGED <<view, table>>
        /\ calls' = [calls EXCEPT ![i].answer = Pool!Listing]
    BY <1>4 DEF Pool!Read, Pool!Waiting, Pool!Sent, Pool!Answer
  <2>2. Pool!Listing \in TokenLists
    <3> DEFINE D == {x \in Tokens : Pool!Exists(x)}
    <3>1. D \in SUBSET Tokens
      OBVIOUS
    <3>2. Pool!Listing \in [D -> {"enabled", "disabled"}]
      BY DEF Pool!Listing, Pool!Exists
    <3> QED
      BY <3>1, <3>2 DEF TokenLists
  <2>3. calls[i] \in PoolRequests
    BY <1>0
  <2>4. /\ [calls[i] EXCEPT !.answer = Pool!Listing] \in PoolRequests
        /\ [calls[i] EXCEPT !.answer = Pool!Listing].op = calls[i].op
    BY <2>1, <2>2, <2>3 DEF PoolRequests, Requests
  <2> QED
    BY <1>0, <1>1, <2>1, <2>4
<1>5. ASSUME NEW i \in DOMAIN calls, NEW t \in Pool!Outcomes(i),
             Pool!Write(i, t, 0) \/ Pool!Lose(i, t)
      PROVE  PoolInv'
  <2>1. \A u, row : row \in {"enabled", "disabled", "deleted"} => Pool!After(u, row) \in Pool!Tables
    BY <1>0 DEF Pool!After, Pool!Tables
  <2>2. calls[i].op \in Saves /\ t \in Pool!Tables
    <3>1. CASE calls[i].op = "create"
      BY <2>1, <3>1 DEF Pool!Outcomes, Saves
    <3>2. CASE calls[i].op # "create"
      BY <2>1, <3>2 DEF Pool!Outcomes, Saves
    <3> QED
      BY <3>1, <3>2
  <2>3. PICK v \in {0, Failed} : /\ calls' = [calls EXCEPT ![i].answer = v]
                                 /\ UNCHANGED view /\ table' = t
    BY <1>5 DEF Pool!Write, Pool!Lose, Pool!Answer
  <2> QED
    BY <1>1, <1>2, <2>2, <2>3
<1>6. CASE Pool!OtherAdmin
  <2>1. PICK t \in Tokens, row \in {"enabled", "disabled", "deleted"} :
          Pool!Elsewhere(Pool!After(t, row))
    BY <1>6 DEF Pool!OtherAdmin
  <2>2. table' \in Pool!Tables /\ UNCHANGED <<view, calls>>
    BY <1>0, <2>1 DEF Pool!Elsewhere, Pool!After, Pool!Tables
  <2> QED
    BY <1>0, <2>2 DEF PoolInv
<1> QED
  BY <1>3, <1>4, <1>5, <1>6 DEF Pool!Serve

\* The invariant of the page implies its properties.
LEMMA PoolShows == PoolInv => Pool!TypeOK /\ Pool!BusyForCause
<1> SUFFICES ASSUME PoolInv
             PROVE  Pool!TypeOK /\ Pool!BusyForCause
  OBVIOUS
<1>1. \A i \in DOMAIN calls : calls[i] \in PoolRequests
  BY DEF PoolInv
<1>2. \A i \in DOMAIN calls : calls[i].op \in {"load", "create", "enable", "disable", "delete"}
  BY <1>1 DEF PoolRequests, Requests
<1>3. Pool!TypeOK
  BY <1>2 DEF PoolInv, Pool!TypeOK, TokenViews, TokenLists
<1> DEFINE saves == DOMAIN calls \ Pool!Sent("load")
<1>4. Pool!Cardinality(saves) = Cardinality(saves)
  BY DEF Pool!Cardinality, Cardinality
<1>5. /\ saves = {k \in DOMAIN calls : calls[k].op \in Saves}
      /\ Pool!Sent("load") = {k \in DOMAIN calls : calls[k].op \in {"load"}}
  BY <1>2 DEF Pool!Sent, Saves
<1> HIDE DEF saves
<1>6. NoCall(calls, {"load"}) <=> Pool!Sent("load") = {}
  BY <1>5, SentIs
<1>7. /\ NoCall(calls, Saves) <=> saves = {}
      /\ OneCall(calls, Saves) => Cardinality(saves) = 1
  BY <1>5, SentIs
<1>8. Pool!BusyForCause
  BY <1>4, <1>6, <1>7 DEF PoolInv, PoolBusy, Pool!BusyForCause, saves
<1> QED
  BY <1>3, <1>8

PoolCurrent == Shows(view.tokens, view.loadError, Pool!Listing)

\* The page of the list of tokens has asked for what it will show.
LEMMA PoolMountCurrent ==
  Mount(Pool!Initial, <<Load>>, Pool!Data) => PoolCurrent'
<1> SUFFICES ASSUME Mount(Pool!Initial, <<Load>>, Pool!Data)
             PROVE  PoolCurrent'
  OBVIOUS
<1>1. calls' = <<Load>> /\ Load.op = "load" /\ Load.answer = Pending
  BY DEF Mount, Load, Call
<1> QED
  BY <1>1, FirstLoad DEF PoolCurrent, Shows

\* A step of the administrator keeps what the page shows.
LEMMA PoolUserCurrent ==
  ASSUME PoolInv, PoolCurrent, Pool!User
  PROVE  PoolCurrent'
<1> DEFINE Now == Pool!Listing
<1>0. /\ view \in TokenViews /\ calls \in Seq(PoolRequests)
      /\ ~overtaken => UpToDate(calls, view.tokens, view.loadError, Now, changed)
      /\ ~overtaken => InOrder(calls)
  BY DEF PoolInv, PoolCurrent, Shows, UpToDate
<1>1. ASSUME UNCHANGED table
      PROVE  Now' = Now
  BY <1>1 DEF Pool!Listing, Pool!Exists
<1>2. ASSUME NEW v, Pool!Set(v), v.tokens = view.tokens, v.loadError = view.loadError
      PROVE  PoolCurrent'
  <2>1. view' = v /\ UNCHANGED <<calls, table, changed, overtaken>>
    BY <1>2 DEF Pool!Set, Pool!Local, Pool!history
  <2>2. Now' = Now
    BY <1>1, <2>1
  <2> QED
    BY <1>0, <1>2, <2>1, <2>2 DEF PoolCurrent, Shows
<1>3. ASSUME NEW c, c.answer = Pending, Pool!Send(<<c>>),
             c.op = "load" \/ (view'.tokens = view.tokens /\ view'.loadError = view.loadError)
      PROVE  PoolCurrent'
  <2>1. /\ calls' = calls \o <<c>> /\ UNCHANGED <<table, changed>>
        /\ overtaken' = Forget(calls, <<c>>, overtaken)
    BY <1>3 DEF Pool!Send, Pool!Forget, Pool!Loads, Forget, Loads
  <2>2. Now' = Now
    BY <1>1, <2>1
  <2>3. CASE c.op = "load"
    BY <1>0, <1>3, <2>1, <2>3, LoadSent DEF PoolCurrent, Shows
  <2>4. CASE c.op # "load"
    <3> HIDE DEF Now
    <3>0. ~overtaken' => ~overtaken
      BY <2>1, <2>4, WriteSent
    <3>1. ~overtaken' => UpToDate(calls', view.tokens, view.loadError, Now, changed)
      BY <1>0, <1>3, <2>1, <2>4, <3>0, NewWrite
    <3> QED
      BY <1>3, <2>1, <2>2, <2>4, <3>1 DEF PoolCurrent, Shows, Now
  <2> QED
    BY <2>3, <2>4
<1> HIDE DEF Now
<1>4. CASE Pool!Refresh
  <2>1. Pool!Load.op = "load" /\ Pool!Load.answer = Pending
    BY DEF Pool!Load, Pool!Call
  <2> QED
    BY <1>3, <1>4, <2>1 DEF Pool!Refresh
<1>5. CASE Pool!Create \/ Pool!Toggle \/ Pool!Remove
  <2>0. PICK op \in {"create", "enable", "disable", "delete"} : \E with :
          /\ Pool!Send(<<[op |-> op, with |-> with, answer |-> Pending]>>)
          /\ view' = [view EXCEPT !.saving = TRUE]
    BY <1>5 DEF Pool!Create, Pool!Toggle, Pool!Remove, Pool!Save, Pool!Call
  <2>1. PICK with :
          /\ Pool!Send(<<[op |-> op, with |-> with, answer |-> Pending]>>)
          /\ view' = [view EXCEPT !.saving = TRUE]
    BY <2>0
  <2>2. view'.tokens = view.tokens /\ view'.loadError = view.loadError
    BY <1>0, <2>1 DEF TokenViews
  <2> QED
    BY <1>3, <2>1, <2>2
<1>6. CASE Pool!AskCreate \/ Pool!CloseDialog \/ Pool!Escape
  BY <1>0, <1>2, <1>6 DEF Pool!AskCreate, Pool!CloseDialog, Pool!Escape, TokenViews
<1>7. ASSUME NEW t \in Tokens, Pool!AskToggle(t) \/ Pool!AskDelete(t)
      PROVE  PoolCurrent'
  BY <1>0, <1>2, <1>7 DEF Pool!AskToggle, Pool!AskDelete, TokenViews
<1> QED
  BY <1>4, <1>5, <1>6, <1>7 DEF Pool!User

\* A continuation shows what it brings, or loads, when it is not that of a failure.
LEMMA PoolAnsweredCurrent ==
  ASSUME PoolInv, PoolCurrent, NEW i \in DOMAIN calls, Pool!Answered(i)
  PROVE  PoolCurrent'
<1> DEFINE Now == Pool!Listing
           w == Without(calls, i)
<1>0. /\ view \in TokenViews /\ calls \in Seq(PoolRequests)
      /\ ~overtaken => UpToDate(calls, view.tokens, view.loadError, Now, changed)
      /\ ~overtaken => InOrder(calls)
      /\ w \in Seq(PoolRequests)
  BY WithoutIs DEF PoolInv, PoolCurrent, Shows, UpToDate
<1>1. ASSUME NEW next, Pool!Continue(i, next)
      PROVE  /\ calls' = w \o next /\ UNCHANGED <<table, changed>>
             /\ overtaken' = Forget(w, next, overtaken \/ (i \in Loads(calls) /\ \E j \in Loads(calls) : j < i))
             /\ Now' = Now
  BY <1>1 DEF Pool!Continue, Pool!Rest, Without, Pool!Forget, Pool!Loads, Forget, Loads,
              Pool!Listing, Pool!Exists
<1>2. ASSUME calls[i].op # "load", calls[i].answer = Failed, Pool!Continue(i, <<>>),
             view'.tokens = view.tokens /\ view'.loadError = view.loadError
      PROVE  PoolCurrent'
  <2> HIDE DEF w, Now
  <2>1. /\ calls' = w /\ UNCHANGED <<table, changed>> /\ Now' = Now
        /\ overtaken' = Forget(w, <<>>, overtaken \/ (i \in Loads(calls) /\ \E j \in Loads(calls) : j < i))
    BY <1>0, <1>1, <1>2
  <2>2. ~overtaken' => ~overtaken
    BY <2>1, KeptOrder DEF w
  <2>3. ~overtaken => UpToDate(w, view.tokens, view.loadError, Now, changed)
    BY <1>0, <1>2, WriteForgotten DEF w
  <2> QED
    BY <1>2, <2>1, <2>2, <2>3 DEF PoolCurrent, Shows, Now
<1>3. ASSUME calls[i].op # "load", Pool!Continue(i, <<Pool!Load>>)
      PROVE  PoolCurrent'
  <2>1. Pool!Load.op = "load" /\ Pool!Load.answer = Pending
    BY DEF Pool!Load, Pool!Call
  <2> HIDE DEF w, Now
  <2>2. i \notin Loads(calls)
    BY <1>3 DEF Loads
  <2>3. calls' = w \o <<Pool!Load>> /\ overtaken' = Forget(w, <<Pool!Load>>, overtaken)
    BY <1>1, <1>3, <2>2 DEF Forget
  <2>4. ~overtaken => InOrder(w)
    BY <1>0, OrderWithout DEF w
  <2>5. ~overtaken' => UpToDate(calls', view'.tokens, view'.loadError, Now', changed')
    BY <1>0, <2>1, <2>3, <2>4, LoadSent
  <2> QED
    BY <2>5 DEF PoolCurrent, Shows, Now
<1>4. CASE Pool!Loaded(i)
  <2>1. /\ calls[i].op = "load" /\ calls[i].answer # Pending
        /\ Pool!Continue(i, <<>>)
        /\ view' = IF calls[i].answer = Failed THEN [view EXCEPT !.loadError = TRUE, !.loading = FALSE]
                   ELSE [view EXCEPT !.tokens = calls[i].answer, !.loading = FALSE]
    BY <1>4 DEF Pool!Loaded, Pool!Arrived, Pool!Sent
  <2>2. IF calls[i].answer = Failed THEN view'.loadError ELSE view'.tokens = calls[i].answer
    BY <1>0, <2>1 DEF TokenViews
  <2> HIDE DEF w, Now
  <2>3. /\ calls' = w /\ UNCHANGED <<table, changed>> /\ Now' = Now
        /\ overtaken' = Forget(w, <<>>, overtaken \/ (i \in Loads(calls) /\ \E j \in Loads(calls) : j < i))
    BY <1>0, <1>1, <2>1
  <2>4. i \in Loads(calls)
    BY <2>1 DEF Loads
  <2>5. ASSUME ~overtaken'
        PROVE  UpToDate(w, view'.tokens, view'.loadError, Now, changed)
    <3>1. ~overtaken /\ \A j \in Loads(calls) : ~ (j < i)
      BY <2>3, <2>4, <2>5, KeptOrder DEF w
    <3> QED
      BY <1>0, <2>1, <2>2, <2>4, <3>1, LoadApplied DEF w
  <2> QED
    BY <2>3, <2>5 DEF PoolCurrent, Shows, Now
<1>5. CASE Pool!Created(i) \/ Pool!Toggled(i) \/ Pool!Removed(i)
  <2>1. /\ calls[i].op # "load"
        /\ IF calls[i].answer = Failed
           THEN view' = [view EXCEPT !.saving = FALSE] /\ Pool!Continue(i, <<>>)
           ELSE Pool!Continue(i, <<Pool!Load>>)
    BY <1>5 DEF Pool!Created, Pool!Toggled, Pool!Removed, Pool!Settle, Pool!Arrived, Pool!Sent
  <2>2. CASE calls[i].answer # Failed
    BY <1>3, <2>1, <2>2
  <2>3. CASE calls[i].answer = Failed
    <3>1. view'.tokens = view.tokens /\ view'.loadError = view.loadError
      BY <1>0, <2>1, <2>3 DEF TokenViews
    <3> QED
      BY <1>2, <2>1, <2>3, <3>1
  <2> QED
    BY <2>2, <2>3
<1> QED
  BY <1>4, <1>5 DEF Pool!Answered

\* What the server does is read by the load sent last, or loaded by a continuation.
LEMMA PoolServedCurrent ==
  ASSUME PoolInv, PoolCurrent,
         (\E i \in DOMAIN calls : Pool!Serve(i) \/ Refuse(i)) \/ Pool!OtherAdmin
  PROVE  PoolCurrent'
<1> DEFINE Now == Pool!Listing
<1>0. /\ calls \in Seq(PoolRequests)
      /\ ~overtaken => UpToDate(calls, view.tokens, view.loadError, Now, changed)
      /\ ~overtaken => InOrder(calls)
  BY DEF PoolInv, PoolCurrent, Shows, UpToDate
<1>1. ASSUME NEW i \in DOMAIN calls, NEW v, calls' = [calls EXCEPT ![i].answer = v]
      PROVE  Answers(calls, i, v, calls')
  <2>1. Shaped(PoolRequests)
    BY RequestsShaped DEF PoolRequests, Shaped
  <2> QED
    BY <1>0, <1>1, <2>1, Answering
<1>2. ASSUME UNCHANGED table
      PROVE  Now' = Now
  BY <1>2 DEF Pool!Listing, Pool!Exists
<1> HIDE DEF Now
<1>3. ASSUME NEW i \in DOMAIN calls, Refuse(i)
      PROVE  PoolCurrent'
  <2>1. /\ calls' = [calls EXCEPT ![i].answer = Failed] /\ calls[i].answer = Pending
        /\ UNCHANGED <<view, table, changed, overtaken>>
    BY <1>3 DEF Refuse, Answer, history
  <2>2. Answers(calls, i, Failed, calls')
    BY <1>1, <2>1
  <2>3. ~overtaken => UpToDate(calls', view.tokens, view.loadError, Now, changed)
    BY <1>0, <2>1, <2>2, CallFailed
  <2> QED
    BY <1>2, <2>1, <2>3 DEF PoolCurrent, Shows, Now
<1>4. ASSUME NEW i \in DOMAIN calls, Pool!Read(i, Pool!Listing)
      PROVE  PoolCurrent'
  <2>1. /\ calls' = [calls EXCEPT ![i].answer = Now] /\ changed' = FALSE
        /\ calls[i].op = "load" /\ calls[i].answer = Pending
        /\ overtaken' = (overtaken \/ \E j \in Loads(calls) : j < i /\ calls[j].answer = Pending)
        /\ UNCHANGED <<view, table>>
    BY <1>4 DEF Pool!Read, Pool!Answer, Pool!Waiting, Pool!Sent, Pool!Loads, Loads, Now
  <2>2. Answers(calls, i, Now, calls') /\ i \in Loads(calls)
    BY <1>1, <2>1 DEF Loads
  <2>3. ~overtaken' => ~overtaken /\ \A j \in Loads(calls) : j < i => calls[j].answer # Pending
    BY <2>1
  <2>4. ~overtaken' => UpToDate(calls', view.tokens, view.loadError, Now, changed')
    BY <1>0, <2>1, <2>2, <2>3, LoadServed
  <2> QED
    BY <1>2, <2>1, <2>4 DEF PoolCurrent, Shows, Now
<1>5. ASSUME NEW i \in DOMAIN calls, NEW t \in Pool!Outcomes(i), Pool!Write(i, t, 0)
      PROVE  PoolCurrent'
  <2>1. calls[i].op # "load"
    BY DEF Pool!Outcomes
  <2>2. /\ calls' = [calls EXCEPT ![i].answer = 0]
        /\ UNCHANGED <<view, changed, overtaken>>
    BY <1>5, <2>1 DEF Pool!Write, Pool!Answer, Pool!history
  <2>3. Answers(calls, i, 0, calls') /\ Good(0)
    BY <1>1, <2>2, NumbersAreGood
  <2>4. ~overtaken => UpToDate(calls', view.tokens, view.loadError, Now', changed)
    BY <1>0, <2>1, <2>3, WriteExecuted
  <2> QED
    BY <2>2, <2>4 DEF PoolCurrent, Shows, Now
<1>6. ASSUME NEW i \in DOMAIN calls, NEW t, Pool!Lose(i, t)
      PROVE  PoolCurrent'
  <2>1. /\ calls' = [calls EXCEPT ![i].answer = Failed] /\ calls[i].answer = Pending
        /\ changed' = TRUE /\ UNCHANGED <<view, overtaken>>
    BY <1>6 DEF Pool!Lose, Pool!Answer
  <2>2. Answers(calls, i, Failed, calls')
    BY <1>1, <2>1
  <2>3. ~overtaken => InOrder(calls')
    BY <1>0, <2>1, <2>2, CallFailed DEF UpToDate
  <2>4. ~overtaken => UpToDate(calls', view.tokens, view.loadError, Now', TRUE)
    BY <2>3, Moved
  <2> QED
    BY <2>1, <2>4 DEF PoolCurrent, Shows, Now
<1>7. CASE Pool!OtherAdmin
  <2>1. changed' = TRUE /\ UNCHANGED <<view, calls, overtaken>>
    BY <1>7 DEF Pool!OtherAdmin, Pool!Elsewhere
  <2>2. ~overtaken => UpToDate(calls, view.tokens, view.loadError, Now', TRUE)
    BY <1>0, Moved
  <2> QED
    BY <2>1, <2>2 DEF PoolCurrent, Shows, Now
<1> QED
  BY <1>3, <1>4, <1>5, <1>6, <1>7 DEF Pool!Serve

\* Once every answer is there, the list of tokens shown is current.
LEMMA PoolShowsCurrent == PoolCurrent => Pool!ShownIsCurrent
<1> SUFFICES ASSUME PoolCurrent, calls = <<>>, ~overtaken, ~changed, ~view.loadError
             PROVE  view.tokens = Pool!Listing
  BY DEF Pool!ShownIsCurrent, Pool!Quiet
<1> QED
  BY NothingInFlight DEF PoolCurrent, Shows

-----------------------------------------------------------------------------
(* SettingsPage.                                                           *)

\* What a save sends is what the server has or may have.
SettingsRequests ==
  Requests({"load"}, {0}, Settings!Data) \cup Requests({"save"}, Settings!Data, Settings!Data)

Forms == [Numeric -> Settings!Strings]
SettingsViews ==
  [settings : Settings!Data \cup {None}, form : Forms, anonymous : BOOLEAN, saving : BOOLEAN]

SettingsBusy(v, s) ==
  IF v.saving THEN v.settings # None /\ OneCall(s, {"save"}) ELSE NoCall(s, {"save"})

SettingsInv ==
  /\ view \in SettingsViews
  /\ calls \in Seq(SettingsRequests)
  /\ table \in Settings!Data
  /\ SettingsBusy(view, calls)

\* What the settings form sends is in its type.
LEMMA SettingsData ==
  Settings!Data = {r \in [numbers : [Numeric -> Nat], anonymous : BOOLEAN] :
                     \A n \in Numeric : r.numbers[n] \in Settings!Range(n)}
<1> DEFINE Some == UNION {Settings!Range(n) : n \in Numeric}
<1>1. \A n \in Numeric : Settings!Range(n) \subseteq Nat /\ Settings!Range(n) \subseteq Some
  BY ConsoleAssumption DEF Settings!Range, Settings!Values, Settings!Lowest
<1>2. Settings!Data = {r \in [numbers : [Numeric -> Some], anonymous : BOOLEAN] :
                         \A n \in Numeric : r.numbers[n] \in Settings!Range(n)}
  BY DEF Settings!Data
<1> HIDE DEF Some
<1>3. ASSUME NEW f, f \in [Numeric -> Some] \/ f \in [Numeric -> Nat],
             \A n \in Numeric : f[n] \in Settings!Range(n)
      PROVE  f \in [Numeric -> Some] /\ f \in [Numeric -> Nat]
  BY <1>1, <1>3
<1>4. ASSUME NEW T, NEW r \in [numbers : [Numeric -> T], anonymous : BOOLEAN]
      PROVE  /\ r = [numbers |-> r.numbers, anonymous |-> r.anonymous]
             /\ r.numbers \in [Numeric -> T] /\ r.anonymous \in BOOLEAN
  OBVIOUS
<1>5. ASSUME NEW r \in [numbers : [Numeric -> Some], anonymous : BOOLEAN],
             \A n \in Numeric : r.numbers[n] \in Settings!Range(n)
      PROVE  r \in [numbers : [Numeric -> Nat], anonymous : BOOLEAN]
  BY <1>3, <1>4, <1>5
<1>6. ASSUME NEW r \in [numbers : [Numeric -> Nat], anonymous : BOOLEAN],
             \A n \in Numeric : r.numbers[n] \in Settings!Range(n)
      PROVE  r \in [numbers : [Numeric -> Some], anonymous : BOOLEAN]
  BY <1>3, <1>4, <1>6
<1> QED
  BY <1>2, <1>5, <1>6

\* The page is in its invariant when it is first shown.
LEMMA SettingsMount ==
  Mount(Settings!Initial, <<Load>>, Settings!Data) => SettingsInv'
<1> SUFFICES ASSUME Mount(Settings!Initial, <<Load>>, Settings!Data)
             PROVE  SettingsInv'
  OBVIOUS
<1>1. calls' = <<Load>> /\ view' = Settings!Initial /\ table' \in Settings!Data
  BY DEF Mount
<1>2. Load \in SettingsRequests /\ Load.op = "load"
  BY DEF Load, Call, SettingsRequests, Requests
<1>3. calls' \in Seq(SettingsRequests) /\ NoCall(calls', {"save"})
  BY <1>1, <1>2 DEF NoCall
<1>4. Settings!Initial \in SettingsViews /\ ~Settings!Initial.saving
  BY DEF Settings!Initial, SettingsViews, Forms, Settings!Empty, Settings!Strings
<1> QED
  BY <1>1, <1>3, <1>4 DEF SettingsInv, SettingsBusy

\* What is written for a number is read as the number.
LEMMA StringIsOf == \A x : Settings!String(x).number = x
  BY DEF Settings!String

\* The form is filled with the numbers of an answer.
LEMMA AppliedIsView ==
  ASSUME NEW v \in SettingsViews, NEW s \in Settings!Data
  PROVE  /\ Settings!Applied(v, s) \in SettingsViews
         /\ Settings!Applied(v, s).settings = s
         /\ Settings!Applied(v, s).saving = v.saving
<1> DEFINE f == [n \in Numeric |-> Settings!String(s.numbers[n])]
<1>1. s.anonymous \in BOOLEAN /\ \A n \in Numeric : s.numbers[n] \in Nat
  BY SettingsData
<1>2. f \in Forms
  BY <1>1 DEF Forms, Settings!String, Settings!Strings
<1>3. Settings!Applied(v, s) = [v EXCEPT !.settings = s, !.form = f, !.anonymous = s.anonymous]
  BY DEF Settings!Applied
<1> HIDE DEF f
<1> QED
  BY <1>1, <1>2, <1>3 DEF SettingsViews

\* A step of the administrator keeps the invariant of the page.
LEMMA SettingsUser ==
  ASSUME SettingsInv, Settings!User
  PROVE  SettingsInv'
<1>0. /\ view \in SettingsViews /\ calls \in Seq(SettingsRequests) /\ table \in Settings!Data
      /\ SettingsBusy(view, calls)
  BY DEF SettingsInv
<1>1. ASSUME NEW v \in SettingsViews, v.settings = view.settings, v.saving = view.saving,
             Settings!Set(v)
      PROVE  SettingsInv'
  BY <1>0, <1>1 DEF Settings!Set, Settings!Local, SettingsInv, SettingsBusy
<1>2. ASSUME NEW n \in Numeric, Settings!setValue(n)
      PROVE  SettingsInv'
  <2>1. PICK x \in Typed[n] \cup {Settings!Empty} : Settings!Set([view EXCEPT !.form[n] = x])
    BY <1>2 DEF Settings!setValue
  <2>2. x \in Settings!Strings
    <3>1. Settings!Empty \in Settings!Strings
      BY DEF Settings!Empty, Settings!Strings
    <3> QED
      BY <3>1, ConsoleAssumption
  <2> DEFINE f == [view.form EXCEPT ![n] = x]
  <2>3. f \in Forms
    BY <1>0, <2>2 DEF SettingsViews, Forms
  <2>4. [view EXCEPT !.form[n] = x] = [view EXCEPT !.form = f]
    BY <1>0 DEF SettingsViews
  <2> HIDE DEF f
  <2> QED
    BY <1>0, <1>1, <2>1, <2>3, <2>4 DEF SettingsViews
<1>3. CASE Settings!ToggleAnonymous
  <2>1. Settings!Set([view EXCEPT !.anonymous = ~view.anonymous])
    BY <1>3 DEF Settings!ToggleAnonymous
  <2> QED
    BY <1>0, <1>1, <2>1 DEF SettingsViews
<1>4. view.settings # None =>
        /\ view.settings \in Settings!Data /\ view.settings.anonymous \in BOOLEAN
        /\ \A n \in Numeric : /\ view.settings.numbers[n] \in Nat
                              /\ view.settings.numbers[n] \in Settings!Range(n)
  BY <1>0, SettingsData DEF SettingsViews
<1>5. CASE Settings!reset
  <2>1. view.settings # None /\ Settings!Set(Settings!Applied(view, view.settings))
    BY <1>5 DEF Settings!reset, Settings!dirty, Settings!numericDirty, Settings!Known
  <2>2. /\ Settings!Applied(view, view.settings) \in SettingsViews
        /\ Settings!Applied(view, view.settings).settings = view.settings
        /\ Settings!Applied(view, view.settings).saving = view.saving
    BY <1>0, <1>4, <2>1, AppliedIsView
  <2> QED
    BY <1>1, <2>1, <2>2
<1>6. CASE Settings!save
  <2> DEFINE r == [numbers |-> [n \in Numeric |-> Settings!Number(n)], anonymous |-> view.anonymous]
             c == Settings!Call("save", r)
  <2>1. /\ view.settings # None /\ ~view.saving
        /\ \/ \A n \in Numeric : Settings!Number(n) \in Settings!Values(n)
           \/ \A n \in Numeric : view.form[n] = Settings!String(view.settings.numbers[n])
        /\ calls' = calls \o <<c>> /\ UNCHANGED table
        /\ view' = [view EXCEPT !.saving = TRUE]
    BY <1>6 DEF Settings!save, Settings!dirty, Settings!numericDirty, Settings!Known,
                Settings!invalid, Settings!Send
  <2>2. \A n \in Numeric : Settings!Number(n) \in Settings!Range(n)
    <3>1. CASE \A n \in Numeric : Settings!Number(n) \in Settings!Values(n)
      BY <3>1 DEF Settings!Range
    <3>2. CASE \A n \in Numeric : view.form[n] = Settings!String(view.settings.numbers[n])
      <4>1. ASSUME NEW n \in Numeric
            PROVE  Settings!Number(n) = view.settings.numbers[n]
        BY <3>2, StringIsOf DEF Settings!Number
      <4> QED
        BY <1>4, <2>1, <4>1
    <3> QED
      BY <2>1, <3>1, <3>2
  <2>3. \A n \in Numeric : Settings!Number(n) \in Nat
    BY <2>2, ConsoleAssumption DEF Settings!Range, Settings!Values, Settings!Lowest
  <2>4. r \in Settings!Data
    BY <1>0, <2>2, <2>3, SettingsData DEF SettingsViews
  <2> HIDE DEF r
  <2>5. c \in SettingsRequests /\ c.op = "save"
    BY <2>4 DEF SettingsRequests, Requests, Settings!Call
  <2> HIDE DEF c
  <2>6. calls' \in Seq(SettingsRequests) /\ OneCall(calls', {"save"})
    BY <1>0, <2>1, <2>5, AppendFacts DEF SettingsBusy
  <2>7. view' \in SettingsViews /\ view'.settings # None /\ view'.saving
    BY <1>0, <2>1 DEF SettingsViews
  <2> QED
    BY <1>0, <2>1, <2>6, <2>7 DEF SettingsInv, SettingsBusy
<1> QED
  BY <1>2, <1>3, <1>5, <1>6 DEF Settings!User

\* A continuation keeps the invariant of the page.
LEMMA SettingsAnswered ==
  ASSUME SettingsInv, NEW i \in DOMAIN calls, Settings!Answered(i)
  PROVE  SettingsInv'
<1> DEFINE w == Without(calls, i)
<1>0. /\ view \in SettingsViews /\ calls \in Seq(SettingsRequests) /\ table \in Settings!Data
      /\ SettingsBusy(view, calls)
  BY DEF SettingsInv
<1>1. w \in Seq(SettingsRequests) /\ calls[i] \in SettingsRequests
  BY <1>0, WithoutIs
<1>2. \A next : Settings!Continue(i, next) => calls' = w \o next /\ UNCHANGED table
  BY DEF Settings!Continue, Settings!Rest, Without
<1>3. /\ calls[i].op = "save" => NoCall(w, {"save"})
      /\ calls[i].op = "load" /\ view.saving => OneCall(w, {"save"})
      /\ calls[i].op = "load" /\ ~view.saving => NoCall(w, {"save"})
  BY <1>0, WithoutFacts DEF SettingsBusy
<1> HIDE DEF w
<1>4. ASSUME NEW s \in Settings!Data
      PROVE  /\ Settings!Applied(view, s) \in SettingsViews
             /\ Settings!Applied(view, s).settings # None
             /\ Settings!Applied(view, s).saving = view.saving
  <2>1. s # None
    BY ConsoleAssumption
  <2> QED
    BY <1>0, <2>1, AppliedIsView
<1>5. CASE Settings!Loaded(i)
  <2>1. /\ calls[i].op = "load" /\ calls[i].answer # Pending /\ Settings!Continue(i, <<>>)
        /\ view' = IF calls[i].answer = Failed THEN view ELSE Settings!Applied(view, calls[i].answer)
    BY <1>5 DEF Settings!Loaded, Settings!Arrived, Settings!Sent
  <2>2. calls[i].answer \in Settings!Data \cup {Pending, Failed}
    BY <1>1 DEF SettingsRequests, Requests
  <2>3. calls' = w /\ UNCHANGED table
    BY <1>1, <1>2, <2>1
  <2>4. /\ view' \in SettingsViews /\ view'.saving = view.saving
        /\ view.settings # None => view'.settings # None
    BY <1>0, <1>4, <2>1, <2>2
  <2> QED
    BY <1>0, <1>1, <1>3, <2>1, <2>3, <2>4 DEF SettingsInv, SettingsBusy
<1>6. CASE Settings!Saved(i)
  <2>1. /\ calls[i].op = "save" /\ calls[i].answer # Pending /\ Settings!Continue(i, <<>>)
        /\ view' = IF calls[i].answer = Failed THEN [view EXCEPT !.saving = FALSE]
                   ELSE [Settings!Applied(view, calls[i].answer) EXCEPT !.saving = FALSE]
    BY <1>6 DEF Settings!Saved, Settings!Arrived, Settings!Sent
  <2>2. calls[i].answer \in Settings!Data \cup {Pending, Failed}
    BY <1>1 DEF SettingsRequests, Requests
  <2>3. calls' = w /\ UNCHANGED table
    BY <1>1, <1>2, <2>1
  <2>4. \A v \in SettingsViews : /\ [v EXCEPT !.saving = FALSE] \in SettingsViews
                                 /\ [v EXCEPT !.saving = FALSE].saving = FALSE
    BY DEF SettingsViews
  <2>5. view' \in SettingsViews /\ view'.saving = FALSE
    BY <1>0, <1>4, <2>1, <2>2, <2>4
  <2> QED
    BY <1>0, <1>1, <1>3, <2>1, <2>3, <2>5 DEF SettingsInv, SettingsBusy
<1> QED
  BY <1>5, <1>6 DEF Settings!Answered

\* What the server does keeps the invariant of the page.
LEMMA SettingsServed ==
  ASSUME SettingsInv,
         (\E i \in DOMAIN calls : Settings!Serve(i) \/ Refuse(i)) \/ Settings!OtherAdmin
  PROVE  SettingsInv'
<1>0. /\ view \in SettingsViews /\ calls \in Seq(SettingsRequests) /\ table \in Settings!Data
      /\ SettingsBusy(view, calls)
  BY DEF SettingsInv
<1>1. ASSUME NEW i \in DOMAIN calls, NEW v \in Settings!Data \cup {Failed},
             calls' = [calls EXCEPT ![i].answer = v], UNCHANGED view, table' \in Settings!Data
      PROVE  SettingsInv'
  <2>1. calls[i] \in SettingsRequests
    BY <1>0
  <2>2. /\ [calls[i] EXCEPT !.answer = v] \in SettingsRequests
        /\ [calls[i] EXCEPT !.answer = v].op = calls[i].op
    BY <2>1 DEF SettingsRequests, Requests
  <2>3. \A ops : /\ calls' \in Seq(SettingsRequests)
                 /\ NoCall(calls', ops) <=> NoCall(calls, ops)
                 /\ OneCall(calls, ops) => OneCall(calls', ops)
    BY <1>0, <1>1, <2>2, AnswerFacts
  <2>4. SettingsBusy(view', calls')
    BY <1>0, <1>1, <2>3 DEF SettingsBusy
  <2> QED
    BY <1>0, <1>1, <2>3, <2>4 DEF SettingsInv
<1>2. ASSUME NEW i \in DOMAIN calls, Refuse(i)
      PROVE  SettingsInv'
  <2>1. calls' = [calls EXCEPT ![i].answer = Failed] /\ UNCHANGED <<view, table>>
    BY <1>2 DEF Refuse, Answer
  <2> QED
    BY <1>0, <1>1, <2>1
<1>3. ASSUME NEW i \in DOMAIN calls, Settings!Read(i, table)
      PROVE  SettingsInv'
  <2>1. calls' = [calls EXCEPT ![i].answer = table] /\ UNCHANGED <<view, table>>
    BY <1>3 DEF Settings!Read, Settings!Answer
  <2> QED
    BY <1>0, <1>1, <2>1
<1>4. ASSUME NEW i \in DOMAIN calls, Settings!Waiting(i, "save"), Settings!InRange(calls[i].with),
             \/ Settings!Write(i, calls[i].with, calls[i].with)
             \/ \E some \in SUBSET Numeric :
                  Settings!Lose(i, [table EXCEPT !.numbers =
                    [n \in Numeric |-> IF n \in some THEN calls[i].with.numbers[n] ELSE table.numbers[n]]])
             \/ Settings!Lose(i, calls[i].with)
      PROVE  SettingsInv'
  <2> DEFINE mixed(some) ==
               [table EXCEPT !.numbers =
                  [n \in Numeric |-> IF n \in some THEN calls[i].with.numbers[n] ELSE table.numbers[n]]]
  <2>1. calls[i].with \in Settings!Data
    <3>1. calls[i] \in SettingsRequests /\ calls[i].op = "save"
      BY <1>0, <1>4 DEF Settings!Waiting, Settings!Sent
    <3> QED
      BY <3>1 DEF SettingsRequests, Requests
  <2>2. ASSUME NEW some \in SUBSET Numeric
        PROVE  mixed(some) \in Settings!Data
    <3> DEFINE f == [n \in Numeric |-> IF n \in some THEN calls[i].with.numbers[n] ELSE table.numbers[n]]
    <3>1. /\ \A n \in Numeric : calls[i].with.numbers[n] \in Settings!Range(n) /\ calls[i].with.numbers[n] \in Nat
          /\ \A n \in Numeric : table.numbers[n] \in Settings!Range(n) /\ table.numbers[n] \in Nat
      BY <1>0, <2>1, SettingsData
    <3>2. f \in [Numeric -> Nat] /\ \A n \in Numeric : f[n] \in Settings!Range(n)
      BY <3>1
    <3> HIDE DEF f
    <3>3. /\ [table EXCEPT !.numbers = f] \in [numbers : [Numeric -> Nat], anonymous : BOOLEAN]
          /\ [table EXCEPT !.numbers = f].numbers = f
      BY <1>0, <3>2, SettingsData
    <3>4. [table EXCEPT !.numbers = f] \in Settings!Data
      BY <3>2, <3>3, SettingsData
    <3> QED
      BY <3>4 DEF f
  <2> HIDE DEF mixed
  <2>3. \/ Settings!Write(i, calls[i].with, calls[i].with)
        \/ \E some \in SUBSET Numeric : Settings!Lose(i, mixed(some))
        \/ Settings!Lose(i, calls[i].with)
    BY <1>4 DEF mixed
  <2>4. PICK t \in Settings!Data :
          \/ Settings!Write(i, calls[i].with, calls[i].with) /\ t = calls[i].with
          \/ Settings!Lose(i, t)
    BY <2>1, <2>2, <2>3
  <2>5. PICK v \in Settings!Data \cup {Failed} :
          calls' = [calls EXCEPT ![i].answer = v] /\ UNCHANGED view /\ table' = t
    BY <2>1, <2>4 DEF Settings!Write, Settings!Lose, Settings!Answer
  <2> QED
    BY <1>1, <2>5
<1>5. CASE Settings!OtherAdmin
  <2>1. table' \in Settings!Data /\ UNCHANGED <<view, calls>>
    BY <1>5 DEF Settings!OtherAdmin, Settings!Elsewhere
  <2> QED
    BY <1>0, <2>1 DEF SettingsInv
<1> QED
  BY <1>2, <1>3, <1>4, <1>5 DEF Settings!Serve

\* The invariant of the page implies its properties.
LEMMA SettingsShows ==
  SettingsInv => Settings!TypeOK /\ Settings!BusyForCause
<1> SUFFICES ASSUME SettingsInv
             PROVE  Settings!TypeOK /\ Settings!BusyForCause
  OBVIOUS
<1>1. \A i \in DOMAIN calls : calls[i] \in SettingsRequests
  BY DEF SettingsInv
<1>2. \A i \in DOMAIN calls : /\ calls[i].op \in {"load", "save"}
                              /\ calls[i].op = "save" => calls[i].with \in Settings!Data
  BY <1>1 DEF SettingsRequests, Requests
<1>3. Settings!TypeOK
  <2>1. view \in SettingsViews /\ table \in Settings!Data
    BY DEF SettingsInv
  <2>2. \A n \in Numeric : view.form[n] \in Settings!Strings
    BY <2>1 DEF SettingsViews, Forms
  <2> QED
    BY <1>2, <2>1, <2>2 DEF Settings!TypeOK, SettingsViews
<1>4. Settings!Cardinality(Settings!Sent("save")) = Cardinality(Settings!Sent("save"))
  BY DEF Settings!Cardinality, Cardinality
<1>5. Settings!Sent("save") = {k \in DOMAIN calls : calls[k].op \in {"save"}}
  BY DEF Settings!Sent
<1>6. /\ NoCall(calls, {"save"}) <=> Settings!Sent("save") = {}
      /\ OneCall(calls, {"save"}) => Cardinality(Settings!Sent("save")) = 1
  BY <1>5, SentIs
<1>7. Settings!BusyForCause
  BY <1>4, <1>6 DEF SettingsInv, SettingsBusy, Settings!BusyForCause, Settings!Known
<1> QED
  BY <1>3, <1>7

\* One request is in flight at most, and its answer, or else what the form knows,
\* is what the server has, unless another has changed it since.  A save that is
\* in flight was checked against the numbers the form still knows.
Checked(v, c) ==
  c.op = "save" => Settings!InRange(c.with) \/ c.with.numbers = v.settings.numbers

SettingsCurrent ==
  /\ Len(calls) <= 1
  /\ \A k \in DOMAIN calls : Checked(view, calls[k])
  /\ view.settings # None => Loads(calls) = {}
  /\ ~changed => /\ \A k \in DOMAIN calls : Good(calls[k].answer) => calls[k].answer = table
                 /\ view.settings # None /\ (\A k \in DOMAIN calls : ~Good(calls[k].answer)) =>
                      view.settings = table

\* The page of the settings has asked for what it will show.
LEMMA SettingsMountCurrent ==
  Mount(Settings!Initial, <<Load>>, Settings!Data) => SettingsCurrent'
<1> SUFFICES ASSUME Mount(Settings!Initial, <<Load>>, Settings!Data)
             PROVE  SettingsCurrent'
  OBVIOUS
<1>1. calls' = <<Load>> /\ Load.answer = Pending /\ view'.settings = None
  BY DEF Mount, Load, Call, Settings!Initial
<1>2. Len(calls') = 1 /\ \A k \in DOMAIN calls' : ~Good(calls'[k].answer)
  BY <1>1 DEF Good
<1>3. \A k \in DOMAIN calls' : Checked(view', calls'[k])
  BY <1>1 DEF Checked, Load, Call
<1> QED
  BY <1>1, <1>2, <1>3 DEF SettingsCurrent

\* When no request is in flight a save is the only one that is.
LEMMA SaveAlone ==
  ASSUME NEW s \in Seq(SettingsRequests), NoCall(s, {"save"}), Loads(s) = {}, NEW c, c.op = "save"
  PROVE  Len(s \o <<c>>) = 1 /\ Loads(s \o <<c>>) = {} /\ s = <<>> /\ s \o <<c>> = <<c>>
<1>1. \A k \in DOMAIN s : s[k].op = "load" \/ s[k].op = "save"
  BY DEF SettingsRequests, Requests
<1>2. DOMAIN s = {}
  BY <1>1 DEF NoCall, Loads
<1>3. s = <<>>
  <2>1. DOMAIN s = 1 .. Len(s) /\ Len(s) \in Nat
    OBVIOUS
  <2>2. Len(s) = 0
    BY <1>2, <2>1
  <2> QED
    BY <2>2
<1>4. s \o <<c>> = <<c>>
  BY <1>3
<1>5. Loads(<<c>>) = {}
  BY DEF Loads
<1> QED
  BY <1>3, <1>4, <1>5

\* A step of the administrator changes nothing that the form knows.
LEMMA SettingsUserCurrent ==
  ASSUME SettingsInv, SettingsCurrent, Settings!User
  PROVE  SettingsCurrent'
<1>0. /\ view \in SettingsViews /\ calls \in Seq(SettingsRequests)
      /\ ~view.saving => NoCall(calls, {"save"})
  BY DEF SettingsInv, SettingsBusy
<1>1. ASSUME NEW v, v.settings = view.settings, Settings!Set(v)
      PROVE  SettingsCurrent'
  <2>1. view' = v /\ UNCHANGED <<calls, table, changed>>
    BY <1>1 DEF Settings!Set, Settings!Local, Settings!history
  <2>2. \A k \in DOMAIN calls' : Checked(view', calls'[k])
    BY <1>1, <2>1 DEF SettingsCurrent, Checked
  <2> QED
    BY <1>1, <2>1, <2>2 DEF SettingsCurrent, Loads
<1>2. ASSUME NEW n \in Numeric, Settings!setValue(n)
      PROVE  SettingsCurrent'
  BY <1>0, <1>1, <1>2 DEF Settings!setValue, SettingsViews
<1>3. CASE Settings!ToggleAnonymous
  BY <1>0, <1>1, <1>3 DEF Settings!ToggleAnonymous, SettingsViews
<1>4. CASE Settings!reset
  BY <1>0, <1>1, <1>4 DEF Settings!reset, Settings!Applied, SettingsViews
<1>5. CASE Settings!save
  <2> DEFINE with == [numbers |-> [n \in Numeric |-> Settings!Number(n)],
                      anonymous |-> view.anonymous]
  <2>1. /\ view.settings # None /\ ~view.saving
        /\ \/ \A n \in Numeric : Settings!Number(n) \in Settings!Values(n)
           \/ \A n \in Numeric : view.form[n] = Settings!String(view.settings.numbers[n])
        /\ calls' = calls \o <<[op |-> "save", with |-> with, answer |-> Pending]>>
        /\ UNCHANGED <<table, changed>>
        /\ view' = [view EXCEPT !.saving = TRUE]
    BY <1>5 DEF Settings!save, Settings!dirty, Settings!numericDirty, Settings!Known,
                Settings!invalid, Settings!Call, Settings!Send
  <2>8. Settings!InRange(with) \/ with.numbers = view.settings.numbers
    <3>1. CASE \A n \in Numeric : Settings!Number(n) \in Settings!Values(n)
      BY <3>1 DEF Settings!InRange
    <3>2. CASE \A n \in Numeric : view.form[n] = Settings!String(view.settings.numbers[n])
      <4>1. \A n \in Numeric : Settings!Number(n) = view.settings.numbers[n]
        BY <3>2, StringIsOf DEF Settings!Number
      <4>2. view.settings.numbers \in [Numeric -> Nat]
        BY <1>0, <2>1, SettingsData DEF SettingsViews
      <4> QED
        BY <4>1, <4>2
    <3> QED
      BY <2>1, <3>1, <3>2
  <2> HIDE DEF with
  <2> DEFINE c == [op |-> "save", with |-> with, answer |-> Pending]
  <2>2. c.op = "save" /\ ~Good(c.answer) /\ Checked(view, c)
    BY <2>8 DEF Good, Checked
  <2> HIDE DEF c
  <2>3. calls' = calls \o <<c>>
    BY <2>1 DEF c
  <2>4. Loads(calls) = {} /\ (~changed => calls # <<>> \/ view.settings = table)
    BY <2>1 DEF SettingsCurrent
  <2>5. Len(calls') = 1 /\ Loads(calls') = {} /\ calls = <<>> /\ calls' = <<c>>
    BY <1>0, <2>1, <2>2, <2>3, <2>4, SaveAlone
  <2>6. \A k \in DOMAIN calls' : calls'[k] = c
    BY <2>5
  <2>7. view'.settings = view.settings
    BY <1>0, <2>1 DEF SettingsViews
  <2>9. \A k \in DOMAIN calls' : Checked(view', calls'[k])
    BY <2>2, <2>6, <2>7 DEF Checked
  <2>10. \A k \in DOMAIN calls' : ~Good(calls'[k].answer)
    BY <2>2, <2>6
  <2>11. ~changed' => view'.settings = table'
    <3>1. UNCHANGED <<table, changed>>
      BY <2>1
    <3> QED
      BY <2>4, <2>5, <2>7, <3>1
  <2>12. Len(calls') <= 1 /\ Loads(calls') = {}
    BY <2>5
  <2> QED
    BY <2>9, <2>10, <2>11, <2>12 DEF SettingsCurrent
<1> QED
  BY <1>2, <1>3, <1>4, <1>5 DEF Settings!User

\* An answer is what the server has, and becomes what the form knows.
LEMMA SettingsAnsweredCurrent ==
  ASSUME SettingsInv, SettingsCurrent, NEW i \in DOMAIN calls, Settings!Answered(i)
  PROVE  SettingsCurrent'
<1> DEFINE a == calls[i].answer
<1>0. view \in SettingsViews /\ calls \in Seq(SettingsRequests) /\ Len(calls) <= 1
  BY DEF SettingsInv, SettingsCurrent
<1>1. /\ calls' = Without(calls, i) \o <<>> /\ UNCHANGED <<table, changed>> /\ a # Pending
      /\ view'.settings = IF a = Failed THEN view.settings ELSE a
  <2>1. ASSUME NEW s
        PROVE  /\ Settings!Applied(view, s).settings = s
               /\ [Settings!Applied(view, s) EXCEPT !.saving = FALSE].settings = s
    BY <1>0 DEF Settings!Applied, SettingsViews
  <2>2. [view EXCEPT !.saving = FALSE].settings = view.settings
    BY <1>0 DEF SettingsViews
  <2> QED
    BY <2>1, <2>2 DEF Settings!Answered, Settings!Loaded, Settings!Saved, Settings!Arrived,
                      Settings!Continue, Settings!Rest, Without
<1>2. calls' = <<>> /\ DOMAIN calls = {i}
  <2>1. Len(calls) \in Nat /\ DOMAIN calls = 1 .. Len(calls) /\ i \in 1 .. Len(calls)
    BY <1>0
  <2>2. Len(calls) = 1 /\ i = 1
    BY <1>0, <2>1
  <2>3. Without(calls, i) \in Seq(SettingsRequests) /\ Len(Without(calls, i)) = 0
    BY <1>0, <2>2, WithoutIs
  <2>4. Without(calls, i) = <<>>
    BY <2>3
  <2> QED
    BY <1>1, <2>1, <2>2, <2>4
<1>3. Len(calls') = 0 /\ DOMAIN calls' = {} /\ Loads(calls') = {}
  BY <1>2 DEF Loads
<1>4. ASSUME ~changed, view'.settings # None
      PROVE  view'.settings = table
  <2>1. CASE a = Failed
    BY <1>1, <1>2, <1>4, <2>1 DEF SettingsCurrent, Good
  <2>2. CASE a # Failed
    BY <1>1, <1>4, <2>2 DEF SettingsCurrent, Good
  <2> QED
    BY <2>1, <2>2
<1> QED
  BY <1>1, <1>3, <1>4 DEF SettingsCurrent

\* An answer brings what the server has when it is given, or says that it failed.
LEMMA SettingsServedCurrent ==
  ASSUME SettingsInv, SettingsCurrent,
         (\E i \in DOMAIN calls : Settings!Serve(i) \/ Refuse(i)) \/ Settings!OtherAdmin
  PROVE  SettingsCurrent'
<1>0. calls \in Seq(SettingsRequests) /\ table \in Settings!Data /\ Len(calls) <= 1
  BY DEF SettingsInv, SettingsCurrent
<1>1. ASSUME NEW i \in DOMAIN calls, NEW v, calls' = [calls EXCEPT ![i].answer = v], UNCHANGED view
      PROVE  /\ Len(calls') <= 1
             /\ view'.settings # None => Loads(calls') = {}
             /\ DOMAIN calls' = {i} /\ DOMAIN calls = {i} /\ calls'[i].answer = v
             /\ \A k \in DOMAIN calls' : Checked(view', calls'[k])
  <2>1. Answers(calls, i, v, calls')
    BY <1>0, <1>1, RequestsShaped, Answering DEF SettingsRequests, Shaped
  <2>2. Len(calls) \in Nat /\ DOMAIN calls = 1 .. Len(calls) /\ Len(calls') = Len(calls)
    BY <1>0, <1>1
  <2>3. DOMAIN calls = {i}
    BY <1>0, <2>2
  <2>4. Loads(calls') = Loads(calls)
    BY <2>1, AnswersKeepLoads
  <2>5. \A k \in DOMAIN calls' : Checked(view', calls'[k])
    BY <1>1, <2>1, <2>3 DEF SettingsCurrent, Answers, Checked
  <2> QED
    BY <1>0, <1>1, <2>1, <2>2, <2>3, <2>4, <2>5 DEF SettingsCurrent, Answers
<1>2. ASSUME NEW i \in DOMAIN calls, Refuse(i)
      PROVE  SettingsCurrent'
  <2>1. /\ calls' = [calls EXCEPT ![i].answer = Failed] /\ calls[i].answer = Pending
        /\ UNCHANGED <<view, table, changed>>
    BY <1>2 DEF Refuse, Answer, history
  <2>2. ~Good(Failed) /\ ~Good(Pending)
    BY DEF Good
  <2> QED
    BY <1>1, <2>1, <2>2 DEF SettingsCurrent
<1>3. ASSUME NEW i \in DOMAIN calls, NEW t \in Settings!Data, calls' = [calls EXCEPT ![i].answer = t],
             table' = t, UNCHANGED view
      PROVE  SettingsCurrent'
  <2>1. Good(t)
    BY ConsoleAssumption DEF Good
  <2>2. /\ Len(calls') <= 1
        /\ view'.settings # None => Loads(calls') = {}
        /\ DOMAIN calls' = {i} /\ calls'[i].answer = table'
        /\ \A k \in DOMAIN calls' : Checked(view', calls'[k])
    BY <1>1, <1>3
  <2>3. Good(calls'[i].answer)
    BY <1>3, <2>1, <2>2
  <2> HIDE DEF Good
  <2> QED
    BY <2>2, <2>3 DEF SettingsCurrent
<1>4. ASSUME NEW i \in DOMAIN calls, Settings!Read(i, table)
      PROVE  SettingsCurrent'
  BY <1>0, <1>3, <1>4 DEF Settings!Read, Settings!Answer
<1>5. ASSUME NEW i \in DOMAIN calls, Settings!Waiting(i, "save"),
             Settings!Write(i, calls[i].with, calls[i].with)
      PROVE  SettingsCurrent'
  <2>1. calls[i].with \in Settings!Data
    <3>1. calls[i] \in SettingsRequests /\ calls[i].op = "save"
      BY <1>0, <1>5 DEF Settings!Waiting, Settings!Sent
    <3> QED
      BY <3>1 DEF SettingsRequests, Requests
  <2> QED
    BY <1>3, <1>5, <2>1 DEF Settings!Write, Settings!Answer
<1>6. ASSUME NEW i \in DOMAIN calls, NEW t, Settings!Lose(i, t)
      PROVE  SettingsCurrent'
  BY <1>1, <1>6 DEF Settings!Lose, Settings!Answer, SettingsCurrent
<1>7. CASE Settings!OtherAdmin
  <2>1. changed' = TRUE /\ UNCHANGED <<view, calls>>
    BY <1>7 DEF Settings!OtherAdmin, Settings!Elsewhere
  <2>2. \A k \in DOMAIN calls' : Checked(view', calls'[k])
    BY <2>1 DEF SettingsCurrent, Checked
  <2> QED
    BY <2>1, <2>2 DEF SettingsCurrent, Loads
<1> QED
  BY <1>2, <1>4, <1>5, <1>6, <1>7 DEF Settings!Serve

\* Once every answer is there, the settings shown are current, and a save changes
\* no number that the server would refuse.
LEMMA SettingsShowsCurrent ==
  SettingsCurrent => Settings!ShownIsCurrent /\ Settings!RefusedSaveIsUnchanged
<1>1. SettingsCurrent => Settings!ShownIsCurrent
  BY DEF SettingsCurrent, Settings!ShownIsCurrent, Settings!Known, Good
<1>2. SettingsCurrent => Settings!RefusedSaveIsUnchanged
  BY DEF SettingsCurrent, Settings!RefusedSaveIsUnchanged, Settings!Sent, Checked
<1> QED
  BY <1>1, <1>2

-----------------------------------------------------------------------------
(* LoginPage.                                                              *)

Trying == login # None /\ login.mounted

FormRequests == Requests({"captcha"}, {"effect", "button", "submit"}, Nat)

\* Whether s[i] has brought a captcha.
Brought(s, i) == i \in DOMAIN s /\ s[i].answer \notin {Pending, Failed}

\* Every captcha is at one place: what is shown or on its way was never
\* submitted, but for the one of the attempt in flight.
FormCaptchas(shown, s, made, used, trying) ==
  /\ made \in 0 .. MaxCaptchas
  /\ shown \in 1 .. made \cup {None}
  /\ used \subseteq 1 .. made
  /\ shown \in used => trying
  /\ \A i \in DOMAIN s : Brought(s, i) => s[i].answer \in 1 .. made /\ s[i].answer \notin used
                                          /\ s[i].answer # shown
  /\ \A i, j \in DOMAIN s : Brought(s, i) /\ Brought(s, j) /\ i # j => s[i].answer # s[j].answer

\* At most one of the requests is that of a failed attempt.
FollowsUp(s, i) == i \in DOMAIN s /\ s[i].with = "submit"
FormBusy(loading, s, trying) ==
  /\ \A i, j \in DOMAIN s : FollowsUp(s, i) /\ FollowsUp(s, j) => i = j
  /\ loading <=> trying \/ \E i \in DOMAIN s : FollowsUp(s, i)
  /\ trying => \A i \in DOMAIN s : ~FollowsUp(s, i)

FormInv ==
  /\ view = [captcha |-> view.captcha, loading |-> view.loading]
  /\ view.loading \in BOOLEAN
  /\ calls \in Seq(FormRequests)
  /\ FormCaptchas(view.captcha, calls, table, submitted, Trying)
  /\ FormBusy(view.loading, calls, Trying)

\* The page is in its invariant when it is first shown.
LEMMA FormMount ==
  ASSUME Mount(Form!Initial, <<Form!Captcha("effect")>>, Form!Data), submitted' = {}, ~Trying'
  PROVE  FormInv'
<1> DEFINE c == Form!Captcha("effect")
<1>1. c \in FormRequests /\ c.with = "effect" /\ c.answer = Pending
  BY DEF Form!Captcha, Form!Call, FormRequests, Requests
<1>2. /\ calls' = <<c>> /\ table' = 0
      /\ view' = [captcha |-> None, loading |-> FALSE]
  BY DEF Mount, Form!Data, Form!Initial
<1> HIDE DEF c
<1>3. calls' \in Seq(FormRequests) /\ DOMAIN calls' = {1} /\ calls'[1] = c
  BY <1>1, <1>2
<1>4. FormCaptchas(view'.captcha, calls', table', submitted', Trying')
  BY <1>1, <1>2, <1>3, ConsoleAssumption DEF FormCaptchas, Brought
<1>5. FormBusy(view'.loading, calls', Trying')
  BY <1>1, <1>2, <1>3 DEF FormBusy, FollowsUp
<1> QED
  BY <1>2, <1>3, <1>4, <1>5 DEF FormInv

\* A step of the page, of its answers or of the server keeps its invariant.
LEMMA FormStays ==
  ASSUME FormInv, Form!Next,
         login # None => login.mounted \in BOOLEAN
  PROVE  FormInv'
<1>0. /\ view = [captcha |-> view.captcha, loading |-> view.loading] /\ view.loading \in BOOLEAN
      /\ calls \in Seq(FormRequests)
      /\ FormCaptchas(view.captcha, calls, table, submitted, Trying)
      /\ FormBusy(view.loading, calls, Trying)
  BY DEF FormInv
<1>1. /\ Len(calls) \in Nat /\ DOMAIN calls = 1 .. Len(calls)
      /\ \A i \in DOMAIN calls : calls[i] \in FormRequests
  BY <1>0
\* A request more, which is that of a failed attempt or not.
<1>2. ASSUME NEW by \in {"button", "submit"}, Form!Send(<<Form!Captcha(by)>>)
      PROVE  /\ calls' \in Seq(FormRequests) /\ UNCHANGED table
             /\ DOMAIN calls' = DOMAIN calls \cup {Len(calls) + 1} /\ Len(calls) + 1 \notin DOMAIN calls
             /\ \A i : Brought(calls', i) <=> Brought(calls, i)
             /\ \A i \in DOMAIN calls : calls'[i] = calls[i]
             /\ \A i : FollowsUp(calls', i) <=> FollowsUp(calls, i) \/ (by = "submit" /\ i = Len(calls) + 1)
  <2> DEFINE c == Form!Captcha(by)
  <2>1. c \in FormRequests /\ c.with = by /\ c.answer = Pending
    BY DEF Form!Captcha, Form!Call, FormRequests, Requests
  <2>2. calls' = calls \o <<c>> /\ UNCHANGED table
    BY <1>2 DEF Form!Send
  <2> HIDE DEF c
  <2>3. /\ calls' \in Seq(FormRequests)
        /\ Len(calls') = Len(calls) + 1
        /\ \A i \in 1 .. Len(calls) : calls'[i] = calls[i]
        /\ calls'[Len(calls) + 1] = c
    BY <1>0, <2>1, <2>2
  <2>4. /\ DOMAIN calls' = DOMAIN calls \cup {Len(calls) + 1} /\ Len(calls) + 1 \notin DOMAIN calls
        /\ \A i \in DOMAIN calls : calls'[i] = calls[i]
    BY <1>1, <2>3
  <2>5. \A i : Brought(calls', i) <=> Brought(calls, i)
    BY <2>1, <2>3, <2>4 DEF Brought
  <2>6. \A i : FollowsUp(calls', i) <=> FollowsUp(calls, i) \/ (by = "submit" /\ i = Len(calls) + 1)
    BY <2>1, <2>3, <2>4 DEF FollowsUp
  <2> QED
    BY <2>2, <2>3, <2>4, <2>5, <2>6
<1>3. CASE Form!Refresh
  <2>1. /\ view' = [view EXCEPT !.captcha = None]
        /\ Form!Send(<<Form!Captcha("button")>>)
        /\ UNCHANGED submitted /\ Trying' = Trying
    BY <1>3 DEF Form!Refresh, Form!loginVars, Trying
  <2>2. view' = [captcha |-> None, loading |-> view.loading]
    BY <1>0, <2>1
  <2>3. FormCaptchas(view'.captcha, calls', table', submitted', Trying')
    BY <1>0, <1>2, <2>1, <2>2, ConsoleAssumption DEF FormCaptchas, Brought
  <2>4. FormBusy(view'.loading, calls', Trying')
    BY <1>0, <1>2, <2>1, <2>2 DEF FormBusy, FollowsUp
  <2> QED
    BY <1>0, <1>2, <2>1, <2>2, <2>3, <2>4 DEF FormInv
<1>4. CASE Form!Submit
  <2>1. /\ view.captcha # None /\ ~view.loading /\ login = None
        /\ view' = [view EXCEPT !.loading = TRUE]
        /\ login' = [captcha |-> view.captcha, mounted |-> TRUE, answer |-> Pending]
        /\ submitted' = submitted \cup {view.captcha}
        /\ UNCHANGED <<calls, table>>
    BY <1>4 DEF Form!Submit, Form!Local
  <2>2. ~Trying /\ Trying'
    <3>1. view.captcha \in Nat
      BY <1>0, <2>1 DEF FormCaptchas
    <3>2. login' \in Logins
      BY <2>1, <3>1 DEF Logins
    <3> QED
      BY <2>1, <3>2, ConsoleAssumption DEF Trying
  <2>3. view' = [captcha |-> view.captcha, loading |-> TRUE]
    BY <1>0, <2>1
  <2>4. FormCaptchas(view'.captcha, calls', table', submitted', Trying')
    BY <1>0, <2>1, <2>2, <2>3 DEF FormCaptchas
  <2>5. FormBusy(view'.loading, calls', Trying')
    BY <1>0, <2>1, <2>2, <2>3 DEF FormBusy
  <2> QED
    BY <1>0, <2>1, <2>3, <2>4, <2>5 DEF FormInv
<1>5. CASE Form!Rejected
  <2>1. /\ Trying /\ ~Trying'
        /\ view' = [view EXCEPT !.captcha = None]
        /\ Form!Send(<<Form!Captcha("submit")>>)
        /\ UNCHANGED submitted
    BY <1>5 DEF Form!Rejected, Trying
  <2>2. view' = [captcha |-> None, loading |-> view.loading]
    BY <1>0, <2>1
  <2>3. FormCaptchas(view'.captcha, calls', table', submitted', Trying')
    <3>1. None \notin submitted
      BY <1>0, ConsoleAssumption DEF FormCaptchas
    <3> QED
      BY <1>0, <1>2, <2>1, <2>2, <3>1, ConsoleAssumption DEF FormCaptchas, Brought
  <2>4. FormBusy(view'.loading, calls', Trying')
    BY <1>0, <1>2, <2>1, <2>2 DEF FormBusy, FollowsUp
  <2> QED
    BY <1>0, <1>2, <2>1, <2>2, <2>3, <2>4 DEF FormInv
<1>6. ASSUME NEW i \in DOMAIN calls, Form!Loaded(i)
      PROVE  FormInv'
  <2> DEFINE w == Without(calls, i)
  <2>1. /\ calls[i].answer # Pending
        /\ view' = [captcha |-> IF calls[i].answer = Failed THEN view.captcha ELSE calls[i].answer,
                    loading |-> view.loading /\ calls[i].with # "submit"]
        /\ calls' = w \o <<>> /\ UNCHANGED <<table, submitted>> /\ Trying' = Trying
    BY <1>6 DEF Form!Loaded, Form!Arrived, Form!Continue, Form!Rest, Without, Form!loginVars, Trying
  <2>2. w \in Seq(FormRequests)
    BY <1>0, WithoutIs
  <2>3. /\ \A j \in DOMAIN w : Place(i, j) \in DOMAIN calls \ {i} /\ w[j] = calls[Place(i, j)]
        /\ \A k \in DOMAIN calls \ {i} : \E j \in DOMAIN w : Place(i, j) = k
        /\ \A j, l \in DOMAIN w : Place(i, j) = Place(i, l) => j = l
    BY <1>0, WithoutPlaces
  <2> HIDE DEF w
  <2>4. calls' = w
    BY <2>1, <2>2
  <2>5. \A j \in DOMAIN w : /\ Brought(w, j) <=> Brought(calls, Place(i, j))
                            /\ FollowsUp(w, j) <=> FollowsUp(calls, Place(i, j))
    BY <2>3 DEF Brought, FollowsUp
  <2>6. FormCaptchas(view'.captcha, w, table, submitted, Trying)
    <3>1. calls[i].answer # Failed => Brought(calls, i)
      BY <2>1 DEF Brought
    <3> QED
      BY <1>0, <2>1, <2>3, <2>5, <3>1 DEF FormCaptchas
  <2>7. FormBusy(view'.loading, w, Trying)
    <3>1. FollowsUp(calls, i) <=> calls[i].with = "submit"
      BY DEF FollowsUp
    <3>2. \A j, l \in DOMAIN w : FollowsUp(w, j) /\ FollowsUp(w, l) => j = l
      BY <1>0, <2>3, <2>5 DEF FormBusy
    <3>3. Trying => \A j \in DOMAIN w : ~FollowsUp(w, j)
      BY <1>0, <2>3, <2>5 DEF FormBusy
    <3>4. CASE calls[i].with = "submit"
      <4>1. ~Trying /\ \A j \in DOMAIN w : ~FollowsUp(w, j)
        BY <1>0, <2>3, <2>5, <3>1, <3>4 DEF FormBusy
      <4> QED
        BY <2>1, <3>2, <3>4, <4>1 DEF FormBusy
    <3>5. CASE calls[i].with # "submit"
      <4>1. (\E j \in DOMAIN w : FollowsUp(w, j)) <=> (\E k \in DOMAIN calls : FollowsUp(calls, k))
        BY <2>3, <2>5, <3>1, <3>5
      <4> QED
        BY <1>0, <2>1, <3>2, <3>3, <3>5, <4>1 DEF FormBusy
    <3> QED
      BY <3>4, <3>5
  <2>8. view' = [captcha |-> view'.captcha, loading |-> view'.loading] /\ view'.loading \in BOOLEAN
    BY <2>1
  <2> QED
    BY <2>1, <2>2, <2>4, <2>6, <2>7, <2>8 DEF FormInv
<1>7. ASSUME NEW i \in DOMAIN calls, Form!Serve(i) \/ Form!Refused(i)
      PROVE  FormInv'
  <2>1. /\ calls[i].answer = Pending
        /\ UNCHANGED <<view, submitted>> /\ Trying' = Trying
        /\ \/ calls' = [calls EXCEPT ![i].answer = Failed] /\ table' = table
           \/ /\ calls' = [calls EXCEPT ![i].answer = table + 1]
              /\ table < MaxCaptchas /\ table' = table + 1
    BY <1>7 DEF Form!Serve, Form!Refused, Form!Waiting, Form!Answer, Form!Refuse, Form!loginVars, Trying
  <2>2. PICK v : /\ calls' = [calls EXCEPT ![i].answer = v]
                 /\ \/ v = Failed /\ table' = table
                    \/ v = table + 1 /\ table' = table + 1 /\ table < MaxCaptchas
    BY <2>1
  <2>3. table \in Nat /\ v \in Nat \cup {Failed}
    BY <1>0, <2>2 DEF FormCaptchas
  <2>4. [calls[i] EXCEPT !.answer = v] \in FormRequests
    BY <1>1, <2>3 DEF FormRequests, Requests
  <2>5. /\ calls' \in Seq(FormRequests) /\ DOMAIN calls' = DOMAIN calls
        /\ \A j \in DOMAIN calls : j # i => calls'[j] = calls[j]
        /\ calls'[i].answer = v /\ calls'[i].with = calls[i].with
    <3>1. calls[i] \in FormRequests
      BY <1>1
    <3>2. /\ [calls[i] EXCEPT !.answer = v].answer = v
          /\ [calls[i] EXCEPT !.answer = v].with = calls[i].with
      BY <3>1 DEF FormRequests, Requests
    <3> DEFINE c == [calls[i] EXCEPT !.answer = v]
    <3>3. calls' = [calls EXCEPT ![i] = c]
      BY <2>2
    <3>4. c \in FormRequests /\ c.answer = v /\ c.with = calls[i].with
      BY <2>4, <3>2
    <3> HIDE DEF c
    <3> QED
      BY <1>0, <3>3, <3>4
  <2>6. \A j : /\ FollowsUp(calls', j) <=> FollowsUp(calls, j)
               /\ j # i => (Brought(calls', j) <=> Brought(calls, j))
    BY <2>5 DEF FollowsUp, Brought
  <2>7. FormBusy(view'.loading, calls', Trying')
    BY <1>0, <2>1, <2>5, <2>6 DEF FormBusy
  <2>8. FormCaptchas(view'.captcha, calls', table', submitted', Trying')
    <3>1. CASE v = Failed /\ table' = table
      <4>1. ~Brought(calls', i)
        BY <2>5, <3>1 DEF Brought
      <4> QED
        BY <1>0, <2>1, <2>5, <2>6, <3>1, <4>1 DEF FormCaptchas
    <3>2. CASE v = table + 1 /\ table' = table + 1 /\ table < MaxCaptchas
      <4>1. v \notin 1 .. table /\ v \in 1 .. table' /\ 1 .. table \subseteq 1 .. table'
            /\ table' \in 0 .. MaxCaptchas /\ v # None
        BY <2>3, <3>2, ConsoleAssumption
      <4>2. v \notin submitted /\ v # view.captcha
        BY <1>0, <4>1 DEF FormCaptchas
      <4>3. \A j \in DOMAIN calls : j # i /\ Brought(calls, j) => calls'[j].answer # v
        BY <1>0, <2>5, <4>1 DEF FormCaptchas
      <4>4. \A j \in DOMAIN calls : Brought(calls', j) =>
               /\ calls'[j].answer \in 1 .. table' /\ calls'[j].answer \notin submitted
               /\ calls'[j].answer # view.captcha
        BY <1>0, <2>5, <2>6, <4>1, <4>2 DEF FormCaptchas
      <4>5. \A j, l \in DOMAIN calls : Brought(calls', j) /\ Brought(calls', l) /\ j # l =>
               calls'[j].answer # calls'[l].answer
        <5>1. \A j, l \in DOMAIN calls : j # i /\ l # i /\ Brought(calls', j) /\ Brought(calls', l) /\ j # l =>
                 calls'[j].answer # calls'[l].answer
          BY <1>0, <2>5, <2>6 DEF FormCaptchas
        <5> QED
          BY <2>5, <2>6, <4>3, <5>1
      <4>6. /\ view.captcha \in 1 .. table' \cup {None} /\ submitted \subseteq 1 .. table'
            /\ view.captcha \in submitted => Trying
        BY <1>0, <4>1 DEF FormCaptchas
      <4> QED
        BY <2>1, <2>5, <4>1, <4>4, <4>5, <4>6 DEF FormCaptchas
    <3> QED
      BY <2>2, <3>1, <3>2
  <2> QED
    BY <1>0, <2>1, <2>5, <2>7, <2>8 DEF FormInv
<1> QED
  BY <1>3, <1>4, <1>5, <1>6, <1>7 DEF Form!Next, Form!User, Form!Answered

\* The invariant of the page implies its properties.
LEMMA FormShows == FormInv => Form!TypeOK /\ Form!FreshCaptcha /\ Form!BusyForCause
<1> SUFFICES ASSUME FormInv
             PROVE  Form!TypeOK /\ Form!FreshCaptcha /\ Form!BusyForCause
  OBVIOUS
<1>0. /\ view = [captcha |-> view.captcha, loading |-> view.loading] /\ view.loading \in BOOLEAN
      /\ calls \in Seq(FormRequests)
      /\ FormCaptchas(view.captcha, calls, table, submitted, Trying)
      /\ FormBusy(view.loading, calls, Trying)
  BY DEF FormInv
<1>1. Form!TypeOK
  <2>1. view.captcha \in 1 .. MaxCaptchas \cup {None}
    BY <1>0, ConsoleAssumption DEF FormCaptchas
  <2> QED
    BY <1>0, <2>1 DEF Form!TypeOK, FormCaptchas
<1>2. Form!FreshCaptcha
  BY <1>0 DEF Form!FreshCaptcha, FormCaptchas, FormBusy
<1>3. Form!BusyForCause
  <2>1. \A i \in DOMAIN calls : calls[i].op = "captcha"
    <3>1. \A i \in DOMAIN calls : calls[i] \in FormRequests
      BY <1>0
    <3> QED
      BY <3>1 DEF FormRequests, Requests
  <2>2. Form!Sent("captcha") = DOMAIN calls
    BY <2>1 DEF Form!Sent
  <2> QED
    BY <1>0, <2>2 DEF Form!BusyForCause, FormBusy, FollowsUp, Trying
<1> QED
  BY <1>1, <1>2, <1>3
=============================================================================
