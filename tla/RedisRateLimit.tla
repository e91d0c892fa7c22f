--------------------------- MODULE RedisRateLimit ---------------------------
(***************************************************************************)
(* Coordinator.Allow with REDIS_URL set, in several instances sharing one  *)
(* Redis: INCR of the bucket of the window the call began in, EXPIRE of a  *)
(* new bucket, and the counters in memory when INCR fails (perhaps after   *)
(* it was executed).  A failed EXPIRE is ignored.  An instance may stop     *)
(* between any two commands.  The limit is constant here; RateLimit        *)
(* changes it under the calls.                                             *)
(***************************************************************************)
EXTENDS FixedWindow, FiniteSets

CONSTANTS
  Instances,
  Calls,       \* the requests that can be in progress at a time
  Subjects,
  Limit,
  MaxWindow,   \* bound: the clock stops in this window
  MaxServed,   \* bound: no call begins when a bucket counts so many
  MaxFailures, \* bound: how many commands fail
  MaxStops     \* bound: how often an instance stops and is started again

ASSUME RedisRateAssumption ==
  /\ IsFiniteSet(Instances)
  /\ Limit \in Nat \ {0}
  /\ MaxWindow \in Nat /\ MaxServed \in Nat /\ MaxFailures \in Nat
  /\ MaxStops \in Nat

VARIABLES
  clock,     \* the window the clock is in
  bucket,    \* Redis: limit keys per subject and window; 0 when absent
  expires,   \* Redis: the window in which each key expires, or Never
  windows,   \* Coordinator.windows of each instance
  call,      \* where each call is
  failures,
  stops,
  shared,    \* history: requests Redis admitted, per subject and window they began in
  own,       \* history: requests an instance admitted on its own counters, likewise
  stale,     \* history: those Redis admitted two windows late or more, per subject
  late,      \* history: those an instance admitted late, per subject
  unset      \* history: the buckets whose first INCR had no EXPIRE after it

verdicts == <<shared, own, stale, late>>
history == <<verdicts, unset>>
vars == <<clock, bucket, expires, windows, call, failures, stops, history>>

Windows == 0 .. MaxWindow
Gone == [pc |-> "gone"]
Located == [pc : {"incr", "expire"}, at : Instances, subject : Subjects, start : Windows]

TypeOK ==
  /\ clock \in Windows
  /\ bucket \in [Subjects -> [Windows -> Nat]]
  /\ expires \in [Subjects -> [Windows -> Nat \cup {Never}]]
  /\ windows \in [Instances -> [Subjects -> [started : Windows \cup {Never}, count : Nat]]]
  /\ call \in [Calls -> {Gone} \cup Located]
  /\ failures \in 0 .. MaxFailures /\ stops \in 0 .. MaxStops
  /\ unset \in SUBSET (Subjects \X Windows)
  /\ shared \in [Subjects -> [Windows -> Nat]] /\ own \in [Subjects -> [Windows -> Nat]]
  /\ stale \in [Subjects -> Nat] /\ late \in [Subjects -> Nat]

Init ==
  /\ clock = 0
  /\ bucket = [s \in Subjects |-> [w \in Windows |-> 0]]
  /\ expires = [s \in Subjects |-> [w \in Windows |-> Never]]
  /\ windows = [i \in Instances |-> [s \in Subjects |-> NoWindow]]
  /\ call = [c \in Calls |-> Gone]
  /\ failures = 0 /\ stops = 0
  /\ unset = {}
  /\ shared = [s \in Subjects |-> [w \in Windows |-> 0]] /\ own = shared
  /\ stale = [s \in Subjects |-> 0] /\ late = stale

\* start := time.Now() in a request for s that instance i serves.
Begin(c, i, s) ==
  /\ call[c] = Gone
  /\ bucket[s][clock] < MaxServed
  /\ call' = [call EXCEPT ![c] = [pc |-> "incr", at |-> i, subject |-> s, start |-> clock]]
  /\ UNCHANGED <<clock, bucket, expires, windows, failures, stops, history>>

\* The verdict of Redis on call c.
DecideShared(c, verdict) ==
  LET s == call[c].subject
      w == call[c].start
  IN /\ shared' = IF verdict THEN [shared EXCEPT ![s][w] = @ + 1] ELSE shared
     /\ stale' = IF verdict /\ clock > w + 1 THEN [stale EXCEPT ![s] = @ + 1] ELSE stale
     /\ UNCHANGED <<own, late>>

\* The verdict of its instance on call c.
DecideAlone(c, verdict) ==
  LET s == call[c].subject
      w == call[c].start
  IN /\ own' = IF verdict THEN [own EXCEPT ![s][w] = @ + 1] ELSE own
     /\ late' = IF verdict /\ clock > w THEN [late EXCEPT ![s] = @ + 1] ELSE late
     /\ UNCHANGED <<shared, stale>>

Incremented(c) == [bucket EXCEPT ![call[c].subject][call[c].start] = @ + 1]
BucketOf(c) == bucket[call[c].subject][call[c].start]
BucketId(c) == <<call[c].subject, call[c].start>>

\* Mutant: a new bucket is left without expiry.
Incr_NoExpire(c) ==
  /\ call[c].pc = "incr"
  /\ bucket' = Incremented(c)
  /\ DecideShared(c, BucketOf(c) + 1 <= Limit)
  /\ call' = [call EXCEPT ![c] = Gone]
  /\ UNCHANGED <<clock, expires, windows, failures, stops, unset>>

\* INCR; the first count of a bucket also has to give it its expiry.
Incr(c) ==
  /\ call[c].pc = "incr"
  /\ bucket' = Incremented(c)
  /\ DecideShared(c, BucketOf(c) + 1 <= Limit)
  /\ call' = [call EXCEPT ![c] = IF BucketOf(c) = 0 THEN [@ EXCEPT !.pc = "expire"]
                                 ELSE Gone]
  /\ UNCHANGED <<clock, expires, windows, failures, stops, unset>>

\* Mutant: the expiry is the window, without the extra minute.
ExpireBucket_Early(c) ==
  /\ call[c].pc = "expire"
  /\ expires' = IF BucketOf(c) = 0 THEN expires
                ELSE [expires EXCEPT ![call[c].subject][call[c].start] = clock + 1]
  /\ call' = [call EXCEPT ![c] = Gone]
  /\ UNCHANGED <<clock, bucket, windows, failures, stops, history>>

\* EXPIRE window + 1 minute: two windows from now, somewhere inside the window.
ExpireBucket(c) ==
  /\ call[c].pc = "expire"
  /\ expires' = IF BucketOf(c) = 0 THEN expires
                ELSE [expires EXCEPT ![call[c].subject][call[c].start] = clock + 2]
  /\ call' = [call EXCEPT ![c] = Gone]
  /\ UNCHANGED <<clock, bucket, windows, failures, stops, history>>

Fail == failures < MaxFailures /\ failures' = failures + 1

\* An INCR that failed was executed or not.
CountedOrNot(c) ==
  \/ UNCHANGED <<bucket, unset>>
  \/ /\ bucket' = Incremented(c)
     /\ unset' = IF BucketOf(c) = 0 THEN unset \cup {BucketId(c)} ELSE unset

\* Mutant: a request is let through when Redis fails.
IncrFails_Open(c) ==
  /\ call[c].pc = "incr"
  /\ Fail
  /\ CountedOrNot(c)
  /\ DecideAlone(c, TRUE)
  /\ call' = [call EXCEPT ![c] = Gone]
  /\ UNCHANGED <<clock, expires, windows, stops>>

\* INCR fails: the instance decides on its own counters.
IncrFails(c) ==
  LET i == call[c].at
      s == call[c].subject
      w == call[c].start
  IN /\ call[c].pc = "incr"
     /\ Fail
     /\ CountedOrNot(c)
     /\ windows' = [windows EXCEPT ![i] = CoordinatorAllow(@, s, w, Limit)]
     /\ DecideAlone(c, Admits(windows[i], s, w, Limit))
     /\ call' = [call EXCEPT ![c] = Gone]
     /\ UNCHANGED <<clock, expires, stops>>

\* EXPIRE is not executed; if only its answer is lost, this is ExpireBucket.
ExpireFails(c) ==
  /\ call[c].pc = "expire"
  /\ Fail
  /\ unset' = unset \cup {BucketId(c)}
  /\ call' = [call EXCEPT ![c] = Gone]
  /\ UNCHANGED <<clock, bucket, expires, windows, stops, verdicts>>

\* Instance i stops and is started again: its calls and its counters are gone.
Stop(i) ==
  LET lost == {c \in Calls : call[c] # Gone /\ call[c].at = i}
  IN /\ stops < MaxStops
     /\ stops' = stops + 1
     /\ call' = [c \in Calls |-> IF c \in lost THEN Gone ELSE call[c]]
     /\ windows' = [windows EXCEPT ![i] = [s \in Subjects |-> NoWindow]]
     /\ unset' = unset \cup {BucketId(c) : c \in {d \in lost : call[d].pc = "expire"}}
     /\ UNCHANGED <<clock, bucket, expires, failures, verdicts>>

\* Redis drops the key.
Expired(s, w) ==
  /\ expires[s][w] = clock
  /\ bucket' = [bucket EXCEPT ![s][w] = 0]
  /\ expires' = [expires EXCEPT ![s][w] = Never]
  /\ UNCHANGED <<clock, windows, call, failures, stops, history>>

NextWindow ==
  /\ clock < MaxWindow
  /\ \A s \in Subjects, w \in Windows : expires[s][w] # clock
  /\ clock' = clock + 1
  /\ UNCHANGED <<bucket, expires, windows, call, failures, stops, history>>

Next ==
  \/ \E c \in Calls : \/ \E i \in Instances, s \in Subjects : Begin(c, i, s)
                      \/ Incr(c) \/ ExpireBucket(c) \/ IncrFails(c) \/ ExpireFails(c)
  \/ \E i \in Instances : Stop(i)
  \/ \E s \in Subjects, w \in Windows : Expired(s, w)
  \/ NextWindow

Spec == Init /\ [][Next]_vars

-----------------------------------------------------------------------------
(* Properties.                                                             *)

\* README.md:13, Redis shares the rate limit: as long as no command fails, whatever
\* instances stop and however they interleave, all of them together admit at most
\* Limit, also of calls decided a window late (where the counters in memory admit
\* too many).  A call later than that may find its bucket expired, and costs one
\* request more.
SharedQuota ==
  failures = 0 => \A s \in Subjects, w \in Windows :
                    shared[s][w] + own[s][w] <= Limit + stale[s]

\* While Redis comes and goes, each instance adds at most one limit of its own, and
\* one more for every call an instance decides after its window had ended and for
\* every time an instance stops and forgets its counters.
DegradedQuota ==
  \A s \in Subjects, w \in Windows :
    shared[s][w] + own[s][w]
      <= Limit * (1 + Cardinality(Instances) + (late[s] + stops)) + stale[s]

\* A bucket is in Redis for ever only if its first INCR had no EXPIRE after it: the
\* answer of the INCR was lost, the EXPIRE failed, or the instance stopped between
\* the two.  Every other bucket has its expiry, or the call that created it is
\* about to set it, however many commands have failed on other buckets.
BucketsExpire ==
  \A s \in Subjects, w \in Windows :
    bucket[s][w] > 0 /\ <<s, w>> \notin unset =>
      \/ expires[s][w] # Never
      \/ \E c \in Calls, i \in Instances :
           call[c] = [pc |-> "expire", at |-> i, subject |-> s, start |-> w]
=============================================================================
