------------------------------ MODULE RateLimit ------------------------------
(***************************************************************************)
(* Rate limiting in one server process without Redis: Server.allow and     *)
(* Coordinator.Allow, called by proxyOnly, adminOnly, login, createCaptcha.*)
(*                                                                         *)
(* A call is three steps of its goroutine: the handler reads the clock     *)
(* (proxyOnly: before it looks the API key up in the database), allow      *)
(* reads the limit under the limiter's lock, and Allow decides under the   *)
(* coordinator's lock.  The clock may enter the next window and the limit  *)
(* may change in between.                                                  *)
(***************************************************************************)
EXTENDS FixedWindow, Functions

CONSTANTS
  Subjects,  \* rate-limited subjects: key and address, or address
  Calls,     \* the requests that can be in progress at a time
  Limits,    \* the limits an administrator may set
  MaxWindow, \* bound: the clock stops in this window
  MaxServed  \* bound: no call of a subject begins when it was admitted so often

ASSUME RateLimitAssumption ==
  /\ Limits \subseteq Nat \ {0}  \* updateSettings and config reject < 1
  /\ MaxWindow \in Nat
  /\ MaxServed \in Nat

VARIABLES
  clock,     \* the window the clock is in
  limit,     \* Limiter.limit, which SetLimit changes
  windows,   \* Coordinator.windows
  subject,   \* Limiter.subject, had the same calls gone to the Limiter
  call,      \* where each call is, and what it has read
  admitted,  \* history: requests of a subject admitted per window they began in
  late,      \* history: requests of a subject admitted after their window had ended
  raced      \* history: subjects of requests that were decided in the present window
             \* when the limit was not the one they had read

vars == <<clock, limit, windows, subject, call, admitted, late, raced>>

Windows == 0 .. MaxWindow
Gone == [pc |-> "gone"]

Calling == [pc : {"begun"}, subject : Subjects, start : Windows]
Deciding == [pc : {"deciding"}, subject : Subjects, start : Windows, limit : Limits]

Entry == [started : Windows \cup {Never}, count : Nat]

TypeOK ==
  /\ clock \in Windows
  /\ limit \in Limits
  /\ windows \in [Subjects -> Entry]
  /\ subject \in [Subjects -> Entry]
  /\ call \in [Calls -> {Gone} \cup Calling \cup Deciding]
  /\ admitted \in [Subjects -> [Windows -> Nat]]
  /\ late \in [Subjects -> Nat]
  /\ raced \in SUBSET Subjects

Init ==
  /\ clock = 0
  /\ limit \in Limits
  /\ windows = [s \in Subjects |-> NoWindow]
  /\ subject = [s \in Subjects |-> NoWindow]
  /\ call = [c \in Calls |-> Gone]
  /\ admitted = [s \in Subjects |-> [w \in Windows |-> 0]]
  /\ late = [s \in Subjects |-> 0]
  /\ raced = {}

\* Mutant: the clock is truncated to the window before.
Begin_EarlierWindow(c, s) ==
  /\ call[c] = Gone
  /\ SumFunction(admitted[s]) < MaxServed
  /\ call' = [call EXCEPT ![c] = [pc |-> "begun", subject |-> s, start |-> clock - 1]]
  /\ UNCHANGED <<clock, limit, windows, subject, admitted, late, raced>>

\* start := time.Now()
Begin(c, s) ==
  /\ call[c] = Gone
  /\ SumFunction(admitted[s]) < MaxServed
  /\ call' = [call EXCEPT ![c] = [pc |-> "begun", subject |-> s, start |-> clock]]
  /\ UNCHANGED <<clock, limit, windows, subject, admitted, late, raced>>

\* limiter.Limit()
ReadLimit(c) ==
  /\ call[c].pc = "begun"
  /\ call' = [call EXCEPT ![c] = [pc |-> "deciding", subject |-> call[c].subject,
                                  start |-> call[c].start, limit |-> limit]]
  /\ UNCHANGED <<clock, limit, windows, subject, admitted, late, raced>>

Admitted(c) ==
  Admits(windows, call[c].subject, call[c].start, call[c].limit)

\* Each implementation decides under its own lock: the coordinator with the limit
\* the call has read, the Limiter with its limit of that moment (limiter.go:51).
Allow(c) ==
  LET s == call[c].subject
      w == call[c].start
  IN /\ call[c].pc = "deciding"
     /\ windows' = CoordinatorAllow(windows, s, w, call[c].limit)
     /\ subject' = LimiterAllow(subject, s, w, limit)
     /\ admitted' = IF Admitted(c) THEN [admitted EXCEPT ![s][w] = @ + 1]
                    ELSE admitted
     /\ late' = IF Admitted(c) /\ w < clock THEN [late EXCEPT ![s] = @ + 1] ELSE late
     /\ raced' = IF call[c].limit = limit THEN raced ELSE raced \cup {s}
     /\ call' = [call EXCEPT ![c] = Gone]
     /\ UNCHANGED <<clock, limit>>

SetLimit(v) ==
  /\ limit' = v
  /\ UNCHANGED <<clock, windows, subject, call, admitted, late, raced>>

NextWindow ==
  /\ clock < MaxWindow
  /\ clock' = clock + 1
  /\ raced' = {}
  /\ UNCHANGED <<limit, windows, subject, call, admitted, late>>

Next ==
  \/ \E c \in Calls : (\E s \in Subjects : Begin(c, s)) \/ ReadLimit(c) \/ Allow(c)
  \/ \E v \in Limits : SetLimit(v)
  \/ NextWindow

Spec == Init /\ [][Next]_vars

-----------------------------------------------------------------------------
(* Properties.                                                             *)

\* A subject has no more requests admitted in a window than the highest limit in
\* force allows, whatever calls overlap and whenever the limit changes, and once
\* more as many for every request of its own that was admitted after its window
\* had ended, which makes the count of a window start again.
QuotaPerLateCall ==
  \A s \in Subjects, w \in Windows :
    \E max \in Limits : admitted[s][w] <= max * (1 + late[s])

\* README.md:83, "over the rate limit returns 429": the same, had late calls no effect.
Quota ==
  \A s \in Subjects, w \in Windows : \E max \in Limits : admitted[s][w] <= max

\* A 429 is never undeserved, late calls and reset counters included: as many
\* requests as the limit the call read were admitted in the window it began in.
NoFalseRejection ==
  [][\A c \in Calls :
       call[c].pc = "deciding" /\ call'[c] = Gone /\ admitted' = admitted
         => admitted[call[c].subject][call[c].start] >= call[c].limit]_vars

\* ratelimit.Limiter, which Server.allow uses when there is no coordinator, given
\* the same calls would decide the next one of a subject as the coordinator does,
\* though it also forgets old windows when it refuses.  Two things can tell them
\* apart: a request of the subject that was admitted late, and, for the window it
\* happens in, one that was decided after the limit it had read was changed.
LimiterAgrees ==
  \A s \in Subjects, m \in Limits :
    late[s] = 0 /\ s \notin raced
      => Admits(windows, s, clock, m) = LimiterAdmits(subject, s, clock, m)
=============================================================================
