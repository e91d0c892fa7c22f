----------------------------- MODULE FixedWindow -----------------------------
(***************************************************************************)
(* The two fixed-window counters of the code, as operators on a map from   *)
(* subjects to [started, count]: coordination.Coordinator.Allow without    *)
(* Redis and ratelimit.Limiter.Allow.  A window is its number, the result  *)
(* of now.UTC().Truncate(window); a subject without an entry has started   *)
(* Never, as the zero time is no window a request can be in.               *)
(***************************************************************************)
EXTENDS Integers

Never == -1
NoWindow == [started |-> Never, count |-> 0]

\* The counter a call of window w finds, restarted if it is of another window.
Current(windows, s, w) ==
  IF windows[s].started = w THEN windows[s] ELSE [started |-> w, count |-> 0]

\* Mutant: one request over the limit.
Admits_OffByOne(windows, s, w, limit) == Current(windows, s, w).count <= limit

Admits(windows, s, w, limit) == Current(windows, s, w).count < limit

Counted(windows, s, w) ==
  [windows EXCEPT ![s] = [started |-> w,
                          count |-> Current(windows, s, w).count + 1]]

Purged(windows, w) ==
  [s \in DOMAIN windows |-> IF windows[s].started < w THEN NoWindow ELSE windows[s]]

\* Mutant: a refused request is counted as well.
CoordinatorAllow_CountsRefusals(windows, s, w, limit) ==
  Purged(Counted(windows, s, w), w)

\* Coordinator.Allow: a refusal leaves the map alone, an admission counts and
\* then drops what is older than w.
CoordinatorAllow(windows, s, w, limit) ==
  IF Admits(windows, s, w, limit) THEN Purged(Counted(windows, s, w), w)
  ELSE windows

\* Limiter.Allow: drops what is older than w, then refuses or counts.
LimiterAdmits(windows, s, w, limit) == Admits(Purged(windows, w), s, w, limit)

\* Mutant: a refused request is counted as well.
LimiterAllow_CountsRefusals(windows, s, w, limit) ==
  Counted(Purged(windows, w), s, w)

LimiterAllow(windows, s, w, limit) ==
  IF LimiterAdmits(windows, s, w, limit) THEN Counted(Purged(windows, w), s, w)
  ELSE Purged(windows, w)
=============================================================================
