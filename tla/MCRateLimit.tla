----------------------------- MODULE MCRateLimit -----------------------------
(* Instances of RateLimit for TLC. *)
EXTENDS RateLimit, TLC
CONSTANTS c1, c2, s1, s2
TwoCalls == {c1, c2}
TwoSubjects == {s1, s2}
CallSymmetry == Permutations(Calls) \cup Permutations(Subjects)
=============================================================================
