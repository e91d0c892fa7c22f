-------------------------- MODULE MCRedisRateLimit --------------------------
(* Instances of RedisRateLimit for TLC. *)
EXTENDS RedisRateLimit, TLC
CONSTANTS c1, c2, i1, i2, s1
TwoInstances == {i1, i2}
TwoCalls == {c1, c2}
OneSubject == {s1}
Alike == Permutations(TwoCalls) \cup Permutations(TwoInstances)
=============================================================================
