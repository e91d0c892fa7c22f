-------------------------- MODULE MCRedisCoordinator --------------------------
(* Instances of RedisCoordinator for TLC. *)
EXTENDS RedisCoordinator
CONSTANTS r1, r2, i1, i2, s1
TwoRequests == {r1, r2}
TwoInstances == {i1, i2}
OneSubject == {s1}
MCHome == [r \in Requests |-> IF r = r1 THEN i1 ELSE i2]
AllTokens == {Tokens}
AllOrFirst == {Tokens, {1}}
=============================================================================
