----------------------------- MODULE MCProxyPool -----------------------------
(* Instances of ProxyPool for TLC. *)
EXTENDS ProxyPool, TLC

CONSTANTS r1, r2, k1, ip1, a1

TwoRequests == {r1, r2}
OneSubject == {<<k1, ip1>>}

RequestSymmetry == Permutations(Requests)
=============================================================================
