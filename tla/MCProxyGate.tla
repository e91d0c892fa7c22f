----------------------------- MODULE MCProxyGate -----------------------------
(* Instances of ProxyGate for TLC. *)
EXTENDS ProxyGate, TLC
CONSTANTS k1, k2, r1, a1
TwoKeys == {k1, k2}
TwoFields == <<"log_retention_days", "allow_anonymous_proxy">>
MCAllowed == [log_retention_days |-> {1, 2}, allow_anonymous_proxy |-> {0, 1}]
MCDefault == [log_retention_days |-> 1, allow_anonymous_proxy |-> 0]
GateSymmetry == Permutations(Keys)
=============================================================================
