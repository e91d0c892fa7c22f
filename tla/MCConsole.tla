-------------------------------- MODULE MCConsole ------------------------------
(***************************************************************************)
(* Console for TLC: two keys, two tokens, two numbers among the settings,  *)
(* of which the environment has set one out of the range of the form.      *)
(***************************************************************************)
EXTENDS Console, Integers, TLC

CONSTANTS k1, k2, t1, t2, f1

TwoKeys == {k1, k2}
TwoTokens == {t1, t2}

TwoNumbers == {"proxy_rate_per_minute", "log_retention_days"}
ItsHighest == [n \in TwoNumbers |-> IF n = "log_retention_days" THEN 1 ELSE 2]
ItsEnvironment == [n \in TwoNumbers |-> IF n = "log_retention_days" THEN 1 ELSE 3]
ItsTyped ==
  [n \in TwoNumbers |->
     IF n = "log_retention_days" THEN {[number |-> 1, plain |-> TRUE]}
     ELSE {[number |-> x, plain |-> TRUE] : x \in {-1, 2, 3}}
          \cup {[number |-> x, plain |-> FALSE] : x \in {2, 3, NotInteger}}]

OneFilter == {None, f1}

Symmetry == Permutations(TwoKeys) \cup Permutations(TwoTokens)
=============================================================================
