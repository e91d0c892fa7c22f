----------------------------- MODULE MCSettings -----------------------------
(* Instances of Settings for TLC. *)
EXTENDS Settings
TwoFields == <<"log_retention_days", "allow_anonymous_proxy">>
MCAllowed == [log_retention_days |-> {1, 2}, allow_anonymous_proxy |-> {0, 1}]
MCDefault == [log_retention_days |-> 1, allow_anonymous_proxy |-> 0]
=============================================================================
