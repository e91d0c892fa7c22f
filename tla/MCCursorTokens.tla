---------------------------- MODULE MCCursorTokens ----------------------------
(* Instances of CursorTokens for TLC. *)
EXTENDS CursorTokens
CONSTANTS a1, a2
TwoAdmins == {a1, a2}

\* The behaviours in which administrators only take tokens away.
RemovalNext ==
  \E a \in Admins :
    \/ \E t \in Known : CheckDelete(a, t) \/ CheckDisable(a, t)
    \/ CommitDelete(a) \/ CommitDisable(a)
RemovalSpec == TokensInit /\ [][RemovalNext]_tokenVars
=============================================================================
