------------------------------ MODULE TokenIds ------------------------------
(***************************************************************************)
(* The cursor token ids.  Their order (they are integers) stands for the   *)
(* ORDER BY created_at, id of the SELECTs, which is also the order of the  *)
(* candidate list the coordinator walks.                                   *)
(***************************************************************************)
EXTENDS Integers, FiniteSets

CONSTANTS
  Tokens,  \* every token id that can ever be stored
  None     \* no token: the empty id

ASSUME TokensAssumption ==
  /\ Tokens \subseteq Int
  /\ IsFiniteSet(Tokens)
  /\ None \notin Tokens
=============================================================================
