---------------------------- MODULE MCAdminAuth ----------------------------
(* Instances of AdminAuth for TLC. *)
EXTENDS AdminAuth, TLC
AuthSymmetry == Permutations(Captchas) \cup Permutations(Logins) \cup Permutations(Visits)
=============================================================================
