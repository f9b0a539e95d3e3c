---------------------------- MODULE MCUserProfile ----------------------------
(* Symmetry for the model checker: requests are only compared for equality. *)
EXTENDS UserProfile, TLC

Symmetry == Permutations(Requests)
=============================================================================
