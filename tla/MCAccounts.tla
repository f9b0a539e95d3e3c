------------------------------ MODULE MCAccounts ------------------------------
(* Symmetry for the model checker: used for the safety run only.              *)
EXTENDS Accounts, TLC

Symmetry ==
  Permutations(Requests) \cup Permutations(Jobs) \cup Permutations(UserIds)
    \cup Permutations(Persons) \cup Permutations(Emails)
=============================================================================
