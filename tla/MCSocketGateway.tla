-------------------------- MODULE MCSocketGateway --------------------------
(* Symmetry for the model checker: ids are only compared for equality.     *)
EXTENDS SocketGateway, TLC

Symmetry ==
  Permutations(Processes) \cup Permutations(Sockets)
    \cup Permutations(Users) \cup Permutations(Groups)
=============================================================================
