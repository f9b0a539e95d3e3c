--------------------------- MODULE MCAuthSessions ---------------------------
(* Symmetry for the model checker: requests, sessions, tokens and users are *)
(* only compared for equality.                                              *)
EXTENDS AuthSessions, TLC

Symmetry ==
  Permutations(Requests) \cup Permutations(SessionIds)
    \cup Permutations(TokenIds) \cup Permutations(Users)
=============================================================================
