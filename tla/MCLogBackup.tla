---------------------------- MODULE MCLogBackup ----------------------------
(* Four files in two directories.                                          *)
EXTENDS LogBackup, TLC

MCDirOf == [f \in Files |-> IF f <= 2 THEN 1 ELSE 2]

Symmetry == Permutations(Jobs)
=============================================================================
