---------------------------- MODULE MCTaskTokens ----------------------------
(* Instances of TaskTokens for TLC. *)
EXTENDS TaskTokens, TLC

Symmetry == Permutations(Runs) \cup Permutations(Tasks)
=============================================================================
