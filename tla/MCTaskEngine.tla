---------------------------- MODULE MCTaskEngine ----------------------------
(* Instances of TaskEngine for TLC. *)
EXTENDS TaskEngine, TLC

Symmetry == Permutations(Calls)

OneEach == [o \in Orchs |-> 1]
TwoEach == [o \in Orchs |-> 2]
NoneEach == [o \in Orchs |-> 0]
=============================================================================
