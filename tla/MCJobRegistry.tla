--------------------------- MODULE MCJobRegistry ---------------------------
EXTENDS JobRegistry, TLC

Symmetry == Permutations(Handlers) \cup Permutations(Agents)

(* Two schedules of a job; an agent is turned on and off.                    *)
MCEdition == [i \in Items |-> IF i \in Jobs THEN 2 ELSE 1]
=============================================================================
