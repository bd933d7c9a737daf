------------------------------ MODULE SlotPool ------------------------------
(***************************************************************************)
(* What the queue worker promises about concurrency, without saying how:   *)
(* every orchestrator owns Capacity[o] slots, a task occupies at most one  *)
(* slot, a slot is taken only while one is free, and a process restart     *)
(* frees them all.  TaskEngine implements it (see SlotPoolImplemented).    *)
(***************************************************************************)
EXTENDS Naturals, FiniteSets

CONSTANTS Orchs,      \* the orchestrators
          Capacity    \* Capacity[o]: the orchestrator's maxConcurrency

VARIABLE held         \* held[o]: the tasks that occupy a slot of o

Init == held = [o \in Orchs |-> {}]

Acquire(o, t) ==
  /\ t \notin UNION {held[p] : p \in Orchs}
  /\ Cardinality(held[o]) < Capacity[o]
  /\ held' = [held EXCEPT ![o] = @ \cup {t}]

Release(o, t) ==
  /\ t \in held[o]
  /\ held' = [held EXCEPT ![o] = @ \ {t}]

Reset == held' = [o \in Orchs |-> {}]

Next ==
  \/ \E o \in Orchs : \E t \in held'[o] : Acquire(o, t)
  \/ \E o \in Orchs : \E t \in held[o] : Release(o, t)
  \/ Reset

Spec == Init /\ [][Next]_held
=============================================================================
