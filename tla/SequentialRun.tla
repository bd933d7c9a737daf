---------------------------- MODULE SequentialRun ----------------------------
(***************************************************************************)
(* What a pipeline run promises, without saying how: it is triggered, it   *)
(* takes up the number of steps that the pipeline then has, it finishes    *)
(* them one at a time, it is completed only after the last of them, and it *)
(* keeps its outcome.  Pipeline implements it (see RunsSequential).        *)
(***************************************************************************)
EXTENDS Naturals

CONSTANT Runs

VARIABLES status,   \* status[r]: the status of the run, "none" before it exists
          goal,     \* goal[r]: how many steps it has to do
          done      \* done[r]: how many it has done

vars == <<status, goal, done>>

Init ==
  /\ status = [r \in Runs |-> "none"]
  /\ goal = [r \in Runs |-> 0]
  /\ done = [r \in Runs |-> 0]

Move(r, from, to) == status[r] = from /\ status' = [status EXCEPT ![r] = to]

Trigger(r) == Move(r, "none", "pending") /\ UNCHANGED <<goal, done>>

Plan(r) ==
  /\ status[r] = "pending"
  /\ goal'[r] \in Nat /\ goal' = [goal EXCEPT ![r] = goal'[r]]
  /\ UNCHANGED <<status, done>>

Begin(r) == Move(r, "pending", "running") /\ goal[r] > 0 /\ UNCHANGED <<goal, done>>

Step(r) ==
  /\ status[r] = "running" /\ done[r] < goal[r]
  /\ done' = [done EXCEPT ![r] = @ + 1]
  /\ UNCHANGED <<status, goal>>

Complete(r) ==
  /\ \/ Move(r, "pending", "completed") /\ goal[r] = 0
     \/ Move(r, "running", "completed")
  /\ done[r] = goal[r]
  /\ UNCHANGED <<goal, done>>

Fail(r) == Move(r, "running", "failed") /\ UNCHANGED <<goal, done>>

Next ==
  \E r \in Runs :
    \/ Trigger(r) \/ Plan(r) \/ Begin(r) \/ Step(r) \/ Complete(r) \/ Fail(r)

Spec == Init /\ [][Next]_vars
=============================================================================
