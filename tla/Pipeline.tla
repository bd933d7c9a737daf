------------------------------ MODULE Pipeline ------------------------------
(***************************************************************************)
(* Pipeline runs: executePipeline of server/engine/pipeline-executor.ts,   *)
(* the handlers of routes.ts that trigger runs and edit a pipeline, and    *)
(* the queue worker, which sees a step's task as a pending row like any    *)
(* other and may execute it too (see TaskEngine).  One pipeline; Runs are  *)
(* its runs, each the whole life of one pipeline_runs row.                 *)
(***************************************************************************)
EXTENDS Naturals, Sequences

CONSTANTS
  Runs,         \* runs of the pipeline
  MaxSteps,     \* bound: steps an edition of the pipeline has
  MaxEdits,     \* bound: edits
  MaxFaults,    \* bound: awaits that reject
  MaxRestarts   \* bound: restarts of the server

ASSUME PipelineAssumption == MaxSteps \in Nat

VARIABLES
  edition,   \* counter of the editions of the steps; the last one is in the table
  defined,   \* how many steps are in pipeline_steps
  missing,   \* how many the handlers at work have still to insert
  status,    \* the run rows
  stepRuns,  \* the step-run rows of a run, in order: their status
  run,       \* the calls of executePipeline
  task,      \* status of the row of the current step's task
  seen,      \* the worker has the row in its list of pending rows
  other,     \* the worker's call for that row
  good,      \* ghost: the steps whose task completed, or had the worker's call too
  faults, restarts

tables == <<edition, defined, missing>>
worker == <<seen, other>>
bounds == <<faults, restarts>>
vars == <<edition, defined, missing, status, stepRuns, run, task, seen, other,
          good, faults, restarts>>

(* Where the call is; "lost" is a call that ended without an outcome.       *)
RunPcs == {"none", "load", "begin", "insert", "create", "call", "calling",
           "read", "save", "fail", "close", "abort", "over", "lost"}

(* The snapshot of the steps: their edition and number; the current step,   *)
(* and the number of steps in stepOutputs.                                  *)
RunRecord == [pc : RunPcs, edition : Nat, total : Nat, step : Nat, done : Nat]

Init ==
  /\ edition = 0 /\ defined = 0 /\ missing \in 0 .. MaxSteps
  /\ status = [r \in Runs |-> "none"]
  /\ stepRuns = [r \in Runs |-> <<>>]
  /\ run = [r \in Runs |-> [pc |-> "none", edition |-> 0, total |-> 0,
                            step |-> 1, done |-> 0]]
  /\ task = [r \in Runs |-> "none"]
  /\ seen = [r \in Runs |-> FALSE]
  /\ other = [r \in Runs |-> "none"]
  /\ good = [r \in Runs |-> {}]
  /\ faults = 0 /\ restarts = 0

At(r, pc) == run[r].pc = pc

Goto(r, pc) == run' = [run EXCEPT ![r].pc = pc]

(* An update of a row that has been deleted changes nothing.                *)
SetStepRun(r, s) ==
  stepRuns' = [stepRuns EXCEPT ![r] =
                 IF @ = <<>> THEN @ ELSE [@ EXCEPT ![Len(@)] = s]]

-----------------------------------------------------------------------------
(* The handlers *)

(* POST /api/pipelines/:id/run, trigger_pipeline: the row, and the call.    *)
Trigger(r) ==
  /\ At(r, "none")
  /\ status' = [status EXCEPT ![r] = "pending"]
  /\ Goto(r, "load")
  /\ UNCHANGED <<tables, stepRuns, task, worker, good, bounds>>

(* PUT /api/pipelines/:id: all steps are deleted, and their step runs with  *)
(* them, by the cascade of the foreign key; then the new ones are inserted. *)
Edit ==
  /\ edition < MaxEdits
  /\ edition' = edition + 1 /\ defined' = 0
  /\ \E n \in 0 .. MaxSteps : missing' = missing + n
  /\ stepRuns' = [r \in Runs |-> <<>>]
  /\ UNCHANGED <<status, run, task, worker, good, bounds>>

(* One insert of an edit, or of the handler that creates the pipeline.      *)
InsertStep ==
  /\ missing > 0
  /\ missing' = missing - 1 /\ defined' = defined + 1
  /\ UNCHANGED <<edition, status, stepRuns, run, task, worker, good, bounds>>

-----------------------------------------------------------------------------
(* executePipeline *)

(* Mutated: the number of steps is asked for again at every step.           *)
LastStepNow(r) == run[r].step >= defined

LastStep(r) == run[r].step = run[r].total

Load(r) ==
  /\ At(r, "load")
  /\ run' = [run EXCEPT ![r] = [run[r] EXCEPT
               !.edition = edition, !.total = defined,
               !.pc = IF defined = 0 THEN "close" ELSE "begin"]]
  /\ UNCHANGED <<tables, status, stepRuns, task, worker, good, bounds>>

Begin(r) ==
  /\ At(r, "begin")
  /\ status' = [status EXCEPT ![r] = "running"]
  /\ Goto(r, "insert")
  /\ UNCHANGED <<tables, stepRuns, task, worker, good, bounds>>

(* The insert of the step run refers to the step, which an edit may have    *)
(* deleted.                                                                 *)
InsertStepRun(r) ==
  /\ At(r, "insert")
  /\ IF run[r].edition = edition
       THEN /\ stepRuns' = [stepRuns EXCEPT ![r] = Append(@, "running")]
            /\ Goto(r, "create")
       ELSE Goto(r, "abort") /\ UNCHANGED stepRuns
  /\ UNCHANGED <<tables, status, task, worker, good, bounds>>

(* The task of the step; the row is pending and nobody's claim is on it.    *)
CreateTask(r) ==
  /\ At(r, "create")
  /\ task' = [task EXCEPT ![r] = "pending"]
  /\ seen' = [seen EXCEPT ![r] = FALSE]
  /\ other' = [other EXCEPT ![r] = "none"]
  /\ Goto(r, "call")
  /\ UNCHANGED <<tables, status, stepRuns, good, bounds>>

(* executeTask, which the call awaits.                                      *)
BeginTask(r) ==
  /\ At(r, "call")
  /\ task' = [task EXCEPT ![r] = "running"]
  /\ Goto(r, "calling")
  /\ UNCHANGED <<tables, status, stepRuns, worker, good, bounds>>

Outcome(r, s) ==
  /\ task' = [task EXCEPT ![r] = s]
  /\ good' = [good EXCEPT ![r] = IF s = "completed" THEN @ \cup {run[r].step} ELSE @]

EndTask(r) ==
  /\ At(r, "calling")
  /\ \E s \in {"completed", "failed"} : Outcome(r, s)
  /\ Goto(r, "read")
  /\ UNCHANGED <<tables, status, stepRuns, worker, bounds>>

(* Mutated: a failed step does not stop the run, its output counts as "".   *)
ReadTaskAny(r) ==
  /\ At(r, "read")
  /\ run' = [run EXCEPT ![r] = [run[r] EXCEPT
               !.pc = IF task[r] = "failed" THEN "insert" ELSE "save",
               !.step = IF task[r] = "failed" THEN @ + 1 ELSE @]]
  /\ UNCHANGED <<tables, status, stepRuns, task, worker, good, bounds>>

(* A row that is not failed counts as completed.                            *)
ReadTask(r) ==
  /\ At(r, "read")
  /\ Goto(r, IF task[r] = "failed" THEN "fail" ELSE "save")
  /\ UNCHANGED <<tables, status, stepRuns, task, worker, good, bounds>>

SaveStep(r) ==
  /\ At(r, "save")
  /\ SetStepRun(r, "completed")
  /\ run' = [run EXCEPT ![r] = [run[r] EXCEPT
               !.done = @ + 1,
               !.step = IF LastStep(r) THEN @ ELSE @ + 1,
               !.pc = IF LastStep(r) THEN "close" ELSE "insert"]]
  /\ UNCHANGED <<tables, status, task, worker, good, bounds>>

FailStep(r) ==
  /\ At(r, "fail")
  /\ SetStepRun(r, "failed")
  /\ Goto(r, "abort")
  /\ UNCHANGED <<tables, status, task, worker, good, bounds>>

Complete(r) ==
  /\ At(r, "close")
  /\ status' = [status EXCEPT ![r] = "completed"]
  /\ Goto(r, "over")
  /\ UNCHANGED <<tables, stepRuns, task, worker, good, bounds>>

(* Mutated: the catch block reports the error but does not write it.        *)
AbortQuietly(r) ==
  /\ At(r, "abort")
  /\ Goto(r, "over")
  /\ UNCHANGED <<tables, status, stepRuns, task, worker, good, bounds>>

(* The catch block.                                                         *)
Abort(r) ==
  /\ At(r, "abort")
  /\ status' = [status EXCEPT ![r] = "failed"]
  /\ Goto(r, "over")
  /\ UNCHANGED <<tables, stepRuns, task, worker, good, bounds>>

(* An await rejects: inside the try block the run fails, outside of it, and *)
(* for an empty pipeline, the call ends and the row stays as it is.         *)
Rejects(r) ==
  /\ run[r].pc \notin {"none", "over", "lost"}
  /\ faults < MaxFaults /\ faults' = faults + 1
  /\ Goto(r, IF \/ run[r].pc \in {"load", "begin", "abort"}
                \/ run[r].pc = "close" /\ run[r].total = 0
               THEN "lost" ELSE "abort")
  /\ UNCHANGED <<tables, status, stepRuns, task, worker, good, restarts>>

CallStep(r) ==
  \/ Load(r) \/ Begin(r) \/ InsertStepRun(r) \/ CreateTask(r) \/ BeginTask(r)
  \/ EndTask(r) \/ ReadTask(r) \/ SaveStep(r) \/ FailStep(r) \/ Complete(r)
  \/ Abort(r)

-----------------------------------------------------------------------------
(* The queue worker and the process *)

WorkerSees(r) ==
  /\ task[r] = "pending" /\ ~seen[r]
  /\ seen' = [seen EXCEPT ![r] = TRUE]
  /\ UNCHANGED <<tables, status, stepRuns, run, task, other, good, bounds>>

WorkerLaunches(r) ==
  /\ seen[r] /\ other[r] = "none"
  /\ other' = [other EXCEPT ![r] = "begun"]
  /\ task' = [task EXCEPT ![r] = "running"]
  /\ good' = [good EXCEPT ![r] = @ \cup {run[r].step}]
  /\ UNCHANGED <<tables, status, stepRuns, run, seen, bounds>>

WorkerEnds(r) ==
  /\ other[r] = "begun"
  /\ other' = [other EXCEPT ![r] = "ended"]
  /\ \E s \in {"completed", "failed"} : Outcome(r, s)
  /\ UNCHANGED <<tables, status, stepRuns, run, seen, bounds>>

(* The process ends and starts again: an edit stays half done, calls are    *)
(* gone, running tasks are failed, runs and their steps stay as they were.  *)
Restart ==
  /\ restarts < MaxRestarts /\ restarts' = restarts + 1
  /\ missing' = 0
  /\ run' = [r \in Runs |-> IF run[r].pc \in {"none", "over"} THEN run[r]
                            ELSE [run[r] EXCEPT !.pc = "lost"]]
  /\ task' = [r \in Runs |-> IF task[r] = "running" THEN "failed" ELSE task[r]]
  /\ seen' = [r \in Runs |-> FALSE]
  /\ other' = [r \in Runs |-> "none"]
  /\ UNCHANGED <<edition, defined, status, stepRuns, good, faults>>

Next ==
  \/ \E r \in Runs :
       \/ Trigger(r) \/ CallStep(r) \/ Rejects(r)
       \/ WorkerSees(r) \/ WorkerLaunches(r) \/ WorkerEnds(r)
  \/ Edit \/ InsertStep \/ Restart

Spec == Init /\ [][Next]_vars

(* The event loop runs every call on; executeTask ends, since its provider  *)
(* calls and containers have time limits.                                   *)
FairSpec == Spec /\ \A r \in Runs : WF_vars(CallStep(r))

-----------------------------------------------------------------------------
(* Properties *)

Statuses == {"none", "pending", "running", "completed", "failed"}
StepStatuses == {"running", "completed", "failed"}

(* Types of the variables. *)
TypeOK ==
  /\ edition \in Nat /\ defined \in Nat /\ missing \in Nat
  /\ status \in [Runs -> Statuses]
  /\ stepRuns \in [Runs -> Seq(StepStatuses)]
  /\ run \in [Runs -> RunRecord]
  /\ task \in [Runs -> Statuses]

(* The step runs tell how far the run is: each step is started only after   *)
(* all earlier ones have completed, and a run that says completed has a     *)
(* completed step run for each of its steps, unless an edit deleted them.   *)
StepRunsTellTheRun ==
  \A r \in Runs :
    LET rows == stepRuns[r]
    IN  /\ \A i \in 1 .. Len(rows) : i < Len(rows) => rows[i] = "completed"
        /\ status[r] = "completed" /\ run[r].edition = edition =>
             /\ Len(rows) = run[r].total
             /\ \A i \in 1 .. Len(rows) : rows[i] = "completed"

Promise == INSTANCE SequentialRun WITH
  goal <- [r \in Runs |-> run[r].total],
  done <- [r \in Runs |-> run[r].done]

(* A run does the steps it found one at a time, is completed only after the *)
(* last of them, and never changes an outcome, whatever edits, rejections,  *)
(* restarts and second executions of its tasks do.                          *)
RunsSequential == Promise!Spec

(* Every triggered run comes to an outcome, unless its call was lost with   *)
(* the process or in an await outside the try block.                        *)
EveryRunEnds ==
  \A r \in Runs :
    status[r] = "pending" ~> status[r] \in {"completed", "failed"} \/ At(r, "lost")

(* A step starts only after the task of the step before has completed, so   *)
(* that it has an output to pass on; unless the worker executed that task   *)
(* as well, which can make a failed one look completed (ReadTask).          *)
OutputsPassedOn ==
  \A r \in Runs : \A i \in 2 .. Len(stepRuns[r]) : i - 1 \in good[r]
=============================================================================
