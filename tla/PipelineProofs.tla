--------------------------- MODULE PipelineProofs ---------------------------
(***************************************************************************)
(* Proofs about Pipeline for every value of its constants: the step runs   *)
(* tell how far the run is, executePipeline implements SequentialRun, and  *)
(* a step has an output of the one before it.                              *)
(***************************************************************************)
EXTENDS Pipeline, TLAPS

InSteps == {"insert", "create", "call", "calling", "read", "save", "fail"}

StatusAgrees(r) ==
  /\ At(r, "none") <=> status[r] = "none"
  /\ run[r].pc \in {"load", "begin"} => status[r] = "pending"
  /\ run[r].pc \in InSteps \cup {"abort"} => status[r] = "running"
  /\ At(r, "close") => \/ status[r] = "running" /\ run[r].total > 0
                       \/ status[r] = "pending" /\ run[r].total = 0
  /\ At(r, "over") => status[r] \in {"completed", "failed"}
  /\ At(r, "lost") => status[r] \in {"pending", "running"}

Finished(r) == At(r, "close") \/ status[r] = "completed"

StepAgrees(r) ==
  /\ run[r].pc \in {"none", "load", "begin"} => run[r].done = 0 /\ run[r].step = 1
  /\ At(r, "begin") => run[r].total > 0
  /\ run[r].pc \in InSteps =>
       run[r].step \in 1 .. run[r].total /\ run[r].done = run[r].step - 1
  /\ Finished(r) => run[r].done = run[r].total

RowsAgree(r) ==
  LET rows == stepRuns[r]
      n == Len(stepRuns[r])
  IN  /\ \A i \in 1 .. n : i < n => rows[i] = "completed"
      /\ run[r].edition <= edition
      /\ run[r].edition # edition => n = 0
      /\ run[r].pc \in {"none", "load", "begin"} => n = 0
      /\ run[r].edition = edition =>
           /\ At(r, "insert") => n = run[r].step - 1 /\ (n > 0 => rows[n] = "completed")
           /\ run[r].pc \in InSteps \ {"insert"} => n = run[r].step
           /\ Finished(r) => n = run[r].total /\ (n > 0 => rows[n] = "completed")

RunInv(r) == StatusAgrees(r) /\ StepAgrees(r) /\ RowsAgree(r)

IInv == TypeOK /\ \A r \in Runs : RunInv(r)

-----------------------------------------------------------------------------
(* Records and rows *)

(* A call that moves on changes its place only.                              *)
LEMMA GotoStep ==
  ASSUME TypeOK, NEW r \in Runs, NEW pc \in RunPcs, Goto(r, pc)
  PROVE  /\ run' \in [Runs -> RunRecord]
         /\ run'[r].pc = pc
         /\ run'[r].edition = run[r].edition /\ run'[r].total = run[r].total
         /\ run'[r].step = run[r].step /\ run'[r].done = run[r].done
         /\ \A q \in Runs \ {r} : run'[q] = run[q]
<1> DEFINE new == [run[r] EXCEPT !.pc = pc]
<1>1. run[r] \in RunRecord
  BY DEF TypeOK
<1>2. /\ new \in RunRecord /\ new.pc = pc /\ new.edition = run[r].edition
      /\ new.total = run[r].total /\ new.step = run[r].step
      /\ new.done = run[r].done
  BY <1>1 DEF RunRecord
<1>3. run' = [run EXCEPT ![r] = new]
  BY DEF Goto
<1>4. QED
  <2> HIDE DEF new
  <2> QED BY <1>2, <1>3 DEF TypeOK

(* Changing the status of the last row leaves the others and the length.     *)
LEMMA LastRow ==
  ASSUME NEW rows \in Seq(StepStatuses), rows # <<>>, NEW s \in StepStatuses,
         NEW new, new = [rows EXCEPT ![Len(rows)] = s]
  PROVE  /\ new \in Seq(StepStatuses) /\ Len(new) = Len(rows)
         /\ Len(rows) > 0 /\ new[Len(rows)] = s
         /\ \A i \in 1 .. Len(rows) : i < Len(rows) => new[i] = rows[i]
OBVIOUS

LEMMA SetStepRunStep ==
  ASSUME TypeOK, NEW r \in Runs, NEW s \in StepStatuses, SetStepRun(r, s)
  PROVE  /\ stepRuns' \in [Runs -> Seq(StepStatuses)]
         /\ Len(stepRuns'[r]) = Len(stepRuns[r])
         /\ Len(stepRuns[r]) > 0 => stepRuns'[r][Len(stepRuns[r])] = s
         /\ \A i \in 1 .. Len(stepRuns[r]) :
              i < Len(stepRuns[r]) => stepRuns'[r][i] = stepRuns[r][i]
         /\ \A q \in Runs \ {r} : stepRuns'[q] = stepRuns[q]
<1>1. stepRuns[r] \in Seq(StepStatuses) /\ DOMAIN stepRuns = Runs
  BY DEF TypeOK
<1>2. CASE stepRuns[r] = <<>>
  BY <1>1, <1>2 DEF SetStepRun, TypeOK
<1>3. CASE stepRuns[r] # <<>>
  <2>1. PICK new : new = [stepRuns[r] EXCEPT ![Len(stepRuns[r])] = s]
    OBVIOUS
  <2>2. stepRuns' = [stepRuns EXCEPT ![r] = new]
    BY <1>3, <2>1 DEF SetStepRun
  <2>3. /\ new \in Seq(StepStatuses) /\ Len(new) = Len(stepRuns[r])
        /\ Len(stepRuns[r]) > 0 /\ new[Len(stepRuns[r])] = s
        /\ \A i \in 1 .. Len(stepRuns[r]) :
             i < Len(stepRuns[r]) => new[i] = stepRuns[r][i]
    BY <1>1, <1>3, <2>1, LastRow
  <2>4. QED
    BY <1>1, <2>2, <2>3 DEF TypeOK
<1>4. QED
  BY <1>2, <1>3

(* The runs that a step leaves alone.                                        *)
LEMMA OthersKept ==
  ASSUME IInv, NEW q \in Runs, run'[q] = run[q], status'[q] = status[q],
         stepRuns'[q] = stepRuns[q], edition' = edition
  PROVE  RunInv(q)'
BY DEF IInv, RunInv, StatusAgrees, StepAgrees, RowsAgree, Finished, At

(* A step of one run keeps the invariant if it keeps that run's part.        *)
LEMMA OneRunMoves ==
  ASSUME IInv, NEW r \in Runs, TypeOK', RunInv(r)', edition' = edition,
         \A q \in Runs \ {r} : /\ run'[q] = run[q] /\ status'[q] = status[q]
                               /\ stepRuns'[q] = stepRuns[q]
  PROVE  IInv'
BY OthersKept DEF IInv

-----------------------------------------------------------------------------
(* The invariant *)

LEMMA InitIInv == Init => IInv
<1> SUFFICES ASSUME Init PROVE IInv
  OBVIOUS
<1> DEFINE first == [pc |-> "none", edition |-> 0, total |-> 0, step |-> 1, done |-> 0]
<1>1. /\ first \in RunRecord /\ first.pc = "none" /\ first.edition = 0
      /\ first.total = 0 /\ first.step = 1 /\ first.done = 0
  BY DEF RunRecord, RunPcs
<1>2. run = [r \in Runs |-> first]
  BY DEF Init
<1> HIDE DEF first
<1>3. TypeOK
  BY <1>1, <1>2, PipelineAssumption DEF Init, TypeOK, Statuses, StepStatuses
<1>4. ASSUME NEW r \in Runs PROVE RunInv(r)
  <2>1. status[r] = "none" /\ stepRuns[r] = <<>> /\ edition = 0 /\ run[r] = first
    BY <1>2 DEF Init
  <2>2. QED
    BY <1>1, <2>1 DEF RunInv, StatusAgrees, StepAgrees, RowsAgree, Finished, At, InSteps
<1>5. QED
  BY <1>3, <1>4 DEF IInv

LEMMA CallIInv ==
  ASSUME IInv, NEW r \in Runs, CallStep(r)
  PROVE  IInv'
<1> USE DEF At, InSteps, Finished
<1>0. /\ TypeOK /\ RunInv(r) /\ run[r] \in RunRecord
      /\ stepRuns[r] \in Seq(StepStatuses) /\ edition \in Nat /\ defined \in Nat
      /\ run[r].total \in Nat /\ run[r].step \in Nat /\ run[r].done \in Nat
      /\ run[r].edition \in Nat /\ Len(stepRuns[r]) \in Nat
  BY DEF IInv, TypeOK, RunRecord
<1>1. CASE Load(r)
  <2> DEFINE new == [run[r] EXCEPT !.edition = edition, !.total = defined,
                                   !.pc = IF defined = 0 THEN "close" ELSE "begin"]
  <2>1. /\ new \in RunRecord /\ new.edition = edition /\ new.total = defined
        /\ new.pc = (IF defined = 0 THEN "close" ELSE "begin")
        /\ new.step = run[r].step /\ new.done = run[r].done
    BY <1>0 DEF RunRecord, RunPcs
  <2>2. run' = [run EXCEPT ![r] = new] /\ UNCHANGED <<tables, status, stepRuns, task>>
    BY <1>1 DEF Load
  <2> HIDE DEF new
  <2>3. TypeOK'
    BY <1>0, <2>1, <2>2 DEF TypeOK, tables
  <2>4. run'[r] = new /\ run[r].pc = "load" /\ \A q \in Runs \ {r} : run'[q] = run[q]
    BY <1>0, <1>1, <2>2 DEF TypeOK, Load
  <2>5. RunInv(r)'
    BY <1>0, <2>1, <2>2, <2>4 DEF RunInv, StatusAgrees, StepAgrees, RowsAgree, tables
  <2>6. QED
    BY <2>2, <2>3, <2>4, <2>5, OneRunMoves DEF tables
<1>2. CASE SaveStep(r)
  <2>0. PICK d \in Nat, n \in Nat, pc \in RunPcs :
          /\ d = run[r].done + 1
          /\ n = IF LastStep(r) THEN run[r].step ELSE run[r].step + 1
          /\ pc = IF LastStep(r) THEN "close" ELSE "insert"
    BY <1>0 DEF RunPcs
  <2> DEFINE new == [run[r] EXCEPT !.done = d, !.step = n, !.pc = pc]
  <2>1. /\ new \in RunRecord /\ new.edition = run[r].edition
        /\ new.total = run[r].total /\ new.done = d /\ new.step = n /\ new.pc = pc
    BY <1>0 DEF RunRecord
  <2>2. run' = [run EXCEPT ![r] = new] /\ UNCHANGED <<tables, status, task>>
        /\ SetStepRun(r, "completed") /\ run[r].pc = "save"
    BY <1>2, <2>0 DEF SaveStep
  <2> HIDE DEF new
  <2>3. /\ stepRuns' \in [Runs -> Seq(StepStatuses)]
        /\ Len(stepRuns'[r]) = Len(stepRuns[r])
        /\ Len(stepRuns[r]) > 0 => stepRuns'[r][Len(stepRuns[r])] = "completed"
        /\ \A i \in 1 .. Len(stepRuns[r]) :
             i < Len(stepRuns[r]) => stepRuns'[r][i] = stepRuns[r][i]
        /\ \A q \in Runs \ {r} : stepRuns'[q] = stepRuns[q]
    BY <1>0, <2>2, SetStepRunStep DEF StepStatuses
  <2>4. TypeOK'
    BY <1>0, <2>1, <2>2, <2>3 DEF TypeOK, tables
  <2>5. run'[r] = new /\ \A q \in Runs \ {r} : run'[q] = run[q]
    BY <1>0, <2>2 DEF TypeOK
  <2>6. StatusAgrees(r)' /\ StepAgrees(r)'
    BY <1>0, <2>0, <2>1, <2>2, <2>5 DEF RunInv, StatusAgrees, StepAgrees, LastStep
  <2>7. RowsAgree(r)'
    <3>1. run'[r].edition = run[r].edition /\ edition' = edition
      BY <2>1, <2>2, <2>5 DEF tables
    <3>2. run[r].edition = edition => Len(stepRuns[r]) = run[r].step
      BY <1>0, <2>2 DEF RunInv, RowsAgree
    <3>3. \A i \in 1 .. Len(stepRuns'[r]) :
            i < Len(stepRuns'[r]) => stepRuns'[r][i] = "completed"
      BY <1>0, <2>3 DEF RunInv, RowsAgree
    <3>4. status[r] = "running"
      BY <1>0, <2>2 DEF RunInv, StatusAgrees
    <3>5. run'[r].edition = edition' =>
            /\ Len(stepRuns'[r]) = run[r].step
            /\ Len(stepRuns'[r]) > 0 =>
                 stepRuns'[r][Len(stepRuns'[r])] = "completed"
      BY <2>3, <3>1, <3>2
    <3>6. \/ run'[r].pc = "close" /\ run'[r].total = run[r].step
          \/ run'[r].pc = "insert" /\ run'[r].step - 1 = run[r].step
      BY <1>0, <2>0, <2>1, <2>5 DEF LastStep
    <3>7. /\ run'[r].edition <= edition'
          /\ run'[r].edition # edition' => Len(stepRuns'[r]) = 0
      BY <1>0, <2>3, <3>1 DEF RunInv, RowsAgree
    <3>8. status'[r] # "completed"
      BY <2>2, <3>4
    <3>9. QED
      BY <3>3, <3>5, <3>6, <3>7, <3>8 DEF RowsAgree
  <2>8. QED
    BY <2>2, <2>3, <2>4, <2>5, <2>6, <2>7, OneRunMoves DEF tables, RunInv
<1>3. CASE Begin(r)
  <2>1. Goto(r, "insert") /\ UNCHANGED <<tables, stepRuns, task>>
    BY <1>3 DEF Begin
  <2>2. "insert" \in RunPcs
    BY DEF RunPcs
  <2>3. /\ run' \in [Runs -> RunRecord] /\ run'[r].pc = "insert"
        /\ run'[r].edition = run[r].edition /\ run'[r].total = run[r].total
        /\ run'[r].step = run[r].step /\ run'[r].done = run[r].done
        /\ \A q \in Runs \ {r} : run'[q] = run[q]
    BY <1>0, <2>1, <2>2, GotoStep
  <2>4. TypeOK'
    BY <1>0, <1>3, <2>1, <2>3 DEF TypeOK, tables, Begin, Statuses
  <2>5. RunInv(r)'
    BY <1>0, <1>3, <2>1, <2>3 DEF RunInv, StatusAgrees, StepAgrees, RowsAgree, tables, TypeOK, Begin
  <2>6. \A q \in Runs \ {r} : status'[q] = status[q] /\ stepRuns'[q] = stepRuns[q]
    BY <1>0, <1>3, <2>1 DEF TypeOK, Begin
  <2>7. QED
    BY <2>1, <2>3, <2>4, <2>5, <2>6, OneRunMoves DEF tables
<1>6. CASE CreateTask(r)
  <2>1. Goto(r, "call") /\ UNCHANGED <<tables, stepRuns, status>>
    BY <1>6 DEF CreateTask
  <2>2. "call" \in RunPcs
    BY DEF RunPcs
  <2>3. /\ run' \in [Runs -> RunRecord] /\ run'[r].pc = "call"
        /\ run'[r].edition = run[r].edition /\ run'[r].total = run[r].total
        /\ run'[r].step = run[r].step /\ run'[r].done = run[r].done
        /\ \A q \in Runs \ {r} : run'[q] = run[q]
    BY <1>0, <2>1, <2>2, GotoStep
  <2>4. TypeOK'
    BY <1>0, <1>6, <2>1, <2>3 DEF TypeOK, tables, CreateTask, Statuses
  <2>5. RunInv(r)'
    BY <1>0, <1>6, <2>1, <2>3 DEF RunInv, StatusAgrees, StepAgrees, RowsAgree, tables, TypeOK, CreateTask
  <2>6. \A q \in Runs \ {r} : status'[q] = status[q] /\ stepRuns'[q] = stepRuns[q]
    BY <1>0, <1>6, <2>1 DEF TypeOK, CreateTask
  <2>7. QED
    BY <2>1, <2>3, <2>4, <2>5, <2>6, OneRunMoves DEF tables
<1>7. CASE BeginTask(r)
  <2>1. Goto(r, "calling") /\ UNCHANGED <<tables, stepRuns, status>>
    BY <1>7 DEF BeginTask
  <2>2. "calling" \in RunPcs
    BY DEF RunPcs
  <2>3. /\ run' \in [Runs -> RunRecord] /\ run'[r].pc = "calling"
        /\ run'[r].edition = run[r].edition /\ run'[r].total = run[r].total
        /\ run'[r].step = run[r].step /\ run'[r].done = run[r].done
        /\ \A q \in Runs \ {r} : run'[q] = run[q]
    BY <1>0, <2>1, <2>2, GotoStep
  <2>4. TypeOK'
    BY <1>0, <1>7, <2>1, <2>3 DEF TypeOK, tables, BeginTask, Statuses
  <2>5. RunInv(r)'
    BY <1>0, <1>7, <2>1, <2>3 DEF RunInv, StatusAgrees, StepAgrees, RowsAgree, tables, TypeOK, BeginTask
  <2>6. \A q \in Runs \ {r} : status'[q] = status[q] /\ stepRuns'[q] = stepRuns[q]
    BY <1>0, <1>7, <2>1 DEF TypeOK, BeginTask
  <2>7. QED
    BY <2>1, <2>3, <2>4, <2>5, <2>6, OneRunMoves DEF tables
<1>8. CASE EndTask(r)
  <2>1. Goto(r, "read") /\ UNCHANGED <<tables, stepRuns, status>>
    BY <1>8 DEF EndTask
  <2>2. "read" \in RunPcs
    BY DEF RunPcs
  <2>3. /\ run' \in [Runs -> RunRecord] /\ run'[r].pc = "read"
        /\ run'[r].edition = run[r].edition /\ run'[r].total = run[r].total
        /\ run'[r].step = run[r].step /\ run'[r].done = run[r].done
        /\ \A q \in Runs \ {r} : run'[q] = run[q]
    BY <1>0, <2>1, <2>2, GotoStep
  <2>4. TypeOK'
    BY <1>0, <1>8, <2>1, <2>3 DEF TypeOK, tables, EndTask, Outcome, Statuses
  <2>5. RunInv(r)'
    BY <1>0, <1>8, <2>1, <2>3 DEF RunInv, StatusAgrees, StepAgrees, RowsAgree, tables, TypeOK, EndTask
  <2>6. \A q \in Runs \ {r} : status'[q] = status[q] /\ stepRuns'[q] = stepRuns[q]
    BY <1>0, <1>8, <2>1 DEF TypeOK, EndTask
  <2>7. QED
    BY <2>1, <2>3, <2>4, <2>5, <2>6, OneRunMoves DEF tables
<1>10. CASE Complete(r)
  <2>1. Goto(r, "over") /\ UNCHANGED <<tables, stepRuns, task>>
    BY <1>10 DEF Complete
  <2>2. "over" \in RunPcs
    BY DEF RunPcs
  <2>3. /\ run' \in [Runs -> RunRecord] /\ run'[r].pc = "over"
        /\ run'[r].edition = run[r].edition /\ run'[r].total = run[r].total
        /\ run'[r].step = run[r].step /\ run'[r].done = run[r].done
        /\ \A q \in Runs \ {r} : run'[q] = run[q]
    BY <1>0, <2>1, <2>2, GotoStep
  <2>4. TypeOK'
    BY <1>0, <1>10, <2>1, <2>3 DEF TypeOK, tables, Complete, Statuses
  <2>5. RunInv(r)'
    BY <1>0, <1>10, <2>1, <2>3 DEF RunInv, StatusAgrees, StepAgrees, RowsAgree, tables, TypeOK, Complete
  <2>6. \A q \in Runs \ {r} : status'[q] = status[q] /\ stepRuns'[q] = stepRuns[q]
    BY <1>0, <1>10, <2>1 DEF TypeOK, Complete
  <2>7. QED
    BY <2>1, <2>3, <2>4, <2>5, <2>6, OneRunMoves DEF tables
<1>11. CASE Abort(r)
  <2>1. Goto(r, "over") /\ UNCHANGED <<tables, stepRuns, task>>
    BY <1>11 DEF Abort
  <2>2. "over" \in RunPcs
    BY DEF RunPcs
  <2>3. /\ run' \in [Runs -> RunRecord] /\ run'[r].pc = "over"
        /\ run'[r].edition = run[r].edition /\ run'[r].total = run[r].total
        /\ run'[r].step = run[r].step /\ run'[r].done = run[r].done
        /\ \A q \in Runs \ {r} : run'[q] = run[q]
    BY <1>0, <2>1, <2>2, GotoStep
  <2>4. TypeOK'
    BY <1>0, <1>11, <2>1, <2>3 DEF TypeOK, tables, Abort, Statuses
  <2>5. RunInv(r)'
    BY <1>0, <1>11, <2>1, <2>3 DEF RunInv, StatusAgrees, StepAgrees, RowsAgree, tables, TypeOK, Abort
  <2>6. \A q \in Runs \ {r} : status'[q] = status[q] /\ stepRuns'[q] = stepRuns[q]
    BY <1>0, <1>11, <2>1 DEF TypeOK, Abort
  <2>7. QED
    BY <2>1, <2>3, <2>4, <2>5, <2>6, OneRunMoves DEF tables
<1>4. CASE InsertStepRun(r)
  <2>1. PICK pc \in {"create", "abort"} :
          /\ Goto(r, pc)
          /\ pc = "create" => /\ run[r].edition = edition
                              /\ stepRuns' = [stepRuns EXCEPT ![r] = Append(@, "running")]
          /\ pc = "abort" => stepRuns' = stepRuns
    BY <1>4 DEF InsertStepRun
  <2>2. pc \in RunPcs /\ run[r].pc = "insert" /\ UNCHANGED <<tables, status, task>>
    BY <1>4 DEF RunPcs, InsertStepRun
  <2>3. /\ run' \in [Runs -> RunRecord] /\ run'[r].pc = pc
        /\ run'[r].edition = run[r].edition /\ run'[r].total = run[r].total
        /\ run'[r].step = run[r].step /\ run'[r].done = run[r].done
        /\ \A q \in Runs \ {r} : run'[q] = run[q]
    BY <1>0, <2>1, <2>2, GotoStep
  <2>4. /\ stepRuns' \in [Runs -> Seq(StepStatuses)]
        /\ \A q \in Runs \ {r} : stepRuns'[q] = stepRuns[q]
    <3>1. Append(stepRuns[r], "running") \in Seq(StepStatuses)
      BY <1>0 DEF StepStatuses
    <3>2. QED BY <1>0, <2>1, <3>1 DEF TypeOK
  <2>5. TypeOK'
    BY <1>0, <2>2, <2>3, <2>4 DEF TypeOK, tables
  <2>6. StatusAgrees(r)' /\ StepAgrees(r)'
    BY <1>0, <2>1, <2>2, <2>3 DEF RunInv, StatusAgrees, StepAgrees
  <2>7. CASE pc = "abort"
    <3>1. RowsAgree(r)'
      BY <1>0, <2>1, <2>2, <2>3, <2>7 DEF RunInv, StatusAgrees, RowsAgree, tables
    <3>2. QED
      BY <2>2, <2>3, <2>4, <2>5, <2>6, <3>1, OneRunMoves DEF tables, RunInv
  <2>8. CASE pc = "create"
    <3>1. /\ stepRuns'[r] = Append(stepRuns[r], "running")
          /\ Len(stepRuns'[r]) = Len(stepRuns[r]) + 1
          /\ \A i \in 1 .. Len(stepRuns[r]) : stepRuns'[r][i] = stepRuns[r][i]
      <4>1. stepRuns'[r] = Append(stepRuns[r], "running")
        BY <1>0, <2>1, <2>8 DEF TypeOK
      <4>2. QED BY <1>0, <4>1
    <3>2. /\ Len(stepRuns[r]) = run[r].step - 1
          /\ \A i \in 1 .. Len(stepRuns[r]) : stepRuns[r][i] = "completed"
      BY <1>0, <2>1, <2>2, <2>8 DEF RunInv, RowsAgree
    <3>3. status[r] = "running"
      BY <1>0, <2>2 DEF RunInv, StatusAgrees
    <3>4. RowsAgree(r)'
      <4>1. \A i \in 1 .. Len(stepRuns'[r]) :
              i < Len(stepRuns'[r]) => stepRuns'[r][i] = "completed"
        BY <1>0, <3>1, <3>2
      <4>2. Len(stepRuns'[r]) = run'[r].step /\ run'[r].edition = edition'
        BY <1>0, <2>1, <2>2, <2>3, <2>8, <3>1, <3>2 DEF tables
      <4>3. status'[r] # "completed" /\ run'[r].pc = "create"
        BY <2>2, <2>3, <2>8, <3>3
      <4>4. QED BY <1>0, <2>2, <4>1, <4>2, <4>3 DEF RowsAgree, tables
    <3>5. QED
      BY <2>2, <2>3, <2>4, <2>5, <2>6, <3>4, OneRunMoves DEF tables, RunInv
  <2>9. QED BY <2>7, <2>8
<1>5. CASE ReadTask(r)
  <2>1. PICK pc \in {"fail", "save"} : Goto(r, pc)
    BY <1>5 DEF ReadTask
  <2>2. pc \in RunPcs /\ run[r].pc = "read" /\ UNCHANGED <<tables, status, stepRuns, task>>
    BY <1>5 DEF RunPcs, ReadTask
  <2>3. /\ run' \in [Runs -> RunRecord] /\ run'[r].pc = pc
        /\ run'[r].edition = run[r].edition /\ run'[r].total = run[r].total
        /\ run'[r].step = run[r].step /\ run'[r].done = run[r].done
        /\ \A q \in Runs \ {r} : run'[q] = run[q]
    BY <1>0, <2>1, <2>2, GotoStep
  <2>4. TypeOK'
    BY <1>0, <2>2, <2>3 DEF TypeOK, tables
  <2>5. RunInv(r)'
    BY <1>0, <2>1, <2>2, <2>3 DEF RunInv, StatusAgrees, StepAgrees, RowsAgree, tables
  <2>6. QED
    BY <2>2, <2>3, <2>4, <2>5, OneRunMoves DEF tables
<1>9. CASE FailStep(r)
  <2>1. /\ Goto(r, "abort") /\ SetStepRun(r, "failed") /\ run[r].pc = "fail"
        /\ UNCHANGED <<tables, status, task>> /\ "abort" \in RunPcs
    BY <1>9 DEF FailStep, RunPcs
  <2>2. /\ run' \in [Runs -> RunRecord] /\ run'[r].pc = "abort"
        /\ run'[r].edition = run[r].edition /\ run'[r].total = run[r].total
        /\ run'[r].step = run[r].step /\ run'[r].done = run[r].done
        /\ \A q \in Runs \ {r} : run'[q] = run[q]
    BY <1>0, <2>1, GotoStep
  <2>3. /\ stepRuns' \in [Runs -> Seq(StepStatuses)]
        /\ Len(stepRuns'[r]) = Len(stepRuns[r])
        /\ \A i \in 1 .. Len(stepRuns[r]) :
             i < Len(stepRuns[r]) => stepRuns'[r][i] = stepRuns[r][i]
        /\ \A q \in Runs \ {r} : stepRuns'[q] = stepRuns[q]
    BY <1>0, <2>1, SetStepRunStep DEF StepStatuses
  <2>4. TypeOK'
    BY <1>0, <2>1, <2>2, <2>3 DEF TypeOK, tables
  <2>5. RunInv(r)'
    BY <1>0, <2>1, <2>2, <2>3 DEF RunInv, StatusAgrees, StepAgrees, RowsAgree, tables
  <2>6. QED
    BY <2>1, <2>2, <2>3, <2>4, <2>5, OneRunMoves DEF tables
<1>12. QED
  BY <1>1, <1>2, <1>3, <1>4, <1>5, <1>6, <1>7, <1>8, <1>9, <1>10, <1>11 DEF CallStep

LEMMA RejectsIInv ==
  ASSUME IInv, NEW r \in Runs, Rejects(r)
  PROVE  IInv'
<1> USE DEF At, InSteps, Finished
<1>0. TypeOK /\ RunInv(r)
  BY DEF IInv
<1>1. PICK pc \in {"lost", "abort"} :
        /\ Goto(r, pc)
        /\ pc = "lost" => run[r].pc \in {"load", "begin", "abort", "close"}
        /\ pc = "abort" => \/ run[r].pc \in InSteps
                           \/ run[r].pc = "close" /\ run[r].total # 0
  <2>1. run[r] \in RunRecord
    BY <1>0 DEF TypeOK
  <2>2. run[r].pc \in RunPcs
    BY <2>1 DEF RunRecord
  <2>3. QED BY <2>2 DEF Rejects, RunPcs
<1>2. /\ pc \in RunPcs /\ run[r].pc \notin {"none", "over", "lost"}
      /\ UNCHANGED <<tables, status, stepRuns, task>>
  BY DEF Rejects, RunPcs
<1>3. /\ run' \in [Runs -> RunRecord] /\ run'[r].pc = pc
      /\ run'[r].edition = run[r].edition /\ run'[r].total = run[r].total
      /\ run'[r].step = run[r].step /\ run'[r].done = run[r].done
      /\ \A q \in Runs \ {r} : run'[q] = run[q]
  BY <1>0, <1>1, <1>2, GotoStep
<1>4. TypeOK'
  BY <1>0, <1>2, <1>3 DEF TypeOK, tables
<1>5. RunInv(r)'
  BY <1>0, <1>1, <1>2, <1>3 DEF RunInv, StatusAgrees, StepAgrees, RowsAgree, tables
<1>6. QED
  BY <1>2, <1>3, <1>4, <1>5, OneRunMoves DEF tables

LEMMA TriggerIInv ==
  ASSUME IInv, NEW r \in Runs, Trigger(r)
  PROVE  IInv'
<1> USE DEF At, InSteps, Finished
<1>0. TypeOK /\ RunInv(r)
  BY DEF IInv
<1>1. /\ Goto(r, "load") /\ run[r].pc = "none" /\ "load" \in RunPcs
      /\ status' = [status EXCEPT ![r] = "pending"]
      /\ UNCHANGED <<tables, stepRuns, task>>
  BY DEF Trigger, RunPcs
<1>2. /\ run' \in [Runs -> RunRecord] /\ run'[r].pc = "load"
      /\ run'[r].edition = run[r].edition /\ run'[r].total = run[r].total
      /\ run'[r].step = run[r].step /\ run'[r].done = run[r].done
      /\ \A q \in Runs \ {r} : run'[q] = run[q]
  BY <1>0, <1>1, GotoStep
<1>3. TypeOK'
  BY <1>0, <1>1, <1>2 DEF TypeOK, tables, Statuses
<1>4. status'[r] = "pending" /\ \A q \in Runs \ {r} : status'[q] = status[q]
  BY <1>0, <1>1 DEF TypeOK
<1>5. RunInv(r)'
  BY <1>0, <1>1, <1>2, <1>4 DEF RunInv, StatusAgrees, StepAgrees, RowsAgree, tables
<1>6. QED
  BY <1>1, <1>2, <1>3, <1>4, <1>5, OneRunMoves DEF tables

(* Every step keeps the invariant; the three lemmas before it are its cases. *)
LEMMA NextIInv == IInv /\ [Next]_vars => IInv'
<1> SUFFICES ASSUME IInv, [Next]_vars PROVE IInv'
  OBVIOUS
<1>0. TypeOK
  BY DEF IInv
<1>1. ASSUME NEW r \in Runs, CallStep(r) PROVE IInv'
  BY <1>1, CallIInv
<1>2. ASSUME NEW r \in Runs, Rejects(r) PROVE IInv'
  BY <1>2, RejectsIInv
<1>3. ASSUME NEW r \in Runs, Trigger(r) PROVE IInv'
  BY <1>3, TriggerIInv
<1>4. ASSUME NEW r \in Runs, WorkerSees(r) \/ WorkerLaunches(r) \/ WorkerEnds(r)
      PROVE  IInv'
  <2>1. UNCHANGED <<tables, status, stepRuns, run>>
    BY <1>4 DEF WorkerSees, WorkerLaunches, WorkerEnds
  <2>2. task' \in [Runs -> Statuses]
    BY <1>0, <1>4 DEF WorkerSees, WorkerLaunches, WorkerEnds, Outcome, TypeOK, Statuses
  <2>3. TypeOK'
    BY <1>0, <2>1, <2>2 DEF TypeOK, tables
  <2>4. QED BY <2>1, <2>3, OthersKept DEF IInv, tables
<1>5. CASE Edit
  <2>1. /\ edition' = edition + 1 /\ stepRuns' = [r \in Runs |-> <<>>]
        /\ defined' \in Nat /\ missing' \in Nat /\ UNCHANGED <<status, run, task>>
    BY <1>0, <1>5, PipelineAssumption DEF Edit, TypeOK
  <2>2. TypeOK'
    BY <1>0, <2>1 DEF TypeOK, StepStatuses
  <2>3. ASSUME NEW r \in Runs PROVE RunInv(r)'
    <3>1. RunInv(r) /\ run[r].edition \in Nat /\ edition \in Nat
      BY <1>0 DEF IInv, TypeOK, RunRecord
    <3>2. run[r].edition <= edition
      BY <3>1 DEF RunInv, RowsAgree
    <3>3. StatusAgrees(r)' /\ StepAgrees(r)'
      BY <2>1, <3>1 DEF RunInv, StatusAgrees, StepAgrees, Finished, At
    <3>4. stepRuns'[r] = <<>> /\ Len(stepRuns'[r]) = 0 /\ run'[r] = run[r]
      BY <2>1
    <3>5. run'[r].edition <= edition' /\ run'[r].edition # edition'
      BY <2>1, <3>1, <3>2, <3>4
    <3>6. QED BY <3>3, <3>4, <3>5 DEF RunInv, RowsAgree
  <2>4. QED BY <2>2, <2>3 DEF IInv
<1>6. CASE InsertStep
  <2>1. UNCHANGED <<edition, status, stepRuns, run, task>>
        /\ defined' \in Nat /\ missing' \in Nat
    BY <1>0, <1>6 DEF InsertStep, TypeOK
  <2>2. TypeOK'
    BY <1>0, <2>1 DEF TypeOK
  <2>3. QED BY <2>1, <2>2, OthersKept DEF IInv
<1>7. CASE Restart
  <2>1. /\ UNCHANGED <<edition, defined, status, stepRuns>> /\ missing' = 0
        /\ run' = [r \in Runs |-> IF run[r].pc \in {"none", "over"} THEN run[r]
                                  ELSE [run[r] EXCEPT !.pc = "lost"]]
        /\ task' = [r \in Runs |-> IF task[r] = "running" THEN "failed" ELSE task[r]]
    BY <1>7 DEF Restart
  <2>2. ASSUME NEW r \in Runs, run[r].pc \notin {"none", "over"}
        PROVE  /\ run'[r] \in RunRecord /\ run'[r].pc = "lost"
               /\ run'[r].edition = run[r].edition /\ run'[r].total = run[r].total
               /\ run'[r].step = run[r].step /\ run'[r].done = run[r].done
    <3> DEFINE new == [run[r] EXCEPT !.pc = "lost"]
    <3>1. run[r] \in RunRecord
      BY <1>0 DEF TypeOK
    <3>2. /\ new \in RunRecord /\ new.pc = "lost"
          /\ new.edition = run[r].edition /\ new.total = run[r].total
          /\ new.step = run[r].step /\ new.done = run[r].done
      BY <3>1 DEF RunRecord, RunPcs
    <3>3. run'[r] = new
      BY <2>1, <2>2
    <3>4. QED
      <4> HIDE DEF new
      <4> QED BY <3>2, <3>3
  <2>3. ASSUME NEW r \in Runs, run[r].pc \in {"none", "over"}
        PROVE  run'[r] = run[r]
    BY <2>1, <2>3
  <2>4. TypeOK'
    <3>1. run' \in [Runs -> RunRecord]
      <4>1. \A r \in Runs : run'[r] \in RunRecord
        BY <1>0, <2>2, <2>3 DEF TypeOK
      <4>2. run' = [r \in Runs |-> run'[r]]
        BY <2>1
      <4>3. QED BY <4>1, <4>2
    <3>2. task' \in [Runs -> Statuses]
      BY <1>0, <2>1 DEF TypeOK, Statuses
    <3>3. QED BY <1>0, <2>1, <3>1, <3>2 DEF TypeOK
  <2>5. ASSUME NEW r \in Runs PROVE RunInv(r)'
    <3>1. RunInv(r)
      BY DEF IInv
    <3>2. CASE run[r].pc \in {"none", "over"}
      BY <2>1, <2>3, <3>2, OthersKept
    <3>3. CASE run[r].pc \notin {"none", "over"}
      <4>0. run[r].pc \in RunPcs
        <5>1. run[r] \in RunRecord
          BY <1>0 DEF TypeOK
        <5>2. QED BY <5>1 DEF RunRecord
      <4>1. status[r] \in {"pending", "running"} /\ status'[r] = status[r]
        BY <2>1, <3>1, <3>3, <4>0 DEF RunInv, StatusAgrees, At, InSteps, RunPcs
      <4>2. StatusAgrees(r)' /\ StepAgrees(r)'
        BY <2>2, <3>1, <3>3, <4>1 DEF RunInv, StatusAgrees, StepAgrees, At, InSteps, Finished
      <4>3. RowsAgree(r)'
        BY <2>1, <2>2, <3>1, <3>3, <4>1 DEF RunInv, RowsAgree, At, InSteps, Finished
      <4>4. QED BY <4>2, <4>3 DEF RunInv
    <3>4. QED BY <3>2, <3>3
  <2>6. QED BY <2>4, <2>5 DEF IInv
<1>8. CASE UNCHANGED vars
  <2>1. UNCHANGED <<edition, defined, missing, status, stepRuns, run, task>>
    BY <1>8 DEF vars
  <2>2. TypeOK'
    BY <1>0, <2>1 DEF TypeOK
  <2>3. QED BY <2>1, <2>2, OthersKept DEF IInv
<1>9. QED
  BY <1>1, <1>2, <1>3, <1>4, <1>5, <1>6, <1>7, <1>8 DEF Next

(* The inductive invariant holds in every reachable state.                   *)
LEMMA Invariance == Spec => []IInv
BY InitIInv, NextIInv, PTL DEF Spec

-----------------------------------------------------------------------------
(* Theorems *)

(* The step runs of a run tell how far it is, for any number of steps, runs, *)
(* edits, rejections and restarts.                                           *)
THEOREM StepRunsTell == Spec => []StepRunsTellTheRun
<1>1. ASSUME IInv PROVE StepRunsTellTheRun
  <2> SUFFICES ASSUME NEW r \in Runs
               PROVE  /\ \A i \in 1 .. Len(stepRuns[r]) :
                           i < Len(stepRuns[r]) => stepRuns[r][i] = "completed"
                      /\ status[r] = "completed" /\ run[r].edition = edition =>
                           /\ Len(stepRuns[r]) = run[r].total
                           /\ \A i \in 1 .. Len(stepRuns[r]) :
                                stepRuns[r][i] = "completed"
    BY DEF StepRunsTellTheRun
  <2>1. RunInv(r) /\ stepRuns[r] \in Seq(StepStatuses)
    BY <1>1 DEF IInv, TypeOK
  <2>2. QED BY <2>1 DEF RunInv, RowsAgree, Finished
<1>2. QED BY <1>1, Invariance, PTL

(* Every step of executePipeline is a step of SequentialRun or changes       *)
(* nothing of it.                                                            *)
LEMMA CallImplements ==
  ASSUME IInv, NEW r \in Runs, CallStep(r)
  PROVE  [Promise!Next]_(Promise!vars)
<1> DEFINE goal == [q \in Runs |-> run[q].total]
           done == [q \in Runs |-> run[q].done]
<1>0. TypeOK /\ RunInv(r) /\ run[r] \in RunRecord
  BY DEF IInv, TypeOK
<1>1. ASSUME NEW pc \in RunPcs, Goto(r, pc)
      PROVE  goal' = goal /\ done' = done
  <2>1. /\ run'[r].total = run[r].total /\ run'[r].done = run[r].done
        /\ \A q \in Runs \ {r} : run'[q] = run[q]
    BY <1>0, <1>1, GotoStep
  <2>2. QED BY <2>1
<1>2. CASE Load(r)
  <2> DEFINE new == [run[r] EXCEPT !.edition = edition, !.total = defined,
                                   !.pc = IF defined = 0 THEN "close" ELSE "begin"]
  <2>1. new.total = defined /\ new.done = run[r].done /\ defined \in Nat
    BY <1>0 DEF RunRecord, TypeOK
  <2>2. run' = [run EXCEPT ![r] = new] /\ status' = status
    BY <1>2 DEF Load
  <2> HIDE DEF new
  <2>3. /\ goal' = [goal EXCEPT ![r] = defined] /\ done' = done
    BY <1>0, <2>1, <2>2 DEF TypeOK
  <2>4. status[r] = "pending"
    BY <1>0, <1>2 DEF Load, RunInv, StatusAgrees, At
  <2>5. Promise!Plan(r)
    BY <2>1, <2>2, <2>3, <2>4 DEF Promise!Plan
  <2>6. QED BY <2>5 DEF Promise!Next
<1>3. CASE Begin(r)
  <2>1. goal' = goal /\ done' = done /\ run[r].pc = "begin"
        /\ status' = [status EXCEPT ![r] = "running"]
    BY <1>1, <1>3 DEF Begin, RunPcs, At
  <2>2. status[r] = "pending" /\ goal[r] > 0
    BY <1>0, <2>1 DEF RunInv, StatusAgrees, StepAgrees, At
  <2>3. Promise!Begin(r)
    BY <2>1, <2>2 DEF Promise!Begin, Promise!Move
  <2>4. QED BY <2>3 DEF Promise!Next
<1>4. CASE SaveStep(r)
  <2>0. PICK d \in Nat, n \in Nat, pc \in RunPcs :
          /\ d = run[r].done + 1
          /\ n = IF LastStep(r) THEN run[r].step ELSE run[r].step + 1
          /\ pc = IF LastStep(r) THEN "close" ELSE "insert"
    BY <1>0 DEF RunRecord, RunPcs
  <2> DEFINE new == [run[r] EXCEPT !.done = d, !.step = n, !.pc = pc]
  <2>1. new.total = run[r].total /\ new.done = d
    BY <1>0 DEF RunRecord
  <2>2. run' = [run EXCEPT ![r] = new] /\ status' = status /\ run[r].pc = "save"
    BY <1>4, <2>0 DEF SaveStep, At
  <2> HIDE DEF new
  <2>3. goal' = goal /\ done' = [done EXCEPT ![r] = done[r] + 1]
    BY <1>0, <2>0, <2>1, <2>2 DEF TypeOK
  <2>4. status[r] = "running" /\ done[r] < goal[r]
    <3>1. run[r].total \in Nat /\ run[r].step \in Nat
      BY <1>0 DEF RunRecord
    <3>2. QED
      BY <1>0, <2>2, <3>1 DEF RunInv, StatusAgrees, StepAgrees, At, InSteps
  <2>5. Promise!Step(r)
    BY <2>2, <2>3, <2>4 DEF Promise!Step
  <2>6. QED BY <2>5 DEF Promise!Next
<1>5. CASE Complete(r)
  <2>1. goal' = goal /\ done' = done /\ run[r].pc = "close"
        /\ status' = [status EXCEPT ![r] = "completed"]
    BY <1>1, <1>5 DEF Complete, RunPcs, At
  <2>2. /\ done[r] = goal[r]
        /\ status[r] = "running" \/ (status[r] = "pending" /\ goal[r] = 0)
    BY <1>0, <2>1 DEF RunInv, StatusAgrees, StepAgrees, At, Finished
  <2>3. Promise!Complete(r)
    BY <2>1, <2>2 DEF Promise!Complete, Promise!Move
  <2>4. QED BY <2>3 DEF Promise!Next
<1>6. CASE Abort(r)
  <2>1. goal' = goal /\ done' = done /\ run[r].pc = "abort"
        /\ status' = [status EXCEPT ![r] = "failed"]
    BY <1>1, <1>6 DEF Abort, RunPcs, At
  <2>2. status[r] = "running"
    BY <1>0, <2>1 DEF RunInv, StatusAgrees, At
  <2>3. Promise!Fail(r)
    BY <2>1, <2>2 DEF Promise!Fail, Promise!Move
  <2>4. QED BY <2>3 DEF Promise!Next
<1>7. CASE \/ InsertStepRun(r) \/ CreateTask(r) \/ BeginTask(r)
           \/ EndTask(r) \/ ReadTask(r) \/ FailStep(r)
  <2>1. status' = status /\ \E pc \in RunPcs : Goto(r, pc)
    BY <1>7 DEF InsertStepRun, CreateTask, BeginTask, EndTask, ReadTask, FailStep, RunPcs
  <2>2. goal' = goal /\ done' = done
    BY <1>1, <2>1
  <2>3. QED BY <2>1, <2>2 DEF Promise!vars
<1>8. QED
  BY <1>2, <1>3, <1>4, <1>5, <1>6, <1>7 DEF CallStep

(* The same of the handlers, the worker and a restart.                       *)
LEMMA StepImplements == IInv /\ [Next]_vars => [Promise!Next]_(Promise!vars)
<1> SUFFICES ASSUME IInv, [Next]_vars PROVE [Promise!Next]_(Promise!vars)
  OBVIOUS
<1> DEFINE goal == [q \in Runs |-> run[q].total]
           done == [q \in Runs |-> run[q].done]
<1>0. TypeOK
  BY DEF IInv
<1>1. ASSUME NEW r \in Runs, NEW pc \in RunPcs, Goto(r, pc)
      PROVE  goal' = goal /\ done' = done
  <2>1. /\ run'[r].total = run[r].total /\ run'[r].done = run[r].done
        /\ \A q \in Runs \ {r} : run'[q] = run[q]
    BY <1>0, <1>1, GotoStep
  <2>2. QED BY <2>1
<1>2. ASSUME NEW r \in Runs, CallStep(r) PROVE [Promise!Next]_(Promise!vars)
  BY <1>2, CallImplements
<1>3. ASSUME NEW r \in Runs, Trigger(r) PROVE [Promise!Next]_(Promise!vars)
  <2>1. goal' = goal /\ done' = done /\ run[r].pc = "none"
        /\ status' = [status EXCEPT ![r] = "pending"]
    BY <1>1, <1>3 DEF Trigger, RunPcs, At
  <2>2. status[r] = "none"
    BY <2>1 DEF IInv, RunInv, StatusAgrees, At
  <2>3. Promise!Trigger(r)
    BY <2>1, <2>2 DEF Promise!Trigger, Promise!Move
  <2>4. QED BY <2>3 DEF Promise!Next
<1>4. ASSUME NEW r \in Runs, Rejects(r) PROVE [Promise!Next]_(Promise!vars)
  <2>1. status' = status /\ \E pc \in RunPcs : Goto(r, pc)
    BY <1>4 DEF Rejects, RunPcs
  <2>2. goal' = goal /\ done' = done
    BY <1>1, <2>1
  <2>3. QED BY <2>1, <2>2 DEF Promise!vars
<1>5. CASE Restart
  <2>1. /\ status' = status
        /\ run' = [r \in Runs |-> IF run[r].pc \in {"none", "over"} THEN run[r]
                                  ELSE [run[r] EXCEPT !.pc = "lost"]]
    BY <1>5 DEF Restart
  <2>2. \A r \in Runs : run'[r].total = run[r].total /\ run'[r].done = run[r].done
    <3> TAKE r \in Runs
    <3> DEFINE new == [run[r] EXCEPT !.pc = "lost"]
    <3>1. run[r] \in RunRecord
      BY <1>0 DEF TypeOK
    <3>2. new.total = run[r].total /\ new.done = run[r].done
      BY <3>1 DEF RunRecord
    <3>3. run'[r] = new \/ run'[r] = run[r]
      BY <2>1
    <3>4. QED
      <4> HIDE DEF new
      <4> QED BY <3>2, <3>3
  <2>3. goal' = goal /\ done' = done
    BY <2>2
  <2>4. QED BY <2>1, <2>3 DEF Promise!vars
<1>6. CASE UNCHANGED <<status, run>>
  BY <1>6 DEF Promise!vars
<1>7. QED
  BY <1>2, <1>3, <1>4, <1>5, <1>6
     DEF Next, vars, WorkerSees, WorkerLaunches, WorkerEnds, Edit, InsertStep

(* executePipeline implements SequentialRun: a run does the steps it found   *)
(* one at a time, is completed only after the last, and keeps its outcome.   *)
THEOREM RunsAreSequential == Spec => RunsSequential
<1>1. Init => Promise!Init
  <2> SUFFICES ASSUME Init PROVE Promise!Init
    OBVIOUS
  <2>1. \A r \in Runs : run[r].total = 0 /\ run[r].done = 0
    BY DEF Init
  <2>2. QED BY <2>1 DEF Init, Promise!Init
<1>2. IInv /\ [Next]_vars => [Promise!Next]_(Promise!vars)
  BY StepImplements
<1>3. QED
  BY <1>1, <1>2, Invariance, PTL DEF Spec, RunsSequential, Promise!Spec

-----------------------------------------------------------------------------
(* What a step finds of the step before *)

(* A step that runs has all earlier ones in good; the current one gets there *)
(* before the call reads a row that is not failed.                           *)
Passed(r) ==
  /\ \A i \in 2 .. Len(stepRuns[r]) : i - 1 \in good[r]
  /\ run[r].pc \in InSteps => \A i \in 1 .. run[r].step - 1 : i \in good[r]
  /\ At(r, "save") => run[r].step \in good[r]
  /\ At(r, "read") /\ task[r] # "failed" => run[r].step \in good[r]

PassedInv == good \in [Runs -> SUBSET Nat] /\ \A r \in Runs : Passed(r)

LEMMA InitPassed == Init => PassedInv
<1> SUFFICES ASSUME Init PROVE PassedInv
  OBVIOUS
<1>1. ASSUME NEW r \in Runs PROVE Passed(r)
  <2>1. run[r].pc = "none" /\ stepRuns[r] = <<>>
    BY DEF Init
  <2>2. QED BY <2>1 DEF Passed, At, InSteps
<1>2. QED BY <1>1 DEF Init, PassedInv

(* A run that stays at its step keeps its part, as long as good only grows.  *)
LEMMA PassedKept ==
  ASSUME IInv, PassedInv, NEW q \in Runs,
         run'[q].step = run[q].step, good[q] \subseteq good'[q],
         stepRuns'[q] = stepRuns[q] \/ stepRuns'[q] = <<>>
           \/ Len(stepRuns'[q]) = Len(stepRuns[q]),
         run'[q].pc \in InSteps => run[q].pc \in InSteps \cup {"begin"},
         run'[q].pc = "save" => run[q].step \in good'[q],
         run'[q].pc = "read" /\ task'[q] # "failed" => run[q].step \in good'[q]
  PROVE  Passed(q)'
<1>1. Passed(q) /\ RunInv(q) /\ run[q] \in RunRecord
  BY DEF PassedInv, IInv, TypeOK
<1>2. run[q].pc = "begin" => run[q].step = 1
  BY <1>1 DEF RunInv, StepAgrees
<1>3. \A i \in 2 .. Len(stepRuns'[q]) : i - 1 \in good'[q]
  BY <1>1 DEF Passed
<1>4. run'[q].pc \in InSteps => \A i \in 1 .. run'[q].step - 1 : i \in good'[q]
  BY <1>1, <1>2 DEF Passed
<1>5. QED BY <1>3, <1>4 DEF Passed, At

(* A run that nothing happens to.                                            *)
LEMMA PassedSame ==
  ASSUME IInv, PassedInv, NEW q \in Runs, run'[q] = run[q],
         stepRuns'[q] = stepRuns[q], good'[q] = good[q], task'[q] = task[q]
  PROVE  Passed(q)'
BY DEF PassedInv, Passed, At

LEMMA CallPassed ==
  ASSUME IInv, IInv', PassedInv, NEW r \in Runs, CallStep(r) \/ Rejects(r) \/ Trigger(r)
  PROVE  PassedInv'
<1>0. /\ TypeOK /\ TypeOK' /\ RunInv(r) /\ Passed(r) /\ good \in [Runs -> SUBSET Nat]
      /\ run[r] \in RunRecord /\ run[r].step \in Nat
  BY DEF IInv, TypeOK, PassedInv, RunRecord
<1>1. good' \in [Runs -> SUBSET Nat] /\ good[r] \subseteq good'[r]
  <2>1. \/ good' = good
        \/ good' = [good EXCEPT ![r] = good[r] \cup {run[r].step}]
    BY <1>0 DEF CallStep, Rejects, Trigger, Load, Begin, InsertStepRun, CreateTask, BeginTask,
                EndTask, Outcome, ReadTask, SaveStep, FailStep, Complete, Abort
  <2>2. QED BY <1>0, <2>1
<1>2. \A q \in Runs \ {r} : Passed(q)'
  <2> SUFFICES ASSUME NEW q \in Runs, q # r PROVE Passed(q)'
    OBVIOUS
  <2>1. run'[q] = run[q] /\ stepRuns'[q] = stepRuns[q]
    BY <1>0 DEF TypeOK, CallStep, Rejects, Trigger, Goto, SetStepRun, Load, Begin,
                InsertStepRun, CreateTask, BeginTask, EndTask, ReadTask, SaveStep, FailStep,
                Complete, Abort
  <2>2. good'[q] = good[q] /\ task'[q] = task[q]
    BY <1>0 DEF TypeOK, CallStep, Rejects, Trigger, Load, Begin,
                InsertStepRun, CreateTask, BeginTask, EndTask, Outcome, ReadTask, SaveStep,
                FailStep, Complete, Abort
  <2>3. QED BY <2>1, <2>2, PassedSame
<1>3. ASSUME NEW pc \in RunPcs, Goto(r, pc),
             pc \in InSteps => run[r].pc \in InSteps \cup {"begin"},
             pc = "save" => run[r].step \in good'[r],
             pc = "read" /\ task'[r] # "failed" => run[r].step \in good'[r],
             stepRuns'[r] = stepRuns[r] \/ Len(stepRuns'[r]) = Len(stepRuns[r])
      PROVE  Passed(r)'
  <2>1. run'[r].pc = pc /\ run'[r].step = run[r].step
    BY <1>0, <1>3, GotoStep
  <2>2. QED BY <1>1, <1>3, <2>1, PassedKept
<1>4. Passed(r)'
  <2>1. CASE Load(r)
    <3> DEFINE new == [run[r] EXCEPT !.edition = edition, !.total = defined,
                                     !.pc = IF defined = 0 THEN "close" ELSE "begin"]
    <3>1. new.step = run[r].step /\ new.pc \in {"close", "begin"}
      BY <1>0 DEF RunRecord
    <3>2. run'[r] = new /\ stepRuns' = stepRuns
      BY <1>0, <2>1 DEF Load, TypeOK
    <3> HIDE DEF new
    <3>3. QED BY <1>1, <3>1, <3>2, PassedKept DEF InSteps
  <2>2. CASE Begin(r) \/ CreateTask(r) \/ BeginTask(r) \/ Complete(r) \/ Abort(r)
             \/ Trigger(r) \/ Rejects(r)
    <3>1. PICK pc \in {"insert", "call", "calling", "over", "load", "lost", "abort"} :
            /\ Goto(r, pc) /\ stepRuns' = stepRuns
            /\ pc \in InSteps => run[r].pc \in InSteps \cup {"begin"}
      BY <2>2 DEF Begin, CreateTask, BeginTask, Complete, Abort, Trigger, Rejects, At, InSteps
    <3>2. pc \in RunPcs /\ pc \notin {"save", "read"}
      BY DEF RunPcs
    <3>3. QED BY <1>3, <3>1, <3>2
  <2>3. CASE FailStep(r)
    <3>1. Goto(r, "abort") /\ SetStepRun(r, "failed") /\ "abort" \in RunPcs
      BY <2>3 DEF FailStep, RunPcs
    <3>2. Len(stepRuns'[r]) = Len(stepRuns[r])
      BY <1>0, <3>1, SetStepRunStep DEF StepStatuses
    <3>3. QED BY <1>3, <3>1, <3>2 DEF InSteps
  <2>4. CASE EndTask(r)
    <3>1. /\ Goto(r, "read") /\ run[r].pc = "calling" /\ stepRuns' = stepRuns
          /\ \E s \in {"completed", "failed"} : Outcome(r, s)
      BY <2>4 DEF EndTask, At
    <3>2. task'[r] # "failed" => run[r].step \in good'[r]
      BY <1>0, <3>1 DEF Outcome, TypeOK
    <3>3. QED BY <1>3, <3>1, <3>2 DEF InSteps, RunPcs
  <2>5. CASE ReadTask(r)
    <3>1. /\ run[r].pc = "read" /\ stepRuns' = stepRuns
          /\ Goto(r, IF task[r] = "failed" THEN "fail" ELSE "save")
      BY <2>5 DEF ReadTask, At
    <3>2. task[r] # "failed" => run[r].step \in good'[r]
      BY <1>0, <1>1, <3>1 DEF Passed, At
    <3>3. QED BY <1>3, <3>1, <3>2 DEF InSteps, RunPcs
  <2>6. CASE InsertStepRun(r)
    <3>0. run[r].pc = "insert"
      BY <2>6 DEF InsertStepRun, At
    <3>1. CASE run[r].edition # edition
      BY <1>3, <2>6, <3>0, <3>1 DEF InsertStepRun, InSteps, RunPcs
    <3>2. CASE run[r].edition = edition
      <4>1. /\ Goto(r, "create") /\ "create" \in RunPcs
            /\ stepRuns' = [stepRuns EXCEPT ![r] = Append(@, "running")]
        BY <2>6, <3>2 DEF InsertStepRun, RunPcs
      <4>2. run'[r].pc = "create" /\ run'[r].step = run[r].step
        BY <1>0, <4>1, GotoStep
      <4>3. Len(stepRuns[r]) = run[r].step - 1
        BY <1>0, <3>0, <3>2 DEF RunInv, RowsAgree, At
      <4>4. Len(stepRuns'[r]) = run[r].step
        BY <1>0, <4>1, <4>3 DEF TypeOK
      <4>5. \A i \in 1 .. run[r].step - 1 : i \in good'[r]
        BY <1>0, <1>1, <3>0 DEF Passed, InSteps
      <4>6. QED BY <1>0, <4>2, <4>4, <4>5 DEF Passed, At
    <3>3. QED BY <3>1, <3>2
  <2>7. CASE SaveStep(r)
    <3>0. PICK d \in Nat, n \in Nat, pc \in RunPcs :
            /\ d = run[r].done + 1
            /\ n = IF LastStep(r) THEN run[r].step ELSE run[r].step + 1
            /\ pc = IF LastStep(r) THEN "close" ELSE "insert"
      BY <1>0 DEF RunRecord, RunPcs
    <3> DEFINE new == [run[r] EXCEPT !.done = d, !.step = n, !.pc = pc]
    <3>1. new.step = n /\ new.pc = pc
      BY <1>0 DEF RunRecord
    <3>2. run' = [run EXCEPT ![r] = new]
      BY <2>7, <3>0 DEF SaveStep
    <3> HIDE DEF new
    <3>8. run'[r] = new
      BY <1>0, <3>2 DEF TypeOK
    <3>3. run[r].pc = "save" /\ SetStepRun(r, "completed") /\ good' = good
      BY <2>7 DEF SaveStep, At
    <3>4. Len(stepRuns'[r]) = Len(stepRuns[r])
      BY <1>0, <3>3, SetStepRunStep DEF StepStatuses
    <3>5. \A i \in 1 .. run[r].step : i \in good[r]
      BY <1>0, <3>3 DEF Passed, At, InSteps
    <3>6. \A i \in 1 .. n - 1 : i \in good[r]
      BY <1>0, <3>0, <3>5
    <3>7. QED BY <1>0, <3>0, <3>1, <3>3, <3>4, <3>6, <3>8 DEF Passed, At
  <2>8. QED
    BY <2>1, <2>2, <2>3, <2>4, <2>5, <2>6, <2>7 DEF CallStep
<1>5. QED BY <1>1, <1>2, <1>4 DEF PassedInv

(* The worker's call counts for the step that the call is at, an edit only   *)
(* takes rows away, and a restart stops the call.                            *)
LEMMA NextPassed == IInv /\ IInv' /\ PassedInv /\ [Next]_vars => PassedInv'
<1> SUFFICES ASSUME IInv, IInv', PassedInv, [Next]_vars PROVE PassedInv'
  OBVIOUS
<1>0. TypeOK /\ good \in [Runs -> SUBSET Nat] /\ \A q \in Runs : run[q].step \in Nat
  BY DEF IInv, TypeOK, PassedInv, RunRecord
<1>1. ASSUME NEW r \in Runs, CallStep(r) \/ Rejects(r) \/ Trigger(r) PROVE PassedInv'
  BY <1>1, CallPassed
<1>2. ASSUME NEW r \in Runs, WorkerSees(r) \/ WorkerLaunches(r) \/ WorkerEnds(r)
      PROVE  PassedInv'
  <2>1. /\ run' = run /\ stepRuns' = stepRuns
        /\ \/ good' = good
           \/ good' = [good EXCEPT ![r] = good[r] \cup {run[r].step}]
        /\ \A q \in Runs \ {r} : task'[q] = task[q]
        /\ task'[r] \in {task[r], "failed"} \/ run[r].step \in good'[r]
    BY <1>0, <1>2 DEF WorkerSees, WorkerLaunches, WorkerEnds, Outcome, TypeOK
  <2>2. ASSUME NEW q \in Runs PROVE Passed(q)'
    <3>1. Passed(q) /\ good[q] \subseteq good'[q]
      BY <1>0, <2>1 DEF PassedInv
    <3>2. run[q].pc = "save" => run[q].step \in good'[q]
      BY <3>1 DEF Passed, At
    <3>3. run[q].pc = "read" /\ task'[q] # "failed" => run[q].step \in good'[q]
      BY <2>1, <3>1 DEF Passed, At
    <3>4. QED BY <2>1, <3>1, <3>2, <3>3, PassedKept
  <2>3. QED BY <1>0, <2>1, <2>2 DEF PassedInv
<1>3. CASE Edit
  <2>1. /\ stepRuns' = [r \in Runs |-> <<>>] /\ UNCHANGED <<run, task, good>>
    BY <1>3 DEF Edit
  <2>2. ASSUME NEW q \in Runs PROVE Passed(q)'
    <3>1. Passed(q) /\ stepRuns'[q] = <<>>
      BY <2>1 DEF PassedInv
    <3>2. QED BY <2>1, <3>1 DEF Passed, At
  <2>3. QED BY <1>0, <2>1, <2>2 DEF PassedInv
<1>4. CASE Restart
  <2>1. /\ UNCHANGED <<stepRuns, good>>
        /\ run' = [r \in Runs |-> IF run[r].pc \in {"none", "over"} THEN run[r]
                                  ELSE [run[r] EXCEPT !.pc = "lost"]]
    BY <1>4 DEF Restart
  <2>2. ASSUME NEW q \in Runs PROVE Passed(q)'
    <3>1. run[q] \in RunRecord
      BY <1>0 DEF TypeOK
    <3>2. run'[q].pc \in {"none", "over", "lost"}
      BY <2>1, <3>1 DEF RunRecord
    <3>3. QED BY <2>1, <3>2 DEF PassedInv, Passed, At, InSteps
  <2>3. QED BY <1>0, <2>1, <2>2 DEF PassedInv
<1>5. CASE InsertStep \/ UNCHANGED vars
  <2>1. UNCHANGED <<stepRuns, run, task, good>>
    BY <1>5 DEF InsertStep, vars
  <2>2. QED BY <1>0, <2>1, PassedSame DEF PassedInv
<1>6. QED BY <1>1, <1>2, <1>3, <1>4, <1>5 DEF Next

(* A step starts only after the task of the step before has completed, or    *)
(* had the worker's call too; for any number of runs and steps.              *)
THEOREM OutputsArePassedOn == Spec => []OutputsPassedOn
<1>1. PassedInv => OutputsPassedOn
  BY DEF PassedInv, Passed, OutputsPassedOn
<1>2. QED BY <1>1, InitPassed, NextPassed, Invariance, PTL DEF Spec
=============================================================================
