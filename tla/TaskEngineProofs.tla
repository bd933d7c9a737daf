-------------------------- MODULE TaskEngineProofs --------------------------
(***************************************************************************)
(* Proofs about TaskEngine for every value of its constants: its types     *)
(* first, then the safety invariants and SlotPool.                         *)
(*                                                                         *)
(* Two case analyses carry the safety proofs: TableStep says what a step   *)
(* may do to the table, TrackedStep what it may do to the worker's map and *)
(* to the calls that the map stands for.                                   *)
(***************************************************************************)
EXTENDS TaskEngine, TLAPS, FiniteSetTheorems, SequenceTheorems

-----------------------------------------------------------------------------
(* What the operators that every action is built from preserve. *)

(* A new row of the right shape leaves a well-formed, longer table.          *)
LEMMA InsertType ==
  ASSUME TypeOK, NEW row \in Row, NEW from \in Nat, Insert(row, from)
  PROVE  /\ tasks' \in Seq(Row)
         /\ Len(tasks') = Len(tasks) + 1
         /\ origin' \in Seq(Nat) /\ Len(origin') = Len(tasks')
         /\ TaskIds' = TaskIds \cup {Len(tasks) + 1}
         /\ \A t \in TaskIds : tasks'[t] = tasks[t] /\ origin'[t] = origin[t]
         /\ tasks'[Len(tasks) + 1] = row
         /\ origin'[Len(tasks) + 1] = from
BY DEF TypeOK, Insert, TaskIds

LEMMA WithStatusType ==
  ASSUME NEW row \in Row, NEW s \in Statuses
  PROVE  /\ WithStatus(row, s) \in Row
         /\ WithStatus(row, s).status = s
         /\ WithStatus(row, s).orch = row.orch
         /\ WithStatus(row, s).prio = row.prio
         /\ WithStatus(row, s).retry = row.retry
         /\ WithStatus(row, s).backend = row.backend
BY DEF WithStatus, Row

(* A status write changes one field of one row.                              *)
LEMMA SetStatusType ==
  ASSUME TypeOK, NEW t \in TaskIds, NEW s \in Statuses, SetStatus(t, s)
  PROVE  /\ tasks' \in Seq(Row)
         /\ Len(tasks') = Len(tasks)
         /\ TaskIds' = TaskIds
         /\ tasks'[t] = WithStatus(tasks[t], s)
         /\ \A u \in TaskIds : u # t => tasks'[u] = tasks[u]
<1>1. tasks \in Seq(Row) /\ t \in 1 .. Len(tasks) /\ tasks[t] \in Row
  BY DEF TypeOK, TaskIds
<1>2. WithStatus(tasks[t], s) \in Row
  BY <1>1, WithStatusType
<1>3. QED
  BY <1>1, <1>2 DEF TaskIds, SetStatus

(* Moving a call changes its control point only.                             *)
LEMMA GotoEffect ==
  ASSUME TypeOK, NEW c \in Calls, NEW pc \in CallPcs, Goto(c, pc)
  PROVE  /\ call' \in [Calls -> CallRecord]
         /\ \A d \in Calls : /\ call'[d].pc = IF d = c THEN pc ELSE call[d].pc
                             /\ call'[d].task = call[d].task
                             /\ call'[d].via = call[d].via
                             /\ call'[d].parent = call[d].parent
<1>1. call \in [Calls -> CallRecord]
  BY DEF TypeOK
<1>2. call' = [call EXCEPT ![c] = [call[c] EXCEPT !.pc = pc]]
  BY DEF Goto
<1>3. /\ [call[c] EXCEPT !.pc = pc] \in CallRecord
      /\ [call[c] EXCEPT !.pc = pc].pc = pc
      /\ [call[c] EXCEPT !.pc = pc].task = call[c].task
      /\ [call[c] EXCEPT !.pc = pc].via = call[c].via
      /\ [call[c] EXCEPT !.pc = pc].parent = call[c].parent
  BY <1>1 DEF CallRecord
<1>4. QED
  BY <1>1, <1>2, <1>3

(* A settled call has the given record; every other call is as it was.       *)
LEMMA SettleEffect ==
  ASSUME TypeOK, NEW c \in Calls, NEW r \in CallRecord, Settle(c, r)
  PROVE  /\ call' \in [Calls -> CallRecord]
         /\ call'[c] = r
         /\ \A d \in Calls : d # c => call'[d] = call[d]
         /\ running' \subseteq running
         /\ call[c].via = "queue" => running' = running \ {call[c].task}
         /\ call[c].via # "queue" => running' = running
BY DEF TypeOK, Settle

LEMMA ReturnedType ==
  /\ Returned \in CallRecord
  /\ Returned.pc = "idle" /\ Returned.via = "direct"
BY DEF Returned, CallRecord, CallPcs

(* The counters of the bounds stay counters.                                 *)
LEMMA FaultType ==
  ASSUME TypeOK, NEW point, Fault(point)
  PROVE  used' \in [faults : Nat, pauses : Nat, crashes : Nat]
BY DEF TypeOK, Fault

-----------------------------------------------------------------------------
(* Type correctness *)

LEMMA InitType == Init => TypeOK
BY DEF Init, TypeOK, TaskIds, Returned, CallRecord, CallPcs

(* The actions of handlers: a pending row, with or without a call on it.     *)
LEMMA SubmitQueuedType ==
  ASSUME TypeOK, NEW o \in Orchs, NEW p \in Priorities, NEW b \in Backends,
         SubmitQueued(o, p, b)
  PROVE  TypeOK'
<1>1. FreshRow(o, p, b) \in Row /\ Len(tasks) + 1 \in Nat
  BY EngineAssumption DEF FreshRow, Row, Statuses, TypeOK
<1>2. Insert(FreshRow(o, p, b), Len(tasks) + 1)
  BY DEF SubmitQueued
<1> DEFINE row == FreshRow(o, p, b)
           from == Len(tasks) + 1
<1>3. /\ tasks' \in Seq(Row)
      /\ origin' \in Seq(Nat) /\ Len(origin') = Len(tasks')
      /\ TaskIds' = TaskIds \cup {Len(tasks) + 1}
  <2> HIDE DEF row, from
  <2> QED BY <1>1, <1>2, InsertType DEF row, from
<1>4. QED
  BY <1>3 DEF TypeOK, SubmitQueued

LEMMA SubmitDirectType ==
  ASSUME TypeOK, NEW o \in Orchs, NEW p \in Priorities, NEW b \in Backends,
         NEW c \in Calls, SubmitDirect(o, p, b, c)
  PROVE  TypeOK'
<1>1. FreshRow(o, p, b) \in Row /\ Len(tasks) + 1 \in Nat
  BY EngineAssumption DEF FreshRow, Row, Statuses, TypeOK
<1>2. Insert(FreshRow(o, p, b), Len(tasks) + 1)
  BY DEF SubmitDirect
<1>3. /\ tasks' \in Seq(Row)
      /\ origin' \in Seq(Nat) /\ Len(origin') = Len(tasks')
      /\ TaskIds' = TaskIds \cup {Len(tasks) + 1}
  BY <1>1, <1>2, InsertType
<1>4. Called(Len(tasks) + 1, "direct", NoCall) \in CallRecord
  BY <1>1 DEF Called, CallRecord, CallPcs
<1>5. QED
  BY <1>3, <1>4 DEF TypeOK, SubmitDirect, Called

LEMMA WorkerType ==
  ASSUME TypeOK, WorkerStep \/ PassFails
  PROVE  TypeOK'
<1>1. CASE Poll
  BY <1>1 DEF TypeOK, Poll, TaskIds
<1>2. CASE \E t \in snapshot : SkipTracked(t)
  BY <1>2 DEF TypeOK, SkipTracked, TaskIds
<1>3. CASE \E t \in snapshot : ReadOrchestrator(t)
  BY <1>3 DEF TypeOK, ReadOrchestrator, TaskIds
<1>4. CASE SkipFull
  BY <1>4 DEF TypeOK, SkipFull, TaskIds
<1>5. CASE \E c \in Calls : Launch(c)
  <2> PICK c \in Calls : Launch(c)
    BY <1>5
  <2>1. candidate \in TaskIds /\ candidate \in Nat
    BY DEF TypeOK, Launch, TaskIds
  <2>2. Called(candidate, "queue", NoCall) \in CallRecord
    BY <2>1 DEF Called, CallRecord, CallPcs
  <2>3. QED
    BY <2>1, <2>2 DEF TypeOK, Launch, TaskIds, Called
<1>6. CASE EndPass
  BY <1>6 DEF TypeOK, EndPass, TaskIds
<1>7. CASE PassFails
  BY <1>7 DEF TypeOK, PassFails, TaskIds, Fault
<1>8. QED
  BY <1>1, <1>2, <1>3, <1>4, <1>5, <1>6, <1>7 DEF WorkerStep

(* The row of a call that has not settled is in the table.                   *)
LEMMA CallRow ==
  ASSUME TypeOK, NEW c \in Calls, call[c].pc # "idle"
  PROVE  call[c].task \in TaskIds /\ call[c].task \in Nat
BY DEF TypeOK, TaskIds

(* A timer belongs to a row of the table.                                    *)
LEMMA RetriedRow ==
  ASSUME TypeOK, NEW c \in Calls, Retry(c)
  PROVE  /\ call[c].task \in TaskIds
         /\ tasks[call[c].task] \in Row /\ origin[call[c].task] \in Nat
<1>1. call[c].pc # "idle"
  BY DEF Retry
<1>2. call[c].task \in TaskIds
  BY <1>1, CallRow
<1>3. tasks \in Seq(Row) /\ origin \in Seq(Nat) /\ Len(origin) = Len(tasks)
  BY DEF TypeOK
<1>4. QED BY <1>2, <1>3 DEF TaskIds

LEMMA CallRejectsType ==
  ASSUME TypeOK, NEW c \in Calls, CallRejects(c)
  PROVE  TypeOK'
<1>1. Settle(c, Returned)
  BY DEF CallRejects
<1>2. /\ call' \in [Calls -> CallRecord]
      /\ call'[c] = Returned
      /\ \A d \in Calls : d # c => call'[d] = call[d]
      /\ running' \subseteq running
  BY <1>1, SettleEffect, ReturnedType
<1>3. tasks' \in Seq(Row) /\ Len(tasks') = Len(tasks) /\ TaskIds' = TaskIds
  <2>1. CASE UNCHANGED tasks
    BY <2>1 DEF TypeOK, TaskIds
  <2>2. CASE SetStatus(call[c].task, "running")
    BY <2>2, SetStatusType, CallRow DEF CallRejects, Statuses
  <2>3. QED
    BY <2>1, <2>2 DEF CallRejects
<1>4. used' \in [faults : Nat, pauses : Nat, crashes : Nat]
  BY FaultType DEF CallRejects
<1>5. QED
  BY <1>2, <1>3, <1>4, ReturnedType DEF TypeOK, CallRejects

LEMMA SpawnType ==
  ASSUME TypeOK, NEW c \in Calls, NEW d \in Calls, Spawn(c, d)
  PROVE  TypeOK'
<1> DEFINE row == tasks[call[c].task]
<1>1. row \in Row /\ Len(tasks) + 1 \in Nat
  BY CallRow DEF TypeOK, TaskIds, Spawn
<1>2. row.orch \in Orchs /\ row.prio \in Priorities
  BY <1>1 DEF Row
<1>3. FreshRow(row.orch, row.prio, "inprocess") \in Row
  BY <1>2, <1>1 DEF FreshRow, Row, Statuses, Spawn
<1>4. Insert(FreshRow(row.orch, row.prio, "inprocess"), Len(tasks) + 1)
  BY DEF Spawn
<1>5. /\ tasks' \in Seq(Row)
      /\ origin' \in Seq(Nat) /\ Len(origin') = Len(tasks')
      /\ TaskIds' = TaskIds \cup {Len(tasks) + 1}
  <2> HIDE DEF row
  <2> QED BY <1>1, <1>3, <1>4, InsertType
<1>6. /\ Called(Len(tasks) + 1, "spawn", c) \in CallRecord
      /\ [call[c] EXCEPT !.pc = "delegating"] \in CallRecord
      /\ [call[c] EXCEPT !.pc = "delegating"].task = call[c].task
      /\ Called(Len(tasks) + 1, "spawn", c).task = Len(tasks) + 1
  BY <1>1 DEF Called, CallRecord, CallPcs, TypeOK
<1>7. call' = [[call EXCEPT ![c] = [call[c] EXCEPT !.pc = "delegating"]]
                  EXCEPT ![d] = Called(Len(tasks) + 1, "spawn", c)]
  BY DEF Spawn
<1>8. /\ call' \in [Calls -> CallRecord]
      /\ \A e \in Calls : \/ call'[e] = call[e]
                          \/ e = c /\ call'[e].task = call[c].task
                          \/ e = d /\ call'[e].task = Len(tasks) + 1
  BY <1>6, <1>7 DEF TypeOK
<1>9. call[c].pc # "idle"
  BY DEF Spawn
<1>10. \A e \in Calls : call'[e].pc # "idle" => call'[e].task \in TaskIds'
  BY <1>5, <1>8, <1>9 DEF TypeOK
<1>11. QED
  BY <1>5, <1>8, <1>10 DEF TypeOK, Spawn

LEMMA RetryType ==
  ASSUME TypeOK, NEW c \in Calls, Retry(c)
  PROVE  TypeOK'
<1> DEFINE t == call[c].task
<1>1. t \in TaskIds /\ tasks[t] \in Row /\ origin[t] \in Nat
  BY RetriedRow
<1>2. RetryRow(tasks[t]) \in Row
  BY <1>1 DEF RetryRow, Row, Statuses
<1>3. Insert(RetryRow(tasks[t]), origin[t])
  BY DEF Retry
<1>4. /\ tasks' \in Seq(Row)
      /\ origin' \in Seq(Nat) /\ Len(origin') = Len(tasks')
      /\ TaskIds' = TaskIds \cup {Len(tasks) + 1}
  <2> HIDE DEF t
  <2> QED BY <1>1, <1>2, <1>3, InsertType
<1>5. Called(Len(tasks) + 1, "direct", NoCall) \in CallRecord
  BY DEF Called, CallRecord, CallPcs, TypeOK
<1>6. QED
  BY <1>4, <1>5 DEF TypeOK, Retry, Called

LEMMA CallStepType ==
  ASSUME TypeOK, NEW c \in Calls,
         CallStep(c) \/ PostFails(c) \/ CatchRejects(c) \/ RetryLost(c)
  PROVE  TypeOK'
<1> DEFINE t == call[c].task
<1>1. CASE Begin(c)
  <2>1. SetStatus(t, "running") /\ Goto(c, "working") /\ t \in TaskIds
    BY <1>1, CallRow DEF Begin
  <2>2. /\ tasks' \in Seq(Row) /\ Len(tasks') = Len(tasks)
        /\ TaskIds' = TaskIds
    BY <2>1, SetStatusType DEF Statuses
  <2>3. QED
    BY <1>1, <2>1, <2>2, GotoEffect DEF TypeOK, Begin, CallPcs
<1>2. CASE Join(c) \/ Fail(c) \/ PostFails(c)
  <2>1. \E pc \in CallPcs : Goto(c, pc)
    BY <1>2 DEF Join, Fail, PostFails, CallPcs
  <2>2. call[c].pc # "idle"
    BY <1>2 DEF Join, Fail, PostFails
  <2>3. used' \in [faults : Nat, pauses : Nat, crashes : Nat]
    BY <1>2, FaultType DEF TypeOK, Join, Fail, PostFails
  <2>4. QED
    BY <1>2, <2>1, <2>2, <2>3, GotoEffect
       DEF TypeOK, Join, Fail, PostFails, TaskIds
<1>3. CASE Complete(c)
  <2>1. SetStatus(t, "completed") /\ t \in TaskIds
    BY <1>3, CallRow DEF Complete
  <2>2. /\ tasks' \in Seq(Row) /\ Len(tasks') = Len(tasks)
        /\ TaskIds' = TaskIds
    BY <2>1, SetStatusType DEF Statuses
  <2>3. CASE Goto(c, "posting") /\ UNCHANGED running
    BY <1>3, <2>1, <2>2, <2>3, GotoEffect DEF TypeOK, Complete, CallPcs
  <2>4. CASE Settle(c, Returned)
    BY <1>3, <2>2, <2>4, SettleEffect, ReturnedType
       DEF TypeOK, Complete, Returned
  <2>5. QED
    BY <1>3, <2>3, <2>4 DEF Complete
<1>4. CASE Posted(c) \/ CatchRejects(c)
  <2>1. Settle(c, Returned)
    BY <1>4 DEF Posted, CatchRejects
  <2>2. used' \in [faults : Nat, pauses : Nat, crashes : Nat]
    BY <1>4, FaultType DEF TypeOK, Posted, CatchRejects
  <2>3. QED
    BY <1>4, <2>1, <2>2, SettleEffect, ReturnedType
       DEF TypeOK, Posted, CatchRejects, TaskIds
<1>5. CASE MarkFailed(c)
  <2>1. SetStatus(t, "failed") /\ t \in TaskIds /\ t \in Nat
    BY <1>5, CallRow DEF MarkFailed
  <2>2. /\ tasks' \in Seq(Row) /\ Len(tasks') = Len(tasks)
        /\ TaskIds' = TaskIds
    BY <2>1, SetStatusType DEF Statuses
  <2>3. PICK r \in {Returned, BackedOff(t)} : Settle(c, r)
    BY <1>5 DEF MarkFailed
  <2>4. r \in CallRecord /\ (r.pc # "idle" => r.task = t)
    BY <2>1, <2>3, ReturnedType
       DEF BackedOff, Returned, CallRecord, CallPcs
  <2>5. QED
    BY <1>5, <2>1, <2>2, <2>3, <2>4, SettleEffect DEF TypeOK, MarkFailed
<1>6. CASE Retry(c)
  BY <1>6, RetryType
<1>7. CASE RetryLost(c)
  <2>1. /\ call' = [call EXCEPT ![c] = Returned]
        /\ UNCHANGED <<tasks, running, worker, snapshot, candidate, paused, origin>>
    BY <1>7 DEF RetryLost
  <2>2. used' \in [faults : Nat, pauses : Nat, crashes : Nat]
    BY <1>7, FaultType DEF RetryLost
  <2>3. /\ call' \in [Calls -> CallRecord] /\ call'[c].pc = "idle"
        /\ \A d \in Calls : d # c => call'[d] = call[d]
    BY <2>1, ReturnedType DEF TypeOK
  <2>4. TaskIds' = TaskIds
    BY <2>1 DEF TaskIds
  <2>5. \A d \in Calls : call'[d].pc # "idle" => call'[d].task \in TaskIds'
    BY <2>3, <2>4 DEF TypeOK
  <2>6. QED BY <2>1, <2>2, <2>3, <2>4, <2>5 DEF TypeOK
<1>8. QED
  BY <1>1, <1>2, <1>3, <1>4, <1>5, <1>6, <1>7 DEF CallStep

LEMMA AdministrationType ==
  ASSUME TypeOK, (\E o \in Orchs : Pause(o) \/ Unpause(o)) \/ Crash \/ Boot
  PROVE  TypeOK'
<1>1. CASE \E o \in Orchs : Pause(o) \/ Unpause(o)
  BY <1>1 DEF TypeOK, Pause, Unpause, TaskIds
<1>2. CASE Crash
  <2>1. used' \in [faults : Nat, pauses : Nat, crashes : Nat]
    BY <1>2 DEF TypeOK, Crash
  <2>2. QED
    BY <1>2, <2>1, ReturnedType DEF TypeOK, Crash, TaskIds
<1>3. CASE Boot
  <2> DEFINE row(t) == IF tasks[t].status = "running"
                         THEN WithStatus(tasks[t], "failed") ELSE tasks[t]
  <2>1. Len(tasks) \in Nat /\ \A t \in 1 .. Len(tasks) : tasks[t] \in Row
    BY DEF TypeOK
  <2>2. \A t \in 1 .. Len(tasks) : row(t) \in Row
    BY <2>1, WithStatusType DEF Statuses
  <2>3. tasks' = [t \in 1 .. Len(tasks) |-> row(t)]
    BY <1>3 DEF Boot, TaskIds
  <2>4. tasks' \in Seq(Row) /\ Len(tasks') = Len(tasks)
    <3> HIDE DEF row
    <3> QED BY <2>1, <2>2, <2>3
  <2>5. QED
    BY <1>3, <2>4 DEF TypeOK, Boot, TaskIds
<1>4. QED
  BY <1>1, <1>2, <1>3

LEMMA NextType == TypeOK /\ [Next]_vars => TypeOK'
<1> SUFFICES ASSUME TypeOK, [Next]_vars PROVE TypeOK'
  OBVIOUS
<1>1. CASE UNCHANGED vars
  BY <1>1 DEF TypeOK, vars, TaskIds
<1>2. CASE Next
  BY <1>2, SubmitQueuedType, SubmitDirectType, WorkerType, CallStepType,
     CallRejectsType, SpawnType, AdministrationType DEF Next
<1>3. QED
  BY <1>1, <1>2

(* Every variable keeps its type in every behaviour.                         *)
THEOREM TypeCorrect == Spec => []TypeOK
<1>1. QED
  BY InitType, NextType, PTL DEF Spec

-----------------------------------------------------------------------------
(* The table *)

(* A step leaves the table alone, adds a first attempt or a retry, writes    *)
(* one status, or is the recovery at boot.                                   *)
LEMMA TableStep ==
  ASSUME TypeOK, [Next]_vars
  PROVE  \/ UNCHANGED <<tasks, origin>>
         \/ \E row \in Row : /\ row.retry = 0
                             /\ row.status = "pending"
                             /\ Insert(row, Len(tasks) + 1)
         \/ \E c \in Calls : Retry(c)
         \/ \E t \in TaskIds, s \in Statuses :
              SetStatus(t, s) /\ UNCHANGED origin
         \/ Boot
<1> DEFINE Goal == \/ UNCHANGED <<tasks, origin>>
                   \/ \E row \in Row : /\ row.retry = 0
                                       /\ row.status = "pending"
                                       /\ Insert(row, Len(tasks) + 1)
                   \/ \E c \in Calls : Retry(c)
                   \/ \E t \in TaskIds, s \in Statuses :
                        SetStatus(t, s) /\ UNCHANGED origin
                   \/ Boot
<1>1. ASSUME NEW o \in Orchs, NEW p \in Priorities, NEW b \in Backends
      PROVE  /\ FreshRow(o, p, b) \in Row
             /\ FreshRow(o, p, b).retry = 0
             /\ FreshRow(o, p, b).status = "pending"
  BY DEF FreshRow, Row, Statuses
<1>2. CASE \E o \in Orchs, p \in Priorities, b \in Backends :
             \/ SubmitQueued(o, p, b)
             \/ \E c \in Calls : SubmitDirect(o, p, b, c)
  BY <1>1, <1>2 DEF SubmitQueued, SubmitDirect
<1>3. ASSUME NEW c \in Calls, NEW d \in Calls, Spawn(c, d)
      PROVE  Goal
  <2> DEFINE row == tasks[call[c].task]
             new == FreshRow(row.orch, row.prio, "inprocess")
  <2>1. call[c].task \in TaskIds /\ row \in Row /\ row.backend = "inprocess"
    BY <1>3, CallRow DEF TypeOK, TaskIds, Spawn
  <2>2. /\ row.orch \in Orchs /\ row.prio \in Priorities
        /\ "inprocess" \in Backends
    BY <2>1 DEF Row
  <2>3. new \in Row /\ new.retry = 0 /\ new.status = "pending"
    BY <2>2, <1>1
  <2>4. Insert(new, Len(tasks) + 1)
    BY <1>3 DEF Spawn
  <2>5. QED
    <3> HIDE DEF new
    <3> QED BY <2>3, <2>4
<1>4. ASSUME NEW c \in Calls, CallStep(c) \/ CallRejects(c)
      PROVE  Goal
  <2>1. CASE \/ Begin(c) \/ Complete(c) \/ MarkFailed(c)
             \/ CallRejects(c) /\ SetStatus(call[c].task, "running")
    BY <2>1, CallRow
       DEF Begin, Complete, MarkFailed, CallRejects, Statuses
  <2>2. CASE \/ Join(c) \/ Posted(c) \/ Fail(c)
             \/ CallRejects(c) /\ UNCHANGED tasks
    BY <2>2 DEF Join, Posted, Fail, CallRejects
  <2>3. CASE Retry(c)
    BY <2>3
  <2>4. QED
    BY <1>4, <2>1, <2>2, <2>3 DEF CallStep, CallRejects
<1>5. ASSUME NEW c \in Calls, PostFails(c) \/ CatchRejects(c) \/ RetryLost(c)
      PROVE  Goal
  BY <1>5 DEF PostFails, CatchRejects, RetryLost
<1>6. CASE WorkerStep \/ PassFails
  BY <1>6 DEF WorkerStep, PassFails, Poll, SkipTracked, ReadOrchestrator,
     SkipFull, Launch, EndPass
<1>7. CASE (\E o \in Orchs : Pause(o) \/ Unpause(o)) \/ Crash
  BY <1>7 DEF Pause, Unpause, Crash
<1>8. CASE UNCHANGED vars
  BY <1>8 DEF vars
<1>9. QED
  BY <1>2, <1>3, <1>4, <1>5, <1>6, <1>7, <1>8 DEF Next

(* Only a status ever changes: a row keeps its orchestrator, its backend,    *)
(* its retry count and its lineage for ever.                                 *)
LEMMA RowsKept ==
  ASSUME TypeOK, [Next]_vars
  PROVE  /\ TaskIds \subseteq TaskIds'
         /\ \A t \in TaskIds : /\ tasks'[t].orch = tasks[t].orch
                               /\ tasks'[t].backend = tasks[t].backend
                               /\ tasks'[t].retry = tasks[t].retry
                               /\ origin'[t] = origin[t]
<1> DEFINE Goal == /\ TaskIds \subseteq TaskIds'
                   /\ \A t \in TaskIds :
                        /\ tasks'[t].orch = tasks[t].orch
                        /\ tasks'[t].backend = tasks[t].backend
                        /\ tasks'[t].retry = tasks[t].retry
                        /\ origin'[t] = origin[t]
<1>1. CASE UNCHANGED <<tasks, origin>>
  BY <1>1 DEF TaskIds
<1>2. ASSUME NEW row \in Row, NEW from \in Nat, Insert(row, from)
      PROVE  Goal
  BY <1>2, InsertType
<1>3. ASSUME NEW c \in Calls, Retry(c)
      PROVE  Goal
  <2>1. /\ call[c].task \in TaskIds
        /\ tasks[call[c].task] \in Row /\ origin[call[c].task] \in Nat
    BY <1>3, RetriedRow
  <2>2. RetryRow(tasks[call[c].task]) \in Row
    BY <2>1 DEF RetryRow, Row, Statuses
  <2>3. QED
    BY <1>3, <2>1, <2>2, <1>2 DEF Retry
<1>4. ASSUME NEW t \in TaskIds, NEW s \in Statuses, SetStatus(t, s),
             UNCHANGED origin
      PROVE  Goal
  <2>1. tasks[t] \in Row
    BY DEF TypeOK, TaskIds
  <2>2. /\ TaskIds' = TaskIds /\ tasks'[t] = WithStatus(tasks[t], s)
        /\ \A u \in TaskIds : u # t => tasks'[u] = tasks[u]
    BY <1>4, SetStatusType
  <2>3. /\ tasks'[t].orch = tasks[t].orch /\ tasks'[t].backend = tasks[t].backend
        /\ tasks'[t].retry = tasks[t].retry
    BY <2>1, <2>2, WithStatusType
  <2>4. QED BY <1>4, <2>2, <2>3
<1>5. CASE Boot
  <2>1. \A t \in TaskIds : tasks[t] \in Row
    BY DEF TypeOK, TaskIds
  <2>2. \A t \in TaskIds : tasks'[t] = tasks[t] \/
                           tasks'[t] = WithStatus(tasks[t], "failed")
    BY <1>5 DEF Boot
  <2>3. TaskIds' = TaskIds
    BY <1>5 DEF Boot, TaskIds, TypeOK
  <2>4. QED
    BY <1>5, <2>1, <2>2, <2>3, WithStatusType DEF Boot, Statuses
<1>6. Len(tasks) + 1 \in Nat
  BY DEF TypeOK
<1>7. QED
  BY <1>1, <1>2, <1>3, <1>4, <1>5, <1>6, TableStep

-----------------------------------------------------------------------------
(* Retries *)

(* A timer is only ever set for a row that its orchestrator lets retry.      *)
BackoffMayRetry ==
  \A c \in Calls : call[c].pc = "backoff" => MayRetry(call[c].task)

(* A call that is in backoff was there before, or has just failed.           *)
LEMMA BackoffStep ==
  ASSUME TypeOK, [Next]_vars, NEW c \in Calls, call'[c].pc = "backoff"
  PROVE  /\ call'[c].task = call[c].task
         /\ call[c].pc # "idle"
         /\ call[c].pc = "backoff" \/ MayRetry(call[c].task)
<1> DEFINE Goal == /\ call'[c].task = call[c].task
                   /\ call[c].pc # "idle"
                   /\ call[c].pc = "backoff" \/ MayRetry(call[c].task)
<1>1. CASE call' = call
  BY <1>1
<1>2. ASSUME NEW d \in Calls, NEW r \in CallRecord, r.pc # "backoff",
             call' = [call EXCEPT ![d] = r]
      PROVE  Goal
  BY <1>2 DEF TypeOK
<1>3. ASSUME NEW d \in Calls, NEW pc \in CallPcs, pc # "backoff", Goto(d, pc)
      PROVE  Goal
  BY <1>3, GotoEffect
<1>4. ASSUME NEW d \in Calls, Settle(d, Returned)
      PROVE  Goal
  BY <1>4, ReturnedType, <1>2 DEF Settle
<1>5. ASSUME NEW t \in Nat, NEW via \in {"queue", "direct", "spawn"},
             NEW parent \in Calls \cup {NoCall}
      PROVE  Called(t, via, parent) \in CallRecord
             /\ Called(t, via, parent).pc # "backoff"
  BY DEF Called, CallRecord, CallPcs
<1>6. ASSUME NEW o \in Orchs, NEW p \in Priorities, NEW b \in Backends,
             SubmitQueued(o, p, b) \/ \E d \in Calls : SubmitDirect(o, p, b, d)
      PROVE  Goal
  BY <1>6, <1>1, <1>2, <1>5 DEF SubmitQueued, SubmitDirect, TypeOK
<1>7. CASE WorkerStep \/ PassFails
  <2>1. CASE \E d \in Calls : Launch(d)
    BY <2>1, <1>2, <1>5 DEF Launch, TypeOK, TaskIds
  <2>2. QED
    BY <2>1, <1>7, <1>1 DEF WorkerStep, PassFails, Poll, SkipTracked,
       ReadOrchestrator, SkipFull, EndPass
<1>8. ASSUME NEW d \in Calls, CallStep(d)
      PROVE  Goal
  <2>1. CASE Begin(d) \/ Join(d) \/ Fail(d)
    BY <2>1, <1>3 DEF Begin, Join, Fail, CallPcs
  <2>2. CASE Complete(d) \/ Posted(d)
    BY <2>2, <1>3, <1>4 DEF Complete, Posted, CallPcs
  <2>3. CASE MarkFailed(d)
    <3>1. CASE MayRetry(call[d].task)
      <4>1. call' = [call EXCEPT ![d] = BackedOff(call[d].task)]
            /\ call[d].pc = "failing"
        BY <2>3, <3>1 DEF MarkFailed, Settle
      <4>2. BackedOff(call[d].task).task = call[d].task
        BY DEF BackedOff
      <4>3. QED
        BY <3>1, <4>1, <4>2 DEF TypeOK
    <3>2. CASE ~MayRetry(call[d].task)
      BY <2>3, <3>2, <1>4 DEF MarkFailed
    <3>3. QED
      BY <3>1, <3>2
  <2>4. CASE Retry(d)
    BY <2>4, <1>2, <1>5 DEF Retry, TypeOK
  <2>5. QED
    BY <1>8, <2>1, <2>2, <2>3, <2>4 DEF CallStep
<1>9. ASSUME NEW d \in Calls,
             CallRejects(d) \/ PostFails(d) \/ CatchRejects(d) \/ RetryLost(d)
      PROVE  Goal
  BY <1>9, <1>2, <1>3, <1>4, ReturnedType
     DEF CallRejects, PostFails, CatchRejects, RetryLost, CallPcs
<1>10. ASSUME NEW d \in Calls, NEW e \in Calls, Spawn(d, e)
       PROVE  Goal
  <2>1. call' = [[call EXCEPT ![d] = [call[d] EXCEPT !.pc = "delegating"]]
                    EXCEPT ![e] = Called(Len(tasks) + 1, "spawn", d)]
    BY <1>10 DEF Spawn
  <2>2. [call[d] EXCEPT !.pc = "delegating"].pc = "delegating"
    BY DEF TypeOK, CallRecord
  <2>3. Called(Len(tasks) + 1, "spawn", d).pc = "called"
    BY DEF Called
  <2>4. call'[c] = call[c] \/ call'[c].pc \in {"delegating", "called"}
    BY <2>1, <2>2, <2>3 DEF TypeOK
  <2>5. QED
    BY <2>4
<1>11. CASE (\E o \in Orchs : Pause(o) \/ Unpause(o)) \/ Boot
  BY <1>11, <1>1 DEF Pause, Unpause, Boot
<1>12. CASE Crash
  BY <1>12, ReturnedType DEF Crash
<1>13. CASE UNCHANGED vars
  BY <1>13, <1>1 DEF vars
<1>14. QED
  BY <1>6, <1>7, <1>8, <1>9, <1>10, <1>11, <1>12, <1>13 DEF Next

LEMMA BackoffInvariant ==
  TypeOK /\ BackoffMayRetry /\ [Next]_vars => BackoffMayRetry'
<1> SUFFICES ASSUME TypeOK, BackoffMayRetry, [Next]_vars,
                    NEW c \in Calls, call'[c].pc = "backoff"
             PROVE  MayRetry(call[c].task)' 
  BY DEF BackoffMayRetry
<1>1. /\ call'[c].task = call[c].task /\ call[c].task \in TaskIds
      /\ MayRetry(call[c].task)
  BY BackoffStep, CallRow DEF BackoffMayRetry
<1>2. QED
  BY <1>1, RowsKept DEF MayRetry

LEMMA RetryChainStep ==
  TypeOK /\ BackoffMayRetry /\ RetryChain /\ [Next]_vars => RetryChain'
<1> SUFFICES ASSUME TypeOK, BackoffMayRetry, RetryChain, [Next]_vars
             PROVE  RetryChain'
  OBVIOUS
<1> DEFINE Chained(t) ==
      /\ tasks[t].retry <= MaxRetries[tasks[t].orch]
      /\ tasks[t].retry = 0 <=> origin[t] = t
      /\ origin[t] \in 1 .. t
      /\ tasks[origin[t]].orch = tasks[t].orch
<1>1. \A t \in TaskIds : Chained(t)
  BY DEF RetryChain
<1>2. \A t \in TaskIds : origin[t] \in TaskIds
  BY <1>1 DEF TaskIds, TypeOK
<1>3. \A t \in TaskIds : Chained(t)'
  BY <1>1, <1>2, RowsKept
<1>4. CASE TaskIds' = TaskIds
  BY <1>3, <1>4 DEF RetryChain
<1>5. ASSUME NEW row \in Row, row.retry = 0, Insert(row, Len(tasks) + 1)
      PROVE  RetryChain'
  <2> PICK n \in Nat : n = Len(tasks) + 1
    BY DEF TypeOK
  <2>1. n > 0
    BY DEF TypeOK
  <2>2. /\ TaskIds' = TaskIds \cup {n}
        /\ tasks'[n] = row /\ origin'[n] = n
    BY <1>5, <2>1, InsertType
  <2>3. row.orch \in Orchs /\ MaxRetries[row.orch] \in Nat
    BY EngineAssumption DEF Row
  <2>4. Chained(n)'
    BY <1>5, <2>1, <2>2, <2>3
  <2>5. QED
    BY <1>3, <2>2, <2>4 DEF RetryChain
<1>6. ASSUME NEW c \in Calls, Retry(c)
      PROVE  RetryChain'
  <2> PICK n \in Nat : n = Len(tasks) + 1
    BY DEF TypeOK
  <2> PICK t \in TaskIds : t = call[c].task
    BY <1>6, CallRow DEF Retry
  <2> DEFINE row == RetryRow(tasks[t])
  <2>1. /\ t \in TaskIds /\ tasks[t] \in Row /\ origin[t] \in Nat
        /\ n \in Nat /\ t < n
    BY <1>6, CallRow DEF TypeOK, TaskIds, Retry
  <2>2. /\ row \in Row
        /\ row.orch = tasks[t].orch
        /\ row.retry = tasks[t].retry + 1
    BY <2>1 DEF RetryRow, Row, Statuses
  <2>3. /\ tasks[t].retry \in Nat /\ tasks[t].orch \in Orchs
        /\ MaxRetries[tasks[t].orch] \in Nat
    BY <2>1, EngineAssumption DEF Row
  <2>4. tasks[t].retry < MaxRetries[tasks[t].orch]
    BY <1>6 DEF Retry, BackoffMayRetry, MayRetry
  <2>5. /\ TaskIds' = TaskIds \cup {n}
        /\ tasks'[n] = row /\ origin'[n] = origin[t]
    BY <1>6, <2>1, <2>2, InsertType DEF Retry
  <2>6. /\ origin[t] \in TaskIds /\ origin[t] \in 1 .. t
        /\ tasks'[origin[t]].orch = tasks[t].orch
    BY <1>1, <1>2, <2>1, RowsKept
  <2>7. t \in Nat
    BY <2>1 DEF TaskIds
  <2>8. Chained(n)'
    <3> HIDE DEF row
    <3> QED BY <2>1, <2>2, <2>3, <2>4, <2>5, <2>6, <2>7
  <2>9. QED
    BY <1>3, <2>5, <2>8 DEF RetryChain
<1>7. QED
  <2>1. CASE UNCHANGED <<tasks, origin>> \/ Boot
    BY <2>1, <1>4 DEF TaskIds, Boot, TypeOK
  <2>2. CASE \E t \in TaskIds, s \in Statuses : SetStatus(t, s)
    BY <2>2, <1>4, SetStatusType
  <2>3. QED
    BY <2>1, <2>2, <1>5, <1>6, TableStep

(* Retries keep their lineage, their orchestrator and its maxRetries, over   *)
(* double executions, restarts and lost timers alike (executor.ts, the retry *)
(* branch of the catch block).                                               *)
THEOREM RetryChains == Spec => []RetryChain
<1>1. Init => BackoffMayRetry /\ RetryChain
  BY ReturnedType DEF Init, BackoffMayRetry, RetryChain, TaskIds
<1>2. QED
  BY <1>1, TypeCorrect, BackoffInvariant, RetryChainStep, PTL DEF Spec

-----------------------------------------------------------------------------
(* The worker's map *)

(* The live calls that the worker launched. *)
Queued == {c \in Calls : Live(c) /\ call[c].via = "queue"}

SameQueued ==
  /\ running' = running
  /\ Queued' = Queued
  /\ \A c \in Queued : call'[c].task = call[c].task

(* A step leaves the worker's calls and its map alone, settles one call,     *)
(* launches one, or kills them all.                                          *)
LEMMA TrackedStep ==
  ASSUME TypeOK, [Next]_vars
  PROVE  \/ SameQueued
         \/ \E c \in Calls, r \in CallRecord :
              Live(c) /\ r.pc \in {"idle", "backoff"} /\ Settle(c, r)
         \/ \E c \in Calls : Launch(c)
         \/ Crash
<1> DEFINE Goal == \/ SameQueued
                   \/ \E c \in Calls, r \in CallRecord :
                        Live(c) /\ r.pc \in {"idle", "backoff"} /\ Settle(c, r)
                   \/ \E c \in Calls : Launch(c)
                   \/ Crash
<1>1. CASE call' = call /\ running' = running
  BY <1>1 DEF SameQueued, Queued, Live
<1>2. ASSUME NEW d \in Calls, NEW r \in CallRecord, ~Live(d),
             r.pc \in {"idle", "backoff"} \/ r.via # "queue",
             call' = [call EXCEPT ![d] = r], running' = running
      PROVE  Goal
  BY <1>2 DEF SameQueued, Queued, Live, TypeOK
<1>3. ASSUME NEW d \in Calls, NEW pc \in CallPcs, pc \notin {"idle", "backoff"},
             Live(d), Goto(d, pc), running' = running
      PROVE  Goal
  BY <1>3, GotoEffect DEF SameQueued, Queued, Live
<1>4. ASSUME NEW d \in Calls, Live(d), Settle(d, Returned)
      PROVE  Goal
  BY <1>4, ReturnedType
<1>5. ASSUME NEW t \in Nat, NEW via \in {"direct", "spawn"},
             NEW parent \in Calls \cup {NoCall}
      PROVE  Called(t, via, parent) \in CallRecord
             /\ Called(t, via, parent).via # "queue"
  BY DEF Called, CallRecord, CallPcs
<1>6. ASSUME NEW o \in Orchs, NEW p \in Priorities, NEW b \in Backends,
             SubmitQueued(o, p, b) \/ \E d \in Calls : SubmitDirect(o, p, b, d)
      PROVE  Goal
  BY <1>6, <1>1, <1>2, <1>5 DEF SubmitQueued, SubmitDirect, Live, TypeOK
<1>7. CASE WorkerStep \/ PassFails
  BY <1>7, <1>1 DEF WorkerStep, PassFails, Poll, SkipTracked,
     ReadOrchestrator, SkipFull, EndPass
<1>8. ASSUME NEW d \in Calls, CallStep(d)
      PROVE  Goal
  <2>1. CASE Begin(d) \/ Join(d) \/ Fail(d)
    BY <2>1, <1>3 DEF Begin, Join, Fail, Live, CallPcs
  <2>2. CASE Complete(d) \/ Posted(d)
    BY <2>2, <1>3, <1>4 DEF Complete, Posted, Live, CallPcs
  <2>3. CASE MarkFailed(d)
    <3>1. Live(d) /\ call[d].task \in Nat
      BY <2>3, CallRow DEF MarkFailed, Live
    <3>2. BackedOff(call[d].task) \in CallRecord
          /\ BackedOff(call[d].task).pc = "backoff"
      BY <3>1 DEF BackedOff, CallRecord, CallPcs
    <3>3. \E r \in {Returned, BackedOff(call[d].task)} : Settle(d, r)
      BY <2>3 DEF MarkFailed
    <3>4. QED
      BY <3>1, <3>2, <3>3, ReturnedType
  <2>4. CASE Retry(d)
    <3>1. /\ ~Live(d) /\ running' = running
          /\ call' = [call EXCEPT ![d] = Called(Len(tasks) + 1, "direct", NoCall)]
      BY <2>4 DEF Retry, Live
    <3>2. Len(tasks) + 1 \in Nat
      BY DEF TypeOK
    <3>3. /\ Called(Len(tasks) + 1, "direct", NoCall) \in CallRecord
          /\ Called(Len(tasks) + 1, "direct", NoCall).via # "queue"
      BY <3>2, <1>5
    <3>4. QED
      BY <3>1, <3>3, <1>2
  <2>5. QED
    BY <1>8, <2>1, <2>2, <2>3, <2>4 DEF CallStep
<1>9. ASSUME NEW d \in Calls,
             CallRejects(d) \/ PostFails(d) \/ CatchRejects(d) \/ RetryLost(d)
      PROVE  Goal
  <2>1. CASE CallRejects(d) \/ CatchRejects(d)
    BY <2>1, <1>4 DEF CallRejects, CatchRejects, Live
  <2>2. CASE PostFails(d)
    BY <2>2, <1>3 DEF PostFails, Live, CallPcs
  <2>3. CASE RetryLost(d)
    BY <2>3, <1>2, ReturnedType DEF RetryLost, Live
  <2>4. QED
    BY <1>9, <2>1, <2>2, <2>3
<1>10. ASSUME NEW d \in Calls, NEW e \in Calls, Spawn(d, e)
       PROVE  Goal
  <2>1. call' = [[call EXCEPT ![d] = [call[d] EXCEPT !.pc = "delegating"]]
                    EXCEPT ![e] = Called(Len(tasks) + 1, "spawn", d)]
        /\ running' = running
        /\ Live(d) /\ ~Live(e)
    BY <1>10 DEF Spawn, Live
  <2>2. /\ [call[d] EXCEPT !.pc = "delegating"].pc = "delegating"
        /\ [call[d] EXCEPT !.pc = "delegating"].via = call[d].via
        /\ [call[d] EXCEPT !.pc = "delegating"].task = call[d].task
    BY DEF TypeOK, CallRecord
  <2>3. Called(Len(tasks) + 1, "spawn", d).via = "spawn"
    BY DEF Called
  <2>4. /\ call'[d].pc = "delegating" /\ call'[d].via = call[d].via
        /\ call'[d].task = call[d].task
        /\ call'[e].via = "spawn"
        /\ \A c \in Calls : c \notin {d, e} => call'[c] = call[c]
    BY <2>1, <2>2, <2>3 DEF TypeOK, Live
  <2>5. QED
    BY <2>1, <2>4 DEF SameQueued, Queued, Live
<1>11. CASE (\E o \in Orchs : Pause(o) \/ Unpause(o)) \/ Boot
  BY <1>11, <1>1 DEF Pause, Unpause, Boot
<1>12. CASE UNCHANGED vars
  BY <1>12, <1>1 DEF vars
<1>13. QED
  BY <1>6, <1>7, <1>8, <1>9, <1>10, <1>11, <1>12 DEF Next

(* The row that the worker is about to launch is not in the map: only the    *)
(* worker adds to it, and it looked before it read the orchestrator.         *)
CandidateFree == worker = "decide" => candidate \notin running

LEMMA CandidateStep ==
  TypeOK /\ CandidateFree /\ [Next]_vars => CandidateFree'
<1> SUFFICES ASSUME TypeOK, CandidateFree, [Next]_vars, worker' = "decide"
             PROVE  candidate' \notin running'
  BY DEF CandidateFree
<1>1. ~Crash /\ ~(\E c \in Calls : Launch(c))
  BY DEF Crash, Launch
<1>2. running' \subseteq running
  BY <1>1, TrackedStep, SettleEffect DEF SameQueued
<1>3. \/ worker = "decide" /\ candidate' = candidate
      \/ candidate' \notin running
  BY DEF Next, WorkerStep, CallStep, vars, SubmitQueued, SubmitDirect, Poll,
     SkipTracked, ReadOrchestrator, SkipFull, Launch, EndPass, PassFails, Begin,
     Join, Complete, Posted, Fail, MarkFailed, Retry, CallRejects, PostFails,
     CatchRejects, RetryLost, Spawn, Pause, Unpause, Crash, Boot
<1>4. QED
  BY <1>2, <1>3 DEF CandidateFree

LEMMA MapExactStep ==
  TypeOK /\ CandidateFree /\ MapExact /\ [Next]_vars => MapExact'
<1> SUFFICES ASSUME TypeOK, CandidateFree, MapExact, [Next]_vars
             PROVE  MapExact'
  OBVIOUS
<1>1. /\ running = {call[c].task : c \in Queued}
      /\ \A c, d \in Queued : call[c].task = call[d].task => c = d
  BY DEF MapExact, Queued
<1>2. SUFFICES /\ running' = {call'[c].task : c \in Queued'}
               /\ \A c, d \in Queued' : call'[c].task = call'[d].task => c = d
  BY DEF MapExact, Queued, Live
<1>3. CASE SameQueued
  BY <1>1, <1>3 DEF SameQueued
<1>4. ASSUME NEW c \in Calls, NEW r \in CallRecord, Live(c),
             r.pc \in {"idle", "backoff"}, Settle(c, r)
      PROVE  /\ running' = {call'[d].task : d \in Queued'}
             /\ \A d, e \in Queued' : call'[d].task = call'[e].task => d = e
  <2>1. /\ Queued' = Queued \ {c}
        /\ \A d \in Queued' : call'[d] = call[d]
    BY <1>4, SettleEffect DEF Queued, Live
  <2>2. CASE call[c].via = "queue"
    <3>1. c \in Queued /\ running' = running \ {call[c].task}
      BY <1>4, <2>2, SettleEffect DEF Queued
    <3>2. QED
      BY <1>1, <2>1, <3>1
  <2>3. CASE call[c].via # "queue"
    <3>1. c \notin Queued /\ running' = running
      BY <1>4, <2>3, SettleEffect DEF Queued
    <3>2. QED
      BY <1>1, <2>1, <3>1
  <2>4. QED
    BY <2>2, <2>3
<1>5. ASSUME NEW c \in Calls, Launch(c)
      PROVE  /\ running' = {call'[d].task : d \in Queued'}
             /\ \A d, e \in Queued' : call'[d].task = call'[e].task => d = e
  <2>1. /\ candidate \notin running
        /\ running' = running \cup {candidate}
        /\ call' = [call EXCEPT ![c] = Called(candidate, "queue", NoCall)]
        /\ c \notin Queued
    BY <1>5 DEF Launch, CandidateFree, Queued, Live
  <2>2. /\ Called(candidate, "queue", NoCall).pc = "called"
        /\ Called(candidate, "queue", NoCall).via = "queue"
        /\ Called(candidate, "queue", NoCall).task = candidate
    BY DEF Called
  <2>3. /\ Queued' = Queued \cup {c}
        /\ call'[c].task = candidate
        /\ \A d \in Queued : call'[d] = call[d]
    BY <2>1, <2>2 DEF Queued, Live, TypeOK
  <2>4. QED
    BY <1>1, <2>1, <2>3
<1>6. CASE Crash
  <2>1. running' = {} /\ Queued' = {}
    BY <1>6, ReturnedType DEF Crash, Queued, Live
  <2>2. QED
    BY <2>1
<1>7. QED
  BY <1>3, <1>4, <1>5, <1>6, TrackedStep

(* The map is exact: one entry for each live call of the worker, gone in the *)
(* turn in which the call settles (queue.ts, .finally).                      *)
THEOREM MapExactness == Spec => []MapExact
<1>1. Init => CandidateFree /\ MapExact
  BY ReturnedType DEF Init, CandidateFree, MapExact, Live
<1>2. QED
  BY <1>1, TypeCorrect, CandidateStep, MapExactStep, PTL DEF Spec

-----------------------------------------------------------------------------
(* The limit of the worker *)

LEMMA RunningForFinite ==
  ASSUME TypeOK, NEW o \in Orchs
  PROVE  IsFiniteSet(RunningFor(o)) /\ Cardinality(RunningFor(o)) \in Nat
<1>1. IsFiniteSet(1 .. Len(tasks))
  BY FS_Interval DEF TypeOK
<1>2. RunningFor(o) \subseteq 1 .. Len(tasks)
  BY DEF RunningFor, TypeOK, TaskIds
<1>3. QED
  BY <1>1, <1>2, FS_Subset, FS_CardinalityType

(* What a step does to the rows in flight for one orchestrator: it takes     *)
(* some away, or it launches one below the limit.                            *)
LEMMA RunningForStep ==
  ASSUME TypeOK, [Next]_vars, NEW o \in Orchs
  PROVE  \/ RunningFor(o)' \subseteq RunningFor(o)
         \/ /\ \E c \in Calls : Launch(c)
            /\ o = tasks[candidate].orch
            /\ RunningFor(o)' = RunningFor(o) \cup {candidate}
            /\ Cardinality(RunningFor(o)) < MaxConcurrency[o]
<1>1. \A t \in running : tasks'[t].orch = tasks[t].orch
  BY RowsKept DEF TypeOK
<1>2. CASE \E c \in Calls : Launch(c)
  <2>1. /\ running' = running \cup {candidate}
        /\ tasks' = tasks /\ candidate \in TaskIds
        /\ ~(Cardinality(RunningFor(tasks[candidate].orch))
               >= MaxConcurrency[tasks[candidate].orch])
    BY <1>2 DEF Launch, AtCapacity, TypeOK
  <2>2. CASE o = tasks[candidate].orch
    <3>1. RunningFor(o)' = RunningFor(o) \cup {candidate}
      BY <2>1, <2>2 DEF RunningFor
    <3>2. Cardinality(RunningFor(o)) < MaxConcurrency[o]
      BY <2>1, <2>2, RunningForFinite, EngineAssumption
    <3>3. QED
      BY <1>2, <2>2, <3>1, <3>2
  <2>3. CASE o # tasks[candidate].orch
    BY <2>1, <2>3 DEF RunningFor
  <2>4. QED
    BY <2>2, <2>3
<1>3. CASE running' \subseteq running
  BY <1>1, <1>3 DEF RunningFor
<1>4. QED
  BY <1>2, <1>3, TrackedStep, SettleEffect DEF SameQueued, Crash

LEMMA QueueBoundStep ==
  TypeOK /\ QueueBound /\ [Next]_vars => QueueBound'
<1> SUFFICES ASSUME TypeOK, QueueBound, [Next]_vars, NEW o \in Orchs
             PROVE  Cardinality(RunningFor(o)') <= MaxConcurrency[o]
  BY DEF QueueBound
<1>1. /\ Cardinality(RunningFor(o)) <= MaxConcurrency[o]
      /\ IsFiniteSet(RunningFor(o)) /\ Cardinality(RunningFor(o)) \in Nat
      /\ MaxConcurrency[o] \in Nat
  BY RunningForFinite, EngineAssumption DEF QueueBound
<1>2. CASE RunningFor(o)' \subseteq RunningFor(o)
  <2>1. Cardinality(RunningFor(o)') <= Cardinality(RunningFor(o))
        /\ Cardinality(RunningFor(o)') \in Nat
    BY <1>1, <1>2, FS_Subset, FS_CardinalityType
  <2>2. QED
    BY <1>1, <2>1
<1>3. CASE /\ RunningFor(o)' = RunningFor(o) \cup {candidate}
           /\ Cardinality(RunningFor(o)) < MaxConcurrency[o]
  <2>1. \/ Cardinality(RunningFor(o)') = Cardinality(RunningFor(o))
        \/ Cardinality(RunningFor(o)') = Cardinality(RunningFor(o)) + 1
    BY <1>1, <1>3, FS_AddElement
  <2>2. QED
    BY <1>1, <1>3, <2>1
<1>4. QED
  BY <1>2, <1>3, RunningForStep

(* The worker never has more of an orchestrator's rows in flight than the    *)
(* orchestrator's maxConcurrency (queue.ts, the count and the set in one     *)
(* turn of the event loop).                                                  *)
THEOREM QueueBounded == Spec => []QueueBound
<1>1. Init => QueueBound
  <2> SUFFICES ASSUME Init, NEW o \in Orchs
               PROVE  Cardinality(RunningFor(o)) <= MaxConcurrency[o]
    BY DEF QueueBound
  <2>1. RunningFor(o) = {}
    BY DEF Init, RunningFor
  <2>2. QED
    BY <2>1, FS_EmptySet, EngineAssumption
<1>2. QED
  BY <1>1, TypeCorrect, QueueBoundStep, PTL DEF Spec

(* The worker implements a pool of slots (SlotPool): whatever happens to the *)
(* rows and to the other calls, each step takes one free slot, gives one     *)
(* back, gives all back, or changes nothing.                                 *)
THEOREM PoolImplemented == Spec => SlotPoolImplemented
<1> DEFINE held == [o \in Orchs |-> RunningFor(o)]
<1>1. Init => Pool!Init
  BY DEF Init, Pool!Init, RunningFor
<1>2. TypeOK /\ CandidateFree /\ [Next]_vars => [Pool!Next]_held
  <2> SUFFICES ASSUME TypeOK, CandidateFree, [Next]_vars
               PROVE  Pool!Next \/ held' = held
    OBVIOUS
  <2>1. \A t \in TaskIds : tasks'[t].orch = tasks[t].orch /\ tasks[t].orch \in Orchs
    <3>1. \A t \in TaskIds : tasks[t] \in Row
      BY DEF TypeOK, TaskIds
    <3>2. QED
      BY <3>1, RowsKept DEF Row
  <2> running \subseteq TaskIds
    BY DEF TypeOK
  <2>2. CASE running' = running
    <3>1. \A o \in Orchs : RunningFor(o)' = RunningFor(o)
      BY <2>1, <2>2 DEF RunningFor
    <3>2. QED
      BY <3>1
  <2>3. ASSUME NEW t \in running, running' = running \ {t}
        PROVE  Pool!Next
    <3> DEFINE p == tasks[t].orch
    <3>1. p \in Orchs /\ t \in held[p]
      BY <2>1 DEF RunningFor
    <3>2. \A o \in Orchs : RunningFor(o)' = IF o = p THEN RunningFor(o) \ {t}
                                                     ELSE RunningFor(o)
      BY <2>1, <2>3 DEF RunningFor
    <3>3. held' = [held EXCEPT ![p] = @ \ {t}]
      BY <3>1, <3>2
    <3>4. QED
      BY <3>1, <3>3 DEF Pool!Next, Pool!Release
  <2>4. ASSUME NEW c \in Calls, Launch(c)
        PROVE  Pool!Next
    <3> DEFINE p == tasks[candidate].orch
    <3>1. /\ candidate \in TaskIds /\ candidate \notin running
          /\ running' = running \cup {candidate} /\ tasks' = tasks
      BY <2>4 DEF Launch, CandidateFree, TypeOK
    <3>2. p \in Orchs
      BY <3>1, <2>1
    <3>3. \A o \in Orchs : RunningFor(o)' =
                           IF o = p THEN RunningFor(o) \cup {candidate}
                                    ELSE RunningFor(o)
      BY <3>1 DEF RunningFor
    <3>4. held' = [held EXCEPT ![p] = @ \cup {candidate}]
      BY <3>2, <3>3
    <3>5. candidate \notin UNION {held[o] : o \in Orchs}
      BY <3>1 DEF RunningFor
    <3>6. Pool!Cardinality(held[p]) < MaxConcurrency[p]
      <4>1. Cardinality(RunningFor(p)) < MaxConcurrency[p]
        BY <2>4, <3>2, RunningForFinite, EngineAssumption
           DEF Launch, AtCapacity
      <4>2. Pool!Cardinality(RunningFor(p)) = Cardinality(RunningFor(p))
        BY DEF Cardinality, Pool!Cardinality
      <4>3. QED
        BY <3>2, <4>1, <4>2
    <3>7. candidate \in held'[p]
      BY <3>2, <3>3
    <3>8. QED
      BY <3>2, <3>4, <3>5, <3>6, <3>7 DEF Pool!Next, Pool!Acquire
  <2>5. CASE Crash
    <3>1. \A o \in Orchs : RunningFor(o)' = {}
      BY <2>5 DEF Crash, RunningFor
    <3>2. QED
      BY <3>1 DEF Pool!Next, Pool!Reset
  <2>6. ASSUME NEW c \in Calls, NEW r \in CallRecord, Settle(c, r)
        PROVE  Pool!Next \/ held' = held
    <3>1. running' = running \/ running' = running \ {call[c].task}
      BY <2>6, SettleEffect
    <3>2. QED
      BY <3>1, <2>2, <2>3
  <2>7. QED
    BY <2>2, <2>4, <2>5, <2>6, TrackedStep DEF SameQueued
<1>3. Init => CandidateFree
  BY DEF Init, CandidateFree
<1>4. QED
  BY <1>1, <1>2, <1>3, TypeCorrect, CandidateStep, PTL
     DEF Spec, SlotPoolImplemented, Pool!Spec

-----------------------------------------------------------------------------
(* No row is stuck *)

Executes(c, t) ==
  call[c].task = t /\ call[c].pc \in {"working", "delegating", "failing"}

(* A call that executes a row still does after the step, or the step wrote   *)
(* an outcome, killed the process, or is a rejection in the catch block.     *)
LEMMA ExecutesStep ==
  ASSUME TypeOK, [Next]_vars, NEW c \in Calls, NEW t \in TaskIds,
         Executes(c, t)
  PROVE  \/ Executes(c, t)'
         \/ tasks'[t].status # "running"
         \/ Crash
         \/ \E d \in Calls : CatchRejects(d)
<1> DEFINE Goal == \/ Executes(c, t)'
                   \/ tasks'[t].status # "running"
                   \/ Crash
                   \/ \E d \in Calls : CatchRejects(d)
<1>1. CASE call' = call
  BY <1>1 DEF Executes
<1>2. ASSUME NEW d \in Calls, NEW r, d # c, call' = [call EXCEPT ![d] = r]
      PROVE  Goal
  BY <1>2 DEF Executes, TypeOK
<1>3. ASSUME NEW d \in Calls,
             NEW pc \in {"working", "delegating", "failing", "posting"},
             Goto(d, pc), d # c \/ pc # "posting"
      PROVE  Goal
  BY <1>3, GotoEffect DEF Executes, CallPcs
<1>4. ASSUME NEW s \in Statuses, s # "running", SetStatus(t, s)
      PROVE  Goal
  BY <1>4, SetStatusType, WithStatusType DEF TypeOK, TaskIds
<1>5. ASSUME NEW o \in Orchs, NEW p \in Priorities, NEW b \in Backends,
             SubmitQueued(o, p, b) \/ \E d \in Calls : SubmitDirect(o, p, b, d)
      PROVE  Goal
  BY <1>5, <1>1, <1>2 DEF SubmitQueued, SubmitDirect, Executes
<1>6. CASE WorkerStep \/ PassFails
  BY <1>6, <1>1, <1>2 DEF WorkerStep, PassFails, Poll, SkipTracked,
     ReadOrchestrator, SkipFull, EndPass, Launch, Executes
<1>7. ASSUME NEW d \in Calls, CallStep(d)
      PROVE  Goal
  <2>1. CASE Begin(d) \/ Join(d) \/ Fail(d)
    BY <2>1, <1>3 DEF Begin, Join, Fail
  <2>2. CASE Complete(d)
    <3>1. CASE d = c
      BY <2>2, <3>1, <1>4 DEF Complete, Executes, Statuses
    <3>2. CASE d # c
      BY <2>2, <3>2, <1>2, <1>3 DEF Complete, Settle
    <3>3. QED
      BY <3>1, <3>2
  <2>3. CASE Posted(d) \/ Retry(d)
    BY <2>3, <1>2 DEF Posted, Settle, Retry, Executes
  <2>4. CASE MarkFailed(d)
    <3>1. CASE d = c
      BY <2>4, <3>1, <1>4 DEF MarkFailed, Executes, Statuses
    <3>2. CASE d # c
      BY <2>4, <3>2, <1>2 DEF MarkFailed, Settle
    <3>3. QED
      BY <3>1, <3>2
  <2>5. QED
    BY <1>7, <2>1, <2>2, <2>3, <2>4 DEF CallStep
<1>8. ASSUME NEW d \in Calls, CallRejects(d) \/ PostFails(d) \/ RetryLost(d)
      PROVE  Goal
  BY <1>8, <1>2, <1>3
     DEF CallRejects, PostFails, RetryLost, Settle, Executes
<1>9. ASSUME NEW d \in Calls, NEW e \in Calls, Spawn(d, e)
      PROVE  Goal
  <2>1. call' = [[call EXCEPT ![d] = [call[d] EXCEPT !.pc = "delegating"]]
                    EXCEPT ![e] = Called(Len(tasks) + 1, "spawn", d)]
        /\ call[e].pc = "idle"
    BY <1>9 DEF Spawn
  <2>2. /\ [call[d] EXCEPT !.pc = "delegating"].pc = "delegating"
        /\ [call[d] EXCEPT !.pc = "delegating"].task = call[d].task
    BY DEF TypeOK, CallRecord
  <2>3. e # c
    BY <2>1 DEF Executes
  <2>4. call'[c] = call[c] \/ (/\ c = d /\ call'[c].pc = "delegating"
                               /\ call'[c].task = call[c].task)
    BY <2>1, <2>2, <2>3 DEF TypeOK
  <2>5. QED
    BY <2>4 DEF Executes
<1>10. CASE (\E o \in Orchs : Pause(o) \/ Unpause(o)) \/ Boot
  BY <1>10, <1>1 DEF Pause, Unpause, Boot
<1>11. CASE UNCHANGED vars
  BY <1>11, <1>1 DEF vars
<1>12. QED
  BY <1>5, <1>6, <1>7, <1>8, <1>9, <1>10, <1>11 DEF Next

(* A row turns "running" only in the step in which its call starts working,  *)
(* unless an await ahead of the try block rejects.                           *)
LEMMA TurnsRunning ==
  ASSUME TypeOK, [Next]_vars, NEW t \in TaskIds',
         tasks'[t].status = "running",
         t \in TaskIds => tasks[t].status # "running"
  PROVE  \E c \in Calls : Executes(c, t)' \/ CallRejects(c)
<1>1. ASSUME NEW row \in Row, NEW from \in Nat, row.status = "pending",
             Insert(row, from)
      PROVE  FALSE
  BY <1>1, InsertType
<1>2. ASSUME NEW c \in Calls, Retry(c)
      PROVE  FALSE
  <2>1. /\ call[c].task \in TaskIds
        /\ tasks[call[c].task] \in Row /\ origin[call[c].task] \in Nat
    BY <1>2, RetriedRow
  <2>2. RetryRow(tasks[call[c].task]) \in Row
        /\ RetryRow(tasks[call[c].task]).status = "pending"
    BY <2>1 DEF RetryRow, Row, Statuses
  <2>3. QED
    BY <1>2, <2>1, <2>2, <1>1 DEF Retry
<1>3. ~Boot
  <2> SUFFICES ASSUME Boot PROVE FALSE
    OBVIOUS
  <2>1. TaskIds' = TaskIds /\ t \in TaskIds /\ tasks[t] \in Row
    BY DEF Boot, TaskIds, TypeOK
  <2>2. tasks'[t] = tasks[t] \/ tasks'[t] = WithStatus(tasks[t], "failed")
    BY <2>1 DEF Boot
  <2>3. QED
    BY <2>1, <2>2, WithStatusType DEF Statuses
<1>4. tasks' # tasks
  BY DEF TaskIds
<1>5. PICK u \in TaskIds, s \in Statuses : SetStatus(u, s)
  <2>1. Len(tasks) + 1 \in Nat
    BY DEF TypeOK
  <2>2. QED
    BY <2>1, <1>1, <1>2, <1>3, <1>4, TableStep
<1>6. /\ t = u /\ tasks'[t] = WithStatus(tasks[t], s)
      /\ TaskIds' = TaskIds /\ Len(tasks') = Len(tasks)
  BY <1>5, SetStatusType
<1>7. ASSUME NEW c \in Calls, NEW v \in Statuses, v # "running",
             SetStatus(call[c].task, v), call[c].task \in TaskIds
      PROVE  FALSE
  <2>1. PICK w \in TaskIds : w = call[c].task
    BY <1>7
  <2>2. SetStatus(w, v) /\ tasks[w] \in Row /\ tasks[t] \in Row
    BY <1>6, <1>7, <2>1 DEF TypeOK, TaskIds
  <2>3. /\ tasks'[w] = WithStatus(tasks[w], v)
        /\ \A x \in TaskIds : x # w => tasks'[x] = tasks[x]
    BY <2>2, SetStatusType
  <2>4. tasks'[w].status = v
    BY <2>2, <2>3, WithStatusType
  <2>5. w = t
    BY <1>6, <2>3
  <2>6. QED BY <1>7, <2>4, <2>5
<1>8. ASSUME NEW c \in Calls, Begin(c)
      PROVE  Executes(c, t)'
  <2>1. call[c].task \in TaskIds /\ SetStatus(call[c].task, "running")
    BY <1>8, CallRow DEF Begin
  <2>2. call[c].task = t
    BY <2>1, <1>6, SetStatusType DEF Statuses
  <2>3. QED
    BY <1>8, <2>2, GotoEffect DEF Begin, Executes, CallPcs
<1>9. ASSUME NEW c \in Calls, Complete(c) \/ MarkFailed(c)
      PROVE  FALSE
  BY <1>9, <1>7, CallRow DEF Complete, MarkFailed, Statuses
<1>10. ASSUME NEW o \in Orchs, NEW p \in Priorities, NEW b \in Backends,
              SubmitQueued(o, p, b) \/ \E d \in Calls : SubmitDirect(o, p, b, d)
       PROVE  FALSE
  BY <1>10, <1>6, InsertType DEF SubmitQueued, SubmitDirect, Insert, TypeOK
<1>11. ASSUME NEW c \in Calls, NEW d \in Calls, Spawn(c, d)
       PROVE  FALSE
  BY <1>11, <1>6 DEF Spawn, Insert, TypeOK
<1>12. QED
  BY <1>2, <1>3, <1>4, <1>8, <1>9, <1>10, <1>11
     DEF Next, vars, WorkerStep, Poll, SkipTracked, ReadOrchestrator, SkipFull,
         Launch, EndPass, PassFails, CallStep, Join, Posted, Fail, PostFails,
         CatchRejects, RetryLost, Pause, Unpause, Crash

LEMMA RunningHasCallStep ==
  TypeOK /\ RunningHasCall /\ [Next]_vars => RunningHasCall'
<1> SUFFICES ASSUME TypeOK, RunningHasCall, [Next]_vars, worker' # "off",
                    FaultPoints \cap {"call", "catch"} = {},
                    NEW t \in TaskIds', tasks'[t].status = "running"
             PROVE  \E c \in Calls : Executes(c, t)'
  BY DEF RunningHasCall, Up, Executes
<1>1. ~Crash /\ \A c \in Calls : ~CallRejects(c) /\ ~CatchRejects(c)
  BY DEF Crash, CallRejects, CatchRejects, Fault
<1>2. CASE t \in TaskIds => tasks[t].status # "running"
  BY <1>1, <1>2, TurnsRunning
<1>3. CASE t \in TaskIds /\ tasks[t].status = "running"
  <2>1. Up
    <3> SUFFICES ASSUME worker = "off" PROVE FALSE
      BY DEF Up
    <3>1. Boot
      BY DEF Next, vars, SubmitQueued, SubmitDirect, WorkerStep, Poll,
         SkipTracked, ReadOrchestrator, SkipFull, Launch, EndPass, PassFails,
         CallStep, Begin, Join, Complete, Posted, Fail, MarkFailed, Retry,
         CallRejects, PostFails, CatchRejects, RetryLost, Spawn, Pause,
         Unpause, Crash, Up
    <3>2. tasks[t] \in Row /\ tasks'[t] = WithStatus(tasks[t], "failed")
      BY <3>1, <1>3 DEF Boot, TypeOK, TaskIds
    <3>3. QED
      BY <3>2, WithStatusType DEF Statuses
  <2>2. PICK c \in Calls : Executes(c, t)
    BY <1>3, <2>1 DEF RunningHasCall, Executes
  <2>3. QED
    BY <1>1, <1>3, <2>2, ExecutesStep
<1>4. QED
  BY <1>2, <1>3

(* While the server is up, every row that says "running" has a call that     *)
(* will still write its outcome, provided the awaits that no handler guards  *)
(* do not reject (executor.ts, ahead of the try block and inside the catch). *)
THEOREM RunningRowsHaveCalls == Spec => []RunningHasCall
<1>1. Init => RunningHasCall
  BY DEF Init, RunningHasCall, TaskIds
<1>2. QED
  BY <1>1, TypeCorrect, RunningHasCallStep, PTL DEF Spec
=============================================================================
