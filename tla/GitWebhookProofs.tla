-------------------------- MODULE GitWebhookProofs --------------------------
(***************************************************************************)
(* Proofs about GitWebhook, for any events, agents and bounds: what the    *)
(* deduplication promises, that clones exist while they are mounted and    *)
(* are removed or accounted for, that a run is completed after its         *)
(* execution, and that every handling leaves one run for each agent.       *)
(***************************************************************************)
EXTENDS GitWebhook, FiniteSetTheorems, SequenceTheorems, TLAPS

AtTask == {"linking", "executing", "closing"}
AtRun == AtTask \cup {"ordering", "failing"}
AfterClone == AtRun \cup {"looping", "cleaning"}

(* What is accepted and may still be repeated is remembered.                *)
Remembered(h) ==
  /\ h.time <= clock /\ h.epoch <= restarts
  /\ h.pc # "dropped" /\ h.epoch = restarts /\ clock - h.time <= Window
       => [key |-> Key(h.event), time |-> h.time] \in recent

(* A handling's directory is made before the clone and is there until it is *)
(* removed, or was left; no error leaves the loop before there is one, and  *)
(* an ended handling had none.                                              *)
BeforeClone == {"dropped", "listing", "cloning", "fetching"}

Cloned(d, h) ==
  /\ h.pc \in BeforeClone => ~h.cloned /\ ~h.failed
  /\ h.pc = "ended" => ~h.failed
  /\ h.pc \in {"listing", "cloning"} => d \notin disk
  /\ h.pc = "fetching" \/ (h.cloned /\ h.pc \in AfterClone) => d \in disk
  /\ d \in disk => h.left \/ h.pc = "fetching" \/ (h.cloned /\ h.pc \in AfterClone)

(* The rows that a handling is at are its own.                              *)
Owns(d, h) ==
  /\ h.pc \in AtTask => h.task \in TaskIds /\ tasks[h.task].handling = d
  /\ h.pc \in AtRun => h.run \in RunIds /\ runs[h.run].handling = d
  /\ h.pc \in AtRun => h.at \in DOMAIN Agents /\ runs[h.run].agent = h.at
  /\ h.pc = "linking" => tasks[h.task].direct = "none"
  /\ h.pc \in {"executing", "closing"} => runs[h.run].task = h.task
  /\ h.pc = "closing" => tasks[h.task].direct = "over"

(* An execution that the handling waits for, or a registered clone, belongs *)
(* to the handling that is at it.                                           *)
Waited(t) ==
  LET h == handlings[tasks[t].handling]
  IN  /\ tasks[t].handling \in Deliveries
      /\ tasks[t].direct = "running" => h.pc = "executing" /\ h.task = t
      /\ "direct" \in tasks[t].mounts => tasks[t].direct = "running" /\ h.cloned
      /\ t \in workspaces => h.pc \in {"executing", "closing"} /\ h.task = t /\ h.cloned

Finished(r) ==
  runs[r].status = "completed" =>
    runs[r].task \in TaskIds /\ tasks[runs[r].task].direct = "over"

(* The loop has one run for every active agent it has passed or is at; only *)
(* the one it is at may be open.  An error and a restart end this.          *)
Passed(h) == {a \in ActiveAgents : a < h.at \/ (h.pc \in AtRun /\ a = h.at)}

Looped(d, h) ==
  ~h.failed /\ h.pc \notin {"broken", "stopped"} =>
    /\ \A r \in RunsOf(d) :
         /\ runs[r].agent \in Passed(h)
         /\ \/ runs[r].status \in {"skipped", "failed", "completed"}
            \/ h.pc \in AtRun /\ r = h.run
    /\ \A r, q \in RunsOf(d) : runs[r].agent = runs[q].agent => r = q
    /\ \A a \in Passed(h) : \E r \in RunsOf(d) : runs[r].agent = a
    /\ h.pc \in {"cleaning", "ended"} => h.at > Len(Agents)

Handled(d, h) ==
  h.at > 0 /\ Remembered(h) /\ Cloned(d, h) /\ Owns(d, h) /\ Looped(d, h)

HandlingsInv == \A d \in Deliveries : Handled(d, handlings[d])
TasksInv == \A t \in TaskIds : Waited(t)
RunsInv == \A r \in RunIds : runs[r].handling \in Deliveries /\ Finished(r)

IInv == TypeOK /\ HandlingsInv /\ TasksInv /\ RunsInv /\ WithinWindowOnce

-----------------------------------------------------------------------------
(* How the rows and the handlings change *)

(* What a step never changes of a handling.                                 *)
Same(w, h) ==
  /\ w.event = h.event /\ w.time = h.time /\ w.epoch = h.epoch
  /\ w.pc = "dropped" <=> h.pc = "dropped"

(* A step of handling d touches its own rows, its own clone and its own     *)
(* registration.                                                            *)
RunsStay(d) ==
  /\ runs' \in Seq(Run)
  /\ \A r \in RunIds : /\ r \in RunIds' /\ runs'[r].handling = runs[r].handling
                       /\ runs[r].handling # d => runs'[r] = runs[r]
  /\ \A r \in RunIds' : r \in RunIds \/ runs'[r].handling = d

TasksStay(d) ==
  /\ tasks' \in Seq(Task)
  /\ \A t \in TaskIds : /\ t \in TaskIds' /\ tasks'[t].handling = tasks[t].handling
                        /\ tasks[t].handling # d => tasks'[t] = tasks[t]
                        /\ tasks[t].direct = "over" => tasks'[t].direct = "over"
  /\ \A t \in TaskIds' : t \in TaskIds \/ tasks'[t].handling = d

DiskStays(d) ==
  /\ disk' \subseteq Deliveries /\ workspaces' \subseteq TaskIds'
  /\ \A e \in Deliveries \ {d} : e \in disk' <=> e \in disk
  /\ \A t \in TaskIds : tasks[t].handling # d => (t \in workspaces' <=> t \in workspaces)

LEMMA RunsUnchanged ==
  ASSUME TypeOK, NEW d, runs' = runs
  PROVE  RunsStay(d)
BY DEF RunsStay, TypeOK, RunIds

LEMMA TasksUnchanged ==
  ASSUME TypeOK, NEW d, tasks' = tasks
  PROVE  TasksStay(d)
BY DEF TasksStay, TypeOK, TaskIds

LEMMA RunAppended ==
  ASSUME TypeOK, NEW d, NEW row \in Run, row.handling = d, runs' = Append(runs, row)
  PROVE  /\ RunsStay(d) /\ Len(runs') = Len(runs) + 1 /\ RunIds' = RunIds \cup {Len(runs) + 1}
         /\ Len(runs) + 1 \notin RunIds /\ runs'[Len(runs) + 1] = row
         /\ \A r \in RunIds : runs'[r] = runs[r]
<1>1. runs \in Seq(Run) /\ Len(runs) \in Nat
  BY DEF TypeOK
<1>2. /\ runs' \in Seq(Run) /\ Len(runs') = Len(runs) + 1
      /\ \A r \in RunIds : runs'[r] = runs[r]
      /\ runs'[Len(runs) + 1] = row
  BY <1>1, AppendProperties DEF RunIds
<1>3. RunIds' = RunIds \cup {Len(runs) + 1} /\ Len(runs) + 1 \notin RunIds
  BY <1>1, <1>2 DEF RunIds
<1> QED BY <1>2, <1>3 DEF RunsStay

LEMMA RunSet ==
  ASSUME TypeOK, NEW d, NEW r \in RunIds, NEW row \in Run, runs[r].handling = d,
         row.handling = d, runs' = [runs EXCEPT ![r] = row]
  PROVE  /\ RunsStay(d) /\ RunIds' = RunIds
         /\ \A q \in RunIds : runs'[q] = IF q = r THEN row ELSE runs[q]
<1>1. runs \in Seq(Run) /\ r \in 1 .. Len(runs)
  BY DEF TypeOK, RunIds
<1>2. /\ runs' \in Seq(Run) /\ Len(runs') = Len(runs)
      /\ \A q \in 1 .. Len(runs) : runs'[q] = IF q = r THEN row ELSE runs[q]
  BY <1>1, ExceptSeq
<1> QED BY <1>1, <1>2 DEF RunsStay, RunIds

LEMMA TaskAppended ==
  ASSUME TypeOK, NEW d, NEW row \in Task, row.handling = d, tasks' = Append(tasks, row)
  PROVE  /\ TasksStay(d) /\ TaskIds' = TaskIds \cup {Len(tasks) + 1}
         /\ Len(tasks) + 1 \notin TaskIds /\ tasks'[Len(tasks) + 1] = row
         /\ \A t \in TaskIds : tasks'[t] = tasks[t]
<1>1. tasks \in Seq(Task) /\ Len(tasks) \in Nat
  BY DEF TypeOK
<1>2. /\ tasks' \in Seq(Task) /\ Len(tasks') = Len(tasks) + 1
      /\ \A t \in TaskIds : tasks'[t] = tasks[t]
      /\ tasks'[Len(tasks) + 1] = row
  BY <1>1, AppendProperties DEF TaskIds
<1>3. TaskIds' = TaskIds \cup {Len(tasks) + 1} /\ Len(tasks) + 1 \notin TaskIds
  BY <1>1, <1>2 DEF TaskIds
<1> QED BY <1>2, <1>3 DEF TasksStay

LEMMA TaskSet ==
  ASSUME TypeOK, NEW t \in TaskIds, NEW row \in Task, tasks' = [tasks EXCEPT ![t] = row]
  PROVE  /\ tasks' \in Seq(Task) /\ TaskIds' = TaskIds
         /\ \A u \in TaskIds : tasks'[u] = IF u = t THEN row ELSE tasks[u]
<1>1. tasks \in Seq(Task) /\ t \in 1 .. Len(tasks)
  BY DEF TypeOK, TaskIds
<1>2. /\ tasks' \in Seq(Task) /\ Len(tasks') = Len(tasks)
      /\ \A u \in 1 .. Len(tasks) : tasks'[u] = IF u = t THEN row ELSE tasks[u]
  BY <1>1, ExceptSeq
<1> QED BY <1>1, <1>2 DEF TaskIds

LEMMA HandlingSet ==
  ASSUME TypeOK, NEW d \in Deliveries, NEW w \in Handling,
         handlings' = [handlings EXCEPT ![d] = w]
  PROVE  /\ handlings' \in Seq(Handling) /\ Deliveries' = Deliveries
         /\ \A e \in Deliveries : handlings'[e] = IF e = d THEN w ELSE handlings[e]
<1>1. handlings \in Seq(Handling) /\ d \in 1 .. Len(handlings)
  BY DEF TypeOK, Deliveries
<1>2. /\ handlings' \in Seq(Handling) /\ Len(handlings') = Len(handlings)
      /\ \A e \in 1 .. Len(handlings) : handlings'[e] = IF e = d THEN w ELSE handlings[e]
  BY <1>1, ExceptSeq
<1> QED BY <1>1, <1>2 DEF Deliveries

-----------------------------------------------------------------------------
(* A step of one handling, given what it makes of its own rows *)

LEMMA HandledFrame ==
  ASSUME TypeOK, NEW d, NEW e \in Deliveries \ {d}, NEW h \in Handling, Handled(e, h),
         RunsStay(d), TasksStay(d), DiskStays(d), UNCHANGED <<clock, recent, restarts>>
  PROVE  Handled(e, h)'
<1>1. Remembered(h)' /\ Cloned(e, h)' /\ h.at > 0
  BY DEF Handled, Remembered, Cloned, DiskStays
<1>2. /\ \A r \in RunIds : runs[r].handling = e => r \in RunIds' /\ runs'[r] = runs[r]
      /\ \A t \in TaskIds : tasks[t].handling = e => t \in TaskIds' /\ tasks'[t] = tasks[t]
  BY DEF RunsStay, TasksStay
<1>3. Owns(e, h)'
  BY <1>2 DEF Handled, Owns, AtTask, AtRun
<1>4. RunsOf(e)' = RunsOf(e) /\ \A r \in RunsOf(e) : runs'[r] = runs[r]
  BY DEF RunsStay, RunsOf
<1>5. Looped(e, h)'
  <2>1. Looped(e, h)
    BY DEF Handled
  <2> QED BY <1>4, <2>1 DEF Looped, Passed
<1> QED BY <1>1, <1>3, <1>5 DEF Handled

LEMMA WaitedFrame ==
  ASSUME TypeOK, NEW d, NEW t \in TaskIds, tasks[t].handling # d, Waited(t),
         Deliveries' = Deliveries, \A e \in Deliveries \ {d} : handlings'[e] = handlings[e],
         TasksStay(d), DiskStays(d)
  PROVE  Waited(t)'
BY DEF Waited, TasksStay, DiskStays

LEMMA FinishedFrame ==
  ASSUME TypeOK, NEW d, NEW r \in RunIds, runs[r].handling # d, Finished(r),
         RunsStay(d), TasksStay(d)
  PROVE  Finished(r)'
BY DEF Finished, RunsStay, TasksStay

LEMMA WindowFrame ==
  ASSUME TypeOK, WithinWindowOnce, Deliveries' = Deliveries,
         \A d \in Deliveries : Same(handlings'[d], handlings[d])
  PROVE  WithinWindowOnce'
BY DEF WithinWindowOnce, Same, Key

LEMMA StepIInv ==
  ASSUME IInv, NEW d \in Deliveries, NEW w \in Handling,
         handlings' = [handlings EXCEPT ![d] = w], Same(w, handlings[d]),
         UNCHANGED <<clock, recent, restarts>>,
         RunsStay(d), TasksStay(d), DiskStays(d),
         Handled(d, w)',
         \A t \in TaskIds' : tasks'[t].handling = d => Waited(t)',
         \A r \in RunIds' : runs'[r].handling = d => Finished(r)'
  PROVE  IInv'
<1>1. /\ handlings' \in Seq(Handling) /\ Deliveries' = Deliveries
      /\ \A e \in Deliveries : handlings'[e] = IF e = d THEN w ELSE handlings[e]
  BY HandlingSet DEF IInv
<1>2. TypeOK'
  BY <1>1 DEF IInv, TypeOK, RunsStay, TasksStay, DiskStays
<1>3. HandlingsInv'
  <2>1. ASSUME NEW e \in Deliveries, e # d PROVE Handled(e, handlings[e])'
    <3>1. PICK h \in Handling : h = handlings[e]
      BY ElementOfSeq DEF IInv, TypeOK, Deliveries
    <3>2. Handled(e, h)'
      BY <2>1, <3>1, HandledFrame DEF IInv, HandlingsInv
    <3>3. handlings'[e] = h
      BY <1>1, <2>1, <3>1
    <3> QED BY <3>2, <3>3
  <2>2. Handled(d, handlings[d])'
    BY <1>1
  <2> QED BY <1>1, <2>1, <2>2 DEF HandlingsInv
<1>4. TasksInv'
  <2>1. ASSUME NEW t \in TaskIds, tasks[t].handling # d PROVE Waited(t)'
    BY <1>1, <2>1, WaitedFrame DEF IInv, TasksInv
  <2> QED BY <2>1 DEF TasksInv, TasksStay
<1>5. RunsInv'
  <2>1. ASSUME NEW r \in RunIds, runs[r].handling # d PROVE Finished(r)'
    BY <2>1, FinishedFrame DEF IInv, RunsInv
  <2>2. ASSUME NEW r \in RunIds' PROVE runs'[r].handling \in Deliveries'
    BY <1>1, <2>2 DEF IInv, RunsInv, RunsStay
  <2> QED BY <2>1, <2>2 DEF RunsInv, RunsStay
<1>6. WithinWindowOnce'
  <2>1. \A e \in Deliveries : Same(handlings'[e], handlings[e])
    BY <1>1 DEF Same
  <2> QED BY <1>1, <2>1, WindowFrame DEF IInv
<1> QED BY <1>2, <1>3, <1>4, <1>5, <1>6 DEF IInv

-----------------------------------------------------------------------------
(* What a step makes of its handling *)

Kept(w, h) ==
  /\ w.event = h.event /\ w.time = h.time /\ w.epoch = h.epoch
  /\ w.cloned = h.cloned /\ w.left = h.left

LEMMA HandlingType ==
  ASSUME IInv, NEW d \in Deliveries
  PROVE  /\ handlings[d] \in Handling /\ Handled(d, handlings[d])
         /\ d \in DOMAIN handlings /\ handlings \in Seq(Handling)
<1>1. handlings \in Seq(Handling) /\ d \in 1 .. Len(handlings)
  BY DEF IInv, TypeOK, Deliveries
<1>2. handlings[d] \in Handling
  BY <1>1, ElementOfSeq
<1> QED BY <1>1, <1>2 DEF IInv, HandlingsInv

PCs == {"dropped", "listing", "cloning", "fetching", "looping", "ordering", "linking",
        "executing", "closing", "failing", "cleaning", "ended", "broken", "stopped"}

LEMMA GotoStep ==
  ASSUME IInv, NEW d \in Deliveries, NEW pc \in PCs, Goto(d, pc)
  PROVE  \E w \in Handling :
           /\ handlings' = [handlings EXCEPT ![d] = w] /\ Kept(w, handlings[d])
           /\ w.pc = pc /\ w.at = handlings[d].at /\ w.failed = handlings[d].failed
           /\ w.run = handlings[d].run /\ w.task = handlings[d].task
<1> DEFINE w == [handlings[d] EXCEPT !.pc = pc]
<1>1. handlings[d] \in Handling
  BY HandlingType
<1>2. w \in Handling /\ Kept(w, handlings[d])
      /\ w.pc = pc /\ w.at = handlings[d].at /\ w.failed = handlings[d].failed
      /\ w.run = handlings[d].run /\ w.task = handlings[d].task
  BY <1>1 DEF Handling, PCs, Kept
<1>3. handlings' = [handlings EXCEPT ![d] = w]
  BY DEF Goto
<1> QED BY <1>2, <1>3

LEMMA NextAgentStep ==
  ASSUME IInv, NEW d \in Deliveries, NextAgent(d)
  PROVE  \E w \in Handling :
           /\ handlings' = [handlings EXCEPT ![d] = w] /\ Kept(w, handlings[d])
           /\ w.pc \in {"looping", "cleaning"} /\ w.at = handlings[d].at + 1
           /\ w.pc = "cleaning" => w.at > Len(Agents)
           /\ w.failed = handlings[d].failed
<1> DEFINE next == handlings[d].at + 1
           pc == IF handlings[d].at < Len(Agents) THEN "looping" ELSE "cleaning"
           w == [handlings[d] EXCEPT !.pc = pc, !.at = next]
<1>1. handlings[d] \in Handling /\ d \in DOMAIN handlings
  BY HandlingType
<1>2. /\ next \in Nat /\ pc \in {"looping", "cleaning"}
      /\ pc = "cleaning" => next > Len(Agents)
  BY <1>1, GitAssumption DEF Handling
<1>3. handlings' = [handlings EXCEPT ![d] = w]
  BY <1>1 DEF NextAgent
<1> HIDE DEF next, pc
<1>4. w \in Handling /\ Kept(w, handlings[d])
      /\ w.pc = pc /\ w.at = next /\ w.failed = handlings[d].failed
  BY <1>1, <1>2 DEF Handling, Kept
<1> QED BY <1>2, <1>3, <1>4 DEF next

LEMMA LeaveLoopStep ==
  ASSUME IInv, NEW d \in Deliveries, LeaveLoop(d)
  PROVE  \E w \in Handling :
           /\ handlings' = [handlings EXCEPT ![d] = w] /\ Kept(w, handlings[d])
           /\ w.pc = "cleaning" /\ w.failed /\ w.at = handlings[d].at
<1> DEFINE w == [handlings[d] EXCEPT !.pc = "cleaning", !.failed = TRUE]
<1>1. handlings[d] \in Handling /\ d \in DOMAIN handlings
  BY HandlingType
<1>2. w \in Handling /\ Kept(w, handlings[d])
      /\ w.pc = "cleaning" /\ w.failed /\ w.at = handlings[d].at
  BY <1>1 DEF Handling, Kept
<1>3. handlings' = [handlings EXCEPT ![d] = w]
  BY <1>1 DEF LeaveLoop
<1> QED BY <1>2, <1>3

(* Nothing but the handling changes, and it was not at an execution.        *)
LEMMA PlainIInv ==
  ASSUME IInv, NEW d \in Deliveries, NEW w \in Handling,
         handlings' = [handlings EXCEPT ![d] = w], Kept(w, handlings[d]),
         UNCHANGED <<clock, recent, runs, tasks, workspaces, disk, restarts>>,
         handlings[d].pc \notin {"dropped", "executing", "closing"}, w.pc # "dropped",
         Handled(d, w)
  PROVE  IInv'
<1>1. /\ Deliveries' = Deliveries
      /\ \A e \in Deliveries : handlings'[e] = IF e = d THEN w ELSE handlings[e]
  BY HandlingSet DEF IInv
<1>2. Same(w, handlings[d])
  BY DEF Same, Kept
<1>3. RunsStay(d) /\ TasksStay(d) /\ DiskStays(d)
  BY RunsUnchanged, TasksUnchanged DEF IInv, TypeOK, DiskStays, TaskIds
<1>4. Handled(d, w)'
  BY DEF Handled, Remembered, Cloned, Owns, Looped, Passed, RunsOf, RunIds, TaskIds
<1>5. ASSUME NEW t \in TaskIds', tasks'[t].handling = d PROVE Waited(t)'
  BY <1>1, <1>5 DEF IInv, TasksInv, Waited, TaskIds, Kept
<1>6. \A r \in RunIds' : Finished(r)'
  BY DEF IInv, RunsInv, Finished, RunIds, TaskIds
<1> QED BY <1>2, <1>3, <1>4, <1>5, <1>6, StepIInv

-----------------------------------------------------------------------------
(* The steps of a handling *)

LEMMA ListIInv ==
  ASSUME IInv, NEW d \in Deliveries, List(d)
  PROVE  IInv'
<1> DEFINE h == handlings[d]
<1>1. h \in Handling /\ Handled(d, h) /\ h.pc = "listing"
  BY HandlingType DEF List, At
<1>2. PICK pc \in {"ended", "cloning", "broken"} :
        Goto(d, pc) /\ (pc = "ended" => Agents = <<>>)
  BY DEF List
<1>3. PICK w \in Handling :
        /\ handlings' = [handlings EXCEPT ![d] = w] /\ Kept(w, h)
        /\ w.pc = pc /\ w.at = h.at /\ w.failed = h.failed
  BY <1>2, GotoStep DEF PCs
<1> HIDE DEF h
<1>4. Remembered(w) /\ Cloned(d, w) /\ Owns(d, w)
  BY <1>1, <1>3
     DEF Handled, Remembered, Cloned, Owns, Kept, Key, BeforeClone, AfterClone, AtRun, AtTask
<1>5. Passed(w) = Passed(h) /\ (pc = "ended" => w.at > Len(Agents))
  BY <1>1, <1>2, <1>3 DEF Passed, Handled, AtRun, AtTask, Handling
<1>6. Looped(d, w)
  BY <1>1, <1>3, <1>5 DEF Handled, Looped, AtRun, AtTask
<1>7. Handled(d, w)
  BY <1>1, <1>3, <1>4, <1>6 DEF Handled
<1> QED BY <1>1, <1>3, <1>7, PlainIInv DEF List, h

(* The directory is made, or the clone ends and keeps, removes or leaves it. *)
LEMMA DirIInv ==
  ASSUME IInv, NEW d \in Deliveries, NEW h \in Handling, h = handlings[d],
         h.pc \in {"cloning", "fetching"}, NEW w \in Handling,
         handlings' = [handlings EXCEPT ![d] = w],
         w.at = h.at, w.failed = h.failed,
         w.event = h.event, w.time = h.time, w.epoch = h.epoch,
         w.pc \in {"fetching", "looping"}, w.pc = "fetching" => ~w.cloned,
         disk' \in {disk, disk \cup {d}, disk \ {d}},
         w.pc = "fetching" \/ w.cloned => d \in disk',
         d \in disk' => w.pc = "fetching" \/ w.cloned \/ w.left,
         UNCHANGED <<clock, recent, runs, tasks, workspaces, restarts>>
  PROVE  IInv'
<1>1. Handled(d, h) /\ Same(w, h)
  BY HandlingType DEF Same
<1>2. RunsStay(d) /\ TasksStay(d) /\ DiskStays(d)
  BY RunsUnchanged, TasksUnchanged DEF IInv, TypeOK, DiskStays, TaskIds
<1>3. Remembered(w)' /\ Owns(d, w)'
  BY <1>1 DEF Handled, Remembered, Owns, Key, AtRun, AtTask
<1>4. Cloned(d, w)'
  BY <1>1 DEF Handled, Cloned, BeforeClone, AfterClone, AtRun, AtTask
<1>5. Looped(d, w)'
  BY <1>1 DEF Handled, Looped, Passed, RunsOf, RunIds, AtRun, AtTask
<1>6. Handled(d, w)'
  BY <1>1, <1>3, <1>4, <1>5 DEF Handled
<1>7. /\ Deliveries' = Deliveries
      /\ \A e \in Deliveries : handlings'[e] = IF e = d THEN w ELSE handlings[e]
  BY HandlingSet DEF IInv
<1>8. ASSUME NEW t \in TaskIds', tasks'[t].handling = d PROVE Waited(t)'
  <2>1. t \in TaskIds /\ tasks' = tasks /\ Waited(t)
    BY DEF IInv, TasksInv, TaskIds
  <2>2. tasks[t].direct # "running" /\ t \notin workspaces
    BY <1>8, <2>1 DEF Waited
  <2> QED BY <1>7, <1>8, <2>1, <2>2 DEF Waited
<1>9. \A r \in RunIds' : Finished(r)'
  BY DEF IInv, RunsInv, Finished, RunIds, TaskIds
<1> QED BY <1>1, <1>2, <1>6, <1>8, <1>9, StepIInv

LEMMA MakeDirIInv ==
  ASSUME IInv, NEW d \in Deliveries, MakeDir(d)
  PROVE  IInv'
<1>1. PICK h \in Handling : h = handlings[d] /\ Handled(d, h) /\ h.pc = "cloning"
  BY HandlingType DEF MakeDir, At
<1>2. PICK pc \in {"fetching", "looping"} :
        Goto(d, pc) /\ disk' = IF pc = "fetching" THEN disk \cup {d} ELSE disk
  BY DEF MakeDir
<1>3. PICK w \in Handling :
        /\ handlings' = [handlings EXCEPT ![d] = w] /\ Kept(w, h)
        /\ w.pc = pc /\ w.at = h.at /\ w.failed = h.failed
  BY <1>1, <1>2, GotoStep DEF PCs
<1>4. d \notin disk /\ ~w.cloned
  BY <1>1, <1>3 DEF Handled, Cloned, BeforeClone, Kept
<1>5. UNCHANGED <<clock, recent, runs, tasks, workspaces, restarts>>
  BY DEF MakeDir
<1> QED BY <1>1, <1>2, <1>3, <1>4, <1>5, DirIInv DEF Kept

LEMMA CloneIInv ==
  ASSUME IInv, NEW d \in Deliveries, CloneRepo(d)
  PROVE  IInv'
<1>1. PICK h \in Handling : h = handlings[d] /\ Handled(d, h) /\ h.pc = "fetching"
  BY HandlingType DEF CloneRepo, At
<1>2. d \in disk /\ d \in DOMAIN handlings
  BY <1>1, HandlingType DEF Handled, Cloned
<1>3. UNCHANGED <<clock, recent, runs, tasks, workspaces, restarts>>
  BY DEF CloneRepo
<1>4. CASE /\ handlings' = [handlings EXCEPT ![d].pc = "looping", ![d].cloned = TRUE]
           /\ UNCHANGED disk
  <2>1. PICK w \in Handling :
          /\ handlings' = [handlings EXCEPT ![d] = w] /\ w.pc = "looping" /\ w.cloned
          /\ w.at = h.at /\ w.failed = h.failed
          /\ w.event = h.event /\ w.time = h.time /\ w.epoch = h.epoch
    <3> DEFINE w == [h EXCEPT !.pc = "looping", !.cloned = TRUE]
    <3>1. /\ w \in Handling /\ w.pc = "looping" /\ w.cloned /\ w.at = h.at
          /\ w.failed = h.failed /\ w.event = h.event /\ w.time = h.time
          /\ w.epoch = h.epoch
      BY DEF Handling
    <3>2. handlings' = [handlings EXCEPT ![d] = w]
      BY <1>1, <1>2, <1>4
    <3> QED BY <3>1, <3>2
  <2>2. /\ disk' = disk /\ d \in disk'
        /\ disk' \in {disk, disk \cup {d}, disk \ {d}}
    BY <1>2, <1>4
  <2> QED BY <1>1, <1>3, <2>1, <2>2, DirIInv
<1>5. CASE Goto(d, "looping") /\ disk' = disk \ {d}
  <2>1. PICK w \in Handling :
          /\ handlings' = [handlings EXCEPT ![d] = w] /\ Kept(w, h)
          /\ w.pc = "looping" /\ w.at = h.at /\ w.failed = h.failed
    BY <1>1, <1>5, GotoStep DEF PCs
  <2>2. ~w.cloned
    BY <1>1, <2>1 DEF Handled, Cloned, BeforeClone, Kept
  <2> QED BY <1>1, <1>3, <1>5, <2>1, <2>2, DirIInv DEF Kept
<1>6. CASE /\ handlings' = [handlings EXCEPT ![d].pc = "looping", ![d].left = TRUE]
           /\ UNCHANGED disk
  <2>1. PICK w \in Handling :
          /\ handlings' = [handlings EXCEPT ![d] = w] /\ w.pc = "looping" /\ w.left
          /\ w.at = h.at /\ w.failed = h.failed
          /\ w.event = h.event /\ w.time = h.time /\ w.epoch = h.epoch
    <3> DEFINE w == [h EXCEPT !.pc = "looping", !.left = TRUE]
    <3>1. /\ w \in Handling /\ w.pc = "looping" /\ w.left /\ w.at = h.at
          /\ w.failed = h.failed /\ w.event = h.event /\ w.time = h.time
          /\ w.epoch = h.epoch
      BY DEF Handling
    <3>2. handlings' = [handlings EXCEPT ![d] = w]
      BY <1>1, <1>2, <1>6
    <3> QED BY <3>1, <3>2
  <2>2. /\ disk' = disk /\ d \in disk'
        /\ disk' \in {disk, disk \cup {d}, disk \ {d}}
    BY <1>2, <1>6
  <2> QED BY <1>1, <1>3, <2>1, <2>2, DirIInv
<1> QED BY <1>4, <1>5, <1>6 DEF CloneRepo

(* The loop goes on without a run for an agent that is not active, or an    *)
(* error leaves it.                                                         *)
LEMMA PassIInv ==
  ASSUME IInv, NEW d \in Deliveries, At(d, "looping"),
         UNCHANGED <<clock, recent, runs, tasks, workspaces, disk, restarts>>,
         \/ NextAgent(d) /\ handlings[d].at \notin ActiveAgents
         \/ LeaveLoop(d)
  PROVE  IInv'
<1> DEFINE h == handlings[d]
<1>1. h \in Handling /\ Handled(d, h) /\ h.pc = "looping"
  BY HandlingType DEF At
<1>2. PICK w \in Handling :
        /\ handlings' = [handlings EXCEPT ![d] = w] /\ Kept(w, h)
        /\ w.pc \in {"looping", "cleaning"} /\ w.at > 0
        /\ w.failed \/ w.failed = h.failed
        /\ Passed(w) = Passed(h)
        /\ w.pc = "cleaning" => w.failed \/ w.at > Len(Agents)
  <2>1. CASE NextAgent(d) /\ h.at \notin ActiveAgents
    <3>1. PICK w \in Handling :
            /\ handlings' = [handlings EXCEPT ![d] = w] /\ Kept(w, h)
            /\ w.pc \in {"looping", "cleaning"} /\ w.at = h.at + 1
            /\ w.pc = "cleaning" => w.at > Len(Agents)
            /\ w.failed = h.failed
      BY <2>1, NextAgentStep
    <3>2. h.at \in Nat /\ w.at > 0
      BY <1>1, <3>1 DEF Handling
    <3>3. Passed(w) = Passed(h)
      <4>1. \A a \in ActiveAgents : a \in Nat /\ a # h.at
        BY <2>1, GitAssumption DEF ActiveAgents
      <4> QED BY <1>1, <3>1, <3>2, <4>1 DEF Passed, AtRun, AtTask
    <3> QED BY <3>1, <3>2, <3>3
  <2>2. CASE LeaveLoop(d)
    <3>1. PICK w \in Handling :
            /\ handlings' = [handlings EXCEPT ![d] = w] /\ Kept(w, h)
            /\ w.pc = "cleaning" /\ w.failed /\ w.at = h.at
      BY <2>2, LeaveLoopStep
    <3>2. Passed(w) = Passed(h) /\ w.at > 0
      BY <1>1, <3>1 DEF Passed, AtRun, AtTask, Handled
    <3> QED BY <3>1, <3>2
  <2> QED BY <2>1, <2>2
<1> HIDE DEF h
<1>3. Remembered(w) /\ Owns(d, w) /\ Cloned(d, w)
  BY <1>1, <1>2
     DEF Handled, Remembered, Owns, Cloned, Kept, Key, BeforeClone, AfterClone, AtRun, AtTask
<1>4. Looped(d, w)
  BY <1>1, <1>2 DEF Handled, Looped, AtRun, AtTask
<1>5. Handled(d, w)
  BY <1>2, <1>3, <1>4 DEF Handled
<1> QED BY <1>1, <1>2, <1>5, PlainIInv DEF h

(* A run is recorded for the agent the loop is at: closed, and the loop     *)
(* goes on, or open, and a task follows.                                    *)
LEMMA RecordIInv ==
  ASSUME IInv, NEW d \in Deliveries, At(d, "looping"), handlings[d].at \in ActiveAgents,
         UNCHANGED <<clock, recent, tasks, workspaces, disk, restarts>>,
         \/ \E status \in {"skipped", "failed"} : InsertRun(d, status) /\ NextAgent(d)
         \/ /\ InsertRun(d, "pending")
            /\ handlings' = [handlings EXCEPT ![d].pc = "ordering", ![d].run = Len(runs) + 1]
  PROVE  IInv'
<1>1. PICK h \in Handling : h = handlings[d] /\ Handled(d, h) /\ h.pc = "looping"
  BY HandlingType DEF At
<1>2. PICK n : n = Len(runs) + 1 /\ n \in Nat
  BY DEF IInv, TypeOK
<1>3. PICK w \in Handling, status \in {"skipped", "failed", "pending"} :
        /\ InsertRun(d, status) /\ handlings' = [handlings EXCEPT ![d] = w] /\ Kept(w, h)
        /\ w.failed = h.failed
        /\ \/ /\ w.pc \in {"looping", "cleaning"} /\ w.at = h.at + 1 /\ status # "pending"
              /\ w.pc = "cleaning" => w.at > Len(Agents)
           \/ w.pc = "ordering" /\ w.at = h.at /\ w.run = n
  <2>1. CASE \E status \in {"skipped", "failed"} : InsertRun(d, status) /\ NextAgent(d)
    BY <1>1, <2>1, NextAgentStep
  <2>2. CASE /\ InsertRun(d, "pending")
             /\ handlings' = [handlings EXCEPT ![d].pc = "ordering", ![d].run = Len(runs) + 1]
    <3> DEFINE w == [h EXCEPT !.pc = "ordering", !.run = n]
    <3>1. w \in Handling /\ Kept(w, h) /\ w.failed = h.failed
          /\ w.pc = "ordering" /\ w.at = h.at /\ w.run = n
      BY <1>1, <1>2 DEF Handling, Kept
    <3>2. handlings' = [handlings EXCEPT ![d] = w]
      BY <1>1, <1>2, <2>2, HandlingType
    <3> QED BY <2>2, <3>1, <3>2
  <2> QED BY <2>1, <2>2
<1>4. PICK row \in Run : /\ row.handling = d /\ row.agent = h.at /\ row.status = status
                         /\ runs' = Append(runs, row)
  <2>1. d \in Nat /\ h.at \in Nat
    BY <1>1 DEF Deliveries, Handling
  <2>2. [handling |-> d, agent |-> h.at, task |-> 0, status |-> status] \in Run
    BY <2>1 DEF Run
  <2> QED BY <1>1, <1>3, <2>2 DEF InsertRun
<1>5. /\ RunsStay(d) /\ RunIds' = RunIds \cup {n} /\ n \notin RunIds /\ runs'[n] = row
      /\ \A r \in RunIds : runs'[r] = runs[r]
  BY <1>2, <1>4, RunAppended DEF IInv
<1>6. TasksStay(d) /\ DiskStays(d) /\ Same(w, handlings[d])
  BY <1>1, <1>3, TasksUnchanged DEF IInv, TypeOK, DiskStays, TaskIds, Same, Kept
<1>7. h.at \in DOMAIN Agents /\ h.at \in Nat /\ \A a \in ActiveAgents : a \in Nat
  BY <1>1, GitAssumption DEF ActiveAgents
<1>8. Remembered(w)' /\ Cloned(d, w)' /\ w.at > 0
  BY <1>1, <1>3, <1>7
     DEF Handled, Remembered, Cloned, Kept, Key, BeforeClone, AfterClone,
         AtRun, AtTask
<1>9. Owns(d, w)'
  BY <1>3, <1>4, <1>5, <1>7 DEF Owns, AtRun, AtTask
<1>10. Looped(d, w)'
  <2>1. SUFFICES ASSUME ~h.failed PROVE Looped(d, w)'
    BY <1>3 DEF Looped
  <2>2. /\ \A r \in RunsOf(d) : /\ runs[r].agent \in Passed(h)
                                /\ runs[r].status \in {"skipped", "failed", "completed"}
        /\ \A r, q \in RunsOf(d) : runs[r].agent = runs[q].agent => r = q
        /\ \A a \in Passed(h) : \E r \in RunsOf(d) : runs[r].agent = a
    BY <1>1, <2>1 DEF Handled, Looped, AtRun, AtTask
  <2>3. RunsOf(d)' = RunsOf(d) \cup {n}
    BY <1>4, <1>5 DEF RunsOf
  <2>4. \A r \in RunsOf(d) : r # n /\ runs'[r] = runs[r]
    BY <1>5 DEF RunsOf
  <2>5. h.at \notin Passed(h) /\ Passed(w) = Passed(h) \cup {h.at}
    BY <1>1, <1>3, <1>7 DEF Passed, AtRun, AtTask
  <2>6. Passed(w)' = Passed(w)
    BY DEF Passed, ActiveAgents
  <2>7. ASSUME NEW r \in RunsOf(d)'
        PROVE  /\ runs'[r].agent \in Passed(w)
               /\ \/ runs'[r].status \in {"skipped", "failed", "completed"}
                  \/ w.pc \in AtRun /\ r = w.run
    BY <1>3, <1>4, <1>5, <2>2, <2>3, <2>4, <2>5 DEF AtRun
  <2>8. /\ runs'[n].agent = h.at
        /\ \A r \in RunsOf(d) : runs'[r].agent = runs[r].agent /\ runs'[r].agent # h.at
    <3>1. runs'[n].agent = h.at
      BY <1>4, <1>5
    <3>2. ASSUME NEW r \in RunsOf(d)
          PROVE  runs'[r].agent = runs[r].agent /\ runs'[r].agent # h.at
      <4>1. runs'[r] = runs[r] /\ runs[r].agent \in Passed(h)
        BY <2>2, <2>4
      <4> QED BY <2>5, <4>1
    <3> QED BY <3>1, <3>2
  <2>9. ASSUME NEW r \in RunsOf(d)', NEW q \in RunsOf(d)', runs'[r].agent = runs'[q].agent
        PROVE  r = q
    <3>1. CASE r = n \/ q = n
      BY <2>3, <2>8, <2>9, <3>1
    <3>2. CASE r \in RunsOf(d) /\ q \in RunsOf(d)
      BY <2>2, <2>8, <2>9, <3>2
    <3> QED BY <2>3, <3>1, <3>2
  <2>10. ASSUME NEW a \in Passed(w) PROVE \E r \in RunsOf(d)' : runs'[r].agent = a
    <3>1. CASE a = h.at
      BY <2>3, <2>8, <3>1
    <3>2. CASE a \in Passed(h)
      <4>1. PICK r \in RunsOf(d) : runs[r].agent = a
        BY <2>2, <3>2
      <4> QED BY <2>3, <2>8, <4>1
    <3> QED BY <2>5, <3>1, <3>2
  <2> QED BY <1>3, <2>6, <2>7, <2>9, <2>10 DEF Looped
<1>11. Handled(d, w)'
  BY <1>8, <1>9, <1>10 DEF Handled
<1>12. ASSUME NEW t \in TaskIds', tasks'[t].handling = d PROVE Waited(t)'
  <2>1. /\ Deliveries' = Deliveries
        /\ \A e \in Deliveries : handlings'[e] = IF e = d THEN w ELSE handlings[e]
    BY <1>3, HandlingSet DEF IInv
  <2> QED BY <1>1, <1>3, <1>12, <2>1 DEF IInv, TasksInv, Waited, TaskIds
<1>13. ASSUME NEW r \in RunIds' PROVE Finished(r)'
  BY <1>3, <1>4, <1>5 DEF IInv, RunsInv, Finished, TaskIds
<1> QED BY <1>3, <1>5, <1>6, <1>11, <1>12, <1>13, StepIInv

LEMMA DecideIInv ==
  ASSUME IInv, NEW d \in Deliveries, Decide(d)
  PROVE  IInv'
<1>1. handlings[d].at \in DOMAIN Agents
  <2>1. handlings[d].at \in Nat /\ handlings[d].at > 0
    BY HandlingType DEF Handled, Handling
  <2> QED BY <2>1, GitAssumption, LenProperties DEF Decide
<1>2. CASE ~CurrentAgent(d).active
  <2>1. handlings[d].at \notin ActiveAgents
    BY <1>2 DEF ActiveAgents, CurrentAgent
  <2> QED BY <1>2, <2>1, PassIInv DEF Decide
<1>3. CASE CurrentAgent(d).active
  <2>1. handlings[d].at \in ActiveAgents
    BY <1>1, <1>3 DEF ActiveAgents, CurrentAgent
  <2> QED BY <1>3, <2>1, RecordIInv, PassIInv DEF Decide, SkipAgent
<1> QED BY <1>2, <1>3

(* The loop at an agent: its run may change, and is closed when the loop    *)
(* goes on.                                                                 *)
LEMMA LoopedAt ==
  ASSUME NEW d, NEW h \in Handling, Handled(d, h), h.pc \in AtRun, NEW w \in Handling,
         w.failed \/ w.failed = h.failed, RunIds' = RunIds,
         \A r \in RunIds : /\ runs'[r].handling = runs[r].handling
                           /\ runs'[r].agent = runs[r].agent
                           /\ r # h.run => runs'[r] = runs[r],
         \/ w.pc \in AtRun /\ w.at = h.at /\ w.run = h.run
         \/ /\ w.pc \in {"looping", "cleaning"} /\ w.at = h.at + 1
            /\ w.pc = "cleaning" => w.at > Len(Agents)
            /\ runs'[h.run].status \in {"skipped", "failed", "completed"}
         \/ w.failed
  PROVE  Looped(d, w)'
<1> SUFFICES ASSUME ~h.failed, ~w.failed PROVE Looped(d, w)'
  BY DEF Looped
<1>1. /\ \A r \in RunsOf(d) : /\ runs[r].agent \in Passed(h)
                              /\ \/ runs[r].status \in {"skipped", "failed", "completed"}
                                 \/ r = h.run
      /\ \A r, q \in RunsOf(d) : runs[r].agent = runs[q].agent => r = q
      /\ \A a \in Passed(h) : \E r \in RunsOf(d) : runs[r].agent = a
  BY DEF Handled, Looped, AtRun, AtTask
<1>2. RunsOf(d)' = RunsOf(d)
  BY DEF RunsOf
<1>3. \A r \in RunsOf(d) : /\ runs'[r].agent = runs[r].agent
                           /\ r # h.run => runs'[r] = runs[r]
  BY DEF RunsOf
<1>4. Passed(w)' = Passed(h)
  <2>1. h.at \in Nat /\ \A a \in ActiveAgents : a \in Nat
    BY GitAssumption DEF ActiveAgents, Handling
  <2>2. CASE w.pc \in AtRun
    BY <2>2 DEF Passed, ActiveAgents, AtRun, AtTask
  <2>3. CASE w.pc \in {"looping", "cleaning"} /\ w.at = h.at + 1
    BY <2>1, <2>3 DEF Passed, ActiveAgents, AtRun, AtTask
  <2> QED BY <2>2, <2>3
<1>5. ASSUME NEW r \in RunsOf(d)
      PROVE  /\ runs'[r].agent \in Passed(h)
             /\ \/ runs'[r].status \in {"skipped", "failed", "completed"}
                \/ w.pc \in AtRun /\ r = w.run
  BY <1>1, <1>3
<1>6. \A r, q \in RunsOf(d) : runs'[r].agent = runs'[q].agent => r = q
  BY <1>1, <1>3
<1>7. \A a \in Passed(h) : \E r \in RunsOf(d) : runs'[r].agent = a
  BY <1>1, <1>3
<1>8. w.pc \in {"cleaning", "ended"} => w.at > Len(Agents)
  BY DEF AtRun, AtTask
<1> QED BY <1>2, <1>4, <1>5, <1>6, <1>7, <1>8 DEF Looped

(* A handling gives an agent up, and goes to its catch block or on.         *)
LEMMA GiveUpIInv ==
  ASSUME IInv, NEW d \in Deliveries, handlings[d].pc \in {"ordering", "linking", "failing"},
         UNCHANGED <<clock, recent, runs, tasks, workspaces, disk, restarts>>,
         Goto(d, "failing") \/ LeaveLoop(d)
  PROVE  IInv'
<1>1. PICK h \in Handling : h = handlings[d] /\ Handled(d, h)
  BY HandlingType
<1>2. PICK w \in Handling :
        /\ handlings' = [handlings EXCEPT ![d] = w] /\ Kept(w, h) /\ w.at = h.at
        /\ \/ w.pc = "failing" /\ w.failed = h.failed /\ w.run = h.run
           \/ w.pc = "cleaning" /\ w.failed
  <2>1. CASE Goto(d, "failing")
    BY <1>1, <2>1, GotoStep DEF PCs
  <2>2. CASE LeaveLoop(d)
    BY <1>1, <2>2, LeaveLoopStep
  <2> QED BY <2>1, <2>2
<1>3. Remembered(w) /\ Owns(d, w) /\ Cloned(d, w) /\ w.at > 0
  BY <1>1, <1>2 DEF Handled, Remembered, Owns, Cloned, Kept, Key, BeforeClone, AfterClone,
         AtRun, AtTask
<1>4. Looped(d, w)'
  <2>1. h.pc \in AtRun /\ RunIds' = RunIds
    BY <1>1 DEF AtRun, AtTask, RunIds
  <2> QED BY <1>1, <1>2, <2>1, LoopedAt DEF AtRun
<1>5. Looped(d, w)
  BY <1>4 DEF Looped, Passed, RunsOf, RunIds
<1>6. Handled(d, w)
  BY <1>3, <1>5 DEF Handled
<1> QED BY <1>1, <1>2, <1>6, PlainIInv

LEMMA CreateTaskIInv ==
  ASSUME IInv, NEW d \in Deliveries, CreateTask(d)
  PROVE  IInv'
<1>1. CASE Goto(d, "failing") /\ UNCHANGED tasks
  BY <1>1, GiveUpIInv DEF CreateTask, At
<1>2. CASE /\ tasks' = Append(tasks, [handling |-> d, status |-> "pending",
                          direct |-> "none", worker |-> "none", listed |-> FALSE,
                          mounts |-> {}])
           /\ handlings' = [handlings EXCEPT ![d].pc = "linking", ![d].task = Len(tasks) + 1]
  <2>1. PICK h \in Handling : h = handlings[d] /\ Handled(d, h) /\ h.pc = "ordering"
    BY HandlingType DEF CreateTask, At
  <2>2. PICK m : m = Len(tasks) + 1 /\ m \in Nat
    BY DEF IInv, TypeOK
  <2>3. PICK w \in Handling :
          /\ handlings' = [handlings EXCEPT ![d] = w] /\ Kept(w, h) /\ w.at = h.at
          /\ w.pc = "linking" /\ w.task = m /\ w.failed = h.failed /\ w.run = h.run
    <3> DEFINE w == [h EXCEPT !.pc = "linking", !.task = m]
    <3>1. w \in Handling /\ Kept(w, h) /\ w.at = h.at
          /\ w.pc = "linking" /\ w.task = m /\ w.failed = h.failed /\ w.run = h.run
      BY <2>1, <2>2 DEF Handling, Kept
    <3>2. handlings' = [handlings EXCEPT ![d] = w]
      BY <1>2, <2>1, <2>2, HandlingType
    <3> QED BY <3>1, <3>2
  <2>4. PICK row \in Task : /\ row.handling = d /\ row.direct = "none" /\ row.mounts = {}
                            /\ tasks' = Append(tasks, row)
    <3>1. d \in Nat
      BY DEF Deliveries
    <3>2. [handling |-> d, status |-> "pending",
           direct |-> "none", worker |-> "none", listed |-> FALSE, mounts |-> {}] \in Task
      BY <3>1 DEF Task
    <3> QED BY <1>2, <3>2
  <2>5. /\ TasksStay(d) /\ TaskIds' = TaskIds \cup {m} /\ m \notin TaskIds /\ tasks'[m] = row
        /\ \A t \in TaskIds : tasks'[t] = tasks[t]
    BY <2>2, <2>4, TaskAppended DEF IInv
  <2>6. UNCHANGED <<clock, recent, runs, workspaces, disk, restarts>>
    BY DEF CreateTask
  <2>7. RunsStay(d) /\ DiskStays(d) /\ Same(w, handlings[d])
    BY <2>1, <2>3, <2>5, <2>6, RunsUnchanged DEF IInv, TypeOK, DiskStays, Same, Kept
  <2>8. Remembered(w)' /\ Cloned(d, w)' /\ w.at > 0
    BY <2>1, <2>3, <2>6 DEF Handled, Remembered, Cloned, Kept, Key, BeforeClone, AfterClone,
         AtRun, AtTask
  <2>9. Owns(d, w)'
    BY <2>1, <2>3, <2>4, <2>5, <2>6 DEF Handled, Owns, AtRun, AtTask, RunIds
  <2>10. Looped(d, w)'
    <3>1. h.pc \in AtRun /\ w.pc \in AtRun /\ RunIds' = RunIds
      BY <2>1, <2>3, <2>6 DEF AtRun, AtTask, RunIds
    <3> QED BY <2>1, <2>3, <2>6, <3>1, LoopedAt
  <2>11. Handled(d, w)'
    BY <2>8, <2>9, <2>10 DEF Handled
  <2>12. /\ Deliveries' = Deliveries
         /\ \A e \in Deliveries : handlings'[e] = IF e = d THEN w ELSE handlings[e]
    BY <2>3, HandlingSet DEF IInv
  <2>13. ASSUME NEW t \in TaskIds', tasks'[t].handling = d PROVE Waited(t)'
    <3>1. CASE t = m
      <4>1. m \notin workspaces'
        BY <2>5, <2>6 DEF IInv, TypeOK
      <4> QED BY <2>4, <2>5, <2>12, <3>1, <4>1 DEF Waited
    <3>2. CASE t \in TaskIds
      BY <2>1, <2>5, <2>6, <2>12, <2>13, <3>2 DEF IInv, TasksInv, Waited
    <3> QED BY <2>5, <3>1, <3>2
  <2>14. ASSUME NEW r \in RunIds' PROVE Finished(r)'
    BY <2>5, <2>6 DEF IInv, RunsInv, Finished, RunIds
  <2> QED BY <2>3, <2>5, <2>6, <2>7, <2>11, <2>13, <2>14, StepIInv
<1> QED BY <1>1, <1>2 DEF CreateTask

(* The run, the registration and the execution begin together.              *)
LEMMA LinkIInv ==
  ASSUME IInv, NEW d \in Deliveries, Link(d)
  PROVE  IInv'
<1>1. CASE Goto(d, "failing") /\ UNCHANGED <<runs, tasks, workspaces>>
  BY <1>1, GiveUpIInv DEF Link, At
<1> DEFINE Linked(t, r) ==
             /\ runs' = [runs EXCEPT ![r].status = "running", ![r].task = t]
             /\ workspaces' = IF handlings[d].cloned THEN workspaces \cup {t}
                              ELSE workspaces
             /\ tasks' = [tasks EXCEPT ![t].direct = "running"]
             /\ Goto(d, "executing")
<1>2. CASE Linked(handlings[d].task, handlings[d].run)
  <2>1. PICK h \in Handling : h = handlings[d] /\ Handled(d, h) /\ h.pc = "linking"
    BY HandlingType DEF Link, At
  <2>2. PICK t \in TaskIds, r \in RunIds :
          /\ t = h.task /\ r = h.run /\ tasks[t].handling = d /\ tasks[t].direct = "none"
          /\ runs[r].handling = d /\ runs[r].agent = h.at
    BY <2>1 DEF Handled, Owns, AtRun, AtTask
  <2>3. PICK w \in Handling :
          /\ handlings' = [handlings EXCEPT ![d] = w] /\ Kept(w, h) /\ w.at = h.at
          /\ w.pc = "executing" /\ w.failed = h.failed /\ w.run = r /\ w.task = t
    BY <1>2, <2>1, <2>2, GotoStep DEF PCs
  <2>4. tasks[t] \in Task /\ runs[r] \in Run
    BY ElementOfSeq DEF IInv, TypeOK, TaskIds, RunIds
  <2>5. PICK task \in Task :
          /\ task.handling = d /\ task.direct = "running" /\ task.mounts = tasks[t].mounts
          /\ tasks' = [tasks EXCEPT ![t] = task]
    <3> DEFINE task == [tasks[t] EXCEPT !.direct = "running"]
    <3>1. /\ task \in Task /\ task.handling = d /\ task.direct = "running"
          /\ task.mounts = tasks[t].mounts
      BY <2>2, <2>4 DEF Task
    <3>2. tasks' = [tasks EXCEPT ![t] = task]
      BY <1>2, <2>1, <2>2
    <3> QED BY <3>1, <3>2
  <2>6. PICK row \in Run :
          /\ row.handling = d /\ row.agent = h.at /\ row.task = t /\ row.status = "running"
          /\ runs' = [runs EXCEPT ![r] = row]
    <3> DEFINE row == [runs[r] EXCEPT !.status = "running", !.task = t]
    <3>1. t \in Nat
      BY DEF TaskIds
    <3>2. /\ row \in Run /\ row.handling = d /\ row.agent = h.at /\ row.task = t
          /\ row.status = "running"
      BY <2>2, <2>4, <3>1 DEF Run
    <3>3. r \in DOMAIN runs
      BY DEF IInv, TypeOK, RunIds
    <3>4. runs' = [runs EXCEPT ![r] = row]
      BY <1>2, <2>1, <2>2, <3>3
    <3> QED BY <3>2, <3>4
  <2>7. /\ tasks' \in Seq(Task) /\ TaskIds' = TaskIds
        /\ \A u \in TaskIds : tasks'[u] = IF u = t THEN task ELSE tasks[u]
    BY <2>5, TaskSet DEF IInv
  <2>8. /\ RunsStay(d) /\ RunIds' = RunIds
        /\ \A q \in RunIds : runs'[q] = IF q = r THEN row ELSE runs[q]
    <3>1. TypeOK /\ runs[r].handling = d /\ row \in Run /\ row.handling = d
      BY <2>2, <2>6 DEF IInv
    <3>2. runs' = [runs EXCEPT ![r] = row]
      BY <2>6
    <3> HIDE DEF Linked
    <3>3. r \in RunIds
      BY <2>2
    <3> QED BY <3>1, <3>2, <3>3, RunSet DEF RunIds, RunsStay, TypeOK
  <2>9. /\ UNCHANGED <<clock, recent, disk, restarts>>
        /\ workspaces' = IF h.cloned THEN workspaces \cup {t} ELSE workspaces
    BY <1>2, <2>1, <2>2 DEF Link
  <2>10. TasksStay(d) /\ DiskStays(d) /\ Same(w, handlings[d])
    BY <2>1, <2>2, <2>3, <2>5, <2>7, <2>9 DEF IInv, TypeOK, TasksStay, DiskStays, Same, Kept
  <2>11. Remembered(w)' /\ Cloned(d, w)' /\ w.at > 0
    BY <2>1, <2>3, <2>9 DEF Handled, Remembered, Cloned, Kept, Key, BeforeClone, AfterClone,
         AtRun, AtTask
  <2>12. Owns(d, w)'
    BY <2>1, <2>2, <2>3, <2>5, <2>6, <2>7, <2>8 DEF Handled, Owns, AtRun, AtTask
  <2>13. Looped(d, w)'
    <3>1. h.pc \in AtRun /\ w.pc \in AtRun
      BY <2>1, <2>3 DEF AtRun, AtTask
    <3>2. \A q \in RunIds : /\ runs'[q].handling = runs[q].handling
                            /\ runs'[q].agent = runs[q].agent
                            /\ q # h.run => runs'[q] = runs[q]
      BY <2>2, <2>6, <2>8
    <3> QED BY <2>1, <2>2, <2>3, <2>8, <3>1, <3>2, LoopedAt
  <2>14. Handled(d, w)'
    BY <2>11, <2>12, <2>13 DEF Handled
  <2>15. /\ Deliveries' = Deliveries
         /\ \A e \in Deliveries : handlings'[e] = IF e = d THEN w ELSE handlings[e]
    BY <2>3, HandlingSet DEF IInv
  <2>16. ASSUME NEW u \in TaskIds', tasks'[u].handling = d PROVE Waited(u)'
    <3>1. Waited(u) /\ u \in TaskIds
      BY <2>7 DEF IInv, TasksInv
    <3>2. CASE u = t
      <4>1. "direct" \notin tasks[t].mounts /\ t \notin workspaces
        BY <2>1, <2>2, <3>1, <3>2 DEF Waited
      <4> QED BY <2>3, <2>5, <2>7, <2>9, <2>15, <3>2, <4>1 DEF Waited, Kept
    <3>3. CASE u # t
      BY <2>1, <2>7, <2>9, <2>15, <2>16, <3>1, <3>3 DEF Waited
    <3> QED BY <3>2, <3>3
  <2>17. ASSUME NEW q \in RunIds' PROVE Finished(q)'
    <3>1. Finished(q) /\ q \in RunIds
      BY <2>8 DEF IInv, RunsInv
    <3> QED BY <2>2, <2>6, <2>7, <2>8, <3>1 DEF Finished
  <2> QED BY <2>3, <2>8, <2>9, <2>10, <2>14, <2>16, <2>17, StepIInv
<1> QED BY <1>1, <1>2 DEF Link

(* The handling comes back from its execution.                              *)
LEMMA ExecutedIInv ==
  ASSUME IInv, NEW d \in Deliveries, Executed(d)
  PROVE  IInv'
<1>1. PICK h \in Handling : h = handlings[d] /\ Handled(d, h) /\ h.pc = "executing"
  BY HandlingType DEF Executed, At
<1>2. PICK t \in TaskIds : t = h.task /\ tasks[t].direct = "over"
  BY <1>1 DEF Handled, Owns, AtTask, Executed, ExecutionOver
<1>3. PICK w \in Handling :
        /\ handlings' = [handlings EXCEPT ![d] = w] /\ Kept(w, h) /\ w.at = h.at
        /\ w.failed = h.failed /\ w.run = h.run /\ w.task = h.task
        /\ \/ w.pc = "closing" /\ workspaces' = workspaces
           \/ w.pc = "failing" /\ workspaces' = workspaces \ {t}
  <2>1. CASE Goto(d, "closing") /\ UNCHANGED workspaces
    BY <1>1, <2>1, GotoStep DEF PCs
  <2>2. CASE Goto(d, "failing") /\ workspaces' = workspaces \ {handlings[d].task}
    BY <1>1, <1>2, <2>2, GotoStep DEF PCs
  <2> QED BY <2>1, <2>2 DEF Executed
<1>4. UNCHANGED <<clock, recent, runs, tasks, disk, restarts>>
  BY DEF Executed
<1>5. \A u \in TaskIds : tasks[u].handling = d => (u \in workspaces => u = t)
  BY <1>1, <1>2 DEF IInv, TasksInv, Waited
<1>6. tasks[t].handling = d
  BY <1>1, <1>2 DEF Handled, Owns, AtTask
<1>7. RunsStay(d) /\ TasksStay(d) /\ DiskStays(d) /\ Same(w, handlings[d])
  BY <1>1, <1>3, <1>4, <1>6, RunsUnchanged, TasksUnchanged
     DEF IInv, TypeOK, DiskStays, TaskIds, Same, Kept
<1>8. Remembered(w)' /\ Cloned(d, w)' /\ w.at > 0
  BY <1>1, <1>3, <1>4 DEF Handled, Remembered, Cloned, Kept, Key, BeforeClone, AfterClone,
         AtRun, AtTask
<1>9. Owns(d, w)'
  BY <1>1, <1>2, <1>3, <1>4 DEF Handled, Owns, AtRun, AtTask, RunIds, TaskIds
<1>10. Looped(d, w)'
  <2>1. h.pc \in AtRun /\ w.pc \in AtRun /\ RunIds' = RunIds
    BY <1>1, <1>3, <1>4 DEF AtRun, AtTask, RunIds
  <2> QED BY <1>1, <1>3, <1>4, <2>1, LoopedAt
<1>11. Handled(d, w)'
  BY <1>8, <1>9, <1>10 DEF Handled
<1>12. /\ Deliveries' = Deliveries
       /\ \A e \in Deliveries : handlings'[e] = IF e = d THEN w ELSE handlings[e]
  BY <1>3, HandlingSet DEF IInv
<1>13. ASSUME NEW u \in TaskIds', tasks'[u].handling = d PROVE Waited(u)'
  <2>1. u \in TaskIds /\ tasks' = tasks /\ Waited(u)
    BY <1>4 DEF IInv, TasksInv, TaskIds
  <2>2. tasks[u].direct # "running"
    BY <1>1, <1>2, <1>13, <2>1 DEF Waited
  <2>3. u \in workspaces' => w.pc = "closing" /\ w.task = u /\ w.cloned
    BY <1>1, <1>2, <1>3, <1>13, <2>1 DEF Waited, Kept
  <2> QED BY <1>12, <1>13, <2>1, <2>2, <2>3 DEF Waited
<1>14. ASSUME NEW r \in RunIds' PROVE Finished(r)'
  BY <1>4 DEF IInv, RunsInv, Finished, RunIds, TaskIds
<1> QED BY <1>3, <1>4, <1>7, <1>11, <1>13, <1>14, StepIInv

(* The handling's run is marked, and the loop goes on or to its catch block. *)
LEMMA MarkIInv ==
  ASSUME IInv, NEW d \in Deliveries, handlings[d].pc \in {"closing", "failing"},
         UNCHANGED <<clock, recent, tasks, disk, restarts>>,
         workspaces' = IF handlings[d].pc = "closing"
                         THEN workspaces \ {handlings[d].task} ELSE workspaces,
         NEW status \in {"completed", "failed"},
         status = "completed" => handlings[d].pc = "closing",
         SetRun(handlings[d].run, status) \/ runs' = runs,
         \/ SetRun(handlings[d].run, status) /\ NextAgent(d)
         \/ handlings[d].pc = "closing" /\ Goto(d, "failing")
  PROVE  IInv'
<1>1. PICK h \in Handling : /\ h = handlings[d] /\ Handled(d, h)
                            /\ h.pc \in {"closing", "failing"}
  BY HandlingType
<1>2. PICK r \in RunIds : r = h.run /\ runs[r].handling = d /\ runs[r].agent = h.at
  BY <1>1 DEF Handled, Owns, AtRun, AtTask
<1>3. PICK w \in Handling :
        /\ handlings' = [handlings EXCEPT ![d] = w] /\ Kept(w, h) /\ w.failed = h.failed
        /\ \/ /\ w.pc \in {"looping", "cleaning"} /\ w.at = h.at + 1
              /\ w.pc = "cleaning" => w.at > Len(Agents)
              /\ SetRun(r, status)
           \/ w.pc = "failing" /\ w.at = h.at /\ w.run = h.run
  <2>1. CASE SetRun(handlings[d].run, status) /\ NextAgent(d)
    BY <1>1, <1>2, <2>1, NextAgentStep
  <2>2. CASE Goto(d, "failing")
    BY <1>1, <2>2, GotoStep DEF PCs
  <2> QED BY <2>1, <2>2
<1>4. /\ RunsStay(d) /\ RunIds' = RunIds
      /\ \A q \in RunIds : /\ runs'[q].handling = runs[q].handling
                           /\ runs'[q].agent = runs[q].agent
                           /\ runs'[q].task = runs[q].task
                           /\ q # r => runs'[q] = runs[q]
      /\ runs'[r].status \in {runs[r].status, status}
      /\ SetRun(r, status) => runs'[r].status = status
  <2>1. CASE SetRun(r, status)
    <3>1. runs[r] \in Run
      BY ElementOfSeq DEF IInv, TypeOK, RunIds
    <3>2. PICK row \in Run :
            /\ row.handling = d /\ row.agent = h.at /\ row.task = runs[r].task
            /\ row.status = status /\ runs' = [runs EXCEPT ![r] = row]
      <4> DEFINE row == [runs[r] EXCEPT !.status = status]
      <4>1. /\ row \in Run /\ row.handling = d /\ row.agent = h.at
            /\ row.task = runs[r].task /\ row.status = status
        BY <1>2, <3>1 DEF Run
      <4>2. runs' = [runs EXCEPT ![r] = row]
        BY <2>1 DEF SetRun
      <4> QED BY <4>1, <4>2
    <3>3. TypeOK /\ runs[r].handling = d /\ row \in Run /\ row.handling = d
      BY <1>2, <3>2 DEF IInv
    <3>4. runs' = [runs EXCEPT ![r] = row]
      BY <3>2
    <3>5. /\ RunsStay(d) /\ RunIds' = RunIds
          /\ \A q \in RunIds : runs'[q] = IF q = r THEN row ELSE runs[q]
      BY <1>2, <3>3, <3>4, RunSet DEF RunIds, RunsStay, TypeOK
    <3> QED BY <1>2, <3>2, <3>5
  <2>2. CASE runs' = runs /\ ~SetRun(r, status)
    BY <2>2, RunsUnchanged DEF IInv, RunIds
  <2> QED BY <1>1, <1>2, <2>1, <2>2
<1>5. \A u \in TaskIds : tasks[u].handling = d => u \notin workspaces'
  BY <1>1 DEF IInv, TasksInv, Waited
<1>6. h.pc = "closing" => h.task \in TaskIds /\ tasks[h.task].handling = d
                          /\ tasks[h.task].direct = "over" /\ runs[r].task = h.task
  BY <1>1, <1>2 DEF Handled, Owns, AtTask
<1>7. TasksStay(d) /\ DiskStays(d) /\ Same(w, handlings[d])
  BY <1>1, <1>3, <1>6, TasksUnchanged DEF IInv, TypeOK, DiskStays, TaskIds, Same, Kept
<1>8. Remembered(w)' /\ Cloned(d, w)'
  BY <1>1, <1>3 DEF Handled, Remembered, Cloned, Kept, Key, BeforeClone, AfterClone,
         AtRun, AtTask
<1>9. Owns(d, w)' /\ w.at > 0
  BY <1>1, <1>2, <1>3, <1>4 DEF Handled, Owns, AtRun, AtTask, Handling
<1>10. Looped(d, w)'
  <2>1. h.pc \in AtRun
    BY <1>1 DEF AtRun, AtTask
  <2>2. \/ w.pc \in AtRun /\ w.at = h.at /\ w.run = h.run
        \/ /\ w.pc \in {"looping", "cleaning"} /\ w.at = h.at + 1
           /\ w.pc = "cleaning" => w.at > Len(Agents)
           /\ runs'[h.run].status \in {"skipped", "failed", "completed"}
    BY <1>2, <1>3, <1>4 DEF AtRun
  <2> QED BY <1>1, <1>2, <1>3, <1>4, <2>1, <2>2, LoopedAt
<1>11. Handled(d, w)'
  BY <1>8, <1>9, <1>10 DEF Handled
<1>12. /\ Deliveries' = Deliveries
       /\ \A e \in Deliveries : handlings'[e] = IF e = d THEN w ELSE handlings[e]
  BY <1>3, HandlingSet DEF IInv
<1>13. ASSUME NEW u \in TaskIds', tasks'[u].handling = d PROVE Waited(u)'
  <2>1. u \in TaskIds /\ tasks' = tasks /\ Waited(u)
    BY DEF IInv, TasksInv, TaskIds
  <2>2. tasks[u].direct # "running" /\ u \notin workspaces'
    BY <1>1, <1>5, <1>13, <2>1 DEF Waited
  <2> QED BY <1>12, <1>13, <2>1, <2>2 DEF Waited
<1>14. ASSUME NEW q \in RunIds' PROVE Finished(q)'
  <2>1. Finished(q) /\ q \in RunIds /\ TaskIds' = TaskIds
    BY <1>4 DEF IInv, RunsInv, TaskIds
  <2>2. CASE q # r
    BY <1>4, <2>1, <2>2 DEF Finished
  <2>3. CASE q = r /\ runs'[r].status = runs[r].status
    BY <1>4, <2>1, <2>3 DEF Finished
  <2>4. CASE q = r /\ runs'[r].status = status
    BY <1>1, <1>4, <1>6, <2>1, <2>4 DEF Finished
  <2> QED BY <1>4, <2>2, <2>3, <2>4
<1> QED BY <1>3, <1>4, <1>7, <1>11, <1>13, <1>14, StepIInv

LEMMA CloseIInv ==
  ASSUME IInv, NEW d \in Deliveries, Close(d)
  PROVE  IInv'
<1>1. /\ handlings[d].pc = "closing" /\ UNCHANGED <<clock, recent, tasks, disk, restarts>>
      /\ workspaces' = workspaces \ {handlings[d].task}
  BY DEF Close, At
<1>2. CASE SetRun(handlings[d].run, "completed") /\ (NextAgent(d) \/ Goto(d, "failing"))
  BY <1>1, <1>2, MarkIInv
<1>3. CASE Goto(d, "failing") /\ UNCHANGED runs
  BY <1>1, <1>3, MarkIInv
<1> QED BY <1>2, <1>3 DEF Close

LEMMA FailIInv ==
  ASSUME IInv, NEW d \in Deliveries, Fail(d)
  PROVE  IInv'
<1>1. handlings[d].pc = "failing" /\ UNCHANGED <<clock, recent, tasks, workspaces, disk, restarts>>
  BY DEF Fail, At
<1>2. CASE SetRun(handlings[d].run, "failed") /\ NextAgent(d)
  BY <1>1, <1>2, MarkIInv
<1>3. CASE LeaveLoop(d) /\ UNCHANGED runs
  BY <1>1, <1>3, GiveUpIInv
<1> QED BY <1>2, <1>3 DEF Fail

LEMMA CleanupIInv ==
  ASSUME IInv, NEW d \in Deliveries, Cleanup(d)
  PROVE  IInv'
<1>1. PICK h \in Handling : h = handlings[d] /\ Handled(d, h) /\ h.pc = "cleaning"
  BY HandlingType DEF Cleanup, At
<1>2. PICK w \in Handling :
        /\ handlings' = [handlings EXCEPT ![d] = w] /\ w.at = h.at
        /\ w.event = h.event /\ w.time = h.time /\ w.epoch = h.epoch
        /\ ~w.cloned /\ ~w.failed
        /\ w.pc = IF h.failed THEN "broken" ELSE "ended"
        /\ \/ disk' = disk \ {d}
           \/ disk' = disk /\ w.left
  <2> DEFINE pc == IF h.failed THEN "broken" ELSE "ended"
             over == [h EXCEPT !.pc = pc, !.cloned = FALSE, !.failed = FALSE]
             left == [over EXCEPT !.left = TRUE]
  <2>1. pc \in {"broken", "ended"}
    OBVIOUS
  <2>2. \/ disk' = disk \ {d} /\ handlings' = [handlings EXCEPT ![d] = over]
        \/ disk' = disk /\ handlings' = [handlings EXCEPT ![d] = left]
    BY <1>1 DEF Cleanup
  <2> HIDE DEF pc
  <2>3. /\ over \in Handling /\ over.at = h.at /\ over.event = h.event
        /\ over.time = h.time /\ over.epoch = h.epoch /\ ~over.cloned
        /\ ~over.failed /\ over.pc = pc
    BY <1>1, <2>1 DEF Handling
  <2> HIDE DEF over
  <2>4. /\ left \in Handling /\ left.at = over.at /\ left.event = over.event
        /\ left.time = over.time /\ left.epoch = over.epoch /\ ~left.cloned
        /\ ~left.failed /\ left.pc = over.pc /\ left.left
    BY <2>3 DEF Handling
  <2> HIDE DEF left
  <2> QED BY <2>2, <2>3, <2>4 DEF pc
<1>3. UNCHANGED <<clock, recent, runs, tasks, workspaces, restarts>>
  BY DEF Cleanup
<1>4. RunsStay(d) /\ TasksStay(d) /\ DiskStays(d) /\ Same(w, handlings[d])
  BY <1>1, <1>2, <1>3, RunsUnchanged, TasksUnchanged
     DEF IInv, TypeOK, DiskStays, TaskIds, Same
<1>5. Remembered(w)' /\ Owns(d, w)' /\ w.at > 0
  BY <1>1, <1>2, <1>3 DEF Handled, Remembered, Owns, Key, AtRun, AtTask
<1>6. Cloned(d, w)'
  BY <1>1, <1>2, <1>3 DEF Handled, Cloned, BeforeClone, AfterClone, AtRun, AtTask
<1>7. Looped(d, w)'
  BY <1>1, <1>2, <1>3 DEF Handled, Looped, Passed, RunsOf, RunIds, AtRun, AtTask
<1>8. Handled(d, w)'
  BY <1>5, <1>6, <1>7 DEF Handled
<1>9. /\ Deliveries' = Deliveries
      /\ \A e \in Deliveries : handlings'[e] = IF e = d THEN w ELSE handlings[e]
  BY <1>2, HandlingSet DEF IInv
<1>10. ASSUME NEW t \in TaskIds', tasks'[t].handling = d PROVE Waited(t)'
  BY <1>1, <1>3, <1>9, <1>10 DEF IInv, TasksInv, Waited, TaskIds
<1>11. \A r \in RunIds' : Finished(r)'
  BY <1>3 DEF IInv, RunsInv, Finished, RunIds, TaskIds
<1> QED BY <1>2, <1>3, <1>4, <1>8, <1>10, <1>11, StepIInv

LEMMA HandlingStepIInv ==
  ASSUME IInv, NEW d \in Deliveries, HandlingStep(d)
  PROVE  IInv'
BY ListIInv, MakeDirIInv, CloneIInv, DecideIInv, CreateTaskIInv, LinkIInv,
   ExecutedIInv, CloseIInv, FailIInv, CleanupIInv DEF HandlingStep

-----------------------------------------------------------------------------
(* The other steps *)

LEMMA DeliverIInv ==
  ASSUME IInv, NEW event \in Events, Deliver(event)
  PROVE  IInv'
<1>1. PICK n : n = Len(handlings) + 1 /\ n \in Nat /\ n \notin Deliveries
  BY DEF IInv, TypeOK, Deliveries
<1>2. PICK new \in Handling :
        /\ new.event = event /\ new.time = clock /\ new.epoch = restarts
        /\ new.pc = IF Duplicate(event) THEN "dropped" ELSE "listing"
        /\ new.at = 1 /\ ~new.cloned /\ ~new.failed
        /\ handlings' = Append(handlings, new)
  <2> DEFINE new == [event |-> event, time |-> clock, epoch |-> restarts,
                     pc |-> IF Duplicate(event) THEN "dropped" ELSE "listing",
                     at |-> 1, run |-> 0, task |-> 0,
                     cloned |-> FALSE, failed |-> FALSE, left |-> FALSE]
  <2>1. clock \in Nat /\ restarts \in Nat
    BY DEF IInv, TypeOK
  <2>2. new \in Handling
    BY <2>1 DEF Handling
  <2>3. handlings' = Append(handlings, new)
    BY DEF Deliver
  <2> QED BY <2>2, <2>3
<1>3. /\ UNCHANGED <<clock, runs, tasks, workspaces, disk, restarts>>
      /\ recent' = IF Duplicate(event) THEN Unexpired
                   ELSE Unexpired \cup {[key |-> Key(event), time |-> clock]}
  BY DEF Deliver
<1>4. /\ handlings' \in Seq(Handling) /\ Deliveries' = Deliveries \cup {n}
      /\ handlings'[n] = new /\ \A d \in Deliveries : handlings'[d] = handlings[d]
  <2>1. handlings \in Seq(Handling)
    BY DEF IInv, TypeOK
  <2>2. /\ handlings' \in Seq(Handling) /\ Len(handlings') = Len(handlings) + 1
        /\ \A d \in 1 .. Len(handlings) : handlings'[d] = handlings[d]
        /\ handlings'[Len(handlings) + 1] = new
    BY <1>2, <2>1, AppendProperties
  <2> QED BY <1>1, <2>1, <2>2 DEF Deliveries
<1>5. TypeOK'
  <2>1. recent' \subseteq [key : {"HEAD"} \X {e.type : e \in Events}, time : Nat]
    BY <1>3 DEF IInv, TypeOK, Unexpired, Key
  <2> QED BY <1>3, <1>4, <2>1 DEF IInv, TypeOK, TaskIds
<1>6. HandlingsInv'
  <2>1. ASSUME NEW d \in Deliveries PROVE Handled(d, handlings[d])'
    <3>1. PICK h \in Handling : h = handlings[d] /\ Handled(d, h)
      BY HandlingType
    <3>2. Remembered(h)'
      <4>1. SUFFICES ASSUME h.pc # "dropped", h.epoch = restarts, clock - h.time <= Window
                     PROVE  [key |-> Key(h.event), time |-> h.time] \in recent'
        BY <1>3, <3>1 DEF Handled, Remembered, Key
      <4>2. [key |-> Key(h.event), time |-> h.time] \in Unexpired
        BY <3>1, <4>1 DEF Handled, Remembered, Unexpired
      <4> QED BY <1>3, <4>2
    <3>3. (Cloned(d, h) /\ Owns(d, h) /\ Looped(d, h))' /\ h.at > 0
      BY <1>3, <3>1
         DEF Handled, Cloned, Owns, Looped, Passed, RunsOf, RunIds, TaskIds
    <3>4. Handled(d, h)'
      BY <3>2, <3>3 DEF Handled
    <3> QED BY <1>4, <3>1, <3>4
  <2>2. Handled(n, new)'
    <3>1. Remembered(new)'
      BY <1>2, <1>3 DEF IInv, TypeOK, Remembered, Key
    <3>2. Cloned(n, new)' /\ Owns(n, new)' /\ new.at > 0
      BY <1>1, <1>2, <1>3 
         DEF IInv, TypeOK, Cloned, Owns, BeforeClone, AfterClone, AtRun, AtTask
    <3>3. RunsOf(n)' = {}
      BY <1>1, <1>3 DEF IInv, RunsInv, RunsOf, RunIds
    <3>4. Passed(new)' = {}
      BY <1>2, GitAssumption DEF Passed, ActiveAgents, AtRun, AtTask
    <3>5. Looped(n, new)'
      BY <1>2, <3>3, <3>4 DEF Looped
    <3> QED BY <3>1, <3>2, <3>5 DEF Handled
  <2> QED BY <1>4, <2>1, <2>2 DEF HandlingsInv
<1>7. TasksInv'
  BY <1>3, <1>4 DEF IInv, TasksInv, Waited, TaskIds
<1>8. RunsInv'
  BY <1>3, <1>4 DEF IInv, RunsInv, Finished, RunIds, TaskIds
<1>9. WithinWindowOnce'
  <2>1. ASSUME NEW d \in Deliveries, Key(handlings[d].event) = Key(event),
               handlings[d].pc # "dropped", new.pc # "dropped",
               handlings[d].epoch = restarts
        PROVE  clock - handlings[d].time > Window
    <3>1. PICK h \in Handling : h = handlings[d] /\ Remembered(h)
      BY HandlingType DEF Handled
    <3>0. clock \in Nat /\ h.time \in Nat /\ Window \in Nat
      BY GitAssumption DEF IInv, TypeOK, Handling
    <3>2. SUFFICES ASSUME clock - h.time <= Window PROVE FALSE
      BY <3>0, <3>1
    <3>3. [key |-> Key(h.event), time |-> h.time] \in Unexpired
      BY <2>1, <3>1, <3>2 DEF Remembered, Unexpired
    <3>4. Duplicate(event)
      BY <2>1, <3>1, <3>3 DEF Duplicate
    <3> QED BY <1>2, <2>1, <3>4
  <2>2. \A d \in Deliveries : d \in Nat /\ d < n
    BY <1>1 DEF IInv, TypeOK, Deliveries
  <2>3. ASSUME NEW d \in Deliveries', NEW e \in Deliveries', d < e,
               Key(handlings'[d].event) = Key(handlings'[e].event),
               handlings'[d].pc # "dropped", handlings'[e].pc # "dropped",
               handlings'[d].epoch = handlings'[e].epoch
        PROVE  handlings'[e].time - handlings'[d].time > Window
    <3>1. d \in Deliveries
      BY <1>1, <1>4, <2>2, <2>3
    <3>2. CASE e = n
      BY <1>2, <1>4, <2>1, <2>3, <3>1, <3>2
    <3>3. CASE e \in Deliveries
      BY <1>4, <2>3, <3>1, <3>3 DEF IInv, WithinWindowOnce
    <3> QED BY <1>4, <3>2, <3>3
  <2> QED BY <2>3 DEF WithinWindowOnce, Key
<1> QED BY <1>5, <1>6, <1>7, <1>8, <1>9 DEF IInv

LEMMA TickIInv ==
  ASSUME IInv, Tick
  PROVE  IInv'
<1>1. /\ clock' = clock + 1 /\ clock \in Nat
      /\ UNCHANGED <<recent, handlings, runs, tasks, workspaces, disk, restarts>>
  BY DEF IInv, TypeOK, Tick
<1>2. TypeOK'
  BY <1>1 DEF IInv, TypeOK, TaskIds, Deliveries
<1>3. HandlingsInv'
  <2>1. ASSUME NEW d \in Deliveries PROVE Handled(d, handlings[d])'
    <3>1. PICK h \in Handling : h = handlings[d] /\ Handled(d, h)
      BY HandlingType
    <3>2. h.time \in Nat
      BY DEF Handling
    <3>3. Remembered(h)'
      BY <1>1, <3>1, <3>2, GitAssumption DEF Handled, Remembered, Key
    <3>4. (Cloned(d, h) /\ Owns(d, h) /\ Looped(d, h))' /\ h.at > 0
      BY <1>1, <3>1
         DEF Handled, Cloned, Owns, Looped, Passed, RunsOf, RunIds, TaskIds
    <3>5. Handled(d, h)'
      BY <3>3, <3>4 DEF Handled
    <3> QED BY <1>1, <3>1, <3>5
  <2> QED BY <1>1, <2>1 DEF HandlingsInv, Deliveries
<1>4. TasksInv' /\ RunsInv' /\ WithinWindowOnce'
  BY <1>1 DEF IInv, TasksInv, Waited, RunsInv, Finished, WithinWindowOnce,
              TaskIds, RunIds, Deliveries, Key
<1> QED BY <1>2, <1>3, <1>4 DEF IInv

LEMMA FunctionIsSeq ==
  ASSUME NEW S, NEW n \in Nat, NEW f \in [1 .. n -> S]
  PROVE  f \in Seq(S) /\ Len(f) = n
OBVIOUS

(* A restart leaves rows and directories, and stops every handling at work. *)
LEMMA RestartIInv ==
  ASSUME IInv, Restart
  PROVE  IInv'
<1>1. /\ restarts' = restarts + 1 /\ recent' = {} /\ workspaces' = {}
      /\ handlings' = [d \in Deliveries |-> Stopped(d)]
      /\ tasks' = [t \in TaskIds |-> Recovered(tasks[t])]
      /\ UNCHANGED <<clock, runs, disk>> /\ restarts \in Nat
  BY DEF IInv, TypeOK, Restart
<1>2. ASSUME NEW d \in Deliveries, NEW h \in Handling, h = handlings[d]
      PROVE  /\ Stopped(d) \in Handling /\ Stopped(d).event = h.event
             /\ Stopped(d).time = h.time /\ Stopped(d).epoch = h.epoch
             /\ Stopped(d).at = h.at
             /\ h.pc \in {"dropped", "ended", "broken"} => Stopped(d) = h
             /\ h.pc \notin {"dropped", "ended", "broken"} =>
                  Stopped(d).pc = "stopped" /\ Stopped(d).left = (d \in disk)
  <2> DEFINE left == d \in disk
  <2>1. /\ Stopped(d) = IF h.pc \in {"dropped", "ended", "broken"} THEN h
                        ELSE [h EXCEPT !.pc = "stopped", !.left = left,
                                       !.cloned = FALSE, !.failed = FALSE]
        /\ left \in BOOLEAN
    BY <1>2 DEF Stopped
  <2> HIDE DEF left
  <2>2. CASE h.pc \in {"dropped", "ended", "broken"}
    BY <2>1, <2>2
  <2>3. CASE h.pc \notin {"dropped", "ended", "broken"}
    <3>1. Stopped(d) = [h EXCEPT !.pc = "stopped", !.left = left,
                                 !.cloned = FALSE, !.failed = FALSE]
      BY <2>1, <2>3
    <3>2. /\ Stopped(d) \in Handling /\ Stopped(d).event = h.event
          /\ Stopped(d).time = h.time /\ Stopped(d).epoch = h.epoch
          /\ Stopped(d).at = h.at /\ Stopped(d).pc = "stopped" /\ Stopped(d).left = left
      BY <2>1, <3>1 DEF Handling
    <3> QED BY <2>3, <3>2 DEF left
  <2> QED BY <2>2, <2>3
<1>3. ASSUME NEW row \in Task
      PROVE  /\ Recovered(row) \in Task /\ Recovered(row).handling = row.handling
             /\ Recovered(row).direct = "over" /\ "direct" \notin Recovered(row).mounts
  <2> DEFINE status == IF row.status = "running" THEN "failed" ELSE row.status
             mounts == IF row.mounts = {} THEN {} ELSE {"other"}
  <2>1. status \in {"pending", "running", "completed", "failed"} /\ mounts \subseteq {"other"}
    BY DEF Task
  <2>2. Recovered(row) = [row EXCEPT !.status = status, !.direct = "over", !.worker = "none",
                                     !.listed = FALSE, !.mounts = mounts]
    BY DEF Recovered, Task
  <2> HIDE DEF status, mounts
  <2> QED BY <2>1, <2>2 DEF Task
<1>4. /\ handlings' \in Seq(Handling) /\ Deliveries' = Deliveries
      /\ \A d \in Deliveries : handlings'[d] = Stopped(d)
  <2>1. \A d \in Deliveries : handlings[d] \in Handling
    BY HandlingType
  <2>2. Deliveries = 1 .. Len(handlings) /\ Len(handlings) \in Nat
    BY DEF IInv, TypeOK, Deliveries
  <2>3. handlings' \in [1 .. Len(handlings) -> Handling]
    BY <1>1, <1>2, <2>1, <2>2
  <2>4. handlings' \in Seq(Handling) /\ Len(handlings') = Len(handlings)
    BY <2>2, <2>3, FunctionIsSeq
  <2> QED BY <1>1, <2>4 DEF Deliveries
<1>5. /\ tasks' \in Seq(Task) /\ TaskIds' = TaskIds
      /\ \A t \in TaskIds : /\ tasks'[t].handling = tasks[t].handling
                            /\ tasks'[t].direct = "over"
                            /\ "direct" \notin tasks'[t].mounts
  <2>1. \A t \in TaskIds : tasks[t] \in Task
    BY ElementOfSeq DEF IInv, TypeOK, TaskIds
  <2>2. TaskIds = 1 .. Len(tasks) /\ Len(tasks) \in Nat
    BY DEF IInv, TypeOK, TaskIds
  <2>3. tasks' \in [1 .. Len(tasks) -> Task]
    BY <1>1, <1>3, <2>1, <2>2
  <2>4. tasks' \in Seq(Task) /\ Len(tasks') = Len(tasks)
    BY <2>2, <2>3, FunctionIsSeq
  <2>5. TaskIds' = TaskIds
    BY <2>4 DEF TaskIds
  <2> QED BY <1>1, <1>3, <2>1, <2>4, <2>5
<1>6. TypeOK'
  BY <1>1, <1>4, <1>5 DEF IInv, TypeOK
<1>7. HandlingsInv'
  <2>1. ASSUME NEW d \in Deliveries PROVE Handled(d, handlings[d])'
    <3>1. PICK h \in Handling : h = handlings[d] /\ Handled(d, h)
      BY HandlingType
    <3>2. PICK w \in Handling : w = Stopped(d)
      BY <1>2, <3>1
    <3>3. Remembered(w)' /\ w.at > 0
      BY <1>1, <1>2, <3>1, <3>2 DEF Handled, Remembered, Handling
    <3>4. w.pc \in {"dropped", "ended", "broken", "stopped"}
      BY <1>2, <3>1, <3>2
    <3>5. Cloned(d, w)' /\ Owns(d, w)'
      BY <1>1, <1>2, <3>1, <3>2, <3>4
         DEF Handled, Cloned, Owns, BeforeClone, AfterClone, AtRun, AtTask
    <3>6. Looped(d, w)'
      BY <1>1, <1>2, <3>1, <3>2 DEF Handled, Looped, Passed, RunsOf, RunIds
    <3>7. Handled(d, w)'
      BY <3>3, <3>5, <3>6 DEF Handled
    <3> QED BY <1>4, <3>1, <3>2, <3>7
  <2> QED BY <1>4, <2>1 DEF HandlingsInv
<1>8. TasksInv'
  BY <1>1, <1>4, <1>5 DEF IInv, TasksInv, Waited
<1>9. RunsInv'
  BY <1>1, <1>4, <1>5 DEF IInv, RunsInv, Finished, RunIds
<1>10. WithinWindowOnce'
  <2>1. \A d \in Deliveries : Same(handlings'[d], handlings[d])
    BY <1>2, <1>4, HandlingType DEF Same
  <2> QED BY <1>4, <2>1, WindowFrame DEF IInv
<1> QED BY <1>6, <1>7, <1>8, <1>9, <1>10 DEF IInv

(* A task's row changes: the execution that the handling waits for may end, *)
(* and a round may mount the registered clone.                              *)
LEMMA RowIInv ==
  ASSUME IInv, NEW t \in TaskIds, NEW row \in Task,
         tasks' = [tasks EXCEPT ![t] = row],
         UNCHANGED <<clock, recent, handlings, runs, workspaces, disk, restarts>>,
         row.handling = tasks[t].handling,
         \/ row.direct = tasks[t].direct
         \/ tasks[t].direct = "running" /\ row.direct = "over" /\ "direct" \notin row.mounts,
         "direct" \in row.mounts =>
           \/ "direct" \in tasks[t].mounts
           \/ tasks[t].direct = "running" /\ t \in workspaces
  PROVE  IInv'
<1>1. /\ tasks' \in Seq(Task) /\ TaskIds' = TaskIds
      /\ \A u \in TaskIds : tasks'[u] = IF u = t THEN row ELSE tasks[u]
  BY TaskSet DEF IInv
<1>2. TypeOK'
  BY <1>1 DEF IInv, TypeOK, Deliveries
<1>3. \A u \in TaskIds : /\ tasks'[u].handling = tasks[u].handling
                         /\ tasks[u].direct = "none" => tasks'[u].direct = "none"
                         /\ tasks[u].direct = "over" => tasks'[u].direct = "over"
  BY <1>1
<1>4. HandlingsInv'
  <2>1. ASSUME NEW d \in Deliveries PROVE Handled(d, handlings[d])'
    <3>1. PICK h \in Handling : h = handlings[d] /\ Handled(d, h)
      BY HandlingType
    <3>2. (Remembered(h) /\ Cloned(d, h) /\ Looped(d, h))' /\ h.at > 0
      BY <3>1 DEF Handled, Remembered, Cloned, Looped, Passed, RunsOf, RunIds
    <3>3. Owns(d, h)'
      BY <1>1, <1>3, <3>1 DEF Handled, Owns, RunIds, AtRun, AtTask
    <3>4. Handled(d, h)'
      BY <3>2, <3>3 DEF Handled
    <3> QED BY <3>1, <3>4
  <2> QED BY <2>1 DEF HandlingsInv, Deliveries
<1>5. TasksInv'
  <2>1. ASSUME NEW u \in TaskIds, u # t PROVE Waited(u)'
    BY <1>1, <2>1 DEF IInv, TasksInv, Waited, Deliveries
  <2>2. Waited(t)'
    BY <1>1 DEF IInv, TasksInv, Waited, Deliveries
  <2> QED BY <1>1, <2>1, <2>2 DEF TasksInv
<1>6. RunsInv' /\ WithinWindowOnce'
  BY <1>1, <1>3 DEF IInv, RunsInv, Finished, WithinWindowOnce, RunIds, Deliveries, Key
<1> QED BY <1>2, <1>4, <1>5, <1>6 DEF IInv

LEMMA LaunchIInv ==
  ASSUME IInv, NEW t \in TaskIds, Launch(t)
  PROVE  IInv'
<1> DEFINE row == [tasks[t] EXCEPT !.worker = "running", !.listed = FALSE]
<1>1. tasks[t] \in Task /\ t \in DOMAIN tasks
  BY ElementOfSeq DEF IInv, TypeOK, TaskIds
<1>2. /\ row \in Task /\ row.handling = tasks[t].handling
      /\ row.direct = tasks[t].direct /\ row.mounts = tasks[t].mounts
  BY <1>1 DEF Task
<1>3. /\ tasks' = [tasks EXCEPT ![t] = row]
      /\ UNCHANGED <<clock, recent, handlings, runs, workspaces, disk, restarts>>
  BY <1>1 DEF Launch
<1> HIDE DEF row
<1> QED BY <1>2, <1>3, RowIInv

LEMMA ContainerEndsIInv ==
  ASSUME IInv, NEW t \in TaskIds, ContainerEnds(t)
  PROVE  IInv'
<1> DEFINE mounts == tasks[t].mounts \ {"other"}
           row == [tasks[t] EXCEPT !.mounts = mounts]
<1>1. tasks[t] \in Task /\ t \in DOMAIN tasks
  BY ElementOfSeq DEF IInv, TypeOK, TaskIds
<1>2. mounts \subseteq tasks[t].mounts /\ mounts \subseteq {"direct", "other"}
  BY <1>1 DEF Task
<1>3. /\ tasks' = [tasks EXCEPT ![t] = row]
      /\ UNCHANGED <<clock, recent, handlings, runs, workspaces, disk, restarts>>
  BY <1>1 DEF ContainerEnds
<1> HIDE DEF mounts
<1>4. /\ row \in Task /\ row.handling = tasks[t].handling
      /\ row.direct = tasks[t].direct /\ row.mounts = mounts
  BY <1>1, <1>2 DEF Task
<1> HIDE DEF row
<1> QED BY <1>2, <1>3, <1>4, RowIInv

LEMMA RoundIInv ==
  ASSUME IInv, NEW t \in TaskIds, NEW who \in {"direct", "worker"}, Round(t, who)
  PROVE  IInv'
<1> DEFINE mounts == IF t \notin workspaces THEN tasks[t].mounts \ {who}
                     ELSE tasks[t].mounts \cup {IF who = "direct" THEN who ELSE "other"}
           row == [tasks[t] EXCEPT !.status = "running", !.mounts = mounts]
<1>1. tasks[t] \in Task /\ t \in DOMAIN tasks
  BY ElementOfSeq DEF IInv, TypeOK, TaskIds
<1>2. mounts \subseteq {"direct", "other"}
  BY <1>1 DEF Task
<1>3. "direct" \in mounts =>
        \/ "direct" \in tasks[t].mounts
        \/ tasks[t].direct = "running" /\ t \in workspaces
  <2>1. CASE who = "direct"
    BY <2>1 DEF Round
  <2>2. CASE who = "worker"
    BY <2>2
  <2> QED BY <2>1, <2>2
<1>4. tasks' = [tasks EXCEPT ![t] = row]
  BY <1>1 DEF Round
<1> HIDE DEF mounts
<1>5. /\ row \in Task /\ row.handling = tasks[t].handling
      /\ row.direct = tasks[t].direct /\ row.mounts = mounts
  BY <1>1, <1>2 DEF Task
<1>6. UNCHANGED <<clock, recent, handlings, runs, workspaces, disk, restarts>>
  BY DEF Round
<1> HIDE DEF row
<1> QED BY <1>3, <1>4, <1>5, <1>6, RowIInv

LEMMA EndExecutionIInv ==
  ASSUME IInv, NEW t \in TaskIds, NEW who \in {"direct", "worker"}, EndExecution(t, who)
  PROVE  IInv'
<1> DEFINE end == IF who = "direct" THEN "over" ELSE "none"
           over == [tasks[t] EXCEPT ![who] = end]
           row(status, mounts) == [over EXCEPT !.status = status, !.mounts = mounts]
<1>1. tasks[t] \in Task /\ t \in DOMAIN tasks
  BY ElementOfSeq DEF IInv, TypeOK, TaskIds
<1>2. PICK status \in {"completed", "failed", tasks[t].status},
           mounts \in {tasks[t].mounts \ {who}, (tasks[t].mounts \ {who}) \cup {"other"}} :
        tasks' = [tasks EXCEPT ![t] = row(status, mounts)]
  <2>1. CASE \E status \in {"completed", "failed", tasks[t].status} :
               tasks' = [tasks EXCEPT ![t][who] = end, ![t].status = status,
                                      ![t].mounts = @ \ {who}]
    <3>1. PICK status \in {"completed", "failed", tasks[t].status} :
            tasks' = [tasks EXCEPT ![t][who] = end, ![t].status = status,
                                   ![t].mounts = tasks[t].mounts \ {who}]
      BY <2>1
    <3>2. tasks' = [tasks EXCEPT ![t] = row(status, tasks[t].mounts \ {who})]
      BY <1>1, <3>1
    <3> QED BY <3>2
  <2>2. CASE \E status \in {"failed", tasks[t].status} :
               tasks' = [tasks EXCEPT ![t][who] = end, ![t].status = status,
                                      ![t].mounts = (@ \ {who}) \cup {"other"}]
    BY <1>1, <2>2
  <2> QED BY <2>1, <2>2 DEF EndExecution
<1>3. status \in {"pending", "running", "completed", "failed"}
  BY <1>1, <1>2 DEF Task
<1>4. /\ over \in Task /\ over.handling = tasks[t].handling
      /\ over.mounts = tasks[t].mounts
      /\ over.direct = IF who = "direct" THEN "over" ELSE tasks[t].direct
  <2>1. CASE who = "direct"
    <3>1. over = [tasks[t] EXCEPT !.direct = "over"]
      BY <2>1
    <3> HIDE DEF over
    <3> QED BY <1>1, <2>1, <3>1 DEF Task
  <2>2. CASE who = "worker"
    <3>1. over = [tasks[t] EXCEPT !.worker = "none"]
      BY <2>2
    <3> HIDE DEF over
    <3> QED BY <1>1, <2>2, <3>1 DEF Task
  <2> QED BY <2>1, <2>2
<1> HIDE DEF over
<1>5. /\ mounts \subseteq {"direct", "other"}
      /\ "direct" \in mounts => who # "direct" /\ "direct" \in tasks[t].mounts
  BY <1>1, <1>2 DEF Task
<1>6. PICK new \in Task :
        /\ tasks' = [tasks EXCEPT ![t] = new] /\ new.handling = over.handling
        /\ new.direct = over.direct /\ new.mounts = mounts
  <2>1. /\ row(status, mounts) \in Task /\ row(status, mounts).handling = over.handling
        /\ row(status, mounts).direct = over.direct /\ row(status, mounts).mounts = mounts
    BY <1>3, <1>4, <1>5 DEF Task
  <2> QED BY <1>2, <2>1
<1>7. UNCHANGED <<clock, recent, handlings, runs, workspaces, disk, restarts>>
  BY DEF EndExecution
<1>8. who = "direct" => tasks[t].direct = "running"
  BY DEF EndExecution
<1> QED BY <1>4, <1>5, <1>6, <1>7, <1>8, RowIInv

(* A pass of the worker only marks rows as listed.                          *)
LEMMA PollIInv ==
  ASSUME IInv, Poll
  PROVE  IInv'
<1>1. UNCHANGED <<clock, recent, handlings, runs, workspaces, disk, restarts>>
  BY DEF Poll
<1>2. ASSUME NEW t \in TaskIds
      PROVE  /\ tasks'[t] \in Task /\ tasks'[t].handling = tasks[t].handling
             /\ tasks'[t].direct = tasks[t].direct /\ tasks'[t].mounts = tasks[t].mounts
  <2> DEFINE listed == tasks[t].status = "pending"
  <2>1. tasks[t] \in Task /\ tasks'[t] = [tasks[t] EXCEPT !.listed = listed]
    BY ElementOfSeq DEF IInv, TypeOK, TaskIds, Poll
  <2>2. listed \in BOOLEAN
    OBVIOUS
  <2> HIDE DEF listed
  <2> QED BY <2>1, <2>2 DEF Task
<1>3. tasks' \in Seq(Task) /\ TaskIds' = TaskIds
  <2>1. TaskIds = 1 .. Len(tasks) /\ Len(tasks) \in Nat
    BY DEF IInv, TypeOK, TaskIds
  <2>2. tasks' \in [1 .. Len(tasks) -> Task]
    BY <1>2, <2>1 DEF Poll
  <2>3. tasks' \in Seq(Task) /\ Len(tasks') = Len(tasks)
    BY <2>1, <2>2, FunctionIsSeq
  <2> QED BY <2>3 DEF TaskIds
<1>4. TypeOK'
  BY <1>1, <1>3 DEF IInv, TypeOK, Deliveries
<1>5. HandlingsInv'
  <2>1. ASSUME NEW d \in Deliveries PROVE Handled(d, handlings[d])'
    <3>1. PICK h \in Handling : h = handlings[d] /\ Handled(d, h)
      BY HandlingType
    <3>2. (Remembered(h) /\ Cloned(d, h) /\ Looped(d, h))' /\ h.at > 0
      BY <1>1, <3>1 DEF Handled, Remembered, Cloned, Looped, Passed, RunsOf, RunIds
    <3>3. Owns(d, h)'
      BY <1>1, <1>2, <1>3, <3>1 DEF Handled, Owns, RunIds, AtRun, AtTask
    <3>4. Handled(d, h)'
      BY <3>2, <3>3 DEF Handled
    <3> QED BY <1>1, <3>1, <3>4
  <2> QED BY <1>1, <2>1 DEF HandlingsInv, Deliveries
<1>6. TasksInv'
  BY <1>1, <1>2, <1>3 DEF IInv, TasksInv, Waited, Deliveries
<1>7. RunsInv' /\ WithinWindowOnce'
  BY <1>1, <1>2, <1>3
     DEF IInv, RunsInv, Finished, WithinWindowOnce, RunIds, Deliveries, Key
<1> QED BY <1>4, <1>5, <1>6, <1>7 DEF IInv

LEMMA StutterIInv ==
  ASSUME IInv, UNCHANGED vars
  PROVE  IInv'
<1>1. TypeOK' /\ TasksInv' /\ RunsInv' /\ WithinWindowOnce'
  BY DEF IInv, TypeOK, TasksInv, Waited, RunsInv, Finished, WithinWindowOnce,
         TaskIds, RunIds, Deliveries, Key, vars
<1>2. ASSUME NEW d \in Deliveries PROVE Handled(d, handlings[d])'
  <2>1. PICK h \in Handling : h = handlings[d] /\ Handled(d, h)
    BY HandlingType
  <2>2. (Remembered(h) /\ Cloned(d, h))' /\ h.at > 0
    BY <2>1 DEF vars, Handled, Remembered, Cloned, Key
  <2>3. (Owns(d, h) /\ Looped(d, h))'
    BY <2>1 DEF vars, Handled, Owns, Looped, Passed, RunsOf, RunIds, TaskIds
  <2>4. Handled(d, h)'
    BY <2>2, <2>3 DEF Handled
  <2> QED BY <2>1, <2>4 DEF vars
<1>3. Deliveries' = Deliveries
  BY DEF vars, Deliveries
<1> QED BY <1>1, <1>2, <1>3 DEF IInv, HandlingsInv

LEMMA InitIInv == Init => IInv
<1> SUFFICES ASSUME Init PROVE IInv
  OBVIOUS
<1>1. TypeOK /\ Deliveries = {} /\ RunIds = {} /\ TaskIds = {}
  BY DEF Init, TypeOK, Deliveries, RunIds, TaskIds
<1> QED BY <1>1 DEF IInv, HandlingsInv, TasksInv, RunsInv, WithinWindowOnce

LEMMA NextIInv == IInv /\ [Next]_vars => IInv'
<1> SUFFICES ASSUME IInv, [Next]_vars PROVE IInv'
  OBVIOUS
<1>1. ASSUME NEW t \in TaskIds, TaskStep(t) PROVE IInv'
  BY <1>1, LaunchIInv, ContainerEndsIInv, RoundIInv, EndExecutionIInv DEF TaskStep
<1> QED BY <1>1, DeliverIInv, TickIInv, RestartIInv, PollIInv, HandlingStepIInv, StutterIInv DEF Next

LEMMA Invariance == Spec => []IInv
BY InitIInv, NextIInv, PTL DEF Spec

-----------------------------------------------------------------------------
(* Theorems *)

(* The states of the handling of webhooks, its rows and its clones are      *)
(* well-formed: a registration is of a task, a directory of a delivery.     *)
THEOREM TypeCorrect == Spec => []TypeOK
BY Invariance, PTL DEF IInv

(* A key is accepted once in its window, however deliveries, the expiry of  *)
(* keys and restarts interleave (isDuplicateWebhook): what was accepted is  *)
(* remembered until its window is over.                                     *)
THEOREM AcceptedOncePerWindow == Spec => []WithinWindowOnce
BY Invariance, PTL DEF IInv

LEMMA IInvMounted == IInv => MountedCloneExists
<1> SUFFICES ASSUME IInv, NEW t \in TaskIds, t \in workspaces \/ "direct" \in tasks[t].mounts
             PROVE  tasks[t].handling \in disk
  BY DEF MountedCloneExists
<1>1. Waited(t) /\ tasks[t].handling \in Deliveries
  BY DEF IInv, TasksInv, Waited
<1>2. PICK d \in Deliveries : d = tasks[t].handling
  BY <1>1
<1>3. Cloned(d, handlings[d])
  BY HandlingType DEF Handled
<1> QED BY <1>1, <1>2, <1>3 DEF Waited, Cloned, AfterClone, AtRun, AtTask

(* A clone that rounds are about to mount, or that a container has mounted  *)
(* which the handling's own execution waits for, is on disk: registration   *)
(* and removal are nested in the finally blocks in the right order          *)
(* (registerRepoWorkspace, cleanup).                                        *)
THEOREM MountedClonesExist == Spec => []MountedCloneExists
BY Invariance, IInvMounted, PTL

LEMMA IInvClones == IInv => ClonesAccounted
<1> SUFFICES ASSUME IInv, NEW d \in disk
             PROVE  \/ handlings[d].left
                    \/ handlings[d].pc \notin {"dropped", "ended", "broken", "stopped"}
  BY DEF ClonesAccounted
<1>1. d \in Deliveries
  BY DEF IInv, TypeOK
<1>2. Cloned(d, handlings[d])
  BY <1>1, HandlingType DEF Handled
<1> QED BY <1>2 DEF Cloned, AfterClone, AtRun, AtTask

(* No directory is left behind but by a removal that failed or a restart,   *)
(* also when git is at work or has failed (mkdtemp and cleanup in cloneRepo *)
(* and the cleanup of the outer finally).                                   *)
THEOREM ClonesAreAccounted == Spec => []ClonesAccounted
BY Invariance, IInvClones, PTL

LEMMA IInvCompleted == IInv => CompletedAfterExecution
BY DEF IInv, RunsInv, Finished, CompletedAfterExecution

(* A run marked completed has the execution it was waiting for behind it,   *)
(* after restarts too (processGitWebhook awaits executeTask).               *)
THEOREM CompletedAfterTheExecution == Spec => []CompletedAfterExecution
BY Invariance, IInvCompleted, PTL

LEMMA IInvAccounted == IInv => EndedHandlingsAccounted
<1> SUFFICES ASSUME IInv, NEW d \in Deliveries, handlings[d].pc = "ended"
             PROVE  /\ \A r \in RunsOf(d) :
                         runs[r].status \in {"skipped", "failed", "completed"}
                    /\ \A a \in ActiveAgents :
                         Cardinality({r \in RunsOf(d) : runs[r].agent = a}) = 1
                    /\ {runs[r].agent : r \in RunsOf(d)} = ActiveAgents
  BY DEF EndedHandlingsAccounted
<1>1. PICK h \in Handling : h = handlings[d] /\ Handled(d, h) /\ h.pc = "ended"
  BY HandlingType
<1>2. /\ \A r \in RunsOf(d) : /\ runs[r].agent \in Passed(h)
                              /\ runs[r].status \in {"skipped", "failed", "completed"}
      /\ \A r, q \in RunsOf(d) : runs[r].agent = runs[q].agent => r = q
      /\ \A a \in Passed(h) : \E r \in RunsOf(d) : runs[r].agent = a
      /\ h.at > Len(Agents)
  BY <1>1 DEF Handled, Cloned, Looped, AtRun, AtTask
<1>3. Passed(h) = ActiveAgents
  <2>1. h.at \in Nat /\ Len(Agents) \in Nat /\ \A a \in ActiveAgents : a \in 1 .. Len(Agents)
    BY GitAssumption DEF ActiveAgents, Handling
  <2> QED BY <1>1, <1>2, <2>1 DEF Passed, AtRun, AtTask
<1>4. ASSUME NEW a \in ActiveAgents
      PROVE  Cardinality({r \in RunsOf(d) : runs[r].agent = a}) = 1
  <2>1. PICK r \in RunsOf(d) : runs[r].agent = a
    BY <1>2, <1>3
  <2>2. {q \in RunsOf(d) : runs[q].agent = a} = {r}
    BY <1>2, <2>1
  <2> QED BY <2>2, FS_Singleton
<1>5. {runs[r].agent : r \in RunsOf(d)} = ActiveAgents
  BY <1>2, <1>3
<1> QED BY <1>2, <1>4, <1>5

(* A handling that ends without an error leaves exactly one closed run for  *)
(* every active agent, whichever way each agent took through the loop       *)
(* (processGitWebhook).                                                     *)
THEOREM HandlingsAreAccounted == Spec => []EndedHandlingsAccounted
BY Invariance, IInvAccounted, PTL
=============================================================================
