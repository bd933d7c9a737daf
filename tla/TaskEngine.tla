----------------------------- MODULE TaskEngine -----------------------------
(***************************************************************************)
(* The task engine of NanoOrch: the task table, the queue worker that      *)
(* polls it (server/engine/queue.ts), the calls of executeTask that the    *)
(* worker, request handlers, retries and parent agents make                *)
(* (server/engine/executor.ts and its two sandbox variants), the pause     *)
(* switch of an orchestrator and the restart of the server process.        *)
(*                                                                         *)
(* One action is one synchronous stretch of the event loop: from the       *)
(* return of an await to the next await that matters.  What the model      *)
(* calls a call is one invocation of executeTask; several calls may be     *)
(* alive for the same row of the table, because nothing in the code claims *)
(* a row before running it.                                                *)
(***************************************************************************)
EXTENDS Naturals, Sequences, FiniteSets

CONSTANTS
  Orchs,           \* orchestrators
  Calls,           \* slots for live invocations of executeTask
  NoCall,          \* "no parent call"
  MaxConcurrency,  \* maxConcurrency of each orchestrator
  MaxRetries,      \* maxRetries of each orchestrator
  Priorities,      \* task priorities in use (a lower number goes first)
  Backends,        \* where tasks run: "inprocess", "docker" or "k3s"
  Entries,         \* how tasks enter: "queue", "direct"
  FaultPoints,     \* awaits that may reject: "call", "post", "catch",
                   \* "poll", "retry"
  MaxTasks,        \* bound: rows present when a task is submitted or spawned
                   \* (retries add rows past it, up to maxRetries)
  MaxFaults,       \* bound: rejected awaits
  MaxPauses,       \* bound: pauses of an orchestrator
  MaxCrashes       \* bound: process crashes

ASSUME EngineAssumption ==
  /\ MaxConcurrency \in [Orchs -> Nat]
  /\ MaxRetries \in [Orchs -> Nat]
  /\ Priorities \subseteq Nat
  /\ Backends \subseteq {"inprocess", "docker", "k3s"}
  /\ NoCall \notin Calls
  /\ MaxTasks \in Nat

VARIABLES
  tasks,      \* the table, rows in creation order
  call,       \* the invocations of executeTask
  running,    \* keys of the worker's runningTasks map
  worker,     \* control point of processQueue; "off" while the server is down
  snapshot,   \* rows of the last poll not considered yet
  candidate,  \* row whose orchestrator was just read
  paused,     \* orchestrators whose status is "paused"
  origin,     \* ghost: the row a row is a retry of, itself for a first attempt
  used        \* counters of the bounds

vars == <<tasks, call, running, worker, snapshot, candidate, paused, origin,
          used>>

Statuses == {"pending", "running", "completed", "failed"}

Row == [status : Statuses, orch : Orchs, prio : Priorities, retry : Nat,
        backend : Backends]

TaskIds == 1 .. Len(tasks)

CallPcs == {"idle", "called", "working", "delegating", "posting", "failing",
            "backoff"}

CallRecord == [pc : CallPcs, task : Nat, via : {"queue", "direct", "spawn"},
               parent : Calls \cup {NoCall}]

Returned == [pc |-> "idle", task |-> 0, via |-> "direct", parent |-> NoCall]

Up == worker # "off"

Live(c) == call[c].pc \notin {"idle", "backoff"}

Children(c) == {d \in Calls : Live(d) /\ call[d].parent = c}

RunningFor(o) == {t \in running : tasks[t].orch = o}

(* ORDER BY priority, created_at *)
Before(t, u) ==
  \/ tasks[t].prio < tasks[u].prio
  \/ tasks[t].prio = tasks[u].prio /\ t <= u

Init ==
  /\ tasks = <<>>
  /\ call = [c \in Calls |-> Returned]
  /\ running = {}
  /\ worker = "sleep"
  /\ snapshot = {}
  /\ candidate = 0
  /\ paused = {}
  /\ origin = <<>>
  /\ used = [faults |-> 0, pauses |-> 0, crashes |-> 0]

Fault(point) ==
  /\ point \in FaultPoints
  /\ used.faults < MaxFaults
  /\ used' = [used EXCEPT !.faults = @ + 1]

-----------------------------------------------------------------------------
(* Rows and calls *)

Insert(row, from) ==
  /\ tasks' = Append(tasks, row)
  /\ origin' = Append(origin, from)

WithStatus(row, s) == [row EXCEPT !.status = s]

SetStatus(t, s) == tasks' = [tasks EXCEPT ![t] = WithStatus(@, s)]

BackedOff(t) ==
  [pc |-> "backoff", task |-> t, via |-> "direct", parent |-> NoCall]

Called(t, via, parent) ==
  [pc |-> "called", task |-> t, via |-> via, parent |-> parent]

Goto(c, pc) == call' = [call EXCEPT ![c].pc = pc]

(* Mutated: .then instead of .finally, a rejected call keeps its entry. *)
SettleThen(c, record) ==
  /\ call' = [call EXCEPT ![c] = record]
  /\ running' = IF call[c].via = "queue" /\ call[c].pc # "called"
                  THEN running \ {call[c].task} ELSE running

(* Mutated: the entry is never removed. *)
SettleKeeps(c, record) ==
  /\ call' = [call EXCEPT ![c] = record]
  /\ UNCHANGED running

(* The promise of call c settles.  The worker's finally handler removes its *)
(* map entry in the same turn; nobody else's call touches the map.          *)
Settle(c, record) ==
  /\ call' = [call EXCEPT ![c] = record]
  /\ running' = IF call[c].via = "queue" THEN running \ {call[c].task}
                                         ELSE running

(* Mutated: the row is stored with the status the webhook answers with. *)
FreshRowQueued(o, p, b) ==
  [status |-> "queued", orch |-> o, prio |-> p, retry |-> 0, backend |-> b]

FreshRow(o, p, b) ==
  [status |-> "pending", orch |-> o, prio |-> p, retry |-> 0, backend |-> b]

(* A handler that leaves the row to the worker: POST /tasks, the channel    *)
(* webhook, a scheduled job, a heartbeat.                                   *)
SubmitQueued(o, p, b) ==
  /\ Up /\ "queue" \in Entries /\ Len(tasks) < MaxTasks
  /\ Insert(FreshRow(o, p, b), Len(tasks) + 1)
  /\ UNCHANGED <<call, running, worker, snapshot, candidate, paused, used>>

(* A handler that inserts a pending row and then calls executeTask itself:  *)
(* chat, triggers, comms messages, MCP run_task, pipelines, Git agents.     *)
SubmitDirect(o, p, b, c) ==
  /\ Up /\ "direct" \in Entries /\ Len(tasks) < MaxTasks
  /\ call[c].pc = "idle"
  /\ Insert(FreshRow(o, p, b), Len(tasks) + 1)
  /\ call' = [call EXCEPT ![c] = Called(Len(tasks) + 1, "direct", NoCall)]
  /\ UNCHANGED <<running, worker, snapshot, candidate, paused, used>>

-----------------------------------------------------------------------------
(* The queue worker *)

Poll ==
  /\ worker = "sleep"
  /\ worker' = "scan"
  /\ snapshot' = {t \in TaskIds : tasks[t].status = "pending"}
  /\ UNCHANGED <<tasks, call, running, candidate, paused, origin, used>>

First(t) == t \in snapshot /\ \A u \in snapshot : Before(t, u)

(* runningTasks.has(task.id): on to the next row without an await. *)
SkipTracked(t) ==
  /\ worker = "scan" /\ First(t)
  /\ t \in running
  /\ snapshot' = snapshot \ {t}
  /\ UNCHANGED <<tasks, call, running, worker, candidate, paused, origin, used>>

(* The await of getOrchestrator: the pause switch is read here and the row  *)
(* is launched later, on resumption.                                        *)
ReadOrchestrator(t) ==
  /\ worker = "scan" /\ First(t)
  /\ t \notin running
  /\ snapshot' = snapshot \ {t}
  /\ IF tasks[t].orch \in paused
       THEN UNCHANGED <<worker, candidate>>
       ELSE worker' = "decide" /\ candidate' = t
  /\ UNCHANGED <<tasks, call, running, paused, origin, used>>

(* Mutated: off by one. *)
AtCapacityLate(o) == Cardinality(RunningFor(o)) > MaxConcurrency[o]

(* Mutated: ids filtered by the orchestrator's prefix, a count always 0. *)
AtCapacityPrefix(o) == 0 >= MaxConcurrency[o]

AtCapacity(o) == Cardinality(RunningFor(o)) >= MaxConcurrency[o]

SkipFull ==
  /\ worker = "decide"
  /\ AtCapacity(tasks[candidate].orch)
  /\ worker' = "scan" /\ candidate' = 0
  /\ UNCHANGED <<tasks, call, running, snapshot, paused, origin, used>>

(* The status is not read again: the row is launched as the poll listed it. *)
Launch(c) ==
  /\ worker = "decide"
  /\ ~AtCapacity(tasks[candidate].orch)
  /\ call[c].pc = "idle"
  /\ running' = running \cup {candidate}
  /\ call' = [call EXCEPT ![c] = Called(candidate, "queue", NoCall)]
  /\ worker' = "scan" /\ candidate' = 0
  /\ UNCHANGED <<tasks, snapshot, paused, origin, used>>

EndPass ==
  /\ worker = "scan" /\ snapshot = {}
  /\ worker' = "sleep"
  /\ UNCHANGED <<tasks, call, running, snapshot, candidate, paused, origin, used>>

(* A rejected query ends the pass; the loop sleeps and polls afresh. *)
PassFails ==
  /\ worker = "scan" /\ snapshot # {}
  /\ Fault("poll")
  /\ worker' = "sleep" /\ snapshot' = {}
  /\ UNCHANGED <<tasks, call, running, candidate, paused, origin>>

WorkerStep ==
  \/ Poll
  \/ \E t \in snapshot : SkipTracked(t) \/ ReadOrchestrator(t)
  \/ SkipFull
  \/ \E c \in Calls : Launch(c)
  \/ EndPass

-----------------------------------------------------------------------------
(* One call of executeTask *)

(* updateTask(running), whatever the row's status is by now. *)
Begin(c) ==
  /\ call[c].pc = "called"
  /\ SetStatus(call[c].task, "running")
  /\ Goto(c, "working")
  /\ UNCHANGED <<running, worker, snapshot, candidate, paused, origin, used>>

(* An await ahead of the try block rejects: before the status write (the    *)
(* K3s proxy service, a lookup), or after it (the comms thread).            *)
CallRejects(c) ==
  /\ call[c].pc = "called"
  /\ Fault("call")
  /\ Settle(c, Returned)
  /\ \/ UNCHANGED tasks
     \/ tasks[call[c].task].backend = "inprocess"
        /\ SetStatus(call[c].task, "running")
  /\ UNCHANGED <<worker, snapshot, candidate, paused, origin>>

(* spawn_agent: the child row is pending in the table, and the parent calls *)
(* executeTask on it and awaits it.                                         *)
Spawn(c, d) ==
  LET row == tasks[call[c].task]
  IN  /\ call[c].pc \in {"working", "delegating"}
      /\ row.backend = "inprocess" /\ Len(tasks) < MaxTasks
      /\ call[d].pc = "idle"
      /\ Insert(FreshRow(row.orch, row.prio, "inprocess"), Len(tasks) + 1)
      /\ call' = [call EXCEPT ![c].pc = "delegating",
                              ![d] = Called(Len(tasks) + 1, "spawn", c)]
      /\ UNCHANGED <<running, worker, snapshot, candidate, paused, used>>

(* Promise.allSettled over the children. *)
Join(c) ==
  /\ call[c].pc = "delegating" /\ Children(c) = {}
  /\ Goto(c, "working")
  /\ UNCHANGED <<tasks, running, worker, snapshot, candidate, paused, origin,
                 used>>

(* updateTask(completed).  In-process, usage rows and log lines are still   *)
(* written inside the same try block; the sandbox variants return.          *)
Complete(c) ==
  /\ call[c].pc = "working"
  /\ SetStatus(call[c].task, "completed")
  /\ IF tasks[call[c].task].backend = "inprocess"
       THEN Goto(c, "posting") /\ UNCHANGED running
       ELSE Settle(c, Returned)
  /\ UNCHANGED <<worker, snapshot, candidate, paused, origin, used>>

Posted(c) ==
  /\ call[c].pc = "posting"
  /\ Settle(c, Returned)
  /\ UNCHANGED <<tasks, worker, snapshot, candidate, paused, origin, used>>

PostFails(c) ==
  /\ call[c].pc = "posting"
  /\ Fault("post")
  /\ Goto(c, "failing")
  /\ UNCHANGED <<tasks, running, worker, snapshot, candidate, paused, origin>>

(* The provider, a tool or the container fails: control enters the catch. *)
Fail(c) ==
  /\ call[c].pc = "working"
  /\ Goto(c, "failing")
  /\ UNCHANGED <<tasks, running, worker, snapshot, candidate, paused, origin,
                 used>>

(* Mutated: off by one. *)
MayRetryOnceMore(t) ==
  tasks[t].backend = "inprocess" /\ tasks[t].retry <= MaxRetries[tasks[t].orch]

MayRetry(t) ==
  tasks[t].backend = "inprocess" /\ tasks[t].retry < MaxRetries[tasks[t].orch]

(* Mutated: the retry is announced but its timer is not set. *)
MarkFailedNoTimer(c) ==
  /\ call[c].pc = "failing"
  /\ SetStatus(call[c].task, "failed")
  /\ Settle(c, Returned)
  /\ UNCHANGED <<worker, snapshot, candidate, paused, origin, used>>

(* updateTask(failed); the call returns, and in-process leaves a timer.     *)
MarkFailed(c) ==
  LET t == call[c].task
  IN  /\ call[c].pc = "failing"
      /\ SetStatus(t, "failed")
      /\ Settle(c, IF MayRetry(t) THEN BackedOff(t) ELSE Returned)
      /\ UNCHANGED <<worker, snapshot, candidate, paused, origin, used>>

(* The log line or the update inside the catch block rejects. *)
CatchRejects(c) ==
  /\ call[c].pc = "failing"
  /\ Fault("catch")
  /\ Settle(c, Returned)
  /\ UNCHANGED <<tasks, worker, snapshot, candidate, paused, origin>>

RetryRow(row) ==
  [status |-> "pending", orch |-> row.orch, prio |-> row.prio,
   retry |-> row.retry + 1, backend |-> row.backend]

(* The timer's callback: a new pending row, then executeTask on it. *)
Retry(c) ==
  LET t == call[c].task
  IN  /\ call[c].pc = "backoff"
      /\ Insert(RetryRow(tasks[t]), origin[t])
      /\ call' = [call EXCEPT ![c] = Called(Len(tasks) + 1, "direct", NoCall)]
      /\ UNCHANGED <<running, worker, snapshot, candidate, paused, used>>

(* The insert inside the timer's callback rejects: only a console line. *)
RetryLost(c) ==
  /\ call[c].pc = "backoff"
  /\ Fault("retry")
  /\ call' = [call EXCEPT ![c] = Returned]
  /\ UNCHANGED <<tasks, running, worker, snapshot, candidate, paused, origin>>

CallStep(c) ==
  \/ Begin(c) \/ Join(c) \/ Complete(c) \/ Posted(c) \/ Fail(c)
  \/ MarkFailed(c) \/ Retry(c)

-----------------------------------------------------------------------------
(* Administration and the process *)

Pause(o) ==
  /\ Up /\ o \notin paused /\ used.pauses < MaxPauses
  /\ paused' = paused \cup {o}
  /\ used' = [used EXCEPT !.pauses = @ + 1]
  /\ UNCHANGED <<tasks, call, running, worker, snapshot, candidate, origin>>

Unpause(o) ==
  /\ Up /\ o \in paused
  /\ paused' = paused \ {o}
  /\ UNCHANGED <<tasks, call, running, worker, snapshot, candidate, origin, used>>

(* Calls, timers, the map and the worker live in memory; rows survive. *)
Crash ==
  /\ Up /\ used.crashes < MaxCrashes
  /\ used' = [used EXCEPT !.crashes = @ + 1]
  /\ call' = [c \in Calls |-> Returned]
  /\ running' = {} /\ snapshot' = {} /\ candidate' = 0
  /\ worker' = "off"
  /\ UNCHANGED <<tasks, paused, origin>>

(* Mutated: interrupted rows are left as they are. *)
BootNoRecovery ==
  /\ worker = "off"
  /\ worker' = "sleep"
  /\ UNCHANGED <<tasks, call, running, snapshot, candidate, paused, origin,
                 used>>

(* registerRoutes fails the interrupted rows, then starts the worker. *)
Boot ==
  /\ worker = "off"
  /\ tasks' = [t \in TaskIds |->
                 IF tasks[t].status = "running"
                   THEN WithStatus(tasks[t], "failed") ELSE tasks[t]]
  /\ worker' = "sleep"
  /\ UNCHANGED <<call, running, snapshot, candidate, paused, origin, used>>

Next ==
  \/ \E o \in Orchs, p \in Priorities, b \in Backends :
       \/ SubmitQueued(o, p, b)
       \/ \E c \in Calls : SubmitDirect(o, p, b, c)
  \/ WorkerStep
  \/ PassFails
  \/ \E c \in Calls :
       \/ CallStep(c)
       \/ CallRejects(c) \/ PostFails(c) \/ CatchRejects(c) \/ RetryLost(c)
       \/ \E d \in Calls : Spawn(c, d)
  \/ \E o \in Orchs : Pause(o) \/ Unpause(o)
  \/ Crash
  \/ Boot

Spec == Init /\ [][Next]_vars

(* The loop of the worker and the event loop never stop while the process   *)
(* is up, an AI call or a container ends (SDK and container time limits),   *)
(* timers fire, and the process is restarted by its supervisor.             *)
Fairness ==
  /\ WF_vars(WorkerStep)
  /\ \A c \in Calls : WF_vars(CallStep(c))
  /\ WF_vars(Boot)

FairSpec == Spec /\ Fairness

-----------------------------------------------------------------------------
(* Properties *)

(* Types of the variables. *)
TypeOK ==
  /\ tasks \in Seq(Row)
  /\ call \in [Calls -> CallRecord]
  /\ \A c \in Calls : call[c].pc # "idle" => call[c].task \in TaskIds
  /\ running \subseteq TaskIds
  /\ worker \in {"off", "sleep", "scan", "decide"}
  /\ snapshot \subseteq TaskIds
  /\ worker = "decide" => candidate \in TaskIds
  /\ paused \subseteq Orchs
  /\ origin \in Seq(Nat) /\ Len(origin) = Len(tasks)
  /\ used \in [faults : Nat, pauses : Nat, crashes : Nat]

(* The rows the worker has in flight never exceed an orchestrator's limit,  *)
(* however calls end, whatever the poll listed and whenever the orchestrator *)
(* was read: the count and the launch share one turn of the event loop.     *)
QueueBound ==
  \A o \in Orchs : Cardinality(RunningFor(o)) <= MaxConcurrency[o]

(* runningTasks holds exactly the rows of the worker's live calls, and no   *)
(* row twice: an entry that outlived its call would cost the orchestrator a *)
(* slot for good, one that left early would let the row be launched again.  *)
MapExact ==
  LET queued == {c \in Calls : Live(c) /\ call[c].via = "queue"}
  IN  /\ running = {call[c].task : c \in queued}
      /\ \A c, d \in queued : call[c].task = call[d].task => c = d

(* While the server is up, a row that says "running" has a call that will   *)
(* still write its outcome: no row is stuck, before or after a restart.     *)
(* The awaits whose rejection leaves a row behind are excluded by name.     *)
RunningHasCall ==
  Up /\ FaultPoints \cap {"call", "catch"} = {} =>
    \A t \in TaskIds : tasks[t].status = "running" =>
      \E c \in Calls : /\ call[c].task = t
                       /\ call[c].pc \in {"working", "delegating", "failing"}

(* A retry carries its lineage: it is younger than the first attempt, runs  *)
(* under the same orchestrator, and its retryCount never passes maxRetries, *)
(* also when two calls execute the row and both fail.                       *)
RetryChain ==
  \A t \in TaskIds :
    /\ tasks[t].retry <= MaxRetries[tasks[t].orch]
    /\ tasks[t].retry = 0 <=> origin[t] = t
    /\ origin[t] \in 1 .. t
    /\ tasks[origin[t]].orch = tasks[t].orch

(* The worker's view of concurrency implements a pool of slots: a launch    *)
(* takes a free slot for a row that holds none, a settled call gives it     *)
(* back, a crash gives all of them back.                                    *)
Pool == INSTANCE SlotPool WITH
  Capacity <- MaxConcurrency,
  held <- [o \in Orchs |-> RunningFor(o)]

SlotPoolImplemented == Pool!Spec

(* A row is at rest: its outcome is final, or its orchestrator is paused.   *)
AtRest(t) == t \in TaskIds =>
  /\ \/ tasks[t].status \in {"completed", "failed"}
     \/ tasks[t].status = "pending" /\ tasks[t].orch \in paused
  /\ \A c \in Calls : Live(c) => call[c].task # t

WatchedRows == 1 .. MaxTasks + 1

(* Every row comes to rest for good, through full orchestrators, rows that  *)
(* are run twice, parents that wait for children while the limit is         *)
(* reached, and restarts that find rows pending or running.                 *)
EventuallyAtRest ==
  \A t \in WatchedRows : t \in TaskIds ~> []AtRest(t)

Retried(t) == t \in TaskIds =>
  \E u \in TaskIds : origin[u] = origin[t] /\ tasks[u].retry = tasks[t].retry + 1

(* A failure that maxRetries still covers is followed by its retry.         *)
RetriesDelivered ==
  \A t \in WatchedRows :
    (t \in TaskIds /\ tasks[t].status = "failed" /\ MayRetry(t)) ~> Retried(t)
=============================================================================
