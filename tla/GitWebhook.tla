----------------------------- MODULE GitWebhook -----------------------------
(***************************************************************************)
(* Git agents: the webhook of routes.ts, processGitWebhook and its         *)
(* deduplication (engine/git-agent-engine.ts), the clone and the map of    *)
(* workspaces (engine/git-clone.ts), and the executions that mount them    *)
(* (engine/docker-executor.ts): the one the handling waits for, and one by *)
(* the queue worker, which may find the row while it is still pending.     *)
(***************************************************************************)
EXTENDS Naturals, Sequences, FiniteSets

CONSTANTS
  Events,         \* what services report: records with a commit and a type
  Agents,         \* the workspace's git agents in the order of the listing
  Window,         \* DEDUP_WINDOW_MS, in ticks
  MaxDeliveries,  \* bound: webhook calls
  MaxTasks,       \* bound: rows of the tasks table
  MaxClock,       \* bound: ticks
  MaxRestarts     \* bound: restarts of the server

Agent == [active : BOOLEAN, mandatory : BOOLEAN]

ASSUME GitAssumption ==
  /\ Agents \in Seq(Agent) /\ Window \in Nat
  /\ \A e \in Events : DOMAIN e = {"commit", "type"}

VARIABLES
  clock,
  recent,      \* recentWebhooks: when a key was accepted
  handlings,   \* the calls of processGitWebhook, in order of delivery
  runs,        \* rows of git_agent_runs
  tasks,       \* the tasks of runs
  workspaces,  \* repoWorkspaceMap: tasks whose handling's clone is mounted
  disk,        \* handlings whose clone directory exists
  restarts

vars == <<clock, recent, handlings, runs, tasks, workspaces, disk, restarts>>

Deliveries == 1 .. Len(handlings)
RunIds == 1 .. Len(runs)
TaskIds == 1 .. Len(tasks)

(* "fetching": the directory exists and git is at work.  at is the agent    *)
(* the loop is at, run and task the rows it made for it; failed: an error   *)
(* leaves the loop.  left is a ghost: a removal of the directory failed, or *)
(* the process stopped before it.                                           *)
Handling == [event : Events, time : Nat, epoch : Nat,
             pc : {"dropped", "listing", "cloning", "fetching", "looping",
                   "ordering", "linking", "executing", "closing", "failing", "cleaning",
                   "ended", "broken", "stopped"},
             at : Nat, run : Nat, task : Nat, cloned : BOOLEAN,
             failed : BOOLEAN, left : BOOLEAN]

Run == [handling : Nat, agent : Nat, task : Nat,
        status : {"pending", "running", "skipped", "failed", "completed"}]

(* direct and worker are the two executions.  mounts has "direct" while the *)
(* container that the direct one waits for has the clone as its /workspace, *)
(* "other" while a container of the worker has, or one that goes on though  *)
(* its execution gave up on it.  listed: the row is in the list of the      *)
(* worker's current pass.                                                   *)
Task == [handling : Nat, status : {"pending", "running", "completed", "failed"},
         direct : {"none", "running", "over"},
         worker : {"none", "running"}, listed : BOOLEAN,
         mounts : SUBSET {"direct", "other"}]

Init ==
  /\ clock = 0 /\ restarts = 0
  /\ recent = {} /\ handlings = <<>>
  /\ runs = <<>> /\ tasks = <<>>
  /\ workspaces = {} /\ disk = {}

-----------------------------------------------------------------------------
(* Deduplication *)

(* The routes erase the commit before the call, and safeGitRef turns what   *)
(* is missing into HEAD.                                                    *)
Key(event) == <<"HEAD", event.type>>

(* Mutated: an entry also expires at the very end of its window.            *)
UnexpiredShort == {r \in recent : clock - r.time < Window}

Unexpired == {r \in recent : clock - r.time <= Window}

Duplicate(event) == \E r \in Unexpired : r.key = Key(event)

Deliver(event) ==
  LET new == [event |-> event, time |-> clock, epoch |-> restarts,
              pc |-> IF Duplicate(event) THEN "dropped" ELSE "listing",
              at |-> 1, run |-> 0, task |-> 0,
              cloned |-> FALSE, failed |-> FALSE, left |-> FALSE]
  IN  /\ Len(handlings) < MaxDeliveries
      /\ handlings' = Append(handlings, new)
      /\ recent' = IF Duplicate(event) THEN Unexpired
                   ELSE Unexpired \cup {[key |-> Key(event), time |-> clock]}
      /\ UNCHANGED <<clock, runs, tasks, workspaces, disk, restarts>>

(* What is read of the clock is the time between deliveries: it need not    *)
(* run before the first one or after the last.                              *)
Tick ==
  /\ clock < MaxClock /\ Len(handlings) \in 1 .. MaxDeliveries - 1
  /\ clock' = clock + 1
  /\ UNCHANGED <<recent, handlings, runs, tasks, workspaces, disk, restarts>>

-----------------------------------------------------------------------------
(* The handling of an event *)

At(d, pc) == handlings[d].pc = pc
Goto(d, pc) == handlings' = [handlings EXCEPT ![d].pc = pc]

(* After the last agent the loop's finally removes the clone.               *)
NextAgent(d) ==
  handlings' = [handlings EXCEPT
    ![d].pc = IF handlings[d].at < Len(Agents) THEN "looping" ELSE "cleaning",
    ![d].at = @ + 1]

(* Mutated: the removal of the clone is not in a finally.                   *)
LeaveLoopAtOnce(d) ==
  handlings' = [handlings EXCEPT ![d].pc = "broken", ![d].failed = TRUE]

(* The error leaves the loop; its finally removes the clone.                *)
LeaveLoop(d) ==
  handlings' = [handlings EXCEPT ![d].pc = "cleaning", ![d].failed = TRUE]

List(d) ==
  /\ At(d, "listing")
  /\ \/ Goto(d, IF Agents = <<>> THEN "ended" ELSE "cloning")
     \/ Goto(d, "broken")
  /\ UNCHANGED <<clock, recent, runs, tasks, workspaces, disk, restarts>>

(* mkdtemp; when it or the decryption of the token fails, the handling goes *)
(* on without a clone.                                                      *)
MakeDir(d) ==
  /\ At(d, "cloning")
  /\ \/ Goto(d, "fetching") /\ disk' = disk \cup {d}
     \/ Goto(d, "looping") /\ UNCHANGED disk
  /\ UNCHANGED <<clock, recent, runs, tasks, workspaces, restarts>>

(* git ends, the second try without a branch and the checkout of a commit   *)
(* included.  A clone that fails removes its directory, and an error of rm  *)
(* is swallowed; the handling goes on either way.                           *)
CloneRepo(d) ==
  /\ At(d, "fetching")
  /\ \/ /\ handlings' = [handlings EXCEPT ![d].pc = "looping", ![d].cloned = TRUE]
        /\ UNCHANGED disk
     \/ Goto(d, "looping") /\ disk' = disk \ {d}
     \/ /\ handlings' = [handlings EXCEPT ![d].pc = "looping", ![d].left = TRUE]
        /\ UNCHANGED disk
  /\ UNCHANGED <<clock, recent, runs, tasks, workspaces, restarts>>

InsertRun(d, status) ==
  runs' = Append(runs, [handling |-> d, agent |-> handlings[d].at,
                        task |-> 0, status |-> status])

SetRun(r, status) == runs' = [runs EXCEPT ![r].status = status]

CurrentAgent(d) == Agents[handlings[d].at]

(* The repository's file enables an agent and filters its events, unless    *)
(* the agent is mandatory; the file is what the fetch found, or nothing.    *)
(* Mutated: an agent that is not enabled is passed over without a record.   *)
SkipAgentSilently(d) == ~CurrentAgent(d).mandatory /\ UNCHANGED runs /\ NextAgent(d)

SkipAgent(d) ==
  ~CurrentAgent(d).mandatory /\ InsertRun(d, "skipped") /\ NextAgent(d)

Decide(d) ==
  /\ At(d, "looping") /\ handlings[d].at <= Len(Agents)
  /\ IF ~CurrentAgent(d).active THEN NextAgent(d) /\ UNCHANGED runs
     ELSE \/ SkipAgent(d)
          \/ InsertRun(d, "failed") /\ NextAgent(d)
          \/ /\ InsertRun(d, "pending")
             /\ handlings' = [handlings EXCEPT ![d].pc = "ordering",
                                               ![d].run = Len(runs) + 1]
          \/ LeaveLoop(d) /\ UNCHANGED runs      \* the insert rejects
  /\ UNCHANGED <<clock, recent, tasks, workspaces, disk, restarts>>

CreateTask(d) ==
  /\ At(d, "ordering")
  /\ \/ /\ Len(tasks) < MaxTasks
        /\ tasks' = Append(tasks, [handling |-> d, status |-> "pending",
                  direct |-> "none", worker |-> "none", listed |-> FALSE,
                  mounts |-> {}])
        /\ handlings' = [handlings EXCEPT ![d].pc = "linking",
                                          ![d].task = Len(tasks) + 1]
     \/ Goto(d, "failing") /\ UNCHANGED tasks
  /\ UNCHANGED <<clock, recent, runs, workspaces, disk, restarts>>

(* The run gets its task, the clone is registered, executeTask is called.   *)
Link(d) ==
  LET t == handlings[d].task
      r == handlings[d].run
  IN  /\ At(d, "linking")
      /\ \/ /\ runs' = [runs EXCEPT ![r].status = "running", ![r].task = t]
            /\ workspaces' = IF handlings[d].cloned THEN workspaces \cup {t}
                             ELSE workspaces
            /\ tasks' = [tasks EXCEPT ![t].direct = "running"]
            /\ Goto(d, "executing")
         \/ Goto(d, "failing") /\ UNCHANGED <<runs, tasks, workspaces>>
      /\ UNCHANGED <<clock, recent, disk, restarts>>

(* Mutated: the call waits for a completed row, not for the execution.      *)
ExecutionOverCompleted(t) == tasks[t].status = "completed"

(* Mutated: nobody waits for the call.                                      *)
ExecutionOverAtOnce(t) == tasks[t].direct # "none"

ExecutionOver(t) == tasks[t].direct = "over"

(* executeTask resolves, whatever became of the task, or rejects; then the  *)
(* inner finally clears the workspace.                                      *)
Executed(d) ==
  /\ At(d, "executing") /\ ExecutionOver(handlings[d].task)
  /\ \/ Goto(d, "closing") /\ UNCHANGED workspaces
     \/ Goto(d, "failing") /\ workspaces' = workspaces \ {handlings[d].task}
  /\ UNCHANGED <<clock, recent, runs, tasks, disk, restarts>>

(* Mutated: the workspace is cleared after the update, not in a finally.    *)
CloseOnSuccess(d) ==
  /\ At(d, "closing")
  /\ \/ /\ SetRun(handlings[d].run, "completed") /\ NextAgent(d)
        /\ workspaces' = workspaces \ {handlings[d].task}
     \/ Goto(d, "failing") /\ UNCHANGED <<runs, workspaces>>
  /\ UNCHANGED <<clock, recent, tasks, disk, restarts>>

(* The update, then a read of the row for the comment, which may reject     *)
(* after the run was marked.                                                *)
Close(d) ==
  /\ At(d, "closing")
  /\ workspaces' = workspaces \ {handlings[d].task}
  /\ \/ SetRun(handlings[d].run, "completed") /\ NextAgent(d)
     \/ SetRun(handlings[d].run, "completed") /\ Goto(d, "failing")
     \/ Goto(d, "failing") /\ UNCHANGED runs
  /\ UNCHANGED <<clock, recent, tasks, disk, restarts>>

(* The catch block of an agent; when its own update rejects, the loop ends. *)
Fail(d) ==
  /\ At(d, "failing")
  /\ \/ SetRun(handlings[d].run, "failed") /\ NextAgent(d)
     \/ LeaveLoop(d) /\ UNCHANGED runs
  /\ UNCHANGED <<clock, recent, tasks, workspaces, disk, restarts>>

(* cleanup swallows an error of rm.                                         *)
Cleanup(d) ==
  LET over == [handlings[d] EXCEPT !.pc = IF handlings[d].failed
                                          THEN "broken" ELSE "ended",
                                !.cloned = FALSE, !.failed = FALSE]
  IN  /\ At(d, "cleaning")
      /\ \/ /\ disk' = disk \ {d}
            /\ handlings' = [handlings EXCEPT ![d] = over]
         \/ /\ d \in disk
            /\ handlings' = [handlings EXCEPT ![d] = [over EXCEPT !.left = TRUE]]
            /\ UNCHANGED disk
      /\ UNCHANGED <<clock, recent, runs, tasks, workspaces, restarts>>

-----------------------------------------------------------------------------
(* Executions; TaskEngine and TaskTokens have the rest *)

(* A pass of the worker reads the pending rows.                             *)
Poll ==
  /\ tasks' = [t \in TaskIds |->
                 [tasks[t] EXCEPT !.listed = tasks[t].status = "pending"]]
  /\ UNCHANGED <<clock, recent, handlings, runs, workspaces, disk, restarts>>

(* The worker takes a row of its list that is not in its map, without a     *)
(* look at the status, which may have changed since the list was read.      *)
Launch(t) ==
  /\ tasks[t].listed /\ tasks[t].worker = "none"
  /\ tasks' = [tasks EXCEPT ![t].worker = "running", ![t].listed = FALSE]
  /\ UNCHANGED <<clock, recent, handlings, runs, workspaces, disk, restarts>>

(* A round starts a container, with the clone if one is registered then.    *)
Round(t, who) ==
  /\ tasks[t][who] = "running"
  /\ tasks' = [tasks EXCEPT
       ![t].status = "running",
       ![t].mounts = IF t \notin workspaces THEN @ \ {who}
                     ELSE @ \cup {IF who = "direct" THEN who ELSE "other"}]
  /\ UNCHANGED <<clock, recent, handlings, runs, workspaces, disk, restarts>>

(* An execution ends: its container is closed and it wrote a status, or an  *)
(* error came before that.  Or it gives up on a container that goes on: the *)
(* time limit kills the docker command only, and the first error line of a  *)
(* container ends the execution at once.                                    *)
EndExecution(t, who) ==
  LET over == IF who = "direct" THEN "over" ELSE "none"
  IN  /\ tasks[t][who] = "running"
      /\ \/ \E status \in {"completed", "failed", tasks[t].status} :
              tasks' = [tasks EXCEPT ![t][who] = over, ![t].status = status,
                                     ![t].mounts = @ \ {who}]
         \/ /\ who \in tasks[t].mounts
            /\ \E status \in {"failed", tasks[t].status} :
                 tasks' = [tasks EXCEPT ![t][who] = over, ![t].status = status,
                             ![t].mounts = (@ \ {who}) \cup {"other"}]
      /\ UNCHANGED <<clock, recent, handlings, runs, workspaces, disk, restarts>>

(* Containers that no handling waits for end by themselves.                 *)
ContainerEnds(t) ==
  /\ "other" \in tasks[t].mounts
  /\ tasks' = [tasks EXCEPT ![t].mounts = @ \ {"other"}]
  /\ UNCHANGED <<clock, recent, handlings, runs, workspaces, disk, restarts>>

-----------------------------------------------------------------------------
(* The process stops and starts again: memory is lost; rows, directories    *)
(* and containers stay; registerRoutes only fails the running tasks.        *)
Stopped(d) ==
  IF handlings[d].pc \in {"dropped", "ended", "broken"} THEN handlings[d]
  ELSE [handlings[d] EXCEPT !.pc = "stopped", !.left = d \in disk,
                            !.cloned = FALSE, !.failed = FALSE]

Recovered(row) ==
  [row EXCEPT !.status = IF @ = "running" THEN "failed" ELSE @,
              !.direct = "over", !.worker = "none", !.listed = FALSE,
              !.mounts = IF @ = {} THEN {} ELSE {"other"}]

Restart ==
  /\ restarts < MaxRestarts
  /\ restarts' = restarts + 1
  /\ recent' = {} /\ workspaces' = {}
  /\ handlings' = [d \in Deliveries |-> Stopped(d)]
  /\ tasks' = [t \in TaskIds |-> Recovered(tasks[t])]
  /\ UNCHANGED <<clock, runs, disk>>

HandlingStep(d) ==
  \/ List(d) \/ MakeDir(d) \/ CloneRepo(d) \/ Decide(d) \/ CreateTask(d) \/ Link(d)
  \/ Executed(d) \/ Close(d) \/ Fail(d) \/ Cleanup(d)

TaskStep(t) ==
  \/ Launch(t) \/ ContainerEnds(t)
  \/ \E who \in {"direct", "worker"} : Round(t, who) \/ EndExecution(t, who)

Next ==
  \/ \E event \in Events : Deliver(event)
  \/ Tick \/ Restart \/ Poll
  \/ \E d \in Deliveries : HandlingStep(d)
  \/ \E t \in TaskIds : TaskStep(t)

(* The event loop runs what is ready, and an execution has a time limit.    *)
(* git has none: gitSpawn waits for ever, so a clone need not end.          *)
Fairness ==
  /\ \A d \in 1 .. MaxDeliveries :
       WF_vars(d \in Deliveries /\ ~At(d, "fetching") /\ HandlingStep(d))
  /\ \A t \in 1 .. MaxTasks :
       WF_vars(t \in TaskIds /\ EndExecution(t, "direct"))

Spec == Init /\ [][Next]_vars
FairSpec == Spec /\ Fairness

-----------------------------------------------------------------------------
(* Properties *)

(* Two accepted deliveries of one key are more than the window apart, or    *)
(* the server restarted in between (isDuplicateWebhook).                    *)
WithinWindowOnce ==
  \A d, e \in Deliveries :
    (/\ d < e /\ Key(handlings[d].event) = Key(handlings[e].event)
     /\ handlings[d].pc # "dropped" /\ handlings[e].pc # "dropped"
     /\ handlings[d].epoch = handlings[e].epoch)
      => handlings[e].time - handlings[d].time > Window

ActiveAgents == {a \in DOMAIN Agents : Agents[a].active}
RunsOf(d) == {r \in RunIds : runs[r].handling = d}

(* A handling that ended without an error leaves one run for every active   *)
(* agent, none of them open, although skips, failed inserts of tasks and    *)
(* rejected executions take different ways through the loop                 *)
(* (processGitWebhook).                                                     *)
EndedHandlingsAccounted ==
  \A d \in Deliveries : handlings[d].pc = "ended" =>
    /\ \A r \in RunsOf(d) : runs[r].status \in {"skipped", "failed", "completed"}
    /\ \A a \in ActiveAgents : Cardinality({r \in RunsOf(d) : runs[r].agent = a}) = 1
    /\ {runs[r].agent : r \in RunsOf(d)} = ActiveAgents

(* A directory that rounds are about to mount, or that a container has      *)
(* mounted which the handling's own execution waits for, exists             *)
(* (registerRepoWorkspace, clearRepoWorkspace and cleanup).  The worker's   *)
(* containers and those an execution gave up on have no such promise.       *)
MountedCloneExists ==
  \A t \in TaskIds :
    t \in workspaces \/ "direct" \in tasks[t].mounts => tasks[t].handling \in disk

(* Every directory is that of a handling at work, or its removal failed, or *)
(* a restart came before it, also when the clone is under way or has failed *)
(* (cleanup in cloneRepo and in the outer finally).                         *)
ClonesAccounted ==
  \A d \in disk :
    handlings[d].left \/ handlings[d].pc \notin {"dropped", "ended", "broken", "stopped"}

(* A run is marked completed only when the execution the handling waited    *)
(* for is over; the worker's may still be running (the await of executeTask *)
(* before updateGitAgentRun).                                               *)
CompletedAfterExecution ==
  \A r \in RunIds : runs[r].status = "completed" => tasks[runs[r].task].direct = "over"

(* Every delivery is handled to its end, unless the server stops or git     *)
(* hangs: whatever rejects, and however the task ends, processGitWebhook    *)
(* waits for nothing else that may never come.                              *)
HandlingsEnd ==
  \A d \in 1 .. MaxDeliveries :
    d \in Deliveries ~>
      \/ d \in Deliveries /\ handlings[d].pc \in {"dropped", "ended", "broken", "stopped"}
      \/ [](d \in Deliveries /\ At(d, "fetching"))

(* engine/git-agent-engine.ts:32 says that the key keeps repetitions of     *)
(* "the same commit/event" away: what is dropped was delivered before.      *)
DroppedWasDelivered ==
  \A d \in Deliveries : handlings[d].pc = "dropped" =>
    \E e \in Deliveries : e < d /\ handlings[e].event = handlings[d].event

(* Type correctness.                                                        *)
TypeOK ==
  /\ clock \in Nat /\ restarts \in Nat
  /\ recent \subseteq [key : {"HEAD"} \X {e.type : e \in Events}, time : Nat]
  /\ handlings \in Seq(Handling) /\ runs \in Seq(Run) /\ tasks \in Seq(Task)
  /\ workspaces \subseteq TaskIds /\ disk \subseteq Deliveries
=============================================================================
