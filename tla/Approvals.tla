----------------------------- MODULE Approvals -----------------------------
(***************************************************************************)
(* Approval gates: the request_approval tool of engine/executor.ts, the    *)
(* ways to resolve a request (the web API and the Slack buttons of         *)
(* routes.ts, the Teams buttons of comms/teams-handler.ts, approve_request *)
(* of mcp/server.ts), and the follow-up tasks that buttons create.         *)
(* Nothing waits for the decision: a task that asked goes on and ends.     *)
(***************************************************************************)
EXTENDS Naturals, Sequences, FiniteSets

CONSTANTS
  Clicks,        \* handlers that resolve requests, at the same time
  MaxRetries,    \* the orchestrator's maxRetries
  Submitted,     \* values of bypassApproval that submitted tasks carry
  MaxTasks,      \* bound: rows of the tasks table
  MaxApprovals,  \* bound: rows of the approval_requests table
  MaxRestarts    \* bound: restarts of the server

ASSUME ApprovalsAssumption ==
  MaxRetries \in Nat /\ Submitted \subseteq BOOLEAN /\ IsFiniteSet(Clicks)

VARIABLES
  tasks,      \* the rows, in order of creation
  timers,     \* rows whose retry is waiting for its timer
  approvals,  \* the approval requests, in order of creation
  click,      \* the handlers
  restarts

vars == <<tasks, timers, approvals, click, restarts>>

TaskIds == 1 .. Len(tasks)
ApprovalIds == 1 .. Len(approvals)

(* grant is a ghost: the approval a row goes back to as its follow-up, or   *)
(* as a retry of its follow-up; 0 for other rows.                           *)
Row == [status : {"pending", "running", "completed", "failed"},
        bypass : BOOLEAN, retry : Nat, grant : Nat]

(* Ghosts: how often a button wrote "approved", and how many of these       *)
(* handlers ended without creating the follow-up.                           *)
Approval == [task : Nat, status : {"pending", "approved", "rejected"},
             granted : Nat, lost : Nat]

(* Where a handler is: it has read the request, written the decision, and   *)
(* answered in the chat thread; and whether a button called it.             *)
Handler == [pc : {"idle", "read", "decided", "replied"},
            button : BOOLEAN, approval : Nat,
            decision : {"approved", "rejected"}]

Idle == [pc |-> "idle", button |-> FALSE, approval |-> 0,
         decision |-> "rejected"]

Init ==
  /\ tasks = <<>> /\ timers = {} /\ approvals = <<>>
  /\ click = [c \in Clicks |-> Idle]
  /\ restarts = 0

-----------------------------------------------------------------------------
(* Tasks, as far as the gate is concerned; TaskEngine has the rest *)

NewRow(bypass, retry, grant) ==
  [status |-> "pending", bypass |-> bypass, retry |-> retry, grant |-> grant]

CreateTask(row) == Len(tasks) < MaxTasks /\ tasks' = Append(tasks, row)

SetStatus(t, s) == tasks' = [tasks EXCEPT ![t].status = s]

(* A message, a job, a trigger, a call of the API; some of them carry       *)
(* bypassApproval.                                                          *)
Submit ==
  /\ \E bypass \in Submitted : CreateTask(NewRow(bypass, 0, 0))
  /\ UNCHANGED <<timers, approvals, click, restarts>>

Begin(t) ==
  /\ tasks[t].status = "pending"
  /\ SetStatus(t, "running")
  /\ UNCHANGED <<timers, approvals, click, restarts>>

(* request_approval: a row with bypassApproval is told to go ahead; for the *)
(* others a request is filed, and the tool loop goes on.                    *)
RequestApproval(t) ==
  /\ tasks[t].status = "running" /\ ~tasks[t].bypass
  /\ Len(approvals) < MaxApprovals
  /\ approvals' = Append(approvals,
       [task |-> t, status |-> "pending", granted |-> 0, lost |-> 0])
  /\ UNCHANGED <<tasks, timers, click, restarts>>

(* A child does not inherit bypassApproval.                                 *)
Spawn(t) ==
  /\ tasks[t].status = "running"
  /\ CreateTask(NewRow(FALSE, 0, 0))
  /\ UNCHANGED <<timers, approvals, click, restarts>>

Complete(t) ==
  /\ tasks[t].status = "running"
  /\ SetStatus(t, "completed")
  /\ UNCHANGED <<timers, approvals, click, restarts>>

Fail(t) ==
  /\ tasks[t].status = "running"
  /\ SetStatus(t, "failed")
  /\ timers' = IF tasks[t].retry < MaxRetries THEN timers \cup {t} ELSE timers
  /\ UNCHANGED <<approvals, click, restarts>>

(* Mutated: the copy leaves out bypassApproval.                             *)
RetryRowPlain(t) == NewRow(FALSE, tasks[t].retry + 1, tasks[t].grant)

RetryRow(t) == NewRow(tasks[t].bypass, tasks[t].retry + 1, tasks[t].grant)

Retry(t) ==
  /\ t \in timers
  /\ CreateTask(RetryRow(t))
  /\ timers' = timers \ {t}
  /\ UNCHANGED <<approvals, click, restarts>>

-----------------------------------------------------------------------------
(* Resolving a request *)

(* Mutated: no channel looks whether the request is still pending.          *)
MayResolveAlways(channel, a) == a \in ApprovalIds

(* Buttons and the MCP tool refuse a request that has been decided; the web *)
(* handler does not look.                                                   *)
MayResolve(channel, a) ==
  channel = "web" \/ approvals[a].status = "pending"

(* A handler reads the request; what it read is not looked at again.        *)
Click(c, channel, a, decision) ==
  /\ click[c].pc = "idle"
  /\ MayResolve(channel, a)
  /\ click' = [click EXCEPT ![c] = [pc |-> "read", button |-> channel = "button",
                                    approval |-> a, decision |-> decision]]
  /\ UNCHANGED <<tasks, timers, approvals, restarts>>

(* Mutated: buttons start the follow-up whatever was decided.               *)
StartsTaskAlways(c) == click[c].button

StartsTask(c) == click[c].button /\ click[c].decision = "approved"

(* resolveApprovalRequest: an update by the id alone.  Only buttons do      *)
(* anything else after it.                                                  *)
Resolve(c) ==
  LET a == click[c].approval
      grants == click[c].button /\ click[c].decision = "approved"
  IN  /\ click[c].pc = "read"
      /\ approvals' = [approvals EXCEPT
           ![a].status = click[c].decision,
           ![a].granted = IF grants THEN @ + 1 ELSE @]
      /\ click' = IF click[c].button
                    THEN [click EXCEPT ![c].pc = "decided"]
                    ELSE [click EXCEPT ![c] = Idle]
      /\ UNCHANGED <<tasks, timers, restarts>>

(* The answer in the thread is posted before the follow-up is created.      *)
Reply(c) ==
  /\ click[c].pc = "decided"
  /\ click' = IF StartsTask(c) THEN [click EXCEPT ![c].pc = "replied"]
                               ELSE [click EXCEPT ![c] = Idle]
  /\ UNCHANGED <<tasks, timers, approvals, restarts>>

FollowUp(c) ==
  /\ click[c].pc = "replied"
  /\ CreateTask(NewRow(TRUE, 0, click[c].approval))
  /\ click' = [click EXCEPT ![c] = Idle]
  /\ UNCHANGED <<timers, approvals, restarts>>

(* The approving handlers that still owe their follow-up.                   *)
Owing(a) == {c \in Clicks : /\ click[c].pc \in {"decided", "replied"}
                            /\ click[c].approval = a
                            /\ click[c].decision = "approved"}

(* The write, the post or the insert rejects, or a Teams channel has no     *)
(* credentials: the handler ends with a line on the console.                *)
Abandon(c) ==
  /\ click[c].pc # "idle"
  /\ click' = [click EXCEPT ![c] = Idle]
  /\ approvals' = [a \in ApprovalIds |->
                     [approvals[a] EXCEPT !.lost =
                        IF c \in Owing(a) THEN @ + 1 ELSE @]]
  /\ UNCHANGED <<tasks, timers, restarts>>

(* Handlers and timers are gone, running rows are failed at boot, pending   *)
(* ones are the queue worker's.                                             *)
Restart ==
  /\ restarts < MaxRestarts
  /\ restarts' = restarts + 1
  /\ click' = [c \in Clicks |-> Idle]
  /\ timers' = {}
  /\ tasks' = [t \in TaskIds |->
                 IF tasks[t].status = "running"
                   THEN [tasks[t] EXCEPT !.status = "failed"] ELSE tasks[t]]
  /\ approvals' = [a \in ApprovalIds |->
                     [approvals[a] EXCEPT !.lost = @ + Cardinality(Owing(a))]]

TaskStep(t) ==
  \/ Begin(t) \/ RequestApproval(t) \/ Spawn(t) \/ Complete(t) \/ Fail(t)
  \/ Retry(t)

HandlerStep(c) == Resolve(c) \/ Reply(c) \/ FollowUp(c) \/ Abandon(c)

Next ==
  \/ Submit
  \/ \E t \in TaskIds : TaskStep(t)
  \/ \E c \in Clicks :
       \/ \E channel \in {"button", "web", "mcp"}, a \in ApprovalIds,
             decision \in {"approved", "rejected"} :
            Click(c, channel, a, decision)
       \/ HandlerStep(c)
  \/ Restart

Spec == Init /\ [][Next]_vars

-----------------------------------------------------------------------------
(* Properties *)

(* Types of the variables. *)
TypeOK ==
  /\ tasks \in Seq(Row) /\ timers \subseteq TaskIds
  /\ approvals \in Seq(Approval) /\ click \in [Clicks -> Handler]
  /\ \A a \in ApprovalIds : approvals[a].task \in TaskIds
  /\ \A c \in Clicks : click[c].pc # "idle" => click[c].approval \in ApprovalIds
  /\ restarts \in Nat

FollowUps(a) == {t \in TaskIds : tasks[t].grant = a /\ tasks[t].retry = 0}

(* Every button press that wrote "approved" is accounted for: it has made   *)
(* its one follow-up, is about to, or was lost to a rejected await or to a  *)
(* restart; and nothing else, no rejection, web decision, MCP call or late  *)
(* press, makes a follow-up.                                                *)
FollowUpsAccountedFor ==
  \A a \in ApprovalIds :
    approvals[a].granted =
      Cardinality(FollowUps(a)) + Cardinality(Owing(a)) + approvals[a].lost

(* The button handlers at work on a request.                                *)
Busy(a) == {c \in Clicks : /\ click[c].pc # "idle" /\ click[c].button
                           /\ click[c].approval = a}

(* An approved action is started at most as often as handlers were at work  *)
(* on the request at the same time, however often the buttons are pressed   *)
(* or the chat service delivers a press again: follow-ups made and presses  *)
(* that may still make one are never more than there are handlers.          *)
FollowUpsBounded ==
  \A a \in ApprovalIds :
    Cardinality(FollowUps(a)) + Cardinality(Busy(a)) <= Cardinality(Clicks)

(* What has been approved is not asked for again: no request comes from a   *)
(* follow-up, nor from any of its retries.                                  *)
ApprovedNotAskedAgain ==
  \A a \in ApprovalIds : tasks[approvals[a].task].grant = 0
=============================================================================
