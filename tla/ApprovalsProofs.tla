-------------------------- MODULE ApprovalsProofs --------------------------
(***************************************************************************)
(* Proofs about Approvals for every value of its constants: every          *)
(* approving press is accounted for, follow-ups are bounded by the         *)
(* handlers at work, and what was approved is not asked for again.         *)
(***************************************************************************)
EXTENDS Approvals, FiniteSetTheorems, TLAPS

(* Whoever descends from an approval skips the gate.                        *)
RowInv(t) ==
  /\ tasks[t].grant <= Len(approvals)
  /\ tasks[t].grant # 0 => tasks[t].bypass

(* A handler past its write has a decided request, and it is a button.      *)
ClickInv(c) ==
  /\ click[c].pc \in {"decided", "replied"} =>
       click[c].button /\ approvals[click[c].approval].status # "pending"
  /\ click[c].pc = "replied" => click[c].decision = "approved"

Counted(a) ==
  approvals[a].granted =
    Cardinality(FollowUps(a)) + Cardinality(Owing(a)) + approvals[a].lost

Bounded(a) == Cardinality(FollowUps(a)) + Cardinality(Busy(a)) <= Cardinality(Clicks)

AskInv(a) ==
  /\ ~tasks[approvals[a].task].bypass
  /\ approvals[a].status = "pending" => FollowUps(a) = {}
  /\ Counted(a)
  /\ Bounded(a)

IInv ==
  /\ TypeOK
  /\ \A t \in TaskIds : RowInv(t)
  /\ \A c \in Clicks : ClickInv(c)
  /\ \A a \in ApprovalIds : AskInv(a)

-----------------------------------------------------------------------------
(* Rows and sets *)

LEMMA FiniteParts ==
  ASSUME TypeOK, NEW a
  PROVE  /\ IsFiniteSet(FollowUps(a)) /\ Cardinality(FollowUps(a)) \in Nat
         /\ IsFiniteSet(Owing(a)) /\ Cardinality(Owing(a)) \in Nat
         /\ IsFiniteSet(Busy(a)) /\ Cardinality(Busy(a)) \in Nat
         /\ IsFiniteSet(Clicks) /\ Cardinality(Clicks) \in Nat
<1>1. IsFiniteSet(Clicks)
  BY ApprovalsAssumption
<1>2. IsFiniteSet(TaskIds)
  BY FS_Interval DEF TypeOK, TaskIds
<1>3. FollowUps(a) \in SUBSET TaskIds /\ Owing(a) \in SUBSET Clicks
      /\ Busy(a) \in SUBSET Clicks
  BY DEF FollowUps, Owing, Busy
<1>4. IsFiniteSet(FollowUps(a)) /\ IsFiniteSet(Owing(a)) /\ IsFiniteSet(Busy(a))
  BY <1>1, <1>2, <1>3, FS_Subset
<1>5. QED
  BY <1>1, <1>4, FS_CardinalityType

(* The same facts of the next state. *)
LEMMA FinitePartsNext ==
  ASSUME TypeOK', NEW a
  PROVE  /\ IsFiniteSet(FollowUps(a)') /\ Cardinality(FollowUps(a)') \in Nat
         /\ IsFiniteSet(Owing(a)') /\ Cardinality(Owing(a)') \in Nat
         /\ IsFiniteSet(Busy(a)') /\ Cardinality(Busy(a)') \in Nat
<1>1. IsFiniteSet(Clicks)
  BY ApprovalsAssumption
<1>2. IsFiniteSet(TaskIds')
  BY FS_Interval DEF TypeOK, TaskIds
<1>3. FollowUps(a)' \in SUBSET TaskIds' /\ Owing(a)' \in SUBSET Clicks
      /\ Busy(a)' \in SUBSET Clicks
  BY DEF FollowUps, Owing, Busy
<1>4. IsFiniteSet(FollowUps(a)') /\ IsFiniteSet(Owing(a)') /\ IsFiniteSet(Busy(a)')
  BY <1>1, <1>2, <1>3, FS_Subset
<1>5. QED
  BY <1>4, FS_CardinalityType

(* A new row is the last one; the others stay.                              *)
LEMMA CreateTaskStep ==
  ASSUME TypeOK, NEW row \in Row, CreateTask(row)
  PROVE  /\ tasks' \in Seq(Row) /\ Len(tasks') = Len(tasks) + 1
         /\ tasks'[Len(tasks) + 1] = row
         /\ \A t \in TaskIds : tasks'[t] = tasks[t]
BY DEF TypeOK, CreateTask, TaskIds

(* The statuses of rows change, and nothing else of them.                   *)
OnlyStatus ==
  /\ tasks' \in Seq(Row) /\ Len(tasks') = Len(tasks)
  /\ \A t \in TaskIds : /\ tasks'[t].bypass = tasks[t].bypass
                        /\ tasks'[t].retry = tasks[t].retry
                        /\ tasks'[t].grant = tasks[t].grant

LEMMA SetStatusStep ==
  ASSUME TypeOK, NEW t \in TaskIds,
         NEW s \in {"pending", "running", "completed", "failed"},
         SetStatus(t, s)
  PROVE  OnlyStatus
<1> DEFINE new == [tasks[t] EXCEPT !.status = s]
<1>1. tasks[t] \in Row
  BY DEF TypeOK, TaskIds
<1>2. new \in Row /\ new.bypass = tasks[t].bypass /\ new.retry = tasks[t].retry
      /\ new.grant = tasks[t].grant
  BY <1>1 DEF Row
<1>3. tasks' = [tasks EXCEPT ![t] = new]
  BY DEF SetStatus
<1>4. QED
  <2> HIDE DEF new
  <2> QED BY <1>2, <1>3 DEF TypeOK, TaskIds, OnlyStatus

(* Rows that are no follow-ups leave the follow-ups as they are.            *)
LEMMA FollowUpsKept ==
  ASSUME TypeOK, NEW a \in Nat \ {0}, Len(tasks') \in Nat,
         Len(tasks') >= Len(tasks),
         \A t \in TaskIds : /\ tasks'[t].grant = tasks[t].grant
                            /\ tasks'[t].retry = tasks[t].retry,
         \A t \in TaskIds' \ TaskIds : tasks'[t].grant = 0 \/ tasks'[t].retry # 0
  PROVE  FollowUps(a)' = FollowUps(a)
<1>1. TaskIds \subseteq TaskIds'
  BY DEF TypeOK, TaskIds
<1>2. QED
  BY <1>1 DEF FollowUps

-----------------------------------------------------------------------------
(* Steps of tasks *)

(* A step of a task that files no request: rows keep their lineage, a new   *)
(* row is no follow-up.                                                     *)
LEMMA TaskOnly ==
  ASSUME IInv, tasks' \in Seq(Row), Len(tasks') >= Len(tasks),
         \A t \in TaskIds : /\ tasks'[t].bypass = tasks[t].bypass
                            /\ tasks'[t].grant = tasks[t].grant
                            /\ tasks'[t].retry = tasks[t].retry,
         \A t \in TaskIds' \ TaskIds :
           /\ tasks'[t].grant = 0 \/ tasks'[t].retry # 0
           /\ tasks'[t].grant <= Len(approvals)
           /\ tasks'[t].grant # 0 => tasks'[t].bypass,
         timers' \subseteq TaskIds',
         UNCHANGED <<approvals, click, restarts>>
  PROVE  IInv'
<1>1. TypeOK /\ TaskIds \subseteq TaskIds'
  BY DEF IInv, TypeOK, TaskIds
<1>2. TypeOK'
  <2>1. TaskIds \subseteq TaskIds'
    BY <1>1
  <2> QED BY <2>1 DEF IInv, TypeOK, ApprovalIds
<1>3. \A t \in TaskIds' : RowInv(t)'
  BY <1>1 DEF IInv, RowInv
<1>4. \A c \in Clicks : ClickInv(c)'
  BY DEF IInv, ClickInv
<1>5. ASSUME NEW a \in ApprovalIds PROVE AskInv(a)'
  <2>1. a \in Nat \ {0} /\ approvals[a].task \in TaskIds
    BY <1>1 DEF TypeOK, ApprovalIds
  <2>2. FollowUps(a)' = FollowUps(a)
    BY <1>1, <1>2, <2>1, FollowUpsKept DEF TypeOK
  <2>3. Owing(a)' = Owing(a) /\ Busy(a)' = Busy(a)
    BY DEF Owing, Busy
  <2>4. AskInv(a)
    BY DEF IInv
  <2> QED BY <2>1, <2>2, <2>3, <2>4 DEF AskInv, Counted, Bounded
<1>6. QED
  BY <1>2, <1>3, <1>4, <1>5 DEF IInv, ApprovalIds

LEMMA CreatedRow ==
  ASSUME IInv, NEW bypass \in BOOLEAN, NEW retry \in Nat, NEW grant \in Nat,
         CreateTask(NewRow(bypass, retry, grant)),
         grant = 0 \/ retry # 0, grant <= Len(approvals), grant # 0 => bypass,
         timers' \subseteq timers, UNCHANGED <<approvals, click, restarts>>
  PROVE  IInv'
<1>1. NewRow(bypass, retry, grant) \in Row
  BY DEF NewRow, Row
<1>2. /\ tasks' \in Seq(Row) /\ Len(tasks') = Len(tasks) + 1
      /\ tasks'[Len(tasks) + 1] = NewRow(bypass, retry, grant)
      /\ \A t \in TaskIds : tasks'[t] = tasks[t]
  BY <1>1, CreateTaskStep DEF IInv
<1>3. TaskIds' = TaskIds \cup {Len(tasks) + 1} /\ Len(tasks) \in Nat
  BY <1>2 DEF TaskIds, IInv, TypeOK
<1>4. timers' \subseteq TaskIds'
  BY <1>3 DEF IInv, TypeOK
<1>5. /\ NewRow(bypass, retry, grant).grant = grant
      /\ NewRow(bypass, retry, grant).retry = retry
      /\ NewRow(bypass, retry, grant).bypass = bypass
  BY DEF NewRow
<1>6. QED
  BY <1>2, <1>3, <1>4, <1>5, TaskOnly

LEMMA StatusOnly ==
  ASSUME IInv, OnlyStatus, timers' \subseteq TaskIds,
         UNCHANGED <<approvals, click, restarts>>
  PROVE  IInv'
<1>1. TaskIds' = TaskIds /\ Len(tasks') >= Len(tasks)
  BY DEF OnlyStatus, TaskIds, IInv, TypeOK
<1>2. QED
  BY <1>1, TaskOnly DEF OnlyStatus

LEMMA SubmitIInv ==
  ASSUME IInv, Submit PROVE IInv'
<1>1. PICK bypass \in BOOLEAN : CreateTask(NewRow(bypass, 0, 0))
  BY ApprovalsAssumption DEF Submit
<1>2. 0 <= Len(approvals)
  BY DEF IInv, TypeOK
<1>3. QED
  BY <1>1, <1>2, CreatedRow DEF Submit

LEMMA SpawnIInv ==
  ASSUME IInv, NEW t \in TaskIds, Spawn(t) PROVE IInv'
<1>1. 0 <= Len(approvals)
  BY DEF IInv, TypeOK
<1>2. QED
  BY <1>1, CreatedRow DEF Spawn

LEMMA RetryIInv ==
  ASSUME IInv, NEW t \in TaskIds, Retry(t) PROVE IInv'
<1>1. tasks[t] \in Row
  BY DEF IInv, TypeOK, TaskIds
<1>2. tasks[t].bypass \in BOOLEAN /\ tasks[t].retry + 1 \in Nat
      /\ tasks[t].retry + 1 # 0 /\ tasks[t].grant \in Nat
  BY <1>1 DEF Row
<1>3. tasks[t].grant <= Len(approvals) /\ (tasks[t].grant # 0 => tasks[t].bypass)
  BY DEF IInv, RowInv
<1>4. CreateTask(NewRow(tasks[t].bypass, tasks[t].retry + 1, tasks[t].grant))
      /\ timers' \subseteq timers /\ UNCHANGED <<approvals, click, restarts>>
  BY DEF Retry, RetryRow
<1>5. QED
  BY <1>2, <1>3, <1>4, CreatedRow

LEMMA StatusIInv ==
  ASSUME IInv, NEW t \in TaskIds, Begin(t) \/ Complete(t) \/ Fail(t)
  PROVE  IInv'
<1>1. TypeOK /\ timers \subseteq TaskIds
  BY DEF IInv, TypeOK
<1>2. CASE Begin(t)
  <2>1. OnlyStatus
    BY <1>1, <1>2, SetStatusStep DEF Begin
  <2> QED BY <1>1, <1>2, <2>1, StatusOnly DEF Begin
<1>3. CASE Complete(t)
  <2>1. OnlyStatus
    BY <1>1, <1>3, SetStatusStep DEF Complete
  <2> QED BY <1>1, <1>3, <2>1, StatusOnly DEF Complete
<1>4. CASE Fail(t)
  <2>1. OnlyStatus
    BY <1>1, <1>4, SetStatusStep DEF Fail
  <2>2. timers' \subseteq TaskIds
    BY <1>1, <1>4 DEF Fail
  <2> QED BY <1>4, <2>1, <2>2, StatusOnly DEF Fail
<1>5. QED
  BY <1>2, <1>3, <1>4

(* A new request has no history: no row and no handler knows its number.    *)
LEMMA RequestIInv ==
  ASSUME IInv, NEW t \in TaskIds, RequestApproval(t) PROVE IInv'
<1> DEFINE new == [task |-> t, status |-> "pending", granted |-> 0, lost |-> 0]
           n == Len(approvals) + 1
<1>1. TypeOK /\ n \in Nat /\ n > 0 /\ t \in Nat
  BY DEF IInv, TypeOK, TaskIds
<1>2. new \in Approval
  BY <1>1 DEF Approval
<1>3. /\ approvals' \in Seq(Approval) /\ Len(approvals') = n
      /\ approvals'[n] = new
      /\ \A a \in ApprovalIds : approvals'[a] = approvals[a]
  <2>1. approvals' = Append(approvals, new)
    BY DEF RequestApproval
  <2> HIDE DEF new
  <2> QED BY <1>1, <1>2, <2>1 DEF TypeOK, ApprovalIds
<1>4. ApprovalIds' = ApprovalIds \cup {n} /\ n \notin ApprovalIds
      /\ UNCHANGED <<tasks, timers, click, restarts>> /\ TaskIds' = TaskIds
  BY <1>1, <1>3 DEF ApprovalIds, TaskIds, TypeOK, RequestApproval
<1>5. TypeOK'
  <2>1. \A a \in ApprovalIds' : approvals'[a].task \in TaskIds
    BY <1>1, <1>3, <1>4 DEF TypeOK
  <2> QED BY <1>1, <1>3, <1>4, <2>1 DEF TypeOK
<1>6. ASSUME NEW u \in TaskIds' PROVE RowInv(u)'
  <2>1. RowInv(u) /\ tasks[u] \in Row /\ tasks' = tasks
    BY <1>4 DEF IInv, TypeOK, TaskIds
  <2>2. tasks[u].grant \in Nat
    BY <2>1 DEF Row
  <2>3. Len(approvals') = Len(approvals) + 1 /\ Len(approvals) \in Nat
    BY <1>1, <1>3 DEF TypeOK
  <2> QED BY <2>1, <2>2, <2>3 DEF RowInv
<1>7. \A c \in Clicks : ClickInv(c)'
  BY <1>1, <1>3, <1>4 DEF IInv, ClickInv, TypeOK
<1>8. ASSUME NEW a \in ApprovalIds' PROVE AskInv(a)'
  <2>1. FollowUps(a)' = FollowUps(a) /\ Owing(a)' = Owing(a) /\ Busy(a)' = Busy(a)
    BY <1>4 DEF FollowUps, Owing, Busy
  <2>2. CASE a \in ApprovalIds
    BY <1>3, <1>4, <2>1, <2>2 DEF IInv, AskInv, Counted, Bounded
  <2>3. CASE a = n
    <3>1. FollowUps(a) = {}
      BY <1>1, <2>3 DEF IInv, RowInv, FollowUps, TypeOK, TaskIds, Row
    <3>2. Owing(a) = {} /\ Busy(a) = {}
      BY <1>1, <1>4, <2>3 DEF TypeOK, Owing, Busy
    <3>3. Cardinality({}) = 0 /\ Cardinality(Clicks) \in Nat
      BY <1>1, FS_EmptySet, FiniteParts
    <3>4. ~tasks[t].bypass
      BY DEF RequestApproval
    <3>5. approvals'[a].task = t /\ approvals'[a].granted = 0
          /\ approvals'[a].lost = 0
      BY <1>3, <2>3
    <3> QED BY <1>4, <2>1, <3>1, <3>2, <3>3, <3>4, <3>5
         DEF AskInv, Counted, Bounded
  <2> QED BY <1>4, <2>2, <2>3
<1>9. QED
  BY <1>5, <1>6, <1>7, <1>8 DEF IInv

LEMMA TaskStepIInv ==
  ASSUME IInv, NEW t \in TaskIds, TaskStep(t) PROVE IInv'
BY RequestIInv, SpawnIInv, RetryIInv, StatusIInv DEF TaskStep

-----------------------------------------------------------------------------
(* Steps of handlers *)

(* Only the place of one handler changes, and statuses and ghosts of the    *)
(* requests: what is left to show is about the counts.                      *)
HandlerMoves(c) ==
  /\ click' \in [Clicks -> Handler]
  /\ \A d \in Clicks \ {c} : click'[d] = click[d]
  /\ click'[c].pc # "idle" => click'[c].approval \in ApprovalIds
  /\ approvals' \in Seq(Approval) /\ Len(approvals') = Len(approvals)
  /\ \A a \in ApprovalIds :
       /\ approvals'[a].task = approvals[a].task
       /\ approvals[a].status # "pending" => approvals'[a].status # "pending"
  /\ ClickInv(c)'
  /\ UNCHANGED <<timers, restarts>>

LEMMA HandlerOnly ==
  ASSUME IInv, NEW c \in Clicks, HandlerMoves(c), tasks' = tasks,
         \A a \in ApprovalIds :
           /\ approvals'[a].status = "pending" => approvals[a].status = "pending"
           /\ Counted(a)' /\ Bounded(a)'
  PROVE  IInv'
<1>1. TypeOK /\ ApprovalIds' = ApprovalIds /\ TaskIds' = TaskIds
  BY DEF IInv, ApprovalIds, TaskIds, HandlerMoves
<1>2. TypeOK'
  BY <1>1 DEF TypeOK, HandlerMoves
<1>3. \A t \in TaskIds' : RowInv(t)'
  BY <1>1 DEF IInv, RowInv, HandlerMoves
<1>4. ASSUME NEW d \in Clicks PROVE ClickInv(d)'
  <2>1. CASE d = c
    BY <2>1 DEF HandlerMoves
  <2>2. CASE d # c
    <3>1. ClickInv(d) /\ click'[d] = click[d]
      BY <2>2 DEF IInv, HandlerMoves
    <3>2. click[d].pc # "idle" => click[d].approval \in ApprovalIds
      BY <1>1 DEF TypeOK
    <3> QED BY <3>1, <3>2 DEF ClickInv, HandlerMoves
  <2> QED BY <2>1, <2>2
<1>5. ASSUME NEW a \in ApprovalIds PROVE AskInv(a)'
  <2>1. FollowUps(a)' = FollowUps(a) /\ AskInv(a)
    BY <1>1 DEF FollowUps, IInv
  <2> QED BY <2>1 DEF AskInv, HandlerMoves
<1>6. QED
  BY <1>1, <1>2, <1>3, <1>4, <1>5 DEF IInv

(* Changing one handler's record.                                           *)
LEMMA HandlerSet ==
  ASSUME TypeOK, NEW c \in Clicks, NEW h \in Handler,
         click' = [click EXCEPT ![c] = h]
  PROVE  /\ click' \in [Clicks -> Handler] /\ click'[c] = h
         /\ \A d \in Clicks \ {c} : click'[d] = click[d]
BY DEF TypeOK

LEMMA HandlerPc ==
  ASSUME TypeOK, NEW c \in Clicks,
         NEW pc \in {"idle", "read", "decided", "replied"},
         click' = [click EXCEPT ![c].pc = pc]
  PROVE  /\ click' \in [Clicks -> Handler]
         /\ \A d \in Clicks \ {c} : click'[d] = click[d]
         /\ click'[c].pc = pc /\ click'[c].button = click[c].button
         /\ click'[c].approval = click[c].approval
         /\ click'[c].decision = click[c].decision
<1> DEFINE h == [click[c] EXCEPT !.pc = pc]
<1>1. click[c] \in Handler
  BY DEF TypeOK
<1>2. h \in Handler /\ h.pc = pc /\ h.button = click[c].button
      /\ h.approval = click[c].approval /\ h.decision = click[c].decision
  BY <1>1 DEF Handler
<1>3. click' = [click EXCEPT ![c] = h]
  OBVIOUS
<1> HIDE DEF h
<1>4. QED
  BY <1>2, <1>3, HandlerSet

LEMMA IdleHandler ==
  Idle \in Handler /\ Idle.pc = "idle"
BY DEF Idle, Handler

LEMMA ClickIInv ==
  ASSUME IInv, NEW c \in Clicks, NEW channel \in {"button", "web", "mcp"},
         NEW b \in ApprovalIds, NEW decision \in {"approved", "rejected"},
         Click(c, channel, b, decision)
  PROVE  IInv'
<1> DEFINE h == [pc |-> "read", button |-> channel = "button",
                 approval |-> b, decision |-> decision]
<1>1. TypeOK /\ b \in Nat
  BY DEF IInv, ApprovalIds
<1>2. h \in Handler /\ h.pc = "read" /\ h.approval = b
      /\ h.button = (channel = "button")
  BY <1>1 DEF Handler
<1>3. click' = [click EXCEPT ![c] = h] /\ click[c].pc = "idle"
  BY DEF Click
<1> HIDE DEF h
<1>4. /\ click' \in [Clicks -> Handler] /\ click'[c] = h
      /\ \A d \in Clicks \ {c} : click'[d] = click[d]
  BY <1>1, <1>2, <1>3, HandlerSet
<1>5. UNCHANGED <<tasks, timers, approvals, restarts>>
  BY DEF Click
<1>6. HandlerMoves(c)
  BY <1>1, <1>2, <1>4, <1>5 DEF HandlerMoves, ClickInv, TypeOK
<1>7. TypeOK'
  BY <1>1, <1>2, <1>4, <1>5 DEF TypeOK, TaskIds, ApprovalIds
<1>8. ASSUME NEW a \in ApprovalIds PROVE Counted(a)' /\ Bounded(a)'
  <2>1. FollowUps(a)' = FollowUps(a) /\ AskInv(a)
    BY <1>5 DEF FollowUps, TaskIds, IInv
  <2>2. Owing(a)' = Owing(a)
    BY <1>2, <1>3, <1>4 DEF Owing
  <2>3. Counted(a)'
    BY <1>5, <2>1, <2>2 DEF AskInv, Counted
  <2>4. CASE a = b /\ channel = "button"
    <3>1. FollowUps(a) = {}
      BY <2>1, <2>4 DEF AskInv, Click, MayResolve
    <3>2. Busy(a)' \in SUBSET Clicks /\ IsFiniteSet(Clicks)
      BY <1>1, FiniteParts DEF Busy
    <3>3. Cardinality(Busy(a)') <= Cardinality(Clicks)
      BY <3>2, FS_Subset
    <3>4. Cardinality(FollowUps(a)') = 0 /\ Cardinality(Busy(a)') \in Nat
      BY <1>7, <2>1, <3>1, FS_EmptySet, FinitePartsNext
    <3> QED BY <2>3, <3>3, <3>4 DEF Bounded
  <2>5. CASE ~(a = b /\ channel = "button")
    <3>1. Busy(a)' = Busy(a)
      BY <1>2, <1>3, <1>4, <2>5 DEF Busy
    <3> QED BY <2>1, <2>3, <3>1 DEF AskInv, Bounded
  <2> QED BY <2>4, <2>5
<1>9. QED
  BY <1>5, <1>6, <1>8, HandlerOnly

LEMMA ReplyIInv ==
  ASSUME IInv, NEW c \in Clicks, Reply(c) PROVE IInv'
<1>1. TypeOK /\ click[c].pc = "decided" /\ click[c].button
      /\ UNCHANGED <<tasks, timers, approvals, restarts>>
  BY DEF IInv, Reply, ClickInv
<1>2. click[c].approval \in ApprovalIds
      /\ approvals[click[c].approval].status # "pending"
  BY <1>1 DEF TypeOK, IInv, ClickInv
<1>3. /\ HandlerMoves(c)
      /\ \A a \in ApprovalIds : Owing(a)' = Owing(a) /\ Busy(a)' \subseteq Busy(a)
  <2>1. CASE StartsTask(c)
    <3>1. click' = [click EXCEPT ![c].pc = "replied"]
          /\ click[c].decision = "approved"
      BY <2>1 DEF Reply, StartsTask
    <3>2. /\ click' \in [Clicks -> Handler]
          /\ \A d \in Clicks \ {c} : click'[d] = click[d]
          /\ click'[c].pc = "replied" /\ click'[c].button = click[c].button
          /\ click'[c].approval = click[c].approval
          /\ click'[c].decision = click[c].decision
      BY <1>1, <3>1, HandlerPc
    <3>3. HandlerMoves(c)
      BY <1>1, <1>2, <3>1, <3>2 DEF HandlerMoves, ClickInv, TypeOK
    <3>4. \A a \in ApprovalIds : Owing(a)' = Owing(a) /\ Busy(a)' \subseteq Busy(a)
      BY <1>1, <3>1, <3>2 DEF Owing, Busy
    <3> QED BY <3>3, <3>4
  <2>2. CASE ~StartsTask(c)
    <3>1. click' = [click EXCEPT ![c] = Idle] /\ click[c].decision # "approved"
      BY <1>1, <2>2 DEF Reply, StartsTask
    <3>2. /\ click' \in [Clicks -> Handler] /\ click'[c].pc = "idle"
          /\ \A d \in Clicks \ {c} : click'[d] = click[d]
      BY <1>1, <3>1, HandlerSet, IdleHandler
    <3>3. HandlerMoves(c)
      BY <1>1, <3>2 DEF HandlerMoves, ClickInv, TypeOK
    <3>4. \A a \in ApprovalIds : Owing(a)' = Owing(a) /\ Busy(a)' \subseteq Busy(a)
      BY <3>1, <3>2 DEF Owing, Busy
    <3> QED BY <3>3, <3>4
  <2> QED BY <2>1, <2>2
<1>4. ASSUME NEW a \in ApprovalIds PROVE Counted(a)' /\ Bounded(a)'
  <2>1. FollowUps(a)' = FollowUps(a) /\ AskInv(a)
    BY <1>1 DEF FollowUps, TaskIds, IInv
  <2>2. Counted(a)'
    BY <1>1, <1>3, <2>1 DEF AskInv, Counted
  <2>3. IsFiniteSet(Busy(a)) /\ Cardinality(Busy(a)) \in Nat
        /\ Cardinality(FollowUps(a)) \in Nat /\ Cardinality(Clicks) \in Nat
    BY <1>1, FiniteParts
  <2>4. Busy(a)' \in SUBSET Busy(a)
    BY <1>3
  <2>5. Cardinality(Busy(a)') <= Cardinality(Busy(a))
        /\ Cardinality(Busy(a)') \in Nat
    BY <2>3, <2>4, FS_Subset, FS_CardinalityType
  <2> QED BY <2>1, <2>2, <2>3, <2>5 DEF AskInv, Bounded
<1>5. QED
  BY <1>1, <1>3, <1>4, HandlerOnly

(* A press that writes "approved" owes a follow-up from here on.            *)
LEMMA ResolveIInv ==
  ASSUME IInv, NEW c \in Clicks, Resolve(c) PROVE IInv'
<1> DEFINE b == click[c].approval
           grants == click[c].button /\ click[c].decision = "approved"
           more == IF grants THEN approvals[b].granted + 1
                             ELSE approvals[b].granted
           new == [approvals[b] EXCEPT !.status = click[c].decision,
                                       !.granted = more]
<1>1. TypeOK /\ click[c].pc = "read" /\ b \in ApprovalIds /\ click[c] \in Handler
      /\ tasks' = tasks /\ timers' = timers /\ restarts' = restarts
  BY DEF IInv, TypeOK, Resolve
<1>2. approvals[b] \in Approval /\ click[c].decision \in {"approved", "rejected"}
  BY <1>1 DEF TypeOK, ApprovalIds, Handler
<1>3. more \in Nat
  BY <1>2 DEF Approval
<1>4. new \in Approval /\ new.task = approvals[b].task
      /\ new.status = click[c].decision /\ new.granted = more
      /\ new.lost = approvals[b].lost
  BY <1>2, <1>3 DEF Approval
<1>5. approvals' = [approvals EXCEPT ![b] = new]
  BY <1>1 DEF Resolve, TypeOK, ApprovalIds
<1>6. /\ approvals' \in Seq(Approval) /\ Len(approvals') = Len(approvals)
      /\ approvals'[b] = new
      /\ \A a \in ApprovalIds \ {b} : approvals'[a] = approvals[a]
  <2> HIDE DEF new, b
  <2> QED BY <1>1, <1>4, <1>5 DEF TypeOK, ApprovalIds
<1>7. /\ HandlerMoves(c)
      /\ \A a \in ApprovalIds : Busy(a)' \subseteq Busy(a)
      /\ \A a \in ApprovalIds :
           Owing(a)' = IF a = b /\ grants THEN Owing(a) \cup {c} ELSE Owing(a)
  <2>1. CASE click[c].button
    <3>1. click' = [click EXCEPT ![c].pc = "decided"]
      BY <2>1 DEF Resolve
    <3>2. /\ click' \in [Clicks -> Handler]
          /\ \A d \in Clicks \ {c} : click'[d] = click[d]
          /\ click'[c].pc = "decided" /\ click'[c].button = click[c].button
          /\ click'[c].approval = b
          /\ click'[c].decision = click[c].decision
      BY <1>1, <3>1, HandlerPc
    <3>3. HandlerMoves(c)
      <4>1. ClickInv(c)'
        BY <1>2, <1>4, <1>6, <2>1, <3>2 DEF ClickInv
      <4>2. \A a \in ApprovalIds :
              /\ approvals'[a].task = approvals[a].task
              /\ approvals[a].status # "pending" => approvals'[a].status # "pending"
        BY <1>2, <1>4, <1>6
      <4> QED BY <1>1, <1>6, <3>2, <4>1, <4>2 DEF HandlerMoves
    <3>4. \A a \in ApprovalIds : Busy(a)' \subseteq Busy(a)
      BY <1>1, <3>2 DEF Busy
    <3>5. ASSUME NEW a \in ApprovalIds
          PROVE Owing(a)' = IF a = b /\ grants THEN Owing(a) \cup {c} ELSE Owing(a)
      BY <1>1, <2>1, <3>2 DEF Owing
    <3> QED BY <3>3, <3>4, <3>5
  <2>2. CASE ~click[c].button
    <3>1. click' = [click EXCEPT ![c] = Idle]
      BY <2>2 DEF Resolve
    <3>2. /\ click' \in [Clicks -> Handler] /\ click'[c].pc = "idle"
          /\ \A d \in Clicks \ {c} : click'[d] = click[d]
      BY <1>1, <3>1, HandlerSet, IdleHandler
    <3>3. HandlerMoves(c)
      <4>1. \A a \in ApprovalIds :
              /\ approvals'[a].task = approvals[a].task
              /\ approvals[a].status # "pending" => approvals'[a].status # "pending"
        BY <1>2, <1>4, <1>6
      <4> QED BY <1>1, <1>6, <3>2, <4>1 DEF HandlerMoves, ClickInv
    <3>4. \A a \in ApprovalIds : Busy(a)' \subseteq Busy(a)
      BY <3>2 DEF Busy
    <3>5. ASSUME NEW a \in ApprovalIds
          PROVE Owing(a)' = IF a = b /\ grants THEN Owing(a) \cup {c} ELSE Owing(a)
      BY <1>1, <2>2, <3>2 DEF Owing
    <3> QED BY <3>3, <3>4, <3>5
  <2> QED BY <2>1, <2>2
<1>8. ASSUME NEW a \in ApprovalIds PROVE Counted(a)' /\ Bounded(a)'
  <2>1. FollowUps(a)' = FollowUps(a) /\ AskInv(a)
    BY <1>1 DEF FollowUps, TaskIds, IInv
  <2>2. IsFiniteSet(Busy(a)) /\ Cardinality(Busy(a)) \in Nat
        /\ Cardinality(FollowUps(a)) \in Nat /\ Cardinality(Clicks) \in Nat
        /\ IsFiniteSet(Owing(a)) /\ Cardinality(Owing(a)) \in Nat
    BY <1>1, FiniteParts
  <2>3. Cardinality(Busy(a)') <= Cardinality(Busy(a))
        /\ Cardinality(Busy(a)') \in Nat
    <3>1. Busy(a)' \in SUBSET Busy(a)
      BY <1>7
    <3> QED BY <2>2, <3>1, FS_Subset, FS_CardinalityType
  <2>4. Bounded(a)'
    BY <2>1, <2>2, <2>3 DEF AskInv, Bounded
  <2>5. approvals[a] \in Approval
    BY <1>1 DEF TypeOK, ApprovalIds
  <2>6. approvals[a].granted \in Nat /\ approvals[a].lost \in Nat
    BY <2>5 DEF Approval
  <2>7. CASE a = b /\ grants
    <3>1. c \notin Owing(a)
      BY <1>1 DEF Owing
    <3>2. Owing(a)' = Owing(a) \cup {c}
      BY <1>7, <2>7
    <3>3. Cardinality(Owing(a)') = Cardinality(Owing(a)) + 1
      BY <2>2, <3>1, <3>2, FS_AddElement
    <3>4. approvals'[a].granted = approvals[a].granted + 1
          /\ approvals'[a].lost = approvals[a].lost
      BY <1>4, <1>6, <2>7
    <3> QED BY <2>1, <2>2, <2>4, <2>6, <3>3, <3>4 DEF AskInv, Counted
  <2>8. CASE ~(a = b /\ grants)
    <3>1. Owing(a)' = Owing(a)
      BY <1>7, <2>8
    <3>2. approvals'[a].granted = approvals[a].granted
          /\ approvals'[a].lost = approvals[a].lost
      BY <1>4, <1>6, <2>8
    <3> QED BY <2>1, <2>4, <3>1, <3>2 DEF AskInv, Counted
  <2> QED BY <2>4, <2>7, <2>8
<1>9. \A a \in ApprovalIds :
        approvals'[a].status = "pending" => approvals[a].status = "pending"
  BY <1>2, <1>4, <1>6
<1>10. QED
  BY <1>1, <1>7, <1>8, <1>9, HandlerOnly

(* A handler that gives up leaves its debt in lost.                         *)
LEMMA AbandonIInv ==
  ASSUME IInv, NEW c \in Clicks, Abandon(c) PROVE IInv'
<1> DEFINE owed(a) == IF c \in Owing(a) THEN approvals[a].lost + 1
                                        ELSE approvals[a].lost
           new(a) == [approvals[a] EXCEPT !.lost = owed(a)]
<1>1. TypeOK /\ tasks' = tasks /\ timers' = timers /\ restarts' = restarts
      /\ click' = [click EXCEPT ![c] = Idle]
      /\ Len(approvals) \in Nat
  BY DEF IInv, TypeOK, Abandon
<1>2. /\ click' \in [Clicks -> Handler] /\ click'[c].pc = "idle"
      /\ \A d \in Clicks \ {c} : click'[d] = click[d]
  BY <1>1, HandlerSet, IdleHandler
<1>3. ASSUME NEW a \in ApprovalIds
      PROVE  /\ new(a) \in Approval /\ new(a).task = approvals[a].task
             /\ new(a).status = approvals[a].status
             /\ new(a).granted = approvals[a].granted /\ new(a).lost = owed(a)
             /\ approvals[a].granted \in Nat /\ approvals[a].lost \in Nat
  <2>1. approvals[a] \in Approval
    BY <1>1 DEF TypeOK, ApprovalIds
  <2>2. owed(a) \in Nat
    BY <2>1 DEF Approval
  <2> HIDE DEF owed
  <2> QED BY <2>1, <2>2 DEF Approval
<1>4. approvals' = [a \in ApprovalIds |-> new(a)]
  BY DEF Abandon
<1>5. /\ approvals' \in Seq(Approval) /\ Len(approvals') = Len(approvals)
      /\ \A a \in ApprovalIds : approvals'[a] = new(a)
  <2> HIDE DEF new
  <2> QED BY <1>1, <1>3, <1>4 DEF ApprovalIds
<1>6. HandlerMoves(c)
  <2> HIDE DEF new
  <2> QED BY <1>1, <1>2, <1>3, <1>5 DEF HandlerMoves, ClickInv
<1>7. ASSUME NEW a \in ApprovalIds PROVE Counted(a)' /\ Bounded(a)'
  <2>1. FollowUps(a)' = FollowUps(a) /\ AskInv(a)
    BY <1>1 DEF FollowUps, TaskIds, IInv
  <2>2. IsFiniteSet(Busy(a)) /\ Cardinality(Busy(a)) \in Nat
        /\ Cardinality(FollowUps(a)) \in Nat /\ Cardinality(Clicks) \in Nat
        /\ IsFiniteSet(Owing(a)) /\ Cardinality(Owing(a)) \in Nat
    BY <1>1, FiniteParts
  <2>3. Cardinality(Busy(a)') <= Cardinality(Busy(a))
        /\ Cardinality(Busy(a)') \in Nat
    <3>1. Busy(a)' \in SUBSET Busy(a)
      BY <1>2 DEF Busy
    <3> QED BY <2>2, <3>1, FS_Subset, FS_CardinalityType
  <2>4. Bounded(a)'
    BY <2>1, <2>2, <2>3 DEF AskInv, Bounded
  <2>5. Owing(a)' = Owing(a) \ {c}
    BY <1>2 DEF Owing
  <2>6. Cardinality(Owing(a)') = IF c \in Owing(a) THEN Cardinality(Owing(a)) - 1
                                                  ELSE Cardinality(Owing(a))
    BY <2>2, <2>5, FS_RemoveElement
  <2>7. /\ approvals'[a].granted = approvals[a].granted
        /\ approvals'[a].lost = owed(a)
        /\ approvals[a].granted \in Nat /\ approvals[a].lost \in Nat
    <3> HIDE DEF new, owed
    <3> QED BY <1>3, <1>5
  <2> QED BY <2>1, <2>2, <2>4, <2>6, <2>7 DEF AskInv, Counted
<1>8. \A a \in ApprovalIds :
        approvals'[a].status = "pending" => approvals[a].status = "pending"
  <2> HIDE DEF new
  <2> QED BY <1>3, <1>5
<1>9. QED
  BY <1>1, <1>6, <1>7, <1>8, HandlerOnly

(* The follow-up pays the handler's debt.                                   *)
LEMMA FollowUpIInv ==
  ASSUME IInv, NEW c \in Clicks, FollowUp(c) PROVE IInv'
<1> DEFINE b == click[c].approval
           n == Len(tasks) + 1
           row == NewRow(TRUE, 0, b)
<1>1. TypeOK /\ click[c].pc = "replied" /\ click[c].button
      /\ click[c].decision = "approved"
      /\ b \in ApprovalIds /\ b \in Nat \ {0} /\ b <= Len(approvals)
      /\ approvals[b].status # "pending"
      /\ UNCHANGED <<timers, approvals, restarts>>
  BY DEF IInv, TypeOK, FollowUp, ClickInv, ApprovalIds
<1>2. row \in Row /\ row.grant = b /\ row.retry = 0 /\ row.bypass = TRUE
  BY <1>1 DEF NewRow, Row
<1>3. CreateTask(row) /\ click' = [click EXCEPT ![c] = Idle]
  BY DEF FollowUp
<1> HIDE DEF row
<1>4. /\ tasks' \in Seq(Row) /\ Len(tasks') = n /\ tasks'[n] = row
      /\ \A t \in TaskIds : tasks'[t] = tasks[t]
  BY <1>1, <1>2, <1>3, CreateTaskStep
<1>5. TaskIds' = TaskIds \cup {n} /\ n \notin TaskIds /\ ApprovalIds' = ApprovalIds
  BY <1>1, <1>4 DEF TaskIds, ApprovalIds, TypeOK
<1>6. /\ click' \in [Clicks -> Handler] /\ click'[c].pc = "idle"
      /\ \A d \in Clicks \ {c} : click'[d] = click[d]
  BY <1>1, <1>3, HandlerSet, IdleHandler
<1>7. TypeOK'
  BY <1>1, <1>4, <1>5, <1>6 DEF TypeOK
<1>8. \A t \in TaskIds' : RowInv(t)'
  BY <1>1, <1>2, <1>4, <1>5 DEF IInv, RowInv
<1>9. \A d \in Clicks : ClickInv(d)'
  BY <1>1, <1>6 DEF IInv, ClickInv
<1>10. ASSUME NEW a \in ApprovalIds PROVE AskInv(a)'
  <2>1. AskInv(a) /\ approvals[a].task \in TaskIds /\ approvals[a] \in Approval
    BY <1>1 DEF IInv, TypeOK, ApprovalIds
  <2>2. IsFiniteSet(Busy(a)) /\ Cardinality(Busy(a)) \in Nat
        /\ IsFiniteSet(FollowUps(a)) /\ Cardinality(FollowUps(a)) \in Nat
        /\ IsFiniteSet(Owing(a)) /\ Cardinality(Owing(a)) \in Nat
        /\ Cardinality(Clicks) \in Nat
    BY <1>1, FiniteParts
  <2>3. approvals[a].granted \in Nat /\ approvals[a].lost \in Nat
    BY <2>1 DEF Approval
  <2>4. Owing(a)' = Owing(a) \ {c} /\ Busy(a)' = Busy(a) \ {c}
    BY <1>6 DEF Owing, Busy
  <2>5. CASE a = b
    <3>1. FollowUps(a)' = FollowUps(a) \cup {n} /\ n \notin FollowUps(a)
      BY <1>2, <1>4, <1>5, <2>5 DEF FollowUps
    <3>2. c \in Owing(a) /\ c \in Busy(a)
      BY <1>1, <2>5 DEF Owing, Busy
    <3>3. Cardinality(FollowUps(a)') = Cardinality(FollowUps(a)) + 1
      BY <2>2, <3>1, FS_AddElement
    <3>4. Cardinality(Owing(a)') = Cardinality(Owing(a)) - 1
          /\ Cardinality(Busy(a)') = Cardinality(Busy(a)) - 1
      BY <2>2, <2>4, <3>2, FS_RemoveElement
    <3>5. Counted(a)' /\ Bounded(a)'
      BY <1>1, <2>1, <2>2, <2>3, <3>3, <3>4 DEF AskInv, Counted, Bounded
    <3>6. tasks'[approvals[a].task].bypass = tasks[approvals[a].task].bypass
      BY <1>4, <2>1
    <3> QED BY <1>1, <2>1, <2>5, <3>5, <3>6 DEF AskInv
  <2>6. CASE a # b
    <3>1. FollowUps(a)' = FollowUps(a)
      BY <1>2, <1>4, <1>5, <2>6 DEF FollowUps
    <3>2. Owing(a)' = Owing(a) /\ Busy(a)' = Busy(a)
      BY <2>4, <2>6 DEF Owing, Busy
    <3>3. tasks'[approvals[a].task].bypass = tasks[approvals[a].task].bypass
      BY <1>4, <2>1
    <3> QED BY <1>1, <2>1, <3>1, <3>2, <3>3 DEF AskInv, Counted, Bounded
  <2> QED BY <2>5, <2>6
<1>11. QED
  BY <1>5, <1>7, <1>8, <1>9, <1>10 DEF IInv

(* A restart turns every debt into a loss.                                  *)
LEMMA RestartIInv ==
  ASSUME IInv, Restart PROVE IInv'
<1> DEFINE owed(a) == approvals[a].lost + Cardinality(Owing(a))
           new(a) == [approvals[a] EXCEPT !.lost = owed(a)]
<1>1. TypeOK /\ restarts' \in Nat /\ Len(approvals) \in Nat /\ timers' = {}
      /\ click' = [c \in Clicks |-> Idle]
  BY DEF IInv, TypeOK, Restart
<1>2. ASSUME NEW t \in TaskIds
      PROVE  /\ tasks'[t] \in Row /\ tasks'[t].bypass = tasks[t].bypass
             /\ tasks'[t].retry = tasks[t].retry /\ tasks'[t].grant = tasks[t].grant
  <2>1. tasks[t] \in Row
    BY <1>1 DEF TypeOK, TaskIds
  <2>2. tasks'[t] = IF tasks[t].status = "running"
                      THEN [tasks[t] EXCEPT !.status = "failed"] ELSE tasks[t]
    BY DEF Restart
  <2> QED BY <2>1, <2>2 DEF Row
<1>3. OnlyStatus /\ TaskIds' = TaskIds
  <2>1. tasks' = [t \in TaskIds |-> tasks'[t]]
    BY DEF Restart
  <2>2. tasks' \in Seq(Row) /\ Len(tasks') = Len(tasks)
    BY <1>1, <1>2, <2>1 DEF TypeOK, TaskIds
  <2> QED BY <1>2, <2>2 DEF OnlyStatus, TaskIds
<1>4. ASSUME NEW a \in ApprovalIds
      PROVE  /\ new(a) \in Approval /\ new(a).task = approvals[a].task
             /\ new(a).status = approvals[a].status
             /\ new(a).granted = approvals[a].granted /\ new(a).lost = owed(a)
             /\ approvals[a].granted \in Nat /\ approvals[a].lost \in Nat
  <2>1. approvals[a] \in Approval
    BY <1>1 DEF TypeOK, ApprovalIds
  <2>2. owed(a) \in Nat
    <3>1. Cardinality(Owing(a)) \in Nat
      BY <1>1, FiniteParts
    <3> QED BY <2>1, <3>1 DEF Approval
  <2> HIDE DEF owed
  <2> QED BY <2>1, <2>2 DEF Approval
<1>5. /\ approvals' \in Seq(Approval) /\ Len(approvals') = Len(approvals)
      /\ \A a \in ApprovalIds : approvals'[a] = new(a)
  <2>1. approvals' = [a \in ApprovalIds |-> new(a)]
    BY DEF Restart
  <2> HIDE DEF new
  <2> QED BY <1>1, <1>4, <2>1 DEF ApprovalIds
<1>6. ApprovalIds' = ApprovalIds
  BY <1>5 DEF ApprovalIds
<1>7. TypeOK'
  <2>1. \A a \in ApprovalIds : approvals'[a].task \in TaskIds
    <3> HIDE DEF new
    <3> QED BY <1>1, <1>4, <1>5 DEF TypeOK
  <2>2. click' \in [Clicks -> Handler] /\ \A c \in Clicks : click'[c].pc = "idle"
    BY <1>1, IdleHandler
  <2> QED BY <1>1, <1>3, <1>5, <1>6, <2>1, <2>2 DEF TypeOK, OnlyStatus
<1>8. \A t \in TaskIds' : RowInv(t)'
  BY <1>3, <1>5 DEF IInv, RowInv, OnlyStatus
<1>9. \A c \in Clicks : ClickInv(c)'
  BY <1>1, IdleHandler DEF ClickInv
<1>10. ASSUME NEW a \in ApprovalIds PROVE AskInv(a)'
  <2>1. AskInv(a) /\ approvals[a].task \in TaskIds
    BY <1>1 DEF IInv, TypeOK
  <2>2. FollowUps(a)' = FollowUps(a)
    BY <1>3 DEF FollowUps, OnlyStatus
  <2>3. Owing(a)' = {} /\ Busy(a)' = {}
    BY <1>1, IdleHandler DEF Owing, Busy
  <2>4. Cardinality({}) = 0
    BY FS_EmptySet
  <2>5. Cardinality(Owing(a)) \in Nat /\ Cardinality(FollowUps(a)) \in Nat
        /\ Cardinality(Busy(a)) \in Nat /\ Cardinality(Clicks) \in Nat
    BY <1>1, FiniteParts
  <2>6. /\ approvals'[a].task = approvals[a].task
        /\ approvals'[a].status = approvals[a].status
        /\ approvals'[a].granted = approvals[a].granted
        /\ approvals'[a].lost = owed(a)
        /\ approvals[a].granted \in Nat /\ approvals[a].lost \in Nat
    <3> HIDE DEF new, owed
    <3> QED BY <1>4, <1>5
  <2>7. Counted(a)'
    BY <2>1, <2>2, <2>3, <2>4, <2>5, <2>6 DEF AskInv, Counted
  <2>8. Bounded(a)'
    BY <2>1, <2>2, <2>3, <2>4, <2>5 DEF AskInv, Bounded
  <2>9. tasks'[approvals[a].task].bypass = tasks[approvals[a].task].bypass
    BY <1>2, <2>1
  <2> QED BY <2>1, <2>2, <2>6, <2>7, <2>8, <2>9 DEF AskInv
<1>11. QED
  BY <1>6, <1>7, <1>8, <1>9, <1>10 DEF IInv

-----------------------------------------------------------------------------
(* Theorems *)

LEMMA InitIInv ==
  ASSUME Init PROVE IInv
<1>1. click = [c \in Clicks |-> Idle] /\ Len(tasks) = 0 /\ Len(approvals) = 0
  BY DEF Init
<1>2. TaskIds = {} /\ ApprovalIds = {}
  BY <1>1 DEF TaskIds, ApprovalIds
<1>3. click \in [Clicks -> Handler] /\ \A c \in Clicks : click[c].pc = "idle"
  BY <1>1, IdleHandler
<1>4. TypeOK
  BY <1>2, <1>3 DEF TypeOK, Init
<1>5. QED
  BY <1>2, <1>3, <1>4 DEF IInv, ClickInv

LEMMA NextIInv ==
  ASSUME IInv, [Next]_vars PROVE IInv'
<1>1. CASE Submit
  BY <1>1, SubmitIInv
<1>2. CASE \E t \in TaskIds : TaskStep(t)
  BY <1>2, TaskStepIInv
<1>3. ASSUME NEW c \in Clicks, HandlerStep(c) PROVE IInv'
  BY <1>3, ResolveIInv, ReplyIInv, FollowUpIInv, AbandonIInv DEF HandlerStep
<1>4. ASSUME NEW c \in Clicks, NEW channel \in {"button", "web", "mcp"},
             NEW a \in ApprovalIds, NEW decision \in {"approved", "rejected"},
             Click(c, channel, a, decision)
      PROVE  IInv'
  BY <1>4, ClickIInv
<1>5. CASE Restart
  BY <1>5, RestartIInv
<1>6. CASE UNCHANGED vars
  BY <1>6 DEF vars, IInv, TypeOK, TaskIds, ApprovalIds, RowInv, ClickInv,
              AskInv, Counted, Bounded, FollowUps, Owing, Busy
<1>7. QED
  BY <1>1, <1>2, <1>3, <1>4, <1>5, <1>6 DEF Next

LEMMA Invariance == Spec => []IInv
<1>1. Init => IInv
  BY InitIInv
<1>2. IInv /\ [Next]_vars => IInv'
  BY NextIInv
<1>3. QED
  BY <1>1, <1>2, PTL DEF Spec

(* Every press that wrote "approved" has made one follow-up, owes it, or    *)
(* was lost; nothing else makes one.                                        *)
THEOREM FollowUpsAccounted == Spec => []FollowUpsAccountedFor
<1>1. IInv => FollowUpsAccountedFor
  BY DEF IInv, AskInv, Counted, FollowUpsAccountedFor
<1>2. QED
  BY <1>1, Invariance, PTL

(* Follow-ups made and presses at work never exceed the handlers.           *)
THEOREM FollowUpsLimited == Spec => []FollowUpsBounded
<1>1. IInv => FollowUpsBounded
  BY DEF IInv, AskInv, Bounded, FollowUpsBounded
<1>2. QED
  BY <1>1, Invariance, PTL

(* No request comes from a row that descends from an approval.              *)
THEOREM NotAskedAgain == Spec => []ApprovedNotAskedAgain
<1>1. IInv => ApprovedNotAskedAgain
  BY DEF IInv, TypeOK, RowInv, AskInv, ApprovedNotAskedAgain
<1>2. QED
  BY <1>1, Invariance, PTL
=============================================================================
