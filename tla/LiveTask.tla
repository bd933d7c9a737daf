------------------------------ MODULE LiveTask ------------------------------
(***************************************************************************)
(* A task in a container and those who watch it: the promise around one    *)
(* container of engine/docker-executor.ts, its callbacks and its timer,    *)
(* the log lines that are stored and then emitted, the end of the task,    *)
(* and the event stream of routes.ts with its subscription, its replay and *)
(* the client of TaskDetailPage.tsx.                                       *)
(***************************************************************************)
EXTENDS Naturals, FiniteSets

CONSTANTS
  Printed,   \* what the container prints besides its result
  Viewers,   \* connections to the stream of the task
  MayReject  \* whether a call of the database may reject

(* The executor's own lines: of the time limit, of a result, of an error.   *)
Own == {"timeout", "final", "failure"}
Lines == Printed \cup Own

ASSUME LiveAssumption == Printed \cap Own = {} /\ MayReject \in BOOLEAN

VARIABLES
  proc,      \* the container's process
  result,    \* containerResult was set
  timer,
  promise,
  executor,  \* where executeTaskInDocker is, after the container's start
  status,    \* of the task's row
  writing,   \* lines whose insert is on its way
  stored,    \* rows of task_logs
  emitted,   \* lines given to taskLogEmitter
  viewer,
  up         \* the server's process

container == <<proc, result, timer, promise>>
lines == <<writing, stored, emitted>>
vars == <<container, executor, status, lines, viewer, up>>

(* A viewer that has subscribed waits for the stored lines, then for the    *)
(* row, then watches.  done is doneAlreadySent, told that the event reached *)
(* the client.  early is a ghost: the connection was over before its close  *)
(* handler was installed.                                                   *)
Viewer == [pc : {"none", "listing", "listed", "checking", "checked", "over", "refused"},
           attached : BOOLEAN, open : BOOLEAN, done : BOOLEAN, told : BOOLEAN,
           early : BOOLEAN,
           sent : SUBSET Lines, snapshot : SUBSET Lines, ended : BOOLEAN]

Nobody == [pc |-> "none", attached |-> FALSE, open |-> FALSE, done |-> FALSE,
           told |-> FALSE, early |-> FALSE, sent |-> {}, snapshot |-> {}, ended |-> FALSE]

Init ==
  /\ proc = "running" /\ result = FALSE /\ timer = "armed" /\ promise = "open"
  /\ executor = "waiting" /\ status = "running"
  /\ writing = {} /\ stored = {} /\ emitted = {}
  /\ viewer = [v \in Viewers |-> Nobody]
  /\ up = TRUE

-----------------------------------------------------------------------------
(* The container and the callbacks that settle its promise *)

Settle(outcome) == promise' = IF promise = "open" THEN outcome ELSE promise
Write(l) == writing' = writing \cup {l} /\ UNCHANGED <<stored, emitted>>

PrintLine(l) ==
  /\ proc = "running" /\ l \notin writing \cup stored
  /\ Write(l)
  /\ UNCHANGED <<container, executor, status, viewer, up>>

PrintResult ==
  /\ proc = "running" /\ ~result
  /\ result' = TRUE
  /\ UNCHANGED <<proc, timer, promise, executor, status, lines, viewer, up>>

(* An error line rejects; the container is left to itself and its timer.    *)
PrintError ==
  /\ proc = "running" /\ promise = "open"
  /\ Settle("rejected")
  /\ UNCHANGED <<proc, result, timer, executor, status, lines, viewer, up>>

Exit ==
  /\ proc = "running"
  /\ proc' = "exited"
  /\ UNCHANGED <<result, timer, promise, executor, status, lines, viewer, up>>

(* Mutated: a container that ends without a result settles nothing.         *)
CloseSilently ==
  /\ proc \in {"exited", "killed"}
  /\ proc' = "closed"
  /\ IF timer = "fired" THEN UNCHANGED <<timer, promise>>
     ELSE timer' = "cleared" /\ IF result THEN Settle("resolved") ELSE UNCHANGED promise
  /\ UNCHANGED <<result, executor, status, lines, viewer, up>>

(* The close event leaves a container that timed out to its timer.          *)
Close ==
  /\ proc \in {"exited", "killed"}
  /\ proc' = "closed"
  /\ IF timer = "fired" THEN UNCHANGED <<timer, promise>>
     ELSE timer' = "cleared" /\ Settle(IF result THEN "resolved" ELSE "rejected")
  /\ UNCHANGED <<result, executor, status, lines, viewer, up>>

(* The timer kills the container, stores a line, and only then rejects.     *)
Timeout ==
  /\ timer = "armed"
  /\ timer' = "fired"
  /\ proc' = IF proc = "running" THEN "killed" ELSE proc
  /\ Write("timeout")
  /\ UNCHANGED <<result, promise, executor, status, viewer, up>>

TimeoutRejects ==
  /\ timer = "fired" /\ "timeout" \in emitted /\ promise = "open"
  /\ Settle("rejected")
  /\ UNCHANGED <<proc, result, timer, executor, status, lines, viewer, up>>

-----------------------------------------------------------------------------
(* Lines, and the end of the task *)

Insert(l) ==
  /\ l \in writing
  /\ writing' = writing \ {l} /\ stored' = stored \cup {l}
  /\ UNCHANGED <<container, executor, status, emitted, viewer, up>>

(* Mutated: a line is emitted while its insert is on its way.               *)
EmittableEarly == (writing \cup stored) \ emitted

Emittable == stored \ emitted

Gets(v) == viewer[v].attached /\ viewer[v].open

Emit(l) ==
  /\ l \in Emittable
  /\ emitted' = emitted \cup {l}
  /\ viewer' = [v \in Viewers |->
       IF Gets(v) THEN [viewer[v] EXCEPT !.sent = @ \cup {l}] ELSE viewer[v]]
  /\ UNCHANGED <<container, executor, status, writing, stored, up>>

(* The insert of a line that a callback stores rejects: nobody handles the  *)
(* rejection, and the process ends.  The lines of the outcome are awaited.  *)
Crash ==
  /\ MayReject /\ writing \ {"final", "failure"} # {}
  /\ up' = FALSE
  /\ viewer' = [v \in Viewers |-> [viewer[v] EXCEPT !.open = FALSE, !.attached = FALSE]]
  /\ UNCHANGED <<container, executor, status, lines>>

(* A result is logged; a rejection goes to the catch block, which logs it.  *)
LogOutcome ==
  /\ executor = "waiting" /\ promise # "open"
  /\ \/ promise = "resolved" /\ executor' = "logging" /\ Write("final")
     \/ promise = "rejected" /\ executor' = "failing" /\ Write("failure")
  /\ UNCHANGED <<container, status, viewer, up>>

(* The executor waits for the insert of its line, or is past it.            *)
Awaits(l) == l \in writing \cup emitted

(* After a result, the insert of its line, the usage and memory that follow *)
(* or the update of the row may reject: the catch block takes over.         *)
FailOutcome ==
  /\ MayReject /\ executor = "logging" /\ Awaits("final")
  /\ executor' = "failing"
  /\ writing' = (writing \ {"final"}) \cup {"failure"}
  /\ UNCHANGED <<container, status, stored, emitted, viewer, up>>

(* The insert or the update of the catch block rejects: the row stays       *)
(* running and no event follows.                                            *)
LoseOutcome ==
  /\ MayReject /\ executor = "failing" /\ Awaits("failure")
  /\ executor' = "lost"
  /\ writing' = writing \ {"failure"}
  /\ UNCHANGED <<container, status, stored, emitted, viewer, up>>

(* Mutated: the row is updated without waiting for the line.                *)
OutcomeLoggedAtOnce == executor \in {"logging", "failing"}

OutcomeLogged ==
  \/ executor = "logging" /\ "final" \in emitted
  \/ executor = "failing" /\ "failure" \in emitted

UpdateRow ==
  /\ OutcomeLogged
  /\ status' = IF executor = "logging" THEN "completed" ELSE "failed"
  /\ executor' = "updated"
  /\ UNCHANGED <<container, lines, viewer, up>>

(* Mutated: the end is announced before the row is written.                 *)
MayAnnounceEarly == OutcomeLogged \/ executor = "updated"

MayAnnounce == executor = "updated"

(* The connection is over; the close handler, if installed by now, removes  *)
(* the listeners.                                                           *)
Ended(w, told) ==
  [w EXCEPT !.open = FALSE, !.told = told,
            !.attached = IF w.pc = "over" THEN FALSE ELSE @,
            !.early = w.pc # "over"]

(* The handler answers the first done event, also for a client that left.   *)
Notified(w) == [IF w.open THEN Ended(w, TRUE) ELSE w EXCEPT !.done = TRUE]

EmitDone ==
  /\ MayAnnounce
  /\ executor' = "over"
  /\ viewer' = [v \in Viewers |->
       IF viewer[v].attached THEN Notified(viewer[v]) ELSE viewer[v]]
  /\ UNCHANGED <<container, status, lines, up>>

-----------------------------------------------------------------------------
(* GET /api/tasks/:id/stream *)

Subscribe(v) ==
  /\ viewer[v].pc = "none"
  /\ viewer' = [viewer EXCEPT ![v] =
       [Nobody EXCEPT !.pc = "listing", !.attached = TRUE, !.open = TRUE]]
  /\ UNCHANGED <<container, executor, status, lines, up>>

ListLogs(v) ==
  /\ viewer[v].pc = "listing"
  /\ viewer' = [viewer EXCEPT ![v].pc = "listed", ![v].snapshot = stored]
  /\ UNCHANGED <<container, executor, status, lines, up>>

Replay(v) ==
  /\ viewer[v].pc = "listed"
  /\ viewer' = [viewer EXCEPT
       ![v].pc = "checking",
       ![v].sent = IF viewer[v].open THEN @ \cup viewer[v].snapshot ELSE @]
  /\ UNCHANGED <<container, executor, status, lines, up>>

(* Mutated: the stream relies on the event and does not read the row.       *)
RowEndedNever == FALSE

RowEnded == status \in {"completed", "failed"}

ReadRow(v) ==
  /\ viewer[v].pc = "checking"
  /\ viewer' = [viewer EXCEPT ![v].pc = "checked", ![v].ended = RowEnded]
  /\ UNCHANGED <<container, executor, status, lines, up>>

(* The handler ends the stream of a finished task, or installs the handler  *)
(* that will remove the listeners, too late for a connection that is over.  *)
Finish(v) ==
  /\ viewer[v].pc = "checked"
  /\ viewer' = [viewer EXCEPT ![v] =
       IF viewer[v].ended /\ ~viewer[v].done
         THEN [@ EXCEPT !.pc = "over", !.attached = FALSE,
                        !.told = viewer[v].open, !.open = FALSE]
         ELSE [@ EXCEPT !.pc = "over"]]
  /\ UNCHANGED <<container, executor, status, lines, up>>

(* A query rejects: the error handler ends the connection, and the handler  *)
(* that would remove the listeners is never installed.                      *)
QueryRejects(v) ==
  /\ MayReject /\ viewer[v].pc \in {"listing", "checking"}
  /\ viewer' = [viewer EXCEPT ![v].pc = "refused", ![v].open = FALSE, ![v].early = TRUE]
  /\ UNCHANGED <<container, executor, status, lines, up>>

(* Mutated: a client that goes away leaves its listeners.                   *)
LeaveAttached(v) ==
  /\ viewer[v].open
  /\ viewer' = [viewer EXCEPT ![v].open = FALSE, ![v].early = viewer[v].pc # "over"]
  /\ UNCHANGED <<container, executor, status, lines, up>>

Leave(v) ==
  /\ viewer[v].open
  /\ viewer' = [viewer EXCEPT ![v] = Ended(viewer[v], FALSE)]
  /\ UNCHANGED <<container, executor, status, lines, up>>

StreamStep(v) == ListLogs(v) \/ Replay(v) \/ ReadRow(v) \/ Finish(v)

RoundStep ==
  \/ \E l \in Printed : PrintLine(l)
  \/ PrintResult \/ PrintError \/ Exit \/ Close \/ Timeout \/ TimeoutRejects

LogStep(l) == Insert(l) \/ Emit(l)
EndStep == LogOutcome \/ UpdateRow \/ EmitDone

Next ==
  /\ up
  /\ \/ RoundStep \/ EndStep \/ FailOutcome \/ LoseOutcome \/ Crash
     \/ \E l \in Lines : LogStep(l)
     \/ \E v \in Viewers : Subscribe(v) \/ StreamStep(v) \/ QueryRejects(v) \/ Leave(v)

(* Timers fire, a process that ended is reported, queries are answered and  *)
(* ready callbacks run; nothing is assumed of the container.                *)
Fairness ==
  /\ WF_vars(up /\ Timeout) /\ WF_vars(up /\ TimeoutRejects) /\ WF_vars(up /\ Close)
  /\ WF_vars(up /\ EndStep)
  /\ \A l \in Lines : WF_vars(up /\ LogStep(l))
  /\ \A v \in Viewers : WF_vars(up /\ StreamStep(v))

Spec == Init /\ [][Next]_vars
FairSpec == Spec /\ Fairness

-----------------------------------------------------------------------------
(* Properties *)

(* Type correctness.                                                        *)
TypeOK ==
  /\ proc \in {"running", "exited", "killed", "closed"} /\ result \in BOOLEAN
  /\ timer \in {"armed", "fired", "cleared"}
  /\ promise \in {"open", "resolved", "rejected"}
  /\ executor \in {"waiting", "logging", "failing", "updated", "over", "lost"}
  /\ status \in {"running", "completed", "failed"}
  /\ writing \subseteq Lines /\ stored \subseteq Lines /\ emitted \subseteq Lines
  /\ viewer \in [Viewers -> Viewer] /\ up \in BOOLEAN

(* An open stream that has replayed the stored lines has sent every line    *)
(* that was emitted so far: none falls between the replay and the live      *)
(* lines (the stream subscribes before it reads, a line is stored before it *)
(* is emitted).                                                             *)
NoLineMissed ==
  \A v \in Viewers :
    viewer[v].open /\ viewer[v].pc \in {"checking", "checked", "over"}
      => emitted \subseteq viewer[v].sent

OutcomeLine == IF status = "completed" THEN "final" ELSE "failure"

(* Whoever is told that the task is done, and was not told during its own   *)
(* replay, has been sent the line of the outcome in the row, also when a    *)
(* result became a failure on its way to the row (the executor awaits the   *)
(* line before it writes the row).                                          *)
ToldSawOutcome ==
  \A v \in Viewers :
    viewer[v].told /\ ~viewer[v].early => OutcomeLine \in viewer[v].sent

(* Nobody is told that the task is done before its row says so, so a client *)
(* that reads the task then finds its outcome (onDone of the client).       *)
ToldAfterOutcome == (\E v \in Viewers : viewer[v].told) => status # "running"

(* Listeners belong to open streams; those of a stream that was over before *)
(* its close handler was installed stay, and no others.                     *)
ListenersAccounted ==
  \A v \in Viewers : viewer[v].attached => viewer[v].open \/ viewer[v].early

(* Every viewer is told the end, or its connection ends, or the server      *)
(* stops: also the one that subscribes while the row is being written.  The *)
(* exception: when the catch block's own log insert or update rejects, the  *)
(* end is lost, and who is watching waits for ever.                         *)
EveryViewerTold ==
  \A v \in Viewers :
    viewer[v].open ~> viewer[v].told \/ ~viewer[v].open \/ ~up \/ executor = "lost"

(* The promise of a round is settled, whatever the container prints and     *)
(* however it ends, unless a rejected insert stops the server first.        *)
RoundSettles == <>(promise # "open" \/ ~up)
=============================================================================
