# NanoOrch: TLA+ models of its task engine and of what surrounds it

NanoOrch is a Node.js server that runs tasks of AI agents. It keeps tasks, threads,
approvals, pipelines and jobs in PostgreSQL, and everything that is in flight (the
worker's map, timers, inference tokens, registered cron jobs, streams) in the memory
of one process. The questions worth a model are about those two worlds: which of
several asynchronous calls touches which row, in which order, and what a restart
leaves. There is one thread, so a stretch of code between two awaits is atomic, and
every await is a point where anything else may run; that is the grain of all the
modules here.

## 1. Inventory

Paths are under `src/server` unless they say otherwise.

| component | state it keeps | operations | what makes it correct |
|---|---|---|---|
| task queue worker, `engine/queue.ts` | `runningTasks` map, one loop | poll, scan, check pause and capacity, launch, settle, sleep | limit per orchestrator; the map is exactly its live calls; no row is starved |
| in-process executor, `engine/executor.ts` | the row's status, retry timers | begin, tool rounds, spawn children, complete, fail, retry | every started row gets an outcome; bounded retries with their lineage |
| Docker and K3s executors, `engine/docker-executor.ts`, `engine/k3s-executor.ts` | a container or job per round, a token per task | run rounds, wait with a time limit, revoke the token | one outcome per round; the token lives as long as the rounds |
| inference proxy, `proxy/inference-proxy.ts` | tokens by task and by value, usage by task | issue, revoke, expire, sweep, proxy a call, account usage | the two maps are inverse; a token ends with its run; usage is booked once |
| approval gates, `engine/executor.ts`, `routes.ts`, `mcp/server.ts`, `comms/*-handler.ts` | approval rows | request, resolve on four channels, start the follow-up task | resolved once; one follow-up, only after an approval |
| pipelines, `engine/pipeline-executor.ts` | run and step-run rows | run steps in order, pass outputs on, stop on failure | a run completes only if every step did |
| Git agents, `engine/git-agent-engine.ts`, `git-clone.ts` | a 60 s deduplication map, run rows, clones, the map of mounted clones | match, deduplicate, clone, run each agent, clean up | a key is handled once in its window; one closed run per active agent; a clone its handling's execution mounts exists, and none stays behind unnoticed |
| chat threads, `comms/*`, `comms-reply.ts`, `storage.ts` | thread rows: history, the id of the typing message | receive, reply, reset, compact | no message lost; each question answered once |
| scheduler and heartbeats, `engine/scheduler.ts`, `engine/heartbeat-scheduler.ts` | cron entries in memory for rows in the database | create, update, delete, fire, boot | an entry for exactly the active rows; what is left over does nothing |
| workspace quotas, `routes.ts` | counts in the database | count, then create | no quota is passed |
| task log stream, `routes.ts`, `lib/emitter.ts` | listeners, a replay of stored lines | subscribe, replay, forward, end | no line is missed; the end is told, after the outcome; no listener stays behind |
| rate limits, `lib/redis.ts` | counters with an expiry | increment, reset | a window has an end |
| chat and its confirmed actions, `routes.ts` | conversations, message rows | send, stream, confirm | an action runs once |
| code sandbox, `engine/sandbox-executor.ts` | a container per run | run, time out, collect | one result per run |
| sign-in, sessions, secrets, notifications, embeddings, providers, cloud tools | sessions, rows, calls of other services | request and response | left out, see section 8 |
| web client, `src/client`; migrations; scripts; agent runner | none on the server | | left out, see section 8 |

How they meet: HTTP handlers, chat handlers, the scheduler, heartbeats, Git webhooks
and pipelines create task rows. Some leave the row to the worker, others call
`executeTask` on it themselves although the row is pending and visible to the worker.
`executeTask` chooses the in-process executor or a sandbox, calls itself for spawned
children and for retries, requests approvals, writes usage and answers the chat
thread. The proxy is called by containers with the token the executor issued. At boot
`registerRoutes` fails the interrupted rows and starts the worker, then the schedulers.

What is hard in it: nothing claims a row before running it, so one row may be executed
by several calls; lists and flags are read before an await and used after it; a call
may fail after it has recorded success; retries are timers; maps in memory refer to
rows that others change; several channels resolve one approval.

## 2. Plan

| order | module | models | composed with | theorems | state |
|---|---|---|---|---|---|
| 1 | `TaskEngine` over the abstract `SlotPool` | queue, executor, retries, pause, restart | | types, limit, map, retries, no stuck row, refinement | written, checked, proved |
| 2 | `TaskTokens` | tokens of the inference proxy, usage | executor rounds | the maps are inverse, no token leaks, usage booked once and collected | written, checked, proved |
| 3 | `Approvals` | approval rows and their resolvers | executor | a follow-up per approval, never asked again | written, checked, proved |
| 4 | `Pipeline` over the abstract `SequentialRun` | pipeline runs | the worker's second execution of `TaskEngine` | step runs, outputs, refinement | written, checked, proved |
| 5 | `LiveTask` | one container's promise, log lines, the event stream, its viewers | executor, routes, client | no line missed, the end told after the outcome, listeners | written, checked, proved |
| 6 | `JobRegistry` | cron and heartbeat entries against rows, workspace limits | scheduler, heartbeats, routes | entries, next runs, limits, idle leftovers | written, checked, proved |
| 7 | `GitWebhook` | deduplication, runs, clones, mounts | handling, its execution, the worker's | window, clones, order of completion, one run per agent | written, checked, proved |
| 8 | `CommsThread` | history, typing message, reset, compaction | executor's appends and replies | one row, resets hold, recent exchanges, answers | written, checked, proved |
| 9 | `Confirmations`, Teams and Google Chat | confirmed actions; the other two chat services | | an action per message | open |

The modules are written so that they can be proved about: parameters are constants
with a named assumption, one action is one operation, invariants are conjunctions of
named parts, and no operator is RECURSIVE.

## 3. The modules and the code

One action is one synchronous stretch of the event loop, from the return of an await
that matters to the next. Awaits that only log or only read what no property tells
apart are folded into the stretch they precede. Definitions whose comment begins with
"Mutated" are faulty variants of the definition below them, used to see that a property
would notice; no specification uses them.

**`TaskEngine`** (with `SlotPool`, `MCTaskEngine`). `tasks` is the table in creation
order; a row's `backend` says where it is executed. `call` holds the live invocations of
`executeTask`, with their program counter, the row, how they were launched (`queue`,
`direct`) and the parent call that awaits them. `running` is the `runningTasks` map.
`snapshot` and `candidate` are the worker's local variables between awaits: the list of
the last poll and the row whose orchestrator has just been read.

| action | code |
|---|---|
| `Poll`, `SkipTracked`, `ReadOrchestrator`, `SkipFull`, `Launch`, `EndPass`, `PassFails` | the loop of `processQueue`, one action per await |
| `SubmitQueued`, `SubmitDirect` | handlers that only create a row; handlers that also call `executeTask` |
| `Begin`, `Spawn`, `Join`, `Complete`, `Posted`, `Fail` | `executeTask` up to its outcome; the part after completion |
| `CallRejects`, `PostFails`, `CatchRejects`, `RetryLost` | awaits that reject, at the places where it makes a difference |
| `MarkFailed`, `Retry` | the catch block; the callback of the retry timer |
| `Pause`, `Unpause`, `Crash`, `Boot` | the status of an orchestrator; the process |

A row may be executed by several calls, since nothing claims it: `Launch` looks at the
map and not at the row, as the code does. maxConcurrency and maxRetries do not change
during a behaviour.

**`TaskTokens`** (with `MCTaskTokens`). `byToken` and `byTask` are the two maps of the
proxy, a token is the number of its issue, and the clock counts ticks. A run is one call
of `executeTaskInDocker` or `executeTaskInK3s`; its `pc` says whether a container is at
work, tools are being called, usage is being accounted, the `finally` block is next, or the
run has given up on a container that may go on ("failing": the time limit kills the docker
command only). `request` is the provider call of a container that is in flight; the answer
may come when the run is gone. `usage` is `taskProxiedUsage` and `recorded` counts the calls
whose usage is in the `token_usage` table; both count calls, not tokens. The proxy parses the
usage of whole JSON bodies only and pipes event streams through unread
(inference-proxy.ts:265-285). `agent/runner.js` asks for streams always (74, 153, 219), so
the usage of the container that is shipped is never booked; a runner that asks for whole
bodies is, and `Answer` leaves it a choice. `Account` hands the usage to an insert that
nobody awaits; when it rejects, that is logged and the usage lost (its second disjunct).
Ghosts: `answered` counts the calls the provider answered, `alone` of a run says that no
other run of its task was live beside it, `spoiled` are the tasks with a failed run.

**`Approvals`** (with `MCApprovals`). `approvals` are the rows, `click` the handlers that
resolve them, `tasks` the rows that ask, follow up and are retried. `Click` is the first
await of a handler, the read; `Resolve` the unconditional update; `Reply` the post in the
thread; `FollowUp` the insert of the follow-up with `bypassApproval`. Buttons and the MCP
tool refuse a request that has been decided, the web handler does not; only buttons go on
after the update. Slack and Teams differ in the fields they copy, and in that Teams ends
early without credentials, which is one way to `Abandon`. Ghosts: `grant` of a row, the
approval it descends from; `granted` and `lost` of a request.

**`Pipeline`** (with `SequentialRun`, `MCPipeline`). One pipeline, several runs. `edition`
numbers the editions of the steps, `defined` and `missing` say how many the table holds and
how many inserts are still to come. A run's record is the local state of `executePipeline`:
the steps it read, the current one, the number of outputs. `task` is the status of the
current step's row, which the worker may also see (`seen`) and execute (`other`). A pipeline
has a cron expression that the server never reads, so there is no scheduled run.

**`LiveTask`** (with `MCLiveTask`). One container and those who watch it. `proc`, `result`
and `timer` feed the callbacks that settle `promise` (`PrintLine`, `PrintResult`,
`PrintError`, `Exit`, `Close`, `Timeout`, `TimeoutRejects`). A log line is written, then
stored (`Insert`), then emitted (`Emit`), each in a turn of its own. The executor logs the
outcome and waits for that line, updates the row, and announces the end (`LogOutcome`,
`UpdateRow`, `EmitDone`). Between a result and its row an await may reject, and the catch
block takes over (`FailOutcome`); an await of the catch block may reject too, and then the
row stays running and nothing announces the end (`LoseOutcome`, `executor` = "lost"). A
viewer is a connection of the event stream: `Subscribe`, `ListLogs`, `Replay`, `ReadRow`,
`Finish`, `Leave` are the awaits of the route, and `QueryRejects` is one of its queries that
fails. `Crash` is the insert that a callback starts, nobody awaits, and whose rejection ends
the process. `MayReject` says whether calls of the database may reject at all. The ghost
`early` of a viewer says that its connection ended before its close handler was installed.

**`JobRegistry`** (with `MCJobRegistry`). `rows` are the scheduled jobs and the agents,
`entries` the two maps of cron entries; a schedule is the number of its edition, and 0 is
"not registered". `handler` is a request between two awaits: `CheckLimit`, `Insert`,
`Register` create; `ReadJob`, `UpdateJob`, `RereadJob` change; `FindJob`, `UnregisterJob`,
`UnregisterAgent`, `DeleteRow` delete. `Fire` and `FinishFire` are a firing, `Cascade` the
deletion of an orchestrator, which removes rows only, `Restart` the boot, which registers
what it could list. Ghosts name the exceptions: `disturbed`, `overtaken`, `crowded`.

**`GitWebhook`** (with `MCGitWebhook`). `Deliver` is the deduplication; a handling then goes
through `List`, `MakeDir` and `CloneRepo`, for each agent `Decide`, `CreateTask`, `Link`,
`Executed`, `Close` or `Fail`, and last `Cleanup`; every await of it may reject, the update in
the catch block too. The directory exists from `MakeDir` on, while git is at work ("fetching"),
and the errors of its removal are swallowed, by a clone that failed and by `Cleanup`. `direct`
and `worker` of a task are the execution that the handling waits for and the one the queue
worker may start on the same pending row: `Poll` reads the pending rows, `Launch` takes one of
that list without another look at its status. `Round` is the start of a container, which
mounts the clone if it is registered then. `mounts` tells two kinds of container apart:
"direct" is the one the handling's execution is waiting for, "other" one that the worker
started or that its execution gave up on. `EndExecution` may leave such a container behind,
since the time limit kills the docker command only, and `ContainerEnds` is its end. `Restart`
loses the memory and leaves rows, directories and containers. The ghost `left` marks a clone
whose removal failed, of a failed clone or at the end, or was cut off by a restart, also
during the clone. The clock runs between deliveries only, where it is read. The payload is
its type: the routes erase the commit before the call. What the repository's file says of an
agent is a choice.

**`CommsThread`** (with `MCCommsThread`). Slack messages and commands of one conversation,
each handled on its own: `Lookup`, `CreateThread`, the typing message (`ShowTyping`,
`StoreTyping`), `CreateTask`; `Reset`, and `Compact` with its read, its AI call and its
write. A task completes or fails and is retried; its two appends to the history
(`ReadHistory`, `WriteHistory`) run beside each other and beside the reply (`ReadRef`,
`UpdateMessage`, `ClearRef`, `PostMessage`). A history is a sequence of entries, an entry the
set of exchanges it tells of, so that a summary is an entry too. Ghosts: `since` (of a row,
the exchanges with an entry since the last reset), `later` (of an exchange, which writers
added an entry after the last that tells of it), `raced` (exchanges that another pending
write may drop, or that a compaction has taken), `undone` (rows reset while a write was
pending that brings back what was cleared), `delivered`, `overlapped`, `refLost`.

## 4. The runs

| run | bounds | shows |
|---|---|---|
| `engine_capacity` | 2 orchestrators of limit 1, 3 rows, 2 priorities, 1 fault, 1 crash | the limit holds for what the worker launched, the map is exact, the map implements `SlotPool` |
| `engine_retries` | 1 submitted row, 1 retry per row, 3 calls at once, both entries, both kinds of backend, 1 fault, 1 crash | retries keep lineage and bound; no row says running without a call that will end it |
| `engine_progress` | 2 rows, limit 1, children, 1 pause, 1 crash, fair | every row comes to rest for good |
| `engine_retry_progress` | 1 row, 1 retry, both entries, fair, no crash | every failure that maxRetries covers is retried |
| `tokens_store` | 2 tasks, 2 runs, 3 tokens, 2 requests, a clock from 0 to 3 with a lifetime of 2 | the maps are inverse, tokens end with their runs, a run alone is served, usage is booked at most once and left behind by failed runs only |
| `approvals` | 2 requests, 2 handlers at once, 3 rows, 1 retry, 1 restart, tasks submitted without bypass | one follow-up per approving press, at most as many as handlers, never asked again |
| `pipeline_runs` | 1 run, 3 steps, 1 edit, 1 fault, 1 restart, fair | step runs agree with the run, refinement of `SequentialRun`, runs end |
| `live_task` | 2 printed lines, 1 viewer, any call of the database may reject, fair | no line is missed, the end is told only after the outcome, and to everyone unless the catch block loses it, the round settles |
| `job_registry` | 1 job, 2 agents, 2 requests and 1 firing at once, limit 1, 2 schedules, 1 restart | which interleavings leave an entry that differs from its row, that it does nothing, by how much a limit is passed |
| `git_webhook` | 2 deliveries of one event, 1 active and 1 inactive agent, 1 task, a window of 1 of 2 ticks, 1 restart, fair | once per window, one run per agent, clones mounted and accounted for, handlings end unless git hangs |
| `doc_git_dedup` | 2 commits of one type | the key does not tell commits apart (section 7) |
| `comms_thread` | 2 messages, 1 command, histories of 3 entries, 1 retry, one overlap or one rejected await | what a history forgets, that a reset holds, where answers appear |

Why the bounds are enough to be of use. Every race in this code is between two parties:
two calls for one row, two runs of one task, two presses, an edit and a run. The bounds
give two of each and a third where a third can queue behind (three rows for two slots,
three steps so that there is a middle one; with approvals, two requests so that a retry
could ask a second time, and three rows for a task, its follow-up, and a retry or a second
follow-up). One fault, one pause and one crash can fall at
every point of a behaviour; two of them in a row lead to states that one of them reaches
from a later point. Handlers, calls and runs are interchangeable, and symmetry is used in
runs without liveness only. Most safety properties are also proved for all bounds
(section 6).

`git_webhook` has room for one task: the insert of a second one fails at the bound, which
is a way the insert may go. The run with two tasks has been tried once for the safety
properties, and the proofs do not depend on the bound. In `comms_thread` a history keeps 3
entries instead of 50 and `/compact` asks for 1 instead of 4: two exchanges of two entries
overflow it, and a summary is made of less than an exchange. `MaxTrouble` = 2 and
`FaultWeight` = 2 admit either two events that come while another is at work, or one
rejected await. `live_task` needs one viewer only: viewers share nothing but the lines,
and the proof has any number of them.

Deadlock is checked for `TaskEngine`, whose worker never stops, and for `JobRegistry`,
where some firing or request can always begin. It is not checked for the other
modules: their bounds stop them, and a server without requests may stop.

## 5. Fairness

`TaskEngine`: weak fairness of the worker's step, of each call's step and of `Boot`. The
worker's loop sleeps and polls for ever and an await of it that rejects is caught; a call
goes on because the event loop runs every promise that is settled, AI calls and containers
have time limits, and a timer fires; the supervisor restarts the process. Nothing is
assumed of submissions, pauses (an orchestrator may stay paused for ever), rejected awaits
and crashes. `Pipeline`: weak fairness of the step of each run, for the same reasons; the
worker owes nothing. `GitWebhook`: weak fairness of each handling's step and of the end of
the execution it waits for, since the event loop runs what is ready, queries are answered,
the fetch of `.nanoorch.yml` ends within Node's own limits, and an execution has a time
limit. git has none: `gitSpawn` (git-clone.ts:63) waits for as long as its child does. So
the step out of "fetching" is not fair, and `HandlingsEnd` excepts a clone that never
ends. Nothing is assumed of deliveries, of the worker, of left containers or of restarts.
`LiveTask`: weak fairness of the container's timer, of its close event, of inserts and
emissions, of the executor and of each stream; nothing of the container, which may print
or hang as it likes, of viewers, which may stay or leave, nor of rejections. `TaskTokens`,
`Approvals`, `JobRegistry` and `CommsThread` state no liveness.

`EveryRunEnds` excepts runs whose call is lost, by a restart or by an await outside the try
block: the code has no recovery for them. `RunningHasCall` excepts, by name, the two awaits
whose rejection leaves a row running: those between `updateTask(running)` and the try
block, and the log insert or update in the catch block. `EveryViewerTold` excepts that loss by
name (docker-executor.ts:261-262): the code has no other way to tell who is watching.

## 6. Proofs

All theorems are checked by tlapm for every value of the constants, from the assumptions
named in the modules: limits, priorities and times are natural numbers, null values are
not members of the sets they extend, and the sets of handlers, of chat events and of roles
are finite.

- `TaskEngineProofs` proves `TypeOK` inductive, action by action: `TypeCorrect`. The rest
  stands on two case analyses that are done once: `TableStep` (what a step may do to the
  table) and `TrackedStep` (what it may do to the map and to the calls it stands for).
  `MapExactness` is inductive with the fact that a candidate that is about to be launched
  is not in the map. `QueueBounded` needs it: the check counts entries of the map, the
  launch adds one. `RetryChains` needs that timers are only set for rows that may be
  retried, which bounds retryCount. `RunningRowsHaveCalls` needs that every call that
  makes a row running stays with it until it writes the outcome. `PoolImplemented` is the
  refinement of `SlotPool`: each step takes a free slot, frees one, frees all or leaves
  them alone.
- `TaskTokensProofs`: the invariant is the conjunction of the types, `MapsInverse`,
  `NoTokenOutlivesItsRun` and, for each run, what being alone means: its token is the one
  in both maps until it expires. None of the parts is inductive alone: the sweep removes a
  task's entry by the token's task, which is harmless only if the maps are inverse; a
  revocation takes the token of another run only if the task has one. `UsageIsAccounted`
  stands on them: a run's token speaks for the run's own task (`OwnTokens`), so a call in
  flight belongs to a round that is still to be collected or to a task with a failed run
  (`CallsHeld`). Usage is therefore added only where a run will collect it or the task is
  spoiled; and it is cleared in the step that hands it over, so nothing is booked twice.
- `PipelineProofs`: the invariant relates the program counter of a run to its row
  (`StatusAgrees`), to its counters (`StepAgrees`) and to its step runs (`RowsAgree`, only
  for the edition that the run read: an edit deletes the rows of older ones).
  `RunsAreSequential` maps each step to a step of `SequentialRun` or a stutter.
  `OutputsArePassedOn` is inductive with `Passed`: the steps before the current one have
  all completed or been run by the worker too, and the current one gets there before the
  call reads a row that is not failed; without the last part the step from the read to the
  next step run would not be covered.
- `ApprovalsProofs`: the invariant adds to the count of `FollowUpsAccountedFor` that
  follow-ups plus button handlers at work never exceed the handlers (`Bounded`), that a
  pending request has no follow-up, that a handler past its write has a decided request,
  that descendants of an approval bypass the gate and that whoever asked does not.
- `LiveTaskProofs`: the order of the end (`Ordered`: a line is stored before it is
  emitted, the line of the row's own outcome, `OutcomeLine`, is emitted before the row
  ends, the row ends before the announcement, and nobody is told before the row says so,
  so that the write of the row takes nothing back) and, for each viewer, what it holds at
  its place in the route (`Stream`): between the read of the lines and their replay it
  lacks only lines that are in its snapshot. Each would break alone: that the row tells a
  late viewer the end needs that the line of the outcome came before, and that the viewer
  has it needs the subscription.
- `JobRegistryProofs`: an item that is not disturbed and not at work has the entry of its
  row (`CalmInv`); for one that is at work the invariant says how far its only handler has
  come and what it remembers of the row (`Shape`). `CurrentInv` does the same for the next
  run, with the firing that read the row. `LimitInv` counts rows and creations past the
  check together: only then is an insert a step that does not change the sum.
- `GitWebhookProofs`: the invariant relates each handling to its rows (`Owns`), to its
  clone (`Cloned`), to the runs it has left so far (`Looped`: one for every active agent
  it has passed or is at, only the last may be open) and to the remembered keys
  (`Remembered`), and each task to the handling that waits for it (`Waited`).
  `WithinWindowOnce` is inductive only with `Remembered`; `MountedCloneExists` needs that
  only the handling at a task has registered its clone, and is before its cleanup, and
  that a container is "direct" only while its execution runs, so that one that is given up
  has left that side before the handling goes on. `ClonesAccounted` needs the directory to
  belong to its handling from mkdtemp on. A step of one handling leaves all others alone,
  which is proved once (`StepIInv`).

- `CommsThreadProofs` has one invariant per question, all above `Control`: the types, what
  a handler has at each place (`Placed`), and that a task starts after its message's handler
  and after the task it retries, appends after the task, the reply last (`Ordered`). What a
  step may do to rows, histories and appends is said once for handlers (`HandlerMoves`) and
  once for tasks (`TaskHistory`). `OneThread` needs `Serial`: while events do not overlap
  there is one at work at most, and one that creates has found no row. `ResetsHold` needs
  that what an append or a compaction has read, and will write back, tells of nothing else
  either (`Tells`, `Reminded`), and that a row is told of by messages of its own only
  (`AtHome`). `RecentsRemembered` needs the same of counts: an exchange that is not in
  `raced` is among the last n entries of the row *and* of whatever is about to be written
  over it, where n is the number of writers since (`Recalled`, `Keeps`), and a writer is
  counted only when it is done, so none is counted twice (`Counted`). `AnswersStay` needs
  to know where an answer is headed: the row refers to a typing message that nothing was
  written to yet, or a reply is about to clear the reference (`Held`), and a message that
  is still to be answered finds its own one there, if it has one (`Aimed`).

Only model-checked: the liveness properties
`EventuallyAtRest`, `RetriesDelivered`, `EveryRunEnds`, `HandlingsEnd`, `EveryViewerTold`
and `RoundSettles` (liveness under fairness is not within the prover's reach), and that the
sentence about the deduplication is violated.

## 7. Findings

| run | the documentation | the code |
|---|---|---|
| `doc_git_dedup` | git-agent-engine.ts:31-32, the key keeps away repetitions "for the same commit/event" | the routes erase the commit (routes.ts:2925, 2951), so every event of one type within a minute counts as the same, and the second commit gets no run |

Sentences of the documentation that the passing runs narrow down, each of which a state of
the models contradicts:

- ARCHITECTURE.md:682, maxConcurrency limits the tasks that run simultaneously: only what
  the worker launched is counted (`QueueBound`).
- ARCHITECTURE.md:672, a task is pending, running, then completed or failed: a stale list
  relaunches a finished row, and a failure after completion turns it into failed.
- USAGE.md:82, failed tasks are re-queued up to the limit: a retry is a timer in memory, a
  restart loses it (`RetriesDelivered` holds while the process stays up). And a sandboxed task
  is never retried: the catch blocks of the Docker and K3s executors set no timer, whatever
  maxRetries is (`MayRetry` is false of it).
- ARCHITECTURE.md:1280, every AI call of both executors logs a `token_usage` record: event
  streams are piped unread, the insert is not awaited and may be lost, and the usage of a
  failed run stays in the accumulator (`UsageAccounted` says what is left).
- docker-executor.ts:269-270, containers can no longer call AI services after the task
  finishes: true of new calls (`NoTokenOutlivesItsRun`); one in flight is answered and its
  usage added.
- USAGE.md:512, Approve and the task resumes from where it paused: nothing waits; a button
  starts a new task, an approval on the web or through MCP starts none.
- USAGE.md:555, the output of a step is the context of the next: a failed step that the
  worker has relaunched counts as completed, with an empty output (`OutputsPassedOn` names
  it).
- ARCHITECTURE.md:1197 and README.md:22, a conversation keeps its history: the two appends
  of one exchange may overwrite each other, and the last 50 are entries, so 25 exchanges
  (`RecentRemembered` says what is left).

Seen while reading, without a run of its own: a container that the time limit gave up on
may go on and keeps the mount of a clone that is then removed (docker-executor 386-391,
git-agent-engine 483); git may hang and its handling with it (git-clone 63); when the
catch block of a sandboxed run rejects, the row stays running and its viewers wait until
they leave (docker-executor 261-262); the token of a task lives 15 minutes while twelve
rounds of 180 s are longer (inference-proxy 24); a row that two calls execute fails twice
and is retried twice; a pipeline run fails when the task of a step fails, though that task
is then retried; a child of a task that bypasses approvals does not inherit that; an
approval can be overwritten by a later decision on the web; the result of a Docker or K3s
task is never posted in its chat thread, and Google Chat gets an answer twice.

## 8. What is not modelled, and why

- Confirmed actions: the remaining hazard without a property, section 2.
- Teams and Google Chat differ from Slack in the field they keep and in who posts the
  answer; `CommsThread` models Slack. The worker's second execution of a chat task is left
  out of it, and modelled in `TaskEngine`.
- Tokens of a model that are relayed to viewers without being stored, and the two chat
  streams, which end with their request.
- The limits of orchestrators and channels, which repeat the three lines of `JobRegistry`.
- Deletion of orchestrators, agents and workspaces, with cascades over live tasks, and
  changes of maxConcurrency and maxRetries while tasks run.
- How a container is created and how a K3s Job is polled. `LiveTask` has the callbacks of one
  Docker round; in the other models a round ends with tool calls, a result or a failure.
- Prompts, tools, providers, embeddings, cloud and Kubernetes tools, notifications: calls of
  other services whose result is data no property tells apart.
- Sign-in, sessions, encryption, address checks: request and response, or pure functions.
- Rate limits: a window whose expiry is missing is repaired by the next increment.
- The web client, migrations, scripts, images and manifests; the loop of `agent/runner.js`.

Most of the repository's lines are in these parts: pages of the web client, tables of cloud
and Kubernetes tools with one call of a service each, routes that read or write one row, and
queries. They keep no state over time and have no interleaving to check, so the models cover
a small share of the lines and most of the code in which two parties meet.
