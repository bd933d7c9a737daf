----------------------------- MODULE TaskTokens -----------------------------
(***************************************************************************)
(* The tokens that let a sandboxed agent call an AI provider: the token    *)
(* store and the usage accumulator of server/proxy/inference-proxy.ts, and *)
(* the runs of server/engine/docker-executor.ts and k3s-executor.ts that   *)
(* hold the tokens.  A run is one call of executeTaskInDocker or of        *)
(* executeTaskInK3s; two runs may execute the same task (see TaskEngine).  *)
(* The store is memory of the server process and ends with it.             *)
(***************************************************************************)
EXTENDS Naturals, FiniteSets, Functions

CONSTANTS
  Tasks,          \* tasks that need a sandbox
  Runs,           \* slots for live runs
  NoTask,         \* "no request in flight"
  TTL,            \* TOKEN_TTL_MS, in ticks
  ContainerTime,  \* CONTAINER_TIMEOUT_MS (JOB_TIMEOUT_MS), in ticks
  MaxToolRounds,  \* MAX_TOOL_ROUNDS
  MaxTokens,      \* bound: tokens issued
  MaxRequests,    \* bound: requests of containers
  MaxTime         \* bound: ticks of the clock

ASSUME TokensAssumption ==
  /\ NoTask \notin Tasks
  /\ TTL \in Nat /\ ContainerTime \in Nat /\ MaxToolRounds \in Nat

VARIABLES
  now,       \* the clock
  issued,    \* number of tokens issued; a fresh token is the next number
  byToken,   \* token -> the task it speaks for and when it expires
  byTask,    \* task -> its token
  run,       \* the runs
  request,   \* a run's provider call in flight: the task captured for it
  asked,     \* counter of requests
  usage,     \* taskProxiedUsage
  answered,  \* ghost: calls the provider answered, per task
  recorded,  \* calls whose usage is in the token_usage table, per task
  spoiled    \* ghost: the tasks that had a failed run

booking == <<usage, answered, recorded, spoiled>>

vars == <<now, issued, byToken, byTask, run, request, asked, booking>>

TokenEntry == [task : Tasks, expires : Nat]

(* "failing": the run has given up on its container, which may go on: the    *)
(* time limit kills the docker command only, and the first error line of a   *)
(* container ends the run at once.                                           *)
RunPcs == {"idle", "round", "failing", "tools", "account", "ending"}

(* round and age count tool rounds and the age of the container; alone is a *)
(* ghost: no other run of the task was live at any time during this one.    *)
Run == [pc : RunPcs, task : Tasks \cup {NoTask}, token : Nat, expires : Nat,
        round : Nat, age : Nat, alone : BOOLEAN]

Over == [pc |-> "idle", task |-> NoTask, token |-> 0, expires |-> 0,
         round |-> 0, age |-> 0, alone |-> FALSE]

Live(r) == run[r].pc # "idle"

LiveOn(t) == {r \in Runs : Live(r) /\ run[r].task = t}

Init ==
  /\ now = 0 /\ issued = 0 /\ asked = 0
  /\ byToken = <<>> /\ byTask = <<>>
  /\ run = [r \in Runs |-> Over]
  /\ request = [r \in Runs |-> NoTask]
  /\ usage = [t \in Tasks |-> 0]
  /\ answered = [t \in Tasks |-> 0]
  /\ recorded = [t \in Tasks |-> 0]
  /\ spoiled = {}

-----------------------------------------------------------------------------
(* The token store *)

Without(f, S) == Restrict(f, DOMAIN f \ S)

With(f, k, v) == [x \in DOMAIN f \cup {k} |-> IF x = k THEN v ELSE f[x]]

(* Mutated: off by one. *)
ExpiredEarly(k) == now >= byToken[k].expires

Expired(k) == now > byToken[k].expires

TokenOf(t) == {k \in DOMAIN byToken : t \in DOMAIN byTask /\ k = byTask[t]}

(* Mutated: a stale token of the task stays valid. *)
IssueOnly(t) ==
  /\ issued' = issued + 1
  /\ byToken' = With(byToken, issued + 1, [task |-> t, expires |-> now + TTL])
  /\ byTask' = With(byTask, t, issued + 1)

(* issueTaskToken: revoke, then a fresh token. *)
Issue(t) ==
  /\ issued' = issued + 1
  /\ byToken' = With(Without(byToken, TokenOf(t)), issued + 1,
                     [task |-> t, expires |-> now + TTL])
  /\ byTask' = With(byTask, t, issued + 1)

(* revokeTaskToken *)
Revoke(t) ==
  /\ byToken' = Without(byToken, TokenOf(t))
  /\ byTask' = Without(byTask, {t})

(* An expired entry goes, and with it whatever its task maps to. *)
DropExpired(S) ==
  /\ byToken' = Without(byToken, S)
  /\ byTask' = Without(byTask, {byToken[k].task : k \in S})

(* The interval that removes expired tokens. *)
Sweep ==
  /\ \E k \in DOMAIN byToken : Expired(k)
  /\ DropExpired({k \in DOMAIN byToken : Expired(k)})
  /\ UNCHANGED <<now, issued, run, request, asked, booking>>

-----------------------------------------------------------------------------
(* Runs *)

(* The status write and the issue of the token; the first container starts. *)
Start(r, t) ==
  /\ run[r].pc = "idle" /\ request[r] = NoTask /\ issued < MaxTokens
  /\ Issue(t)
  /\ run' = [q \in Runs |->
       IF q = r THEN [pc |-> "round", task |-> t, token |-> issued + 1,
                      expires |-> now + TTL, round |-> 0, age |-> 0,
                      alone |-> LiveOn(t) = {}]
       ELSE [run[q] EXCEPT !.alone = @ /\ run[q].task # t]]
  /\ UNCHANGED <<now, request, asked, booking>>

(* A request of the container reaches the proxy, which looks the token up;  *)
(* a token found expired is removed and the request refused.                *)
Ask(r) ==
  /\ run[r].pc \in {"round", "failing"} /\ request[r] = NoTask
  /\ asked < MaxRequests
  /\ asked' = asked + 1
  /\ LET k == run[r].token
     IN  IF k \in DOMAIN byToken /\ ~Expired(k)
           THEN /\ request' = [request EXCEPT ![r] = byToken[k].task]
                /\ UNCHANGED <<byToken, byTask>>
           ELSE /\ DropExpired({k} \cap DOMAIN byToken)
                /\ UNCHANGED request
  /\ UNCHANGED <<now, issued, run, booking>>

(* The provider answers.  A whole JSON body with its usage is added up; a    *)
(* stream is piped through unread, and an error has no usage.                *)
Answer(r) ==
  /\ request[r] # NoTask
  /\ request' = [request EXCEPT ![r] = NoTask]
  /\ answered' = [answered EXCEPT ![request[r]] = @ + 1]
  /\ \/ usage' = [usage EXCEPT ![request[r]] = @ + 1]
     \/ UNCHANGED usage
  /\ UNCHANGED <<now, issued, byToken, byTask, run, asked, recorded, spoiled>>

(* The container ends with tool calls, which the server executes.           *)
ToolCalls(r) ==
  /\ run[r].pc = "round" /\ request[r] = NoTask
  /\ run[r].round <= MaxToolRounds
  /\ run' = [run EXCEPT ![r] =
               [run[r] EXCEPT !.pc = "tools", !.round = @ + 1]]
  /\ UNCHANGED <<now, issued, byToken, byTask, request, asked, booking>>

(* The next container; past the limit it is the one for the final answer.   *)
NextRound(r) ==
  /\ run[r].pc = "tools"
  /\ run' = [run EXCEPT ![r] = [run[r] EXCEPT !.pc = "round", !.age = 0]]
  /\ UNCHANGED <<now, issued, byToken, byTask, request, asked, booking>>

(* The container ends with the answer; the final one may also end otherwise.*)
Result(r) ==
  /\ run[r].pc = "round" /\ request[r] = NoTask
  /\ run' = [run EXCEPT ![r].pc = "account"]
  /\ UNCHANGED <<now, issued, byToken, byTask, request, asked, booking>>

(* Mutated: the usage is handed over but not cleared. *)
AccountKeeps(r) ==
  LET t == run[r].task
  IN  /\ run[r].pc = "account"
      /\ recorded' = [recorded EXCEPT ![t] = @ + usage[t]]
      /\ run' = [run EXCEPT ![r].pc = "ending"]
      /\ UNCHANGED <<now, issued, byToken, byTask, request, asked, usage,
                     answered, spoiled>>

(* getAndClearProxiedUsage; the insert is not awaited, and when it rejects   *)
(* that is logged and the usage lost.                                        *)
Account(r) ==
  LET t == run[r].task
  IN  /\ run[r].pc = "account"
      /\ usage' = [usage EXCEPT ![t] = 0]
      /\ \/ recorded' = [recorded EXCEPT ![t] = @ + usage[t]]
         \/ UNCHANGED recorded
      /\ run' = [run EXCEPT ![r].pc = "ending"]
      /\ UNCHANGED <<now, issued, byToken, byTask, request, asked, answered,
                     spoiled>>

(* Mutated: the revocation is not in a finally block, a failure skips it. *)
FailKeepsToken(r) ==
  /\ run[r].pc \in {"round", "tools", "account"}
  /\ run' = [run EXCEPT ![r] = Over]
  /\ UNCHANGED <<now, issued, byToken, byTask, request, asked, booking>>

(* The container exits with an error, whatever its request in flight, or the *)
(* run gives up on it; or an await of the server's part rejects.             *)
Fail(r) ==
  /\ \/ /\ run[r].pc = "round"
        /\ run' = [run EXCEPT ![r].pc = "failing"]
     \/ /\ run[r].pc \in {"tools", "account"}
        /\ run' = [run EXCEPT ![r].pc = "ending"]
  /\ spoiled' = spoiled \cup {run[r].task}
  /\ UNCHANGED <<now, issued, byToken, byTask, request, asked, usage, answered,
                 recorded>>

(* The outcome is written and the finally block revokes the task's token.   *)
End(r) ==
  /\ run[r].pc \in {"failing", "ending"}
  /\ Revoke(run[r].task)
  /\ run' = [run EXCEPT ![r] = Over]
  /\ UNCHANGED <<now, issued, request, asked, booking>>

(* Time passes, but no round outlives its container's time limit. *)
Tick ==
  /\ now < MaxTime
  /\ \A r \in Runs : run[r].pc = "round" => run[r].age < ContainerTime
  /\ now' = now + 1
  /\ run' = [r \in Runs |-> IF run[r].pc = "round"
                              THEN [run[r] EXCEPT !.age = @ + 1] ELSE run[r]]
  /\ UNCHANGED <<issued, byToken, byTask, request, asked, booking>>

Next ==
  \/ \E r \in Runs :
       \/ \E t \in Tasks : Start(r, t)
       \/ Ask(r) \/ Answer(r) \/ ToolCalls(r) \/ NextRound(r) \/ Result(r)
       \/ Account(r) \/ Fail(r) \/ End(r)
  \/ Sweep
  \/ Tick

Spec == Init /\ [][Next]_vars

-----------------------------------------------------------------------------
(* Properties *)

(* Types of the variables. *)
TypeOK ==
  /\ now \in Nat /\ issued \in Nat /\ asked \in Nat
  /\ DOMAIN byToken \subseteq 1 .. issued
  /\ byToken \in [DOMAIN byToken -> TokenEntry]
  /\ DOMAIN byTask \subseteq Tasks
  /\ byTask \in [DOMAIN byTask -> Nat]
  /\ run \in [Runs -> Run]
  /\ \A r \in Runs : Live(r) => run[r].task \in Tasks
  /\ request \in [Runs -> Tasks \cup {NoTask}]
  /\ usage \in [Tasks -> Nat]
  /\ answered \in [Tasks -> Nat]
  /\ recorded \in [Tasks -> Nat]
  /\ spoiled \subseteq Tasks

(* The two maps are inverse to each other: a token in byToken is the one    *)
(* byTask knows for its task, so a revocation by task finds every token,    *)
(* and an expired entry that is dropped by token never takes another        *)
(* token's entry of byTask with it.                                         *)
MapsInverse ==
  /\ \A k \in DOMAIN byToken : LET t == byToken[k].task
                               IN  t \in DOMAIN byTask /\ byTask[t] = k
  /\ \A t \in DOMAIN byTask : LET k == byTask[t]
                              IN  k \in DOMAIN byToken /\ byToken[k].task = t

(* Containers can no longer call AI providers after the task finishes,      *)
(* however it ended: a token that is in the store is held by a run of its   *)
(* task that is still live, also when runs of one task overlap.             *)
NoTokenOutlivesItsRun ==
  \A k \in DOMAIN byToken :
    \E r \in Runs : /\ Live(r)
                    /\ run[r].token = k
                    /\ run[r].task = byToken[k].task

(* A run that had its task to itself is served for the whole lifetime of    *)
(* its token, whatever sweeps, refused requests and other tasks' runs do.   *)
SoleRunServed ==
  \A r \in Runs :
    Live(r) /\ run[r].alone /\ now <= run[r].expires =>
      run[r].token \in DOMAIN byToken /\ ~Expired(run[r].token)

(* No call is booked twice, whatever runs of its task overlap, fail or leave *)
(* a call in flight; and no usage stays behind in the accumulator of         *)
(* inference-proxy.ts: it waits for a run of its task that will still        *)
(* collect it, unless a run of the task failed (the catch block of           *)
(* docker-executor.ts leaves the usage where it is).  That every call is     *)
(* booked does not hold: see Answer and Account.                             *)
UsageAccounted ==
  \A t \in Tasks :
    /\ recorded[t] + usage[t] <= answered[t]
    /\ usage[t] > 0 =>
         \/ \E r \in Runs : /\ run[r].task = t
                           /\ run[r].pc \in {"round", "tools", "account"}
         \/ t \in spoiled

=============================================================================
