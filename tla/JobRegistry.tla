---------------------------- MODULE JobRegistry ----------------------------
(***************************************************************************)
(* Scheduled jobs and heartbeats: rows in the database and cron entries in *)
(* memory (engine/scheduler.ts, engine/heartbeat-scheduler.ts), the        *)
(* handlers of routes.ts that change both, one await after the other, the  *)
(* cascade that removes rows only, the workspace limits, and the boot.     *)
(***************************************************************************)
EXTENDS Naturals, FiniteSets

CONSTANTS
  Jobs,         \* scheduled jobs, by id
  Agents,       \* agents, by id; their heartbeat is scheduled
  NoItem,
  Handlers,     \* requests handled at the same time
  Fires,        \* firings at work at the same time
  MaxRows,      \* maxScheduledJobs and maxAgents of the workspace
  MaxEdition,   \* bound: for an item, changes of its schedule
  MaxRestarts   \* bound: restarts of the server

Items == Jobs \cup Agents

ASSUME RegistryAssumption ==
  /\ Jobs \cap Agents = {} /\ NoItem \notin Items
  /\ IsFiniteSet(Items) /\ IsFiniteSet(Handlers)
  /\ MaxRows \in Nat \ {0} /\ MaxEdition \in [Items -> Nat]

VARIABLES
  rows,        \* scheduled_jobs and agents
  entries,     \* registeredJobs and heartbeatJobs: the edition scheduled, or 0
  handler,
  fire,
  disturbed,   \* ghost: items whose entry may differ from the row
  overtaken,   \* ghost: jobs two of whose requests or firings overlapped
  crowded,     \* ghost: two creations were past the check of a limit together
  restarts

vars == <<rows, entries, handler, fire, disturbed, overtaken, crowded, restarts>>

(* edition counts the changes of the cron expression, next is the edition   *)
(* that nextRunAt was computed from; active is heartbeatEnabled of agents.  *)
Row == [state : {"unborn", "there", "gone"}, active : BOOLEAN,
        edition : Nat, next : Nat]

NoRow == [state |-> "unborn", active |-> FALSE, edition |-> 0, next |-> 0]

(* What a handler did last, and what it remembers of the row: its edition,  *)
(* or the edition to schedule.                                              *)
Handler == [pc : {"idle", "counted", "inserted", "read", "updated", "reread",
                  "found", "unregistered"},
            item : Items \cup {NoItem}, seen : Nat]

Firing == [pc : {"idle", "read"}, item : Items \cup {NoItem}, seen : Nat]

Idle == [pc |-> "idle", item |-> NoItem, seen |-> 0]

Init ==
  /\ rows = [i \in Items |-> NoRow]
  /\ entries = [i \in Items |-> 0]
  /\ handler = [h \in Handlers |-> Idle] /\ fire = [f \in Fires |-> Idle]
  /\ disturbed = {} /\ overtaken = {} /\ crowded = FALSE
  /\ restarts = 0

-----------------------------------------------------------------------------
There(i) == rows[i].state = "there"
Scheduled(row) == IF row.state = "there" /\ row.active THEN row.edition ELSE 0

SameKind(i) == IF i \in Jobs THEN Jobs ELSE Agents
Count(i) == Cardinality({k \in SameKind(i) : There(k)})

(* The requests that passed the check of the limit that i falls under.      *)
Creating(i) ==
  {h \in Handlers : handler[h].pc = "counted" /\ handler[h].item \in SameKind(i)}

AtWork(i) == \E h \in Handlers : handler[h].item = i
Firings(i) == {f \in Fires : fire[f].item = i}

Step(h, pc, seen) ==
  handler' = [handler EXCEPT ![h].pc = pc, ![h].seen = seen]
Answer(h) == handler' = [handler EXCEPT ![h] = Idle]

(* A handler comes to an item; from then on it overlaps with the others.    *)
Enter(h, i, pc, seen) ==
  /\ handler[h].pc = "idle"
  /\ handler' = [handler EXCEPT ![h] = [pc |-> pc, item |-> i, seen |-> seen]]
  /\ disturbed' = IF AtWork(i) THEN disturbed \cup {i} ELSE disturbed

Overtakes(i) ==
  overtaken' = IF i \in Jobs /\ (AtWork(i) \/ Firings(i) # {})
                 THEN overtaken \cup {i} ELSE overtaken

(* An await rejects and the request ends.  Before its first effect this     *)
(* changes nothing; after it, what follows is left out.                     *)
Reject(h) ==
  /\ handler[h].pc # "idle"
  /\ disturbed' = IF handler[h].pc \in {"inserted", "updated", "reread", "unregistered"}
                    THEN disturbed \cup {handler[h].item} ELSE disturbed
  /\ Answer(h)
  /\ UNCHANGED <<rows, entries, fire, overtaken, crowded, restarts>>

-----------------------------------------------------------------------------
(* POST: the limit, the row, the entry *)

(* Mutated: the comparison lets one more pass.                              *)
BelowLimitLate(i) == Count(i) <= MaxRows

BelowLimit(i) == Count(i) < MaxRows

CheckLimit(h, i) ==
  /\ rows[i].state = "unborn" /\ ~AtWork(i) /\ BelowLimit(i)
  /\ Enter(h, i, "counted", 0) /\ Overtakes(i)
  /\ crowded' = (crowded \/ Creating(i) # {})
  /\ UNCHANGED <<rows, entries, fire, restarts>>

Insert(h, active) ==
  LET i == handler[h].item
      row == [state |-> "there", active |-> active, edition |-> 1, next |-> 1]
  IN  /\ handler[h].pc = "counted"
      /\ rows' = [rows EXCEPT ![i] = row]
      /\ Step(h, "inserted", Scheduled(row))
      /\ UNCHANGED <<entries, fire, disturbed, overtaken, crowded, restarts>>

(* Mutated: an inactive row leaves the entry as it is.                      *)
RegisterActive(h) ==
  /\ handler[h].pc \in {"inserted", "reread"}
  /\ entries' = IF handler[h].seen # 0
                  THEN [entries EXCEPT ![handler[h].item] = handler[h].seen] ELSE entries
  /\ Answer(h)
  /\ UNCHANGED <<rows, fire, disturbed, overtaken, crowded, restarts>>

(* registerJob and registerHeartbeatJob replace or remove the entry.        *)
Register(h) ==
  /\ handler[h].pc \in {"inserted", "reread"}
  /\ entries' = [entries EXCEPT ![handler[h].item] = handler[h].seen]
  /\ Answer(h)
  /\ UNCHANGED <<rows, fire, disturbed, overtaken, crowded, restarts>>

-----------------------------------------------------------------------------
(* PUT: of a job, read, update and read again; of an agent, one update that *)
(* returns the row *)

ReadJob(h, i) ==
  /\ i \in Jobs /\ There(i)
  /\ Enter(h, i, "read", rows[i].edition) /\ Overtakes(i)
  /\ UNCHANGED <<rows, entries, fire, crowded, restarts>>

(* Mutated: nextRunAt is that of the row as it was.                         *)
EditedStale(row, base, active, changed) ==
  [row EXCEPT !.active = active,
              !.edition = IF changed THEN @ + 1 ELSE @,
              !.next = base]

(* nextRunAt is computed from the new expression, or from the one that the  *)
(* handler read before.                                                     *)
Edited(row, base, active, changed) ==
  [row EXCEPT !.active = active,
              !.edition = IF changed THEN @ + 1 ELSE @,
              !.next = IF changed THEN row.edition + 1 ELSE base]

Edit(i, base, active, changed) ==
  /\ changed => rows[i].edition < MaxEdition[i]
  /\ rows' = [rows EXCEPT ![i] = Edited(rows[i], base, active, changed)]

UpdateJob(h, active, changed) ==
  LET i == handler[h].item
  IN  /\ handler[h].pc = "read"
      /\ IF There(i) THEN Edit(i, handler[h].seen, active, changed) ELSE UNCHANGED rows
      /\ Step(h, "updated", 0)
      /\ UNCHANGED <<entries, fire, disturbed, overtaken, crowded, restarts>>

(* A job that is gone by now is answered with 404.                          *)
RereadJob(h) ==
  LET i == handler[h].item
  IN  /\ handler[h].pc = "updated"
      /\ IF There(i) THEN Step(h, "reread", Scheduled(rows[i])) ELSE Answer(h)
      /\ UNCHANGED <<rows, entries, fire, disturbed, overtaken, crowded, restarts>>

(* An agent that is gone makes the handler fail.                            *)
UpdateAgent(h, i, active, changed) ==
  /\ i \in Agents /\ There(i)
  /\ Edit(i, rows[i].edition, active, changed)
  /\ Enter(h, i, "reread", Scheduled(rows[i])')
  /\ Overtakes(i)
  /\ UNCHANGED <<entries, fire, crowded, restarts>>

-----------------------------------------------------------------------------
(* DELETE: the entry first, then the row *)

FindJob(h, i) ==
  /\ i \in Jobs /\ There(i)
  /\ Enter(h, i, "found", 0) /\ Overtakes(i)
  /\ UNCHANGED <<rows, entries, fire, crowded, restarts>>

UnregisterJob(h) ==
  /\ handler[h].pc = "found"
  /\ entries' = [entries EXCEPT ![handler[h].item] = 0]
  /\ Step(h, "unregistered", 0)
  /\ UNCHANGED <<rows, fire, disturbed, overtaken, crowded, restarts>>

UnregisterAgent(h, i) ==
  /\ i \in Agents /\ rows[i].state # "unborn"
  /\ Enter(h, i, "unregistered", 0) /\ Overtakes(i)
  /\ entries' = [entries EXCEPT ![i] = 0]
  /\ UNCHANGED <<rows, fire, crowded, restarts>>

Gone(row) == IF row.state = "there" THEN [NoRow EXCEPT !.state = "gone"] ELSE row

DeleteRow(h) ==
  /\ handler[h].pc = "unregistered"
  /\ rows' = [rows EXCEPT ![handler[h].item] = Gone(@)]
  /\ Answer(h)
  /\ UNCHANGED <<entries, fire, disturbed, overtaken, crowded, restarts>>

(* Deleting the orchestrator deletes its jobs and agents in the database;   *)
(* nobody tells the schedulers.                                             *)
Cascade ==
  /\ \E i \in Items : There(i)
  /\ rows' = [i \in Items |-> Gone(rows[i])]
  /\ disturbed' = disturbed \cup {i \in Items : There(i)}
  /\ UNCHANGED <<entries, handler, fire, overtaken, crowded, restarts>>

-----------------------------------------------------------------------------
(* An entry fires *)

(* Mutated: the entry acts on the row it was registered with.               *)
MayFireCaptured(i) == entries[i] # 0

(* The row is read when the entry fires.                                    *)
MayFire(i) == entries[i] # 0 /\ Scheduled(rows[i]) # 0

Begin(f, i) ==
  /\ fire[f].pc = "idle"
  /\ fire' = [fire EXCEPT ![f] = [pc |-> "read", item |-> i, seen |-> rows[i].edition]]
  /\ overtaken' = IF i \in Jobs /\ AtWork(i) THEN overtaken \cup {i} ELSE overtaken
  /\ UNCHANGED <<rows, entries, handler, disturbed, crowded, restarts>>

Fire(f, i) == MayFire(i) /\ Begin(f, i)

(* The heartbeat of an enabled agent can be asked for without its entry.    *)
FireHeartbeatNow(f, i) ==
  i \in Agents /\ Scheduled(rows[i]) # 0 /\ Begin(f, i)

(* The orchestrator is active and the task is created, which changes        *)
(* nothing here; then lastRunAt, and for a job nextRunAt, from the row read *)
(* at the start.                                                            *)
FinishFire(f) ==
  LET i == fire[f].item
  IN  /\ fire[f].pc = "read"
      /\ rows' = IF There(i) /\ i \in Jobs
                   THEN [rows EXCEPT ![i].next = fire[f].seen] ELSE rows
      /\ fire' = [fire EXCEPT ![f] = Idle]
      /\ UNCHANGED <<entries, handler, disturbed, overtaken, crowded, restarts>>

(* The orchestrator is paused or gone, or an await rejects.                 *)
GiveUp(f) ==
  /\ fire[f].pc # "idle"
  /\ fire' = [fire EXCEPT ![f] = Idle]
  /\ UNCHANGED <<rows, entries, handler, disturbed, overtaken, crowded, restarts>>

-----------------------------------------------------------------------------
(* The process stops and starts again: both tables are listed, each listing *)
(* may fail, and requests come in only afterwards.                          *)
Restart(listed) ==
  /\ restarts < MaxRestarts
  /\ restarts' = restarts + 1
  /\ entries' = [i \in Items |-> IF i \in listed THEN Scheduled(rows[i]) ELSE 0]
  /\ handler' = [h \in Handlers |-> Idle] /\ fire' = [f \in Fires |-> Idle]
  /\ disturbed' = Items \ listed
  /\ UNCHANGED <<rows, overtaken, crowded>>

HandlerStep(h) ==
  \/ \E i \in Items : \/ CheckLimit(h, i) \/ ReadJob(h, i)
                      \/ FindJob(h, i) \/ UnregisterAgent(h, i)
  \/ \E active, changed \in BOOLEAN :
       \/ UpdateJob(h, active, changed)
       \/ \E i \in Items : UpdateAgent(h, i, active, changed)
  \/ \E active \in BOOLEAN : Insert(h, active)
  \/ Register(h) \/ RereadJob(h) \/ UnregisterJob(h) \/ DeleteRow(h) \/ Reject(h)

FireStep(f) ==
  \/ \E i \in Items : Fire(f, i) \/ FireHeartbeatNow(f, i)
  \/ FinishFire(f) \/ GiveUp(f)

Next ==
  \/ \E h \in Handlers : HandlerStep(h)
  \/ \E f \in Fires : FireStep(f)
  \/ Cascade
  \/ \E listed \in {{}, Jobs, Agents, Items} : Restart(listed)

Spec == Init /\ [][Next]_vars

-----------------------------------------------------------------------------
(* Properties *)

TypeOK ==
  /\ rows \in [Items -> Row] /\ entries \in [Items -> Nat]
  /\ handler \in [Handlers -> Handler] /\ fire \in [Fires -> Firing]
  /\ crowded \in BOOLEAN
  /\ disturbed \subseteq Items /\ overtaken \subseteq Jobs
  /\ restarts \in Nat

(* When no request for an item is at work, its cron entry is the schedule   *)
(* of its row, or absent when the row is inactive or gone; unless requests  *)
(* for it overlapped, one of them failed half-way, its orchestrator was     *)
(* deleted, or the boot could not list the table (registerJob,              *)
(* unregisterJob and the handlers around them).                             *)
EntriesMatchRows ==
  \A i \in Items \ disturbed : ~AtWork(i) => entries[i] = Scheduled(rows[i])

(* nextRunAt belongs to the schedule of its row, unless requests for it     *)
(* overlapped, with each other or with a firing, which writes it too (PUT   *)
(* of a job, fireJob).                                                      *)
NextRunMatchesRow ==
  \A i \in Jobs \ overtaken :
    There(i) => rows[i].next = rows[i].edition

(* An entry left behind by a race or a cascade does nothing: no firing      *)
(* begins for an item that is inactive or gone (fireJob, fireHeartbeat).    *)
LeftoverEntriesIdle ==
  [][\A i \in Items :
       Scheduled(rows[i]) = 0 /\ Firings(i) = {} => Firings(i)' = {}]_vars

(* The limit counts and inserts in two awaits: it is kept as long as no two *)
(* creations were between them together, and passed by no more than the     *)
(* requests at work but one (maxScheduledJobs, maxAgents).                  *)
LimitBounded ==
  \A i \in Items :
    LET total == Count(i) + Cardinality(Creating(i))
    IN  /\ ~crowded => total <= MaxRows
        /\ total < MaxRows + Cardinality(Handlers)
=============================================================================
