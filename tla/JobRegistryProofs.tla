------------------------- MODULE JobRegistryProofs -------------------------
(***************************************************************************)
(* Proofs about JobRegistry, for any items, handlers, firings and limits:  *)
(* when entries are those of the rows, when the next run is, that leftover *)
(* entries do nothing, and by how much a limit can be passed.              *)
(***************************************************************************)
EXTENDS JobRegistry, FiniteSetTheorems, TLAPS

(* A handler or a firing at work has an item; an item is unborn for the     *)
(* handler that creates it and for no other, and that one is alone.         *)
Assigned ==
  /\ \A h \in Handlers : handler[h].pc = "idle" <=> handler[h].item = NoItem
  /\ \A f \in Fires : fire[f].pc = "idle" <=> fire[f].item = NoItem

Born ==
  /\ \A h \in Handlers : handler[h].pc # "idle" =>
       (handler[h].pc = "counted" <=> rows[handler[h].item].state = "unborn")
  /\ \A h, k \in Handlers :
       handler[h].pc = "counted" /\ handler[k].item = handler[h].item => k = h
  /\ \A f \in Fires : fire[f].pc # "idle" => rows[fire[f].item].state # "unborn"

(* What a handler that nobody overlaps knows of the entry and the row.      *)
Knows(i, w) ==
  /\ w.pc \in {"counted", "read", "found"} => entries[i] = Scheduled(rows[i])
  /\ w.pc \in {"inserted", "reread"} => w.seen = Scheduled(rows[i])
  /\ w.pc = "unregistered" => entries[i] = 0
  /\ w.pc \in {"read", "updated"} => There(i)

Alone(i) == \A h, k \in Handlers : handler[h].item = i /\ handler[k].item = i => h = k

Calm(i) ==
  /\ Alone(i)
  /\ ~AtWork(i) => entries[i] = Scheduled(rows[i])
  /\ \A h \in Handlers : handler[h].item = i => Knows(i, handler[h])

(* The edition that a handler or a firing read is that of the row.          *)
Current(i) ==
  /\ Alone(i)
  /\ \A h \in Handlers, f \in Fires : ~(handler[h].item = i /\ fire[f].item = i)
  /\ There(i) =>
       /\ rows[i].next = rows[i].edition
       /\ \A h \in Handlers : handler[h].item = i /\ handler[h].pc = "read"
            => handler[h].seen = rows[i].edition
       /\ \A f \in Fires : fire[f].item = i => fire[f].seen = rows[i].edition

RowsOf(K) == {k \in K : There(k)}
CreatingOf(K) == {h \in Handlers : handler[h].pc = "counted" /\ handler[h].item \in K}
Total(K) == Cardinality(RowsOf(K)) + Cardinality(CreatingOf(K))

Limited(K) ==
  /\ ~crowded => Total(K) <= MaxRows
  /\ Total(K) < MaxRows + Cardinality(Handlers)

Shape == TypeOK /\ Assigned /\ Born
CalmInv == \A i \in Items \ disturbed : Calm(i)
CurrentInv == \A i \in Jobs \ overtaken : Current(i)
LimitInv == Limited(Jobs) /\ Limited(Agents)

-----------------------------------------------------------------------------
(* Shape *)

LEMMA InitShape == Init => Shape
<1> SUFFICES ASSUME Init PROVE Shape
  OBVIOUS
<1> USE DEF Init
<1>1. NoRow \in Row /\ Idle \in Handler /\ Idle \in Firing
  BY DEF NoRow, Row, Idle, Handler, Firing
<1>2. TypeOK
  BY <1>1 DEF TypeOK
<1>3. Assigned /\ Born
  BY DEF Assigned, Born, Idle
<1> QED BY <1>2, <1>3 DEF Shape

LEMMA ScheduledType ==
  ASSUME NEW row \in Row
  PROVE  Scheduled(row) \in Nat
BY DEF Scheduled, Row

(* A handler takes an item up, from being idle.                             *)
LEMMA EnterShape ==
  ASSUME Shape, NEW h \in Handlers, NEW i \in Items,
         NEW pc \in {"counted", "read", "reread", "found", "unregistered"},
         NEW seen \in Nat, Enter(h, i, pc, seen),
         IF pc = "counted" THEN rows[i].state = "unborn" /\ ~AtWork(i)
                           ELSE rows[i].state # "unborn"
  PROVE  /\ handler' \in [Handlers -> Handler] /\ disturbed' \subseteq Items
         /\ \A k \in Handlers : handler'[k].pc = "idle" <=> handler'[k].item = NoItem
         /\ \A k \in Handlers : handler'[k].pc # "idle" =>
              (handler'[k].pc = "counted" <=> rows[handler'[k].item].state = "unborn")
         /\ \A g, k \in Handlers :
              handler'[g].pc = "counted" /\ handler'[k].item = handler'[g].item => k = g
<1> DEFINE w == [pc |-> pc, item |-> i, seen |-> seen]
<1>1. w \in Handler /\ w.pc # "idle" /\ w.item # NoItem
  BY RegistryAssumption DEF Handler
<1>2. handler' = [handler EXCEPT ![h] = w] /\ handler \in [Handlers -> Handler]
  BY DEF Enter, Shape, TypeOK
<1>3. handler' \in [Handlers -> Handler] /\ disturbed' \subseteq Items
  BY <1>1, <1>2 DEF Shape, TypeOK, Enter
<1>4. \A k \in Handlers : handler'[k] = IF k = h THEN w ELSE handler[k]
  BY <1>2
<1> HIDE DEF w
<1>5. w.pc = pc /\ w.item = i
  BY DEF w
<1>6. \A k \in Handlers : handler'[k].pc = "idle" <=> handler'[k].item = NoItem
  BY <1>1, <1>4 DEF Shape, Assigned
<1>7. \A k \in Handlers : handler'[k].pc # "idle" =>
        (handler'[k].pc = "counted" <=> rows[handler'[k].item].state = "unborn")
  BY <1>4, <1>5 DEF Shape, Born
<1>8. ASSUME NEW g \in Handlers, NEW k \in Handlers,
             handler'[g].pc = "counted", handler'[k].item = handler'[g].item
      PROVE  k = g
  <2>1. CASE g = h
    BY <1>4, <1>5, <1>8, <2>1 DEF AtWork
  <2>2. CASE g # h /\ k = h
    <3>1. rows[i].state = "unborn" /\ handler[g].item = i
      BY <1>4, <1>5, <1>8, <2>2 DEF Shape, Born
    <3> QED BY <3>1 DEF AtWork
  <2>3. CASE g # h /\ k # h
    BY <1>4, <1>8, <2>3 DEF Shape, Born
  <2> QED BY <2>1, <2>2, <2>3
<1> QED BY <1>3, <1>6, <1>7, <1>8

(* A handler goes on with its item or ends; rows are born for the handler   *)
(* that creates them and never become unborn again.                         *)
LEMMA MoveShape ==
  ASSUME Shape, NEW h \in Handlers, NEW w \in Handler,
         handler' = [handler EXCEPT ![h] = w], fire' = fire,
         handler[h].pc # "idle",
         w = Idle \/ (w.item = handler[h].item /\ w.pc \notin {"idle", "counted"}),
         rows' \in [Items -> Row],
         \A i \in Items : IF i = w.item THEN rows'[i].state # "unborn"
                          ELSE (rows'[i].state = "unborn" <=> rows[i].state = "unborn")
  PROVE  handler' \in [Handlers -> Handler] /\ Assigned' /\ Born'
<1> USE DEF Shape
<1>1. \A k \in Handlers : handler'[k] = IF k = h THEN w ELSE handler[k]
  BY DEF TypeOK
<1>2. handler' \in [Handlers -> Handler]
  BY DEF TypeOK
<1>3. Assigned'
  BY <1>1 DEF Assigned, Idle
<1>4. \A k \in Handlers : handler[k].pc # "idle" => handler[k].item \in Items
  BY DEF Assigned, TypeOK, Handler
<1>5. ASSUME NEW k \in Handlers, handler'[k].pc # "idle"
      PROVE  handler'[k].pc = "counted" <=> rows'[handler'[k].item].state = "unborn"
  <2>1. CASE k = h
    <3>1. w.item \in Items /\ w.pc # "counted" /\ handler'[k] = w
      BY <1>1, <1>4, <1>5, <2>1 DEF Idle
    <3> QED BY <3>1
  <2>2. CASE k # h
    <3>1. handler'[k] = handler[k] /\ handler[k].item \in Items
      BY <1>1, <1>4, <1>5, <2>2
    <3>2. CASE handler[k].item = w.item
      <4>1. w.item = handler[h].item /\ rows'[w.item].state # "unborn"
        BY <1>4, <1>5, <3>1, <3>2, RegistryAssumption DEF Idle
      <4>2. handler[k].pc # "counted"
        BY <2>2, <3>2, <4>1 DEF Born
      <4> QED BY <3>1, <3>2, <4>1, <4>2
    <3>3. CASE handler[k].item # w.item
      BY <1>5, <3>1, <3>3 DEF Born
    <3> QED BY <3>2, <3>3
  <2> QED BY <2>1, <2>2
<1>6. ASSUME NEW g \in Handlers, NEW k \in Handlers,
             handler'[g].pc = "counted", handler'[k].item = handler'[g].item
      PROVE  k = g
  <2>1. g # h /\ handler'[g] = handler[g]
    BY <1>1, <1>6 DEF Idle
  <2>2. CASE k = h
    <3>1. w.item = handler[g].item
      BY <1>1, <1>6, <2>1, <2>2
    <3>2. w.item = handler[h].item
      BY <1>4, <1>6, <2>1, <3>1, RegistryAssumption DEF Idle
    <3> QED BY <1>6, <2>1, <2>2, <3>1, <3>2 DEF Born
  <2>3. CASE k # h
    BY <1>1, <1>6, <2>1, <2>3 DEF Born
  <2> QED BY <2>2, <2>3
<1>7. ASSUME NEW f \in Fires, fire[f].pc # "idle"
      PROVE  rows'[fire[f].item].state # "unborn"
  <2>1. fire[f].item \in Items
    BY <1>7 DEF Assigned, TypeOK, Firing
  <2> QED BY <1>7, <2>1 DEF Born
<1>8. Born'
  BY <1>5, <1>6, <1>7 DEF Born
<1> QED BY <1>2, <1>3, <1>8

LEMMA GoneShape ==
  ASSUME NEW row \in Row
  PROVE  /\ Gone(row) \in Row /\ Scheduled(Gone(row)) = 0
         /\ Gone(row).state # "there"
         /\ Gone(row).state = "unborn" <=> row.state = "unborn"
         /\ row.state # "there" => Gone(row) = row
BY DEF Gone, Row, NoRow, Scheduled

LEMMA EditShape ==
  ASSUME NEW row \in Row, NEW base \in Nat, NEW active \in BOOLEAN, NEW changed \in BOOLEAN
  PROVE  /\ Edited(row, base, active, changed) \in Row
         /\ Edited(row, base, active, changed).state = row.state
<1>1. row.edition \in Nat /\ row.edition + 1 \in Nat
  BY DEF Row
<1>2. CASE changed
  BY <1>1, <1>2 DEF Edited, Row
<1>3. CASE ~changed
  BY <1>1, <1>3 DEF Edited, Row
<1> QED BY <1>2, <1>3

(* An item is taken up while the rows stay.                                 *)
LEMMA TakeUpShape ==
  ASSUME Shape, NEW h \in Handlers, NEW i \in Items,
         CheckLimit(h, i) \/ ReadJob(h, i) \/ FindJob(h, i) \/ UnregisterAgent(h, i)
  PROVE  Shape'
<1>1. rows' = rows /\ fire' = fire /\ restarts' = restarts
  BY DEF CheckLimit, ReadJob, FindJob, UnregisterAgent
<1>2. rows[i] \in Row
  BY DEF Shape, TypeOK
<1>3. PICK pc \in {"counted", "read", "reread", "found", "unregistered"}, seen \in Nat :
        /\ Enter(h, i, pc, seen)
        /\ IF pc = "counted" THEN rows[i].state = "unborn" /\ ~AtWork(i)
                             ELSE rows[i].state # "unborn"
  <2>1. CASE CheckLimit(h, i)
    BY <2>1 DEF CheckLimit
  <2>2. CASE ReadJob(h, i)
    <3>1. rows[i].edition \in Nat
      BY <1>2 DEF Row
    <3> QED BY <2>2, <3>1 DEF ReadJob, There
  <2>3. CASE FindJob(h, i)
    BY <2>3 DEF FindJob, There
  <2>4. CASE UnregisterAgent(h, i)
    BY <2>4 DEF UnregisterAgent
  <2> QED BY <2>1, <2>2, <2>3, <2>4
<1>4. /\ handler' \in [Handlers -> Handler] /\ disturbed' \subseteq Items
      /\ \A k \in Handlers : handler'[k].pc = "idle" <=> handler'[k].item = NoItem
      /\ \A k \in Handlers : handler'[k].pc # "idle" =>
           (handler'[k].pc = "counted" <=> rows[handler'[k].item].state = "unborn")
      /\ \A g, k \in Handlers :
           handler'[g].pc = "counted" /\ handler'[k].item = handler'[g].item => k = g
  BY <1>3, EnterShape
<1>5. entries' \in [Items -> Nat]
  BY DEF Shape, TypeOK, CheckLimit, ReadJob, FindJob, UnregisterAgent
<1>6. crowded' \in BOOLEAN
  BY DEF Shape, TypeOK, CheckLimit, ReadJob, FindJob, UnregisterAgent
<1>7. overtaken' \subseteq Jobs
  BY DEF Shape, TypeOK, CheckLimit, ReadJob, FindJob, UnregisterAgent, Overtakes
<1>8. TypeOK'
  BY <1>1, <1>4, <1>5, <1>6, <1>7 DEF Shape, TypeOK
<1>9. Assigned' /\ Born'
  BY <1>1, <1>4 DEF Shape, Assigned, Born
<1> QED BY <1>8, <1>9 DEF Shape

LEMMA UpdateAgentShape ==
  ASSUME Shape, NEW h \in Handlers, NEW i \in Items, NEW active \in BOOLEAN,
         NEW changed \in BOOLEAN, UpdateAgent(h, i, active, changed)
  PROVE  Shape'
<1>1. rows[i] \in Row /\ rows[i].edition \in Nat
  BY DEF Shape, TypeOK, Row
<1> DEFINE new == Edited(rows[i], rows[i].edition, active, changed)
<1>2. new \in Row /\ new.state = rows[i].state
  BY <1>1, EditShape
<1>3. rows' = [rows EXCEPT ![i] = new]
  BY DEF UpdateAgent, Edit
<1> HIDE DEF new
<1>4. /\ rows' \in [Items -> Row] /\ rows'[i] = new
      /\ \A k \in Items : rows'[k].state = rows[k].state
  BY <1>2, <1>3 DEF Shape, TypeOK
<1>5. Scheduled(rows'[i]) \in Nat
  BY <1>4, ScheduledType
<1>6. Enter(h, i, "reread", Scheduled(rows'[i])) /\ rows[i].state # "unborn"
  BY DEF UpdateAgent, There
<1>7. /\ handler' \in [Handlers -> Handler] /\ disturbed' \subseteq Items
      /\ \A k \in Handlers : handler'[k].pc = "idle" <=> handler'[k].item = NoItem
      /\ \A k \in Handlers : handler'[k].pc # "idle" =>
           (handler'[k].pc = "counted" <=> rows[handler'[k].item].state = "unborn")
      /\ \A g, k \in Handlers :
           handler'[g].pc = "counted" /\ handler'[k].item = handler'[g].item => k = g
  BY <1>5, <1>6, EnterShape
<1>8. UNCHANGED <<entries, fire, crowded, restarts>> /\ overtaken' \subseteq Jobs
  BY DEF Shape, TypeOK, UpdateAgent, Overtakes
<1>9. TypeOK'
  BY <1>4, <1>7, <1>8 DEF Shape, TypeOK
<1>10. Assigned'
  BY <1>7, <1>8 DEF Shape, Assigned
<1>11. /\ \A k \in Handlers : handler'[k].pc # "idle" => handler'[k].item \in Items
       /\ \A f \in Fires : fire[f].pc # "idle" => fire[f].item \in Items
  BY <1>7 DEF Shape, TypeOK, Assigned, Handler, Firing
<1>12. Born'
  BY <1>4, <1>7, <1>8, <1>11 DEF Shape, Born
<1> QED BY <1>9, <1>10, <1>12 DEF Shape

(* The item of a handler at work, and what a step makes of the handler.     *)
LEMMA Worker ==
  ASSUME Shape, NEW h \in Handlers, handler[h].pc # "idle"
  PROVE  /\ handler[h].item \in Items /\ rows[handler[h].item] \in Row
         /\ Idle \in Handler
<1>1. handler[h] \in Handler /\ handler[h].item \in Items
  BY DEF Shape, TypeOK, Assigned, Handler
<1> QED BY <1>1 DEF Shape, TypeOK, Idle, Handler

LEMMA Stepped ==
  ASSUME Shape, NEW h \in Handlers, NEW seen \in Nat,
         NEW pc \in {"inserted", "updated", "reread", "unregistered"}, Step(h, pc, seen)
  PROVE  \E w \in Handler :
           /\ w.item = handler[h].item /\ w.pc = pc /\ w.seen = seen
           /\ handler' = [handler EXCEPT ![h] = w]
<1> DEFINE w == [handler[h] EXCEPT !.pc = pc, !.seen = seen]
<1>1. handler[h] \in Handler
  BY DEF Shape, TypeOK
<1>2. w \in Handler /\ w.item = handler[h].item /\ w.pc = pc /\ w.seen = seen
  BY <1>1 DEF Handler
<1>3. handler' = [handler EXCEPT ![h] = w]
  BY DEF Step, Shape, TypeOK
<1> QED BY <1>2, <1>3

LEMMA InsertShape ==
  ASSUME Shape, NEW h \in Handlers, NEW active \in BOOLEAN, Insert(h, active)
  PROVE  Shape'
<1> DEFINE i == handler[h].item
           row == [state |-> "there", active |-> active, edition |-> 1, next |-> 1]
<1>1. handler[h].pc # "idle" /\ row \in Row /\ row.state # "unborn"
  BY DEF Insert, Row
<1>2. i \in Items /\ Scheduled(row) \in Nat
  BY <1>1, Worker, ScheduledType
<1>3. rows' = [rows EXCEPT ![i] = row] /\ Step(h, "inserted", Scheduled(row))
  BY DEF Insert
<1>4. PICK w \in Handler : /\ handler' = [handler EXCEPT ![h] = w]
                          /\ w.item = i /\ w.pc = "inserted"
  BY <1>2, <1>3, Stepped
<1>5. /\ UNCHANGED <<entries, fire, disturbed, overtaken, crowded, restarts>>
  BY DEF Insert
<1> HIDE DEF row
<1>6. rows' \in [Items -> Row]
  BY <1>1, <1>3 DEF Shape, TypeOK
<1>7. \A k \in Items : IF k = w.item THEN rows'[k].state # "unborn"
                       ELSE (rows'[k].state = "unborn" <=> rows[k].state = "unborn")
  BY <1>1, <1>2, <1>3, <1>4 DEF Shape, TypeOK
<1>8. handler' \in [Handlers -> Handler] /\ Assigned' /\ Born'
  BY <1>1, <1>4, <1>5, <1>6, <1>7, MoveShape
<1> QED BY <1>5, <1>6, <1>8 DEF Shape, TypeOK

(* The steps of a handler after its first await.                            *)
LEMMA GoOnShape ==
  ASSUME Shape, NEW h \in Handlers,
         \/ \E active, changed \in BOOLEAN : UpdateJob(h, active, changed)
         \/ RereadJob(h) \/ UnregisterJob(h) \/ Register(h) \/ DeleteRow(h) \/ Reject(h)
  PROVE  Shape'
<1> DEFINE i == handler[h].item
<1>1. handler[h].pc # "idle" /\ UNCHANGED <<fire, overtaken, crowded, restarts>>
  BY DEF UpdateJob, RereadJob, UnregisterJob, Register, DeleteRow, Reject
<1>2. i \in Items /\ rows[i] \in Row /\ Idle \in Handler
  BY <1>1, Worker
<1>3. handler[h].seen \in Nat
  BY DEF Shape, TypeOK, Handler
<1>4. /\ rows' \in [Items -> Row]
      /\ \A k \in Items : rows'[k].state = "unborn" <=> rows[k].state = "unborn"
  <2>1. CASE \E active, changed \in BOOLEAN : UpdateJob(h, active, changed)
    <3>1. PICK active \in BOOLEAN, changed \in BOOLEAN : UpdateJob(h, active, changed)
      BY <2>1
    <3> DEFINE new == Edited(rows[i], handler[h].seen, active, changed)
    <3>2. new \in Row /\ new.state = rows[i].state
      BY <1>2, <1>3, EditShape
    <3>3. rows' = [rows EXCEPT ![i] = new] \/ rows' = rows
      BY <3>1 DEF UpdateJob, Edit
    <3> HIDE DEF new
    <3> QED BY <3>2, <3>3 DEF Shape, TypeOK
  <2>2. CASE DeleteRow(h)
    <3>1. /\ Gone(rows[i]) \in Row
          /\ Gone(rows[i]).state = "unborn" <=> rows[i].state = "unborn"
      BY <1>2, GoneShape
    <3>2. rows' = [rows EXCEPT ![i] = Gone(rows[i])]
      BY <2>2 DEF DeleteRow
    <3> QED BY <3>1, <3>2 DEF Shape, TypeOK
  <2>3. CASE RereadJob(h) \/ UnregisterJob(h) \/ Register(h) \/ Reject(h)
    BY <2>3 DEF RereadJob, UnregisterJob, Register, Reject, Shape, TypeOK
  <2> QED BY <2>1, <2>2, <2>3
<1>5. entries' \in [Items -> Nat] /\ disturbed' \subseteq Items
  BY <1>2, <1>3 DEF Shape, TypeOK, UpdateJob, RereadJob, UnregisterJob, Register, DeleteRow, Reject
<1>6. \/ handler' = [handler EXCEPT ![h] = Idle]
      \/ /\ handler[h].pc # "counted"
         /\ \E pc \in {"updated", "reread", "unregistered"}, seen \in Nat : Step(h, pc, seen)
  <2>1. CASE \E active, changed \in BOOLEAN : UpdateJob(h, active, changed)
    BY <2>1 DEF UpdateJob
  <2>2. CASE RereadJob(h)
    <3>1. Scheduled(rows[i]) \in Nat
      BY <1>2, ScheduledType
    <3> QED BY <2>2, <3>1 DEF RereadJob, Answer
  <2>3. CASE UnregisterJob(h)
    BY <2>3 DEF UnregisterJob
  <2>4. CASE Register(h) \/ DeleteRow(h) \/ Reject(h)
    BY <2>4 DEF Register, DeleteRow, Reject, Answer
  <2> QED BY <2>1, <2>2, <2>3, <2>4
<1>7. CASE handler' = [handler EXCEPT ![h] = Idle]
  <2>1. \A k \in Items : k # Idle.item
    BY RegistryAssumption DEF Idle
  <2>2. handler' \in [Handlers -> Handler] /\ Assigned' /\ Born'
    BY <1>1, <1>2, <1>4, <1>7, <2>1, MoveShape
  <2> QED BY <1>1, <1>4, <1>5, <2>2 DEF Shape, TypeOK
<1>8. CASE /\ handler[h].pc # "counted"
           /\ \E pc \in {"updated", "reread", "unregistered"}, seen \in Nat : Step(h, pc, seen)
  <2>1. PICK pc \in {"updated", "reread", "unregistered"}, seen \in Nat : Step(h, pc, seen)
    BY <1>8
  <2>2. PICK w \in Handler : /\ handler' = [handler EXCEPT ![h] = w]
                            /\ w.item = i /\ w.pc = pc
    BY <2>1, Stepped
  <2>3. rows[i].state # "unborn"
    BY <1>1, <1>8 DEF Shape, Born
  <2>4. \A k \in Items : IF k = w.item THEN rows'[k].state # "unborn"
                         ELSE (rows'[k].state = "unborn" <=> rows[k].state = "unborn")
    BY <1>4, <2>2, <2>3
  <2>5. handler' \in [Handlers -> Handler] /\ Assigned' /\ Born'
    BY <1>1, <1>4, <2>2, <2>4, MoveShape
  <2> QED BY <1>1, <1>4, <1>5, <2>5 DEF Shape, TypeOK
<1> QED BY <1>6, <1>7, <1>8

LEMMA FireShape ==
  ASSUME Shape, NEW f \in Fires, FireStep(f)
  PROVE  Shape'
<1>1. UNCHANGED <<entries, handler, disturbed, crowded, restarts>>
  BY DEF FireStep, Fire, FireHeartbeatNow, Begin, FinishFire, GiveUp
<1>2. ASSUME NEW i \in Items, Begin(f, i), Scheduled(rows[i]) # 0
      PROVE  Shape'
  <2> DEFINE w == [pc |-> "read", item |-> i, seen |-> rows[i].edition]
  <2>1. w \in Firing /\ w.pc # "idle" /\ w.item # NoItem /\ w.item = i
    BY RegistryAssumption DEF Shape, TypeOK, Row, Firing
  <2>2. fire' = [fire EXCEPT ![f] = w]
    BY <1>2 DEF Begin
  <2> HIDE DEF w
  <2>3. rows[i].state # "unborn" /\ rows' = rows
    BY <1>2 DEF Begin, Scheduled
  <2>4. fire' \in [Fires -> Firing] /\ \A g \in Fires : fire'[g] = IF g = f THEN w ELSE fire[g]
    BY <2>1, <2>2 DEF Shape, TypeOK
  <2>5. overtaken' \subseteq Jobs
    BY <1>2 DEF Begin, Shape, TypeOK
  <2>6. TypeOK'
    BY <1>1, <2>3, <2>4, <2>5 DEF Shape, TypeOK
  <2>7. Assigned' /\ Born'
    BY <1>1, <2>1, <2>3, <2>4 DEF Shape, Assigned, Born
  <2> QED BY <2>6, <2>7 DEF Shape
<1>3. CASE FinishFire(f) \/ GiveUp(f)
  <2>1. fire[f].item \in Items /\ fire[f].seen \in Nat
    BY <1>3 DEF FinishFire, GiveUp, Shape, TypeOK, Assigned, Firing
  <2>2. fire' = [fire EXCEPT ![f] = Idle] /\ Idle \in Firing /\ overtaken' = overtaken
    BY <1>3 DEF FinishFire, GiveUp, Idle, Firing
  <2>3. /\ fire' \in [Fires -> Firing]
        /\ \A g \in Fires : fire'[g] = IF g = f THEN Idle ELSE fire[g]
    BY <2>2 DEF Shape, TypeOK
  <2>4. rows' \in [Items -> Row] /\ \A i \in Items : rows'[i].state = rows[i].state
    <3>1. CASE rows' = rows
      BY <3>1 DEF Shape, TypeOK
    <3>2. CASE rows' = [rows EXCEPT ![fire[f].item].next = fire[f].seen]
      BY <2>1, <3>2 DEF Shape, TypeOK, Row
    <3> QED BY <1>3, <3>1, <3>2 DEF FinishFire, GiveUp
  <2>5. TypeOK' /\ Assigned'
    BY <1>1, <2>2, <2>3, <2>4 DEF Shape, TypeOK, Assigned, Idle
  <2>6. /\ \A k \in Handlers : handler[k].pc # "idle" => handler[k].item \in Items
        /\ \A g \in Fires : fire[g].pc # "idle" => fire[g].item \in Items
    BY DEF Shape, TypeOK, Assigned, Handler, Firing
  <2>7. Born'
    BY <1>1, <2>3, <2>4, <2>6 DEF Shape, Born, Idle
  <2> QED BY <2>5, <2>7 DEF Shape
<1> QED BY <1>2, <1>3 DEF FireStep, Fire, MayFire, FireHeartbeatNow

LEMMA CascadeShape ==
  ASSUME Shape, Cascade
  PROVE  Shape'
<1>1. rows' = [i \in Items |-> Gone(rows[i])]
      /\ UNCHANGED <<entries, handler, fire, overtaken, crowded, restarts>>
  BY DEF Cascade
<1>2. /\ rows' \in [Items -> Row]
      /\ \A i \in Items : rows'[i].state = "unborn" <=> rows[i].state = "unborn"
  BY <1>1, GoneShape DEF Shape, TypeOK
<1>3. disturbed' \subseteq Items
  BY DEF Cascade, Shape, TypeOK
<1>4. /\ \A k \in Handlers : handler[k].pc # "idle" => handler[k].item \in Items
      /\ \A g \in Fires : fire[g].pc # "idle" => fire[g].item \in Items
  BY DEF Shape, TypeOK, Assigned, Handler, Firing
<1>5. TypeOK' /\ Assigned'
  BY <1>1, <1>2, <1>3 DEF Shape, TypeOK, Assigned
<1>6. Born'
  BY <1>1, <1>2, <1>4 DEF Shape, Born
<1> QED BY <1>5, <1>6 DEF Shape

LEMMA RestartShape ==
  ASSUME Shape, NEW listed, Restart(listed)
  PROVE  Shape'
<1> USE DEF Restart
<1>1. Idle \in Handler /\ Idle \in Firing
  BY DEF Idle, Handler, Firing
<1>2. \A i \in Items : Scheduled(rows[i]) \in Nat
  BY ScheduledType DEF Shape, TypeOK
<1>3. TypeOK'
  BY <1>1, <1>2 DEF Shape, TypeOK
<1>4. Assigned' /\ Born'
  BY DEF Assigned, Born, Idle
<1> QED BY <1>3, <1>4 DEF Shape

LEMMA NextShape == Shape /\ [Next]_vars => Shape'
<1> SUFFICES ASSUME Shape, [Next]_vars PROVE Shape'
  OBVIOUS
<1>1. CASE UNCHANGED vars
  BY <1>1 DEF vars, Shape, TypeOK, Assigned, Born
<1>2. ASSUME NEW h \in Handlers, HandlerStep(h) PROVE Shape'
  BY <1>2, TakeUpShape, UpdateAgentShape, InsertShape, GoOnShape DEF HandlerStep
<1> QED BY <1>1, <1>2, FireShape, CascadeShape, RestartShape DEF Next

LEMMA ShapeInvariance == Spec => []Shape
BY InitShape, NextShape, PTL DEF Spec

-----------------------------------------------------------------------------
(* Entries and rows *)

(* Nothing of the item changes.                                             *)
LEMMA CalmFrame ==
  ASSUME NEW i \in Items, Calm(i), entries'[i] = entries[i],
         Scheduled(rows'[i]) = Scheduled(rows[i]), There(i) => There(i)',
         \A k \in Handlers : \/ handler'[k] = handler[k]
                             \/ handler[k].item # i /\ handler'[k].item # i
  PROVE  Calm(i)'
BY DEF Calm, Alone, AtWork, Knows

(* A handler takes up an item that no other is at.                          *)
LEMMA CalmEnter ==
  ASSUME Shape, NEW h \in Handlers, NEW i \in Items, ~AtWork(i), NEW w, w.item = i,
         handler' = [handler EXCEPT ![h] = w], Knows(i, w)'
  PROVE  Calm(i)'
<1>1. \A k \in Handlers : handler'[k] = IF k = h THEN w ELSE handler[k]
  BY DEF Shape, TypeOK
<1>2. \A k \in Handlers : handler'[k].item = i => k = h
  BY <1>1 DEF AtWork
<1> QED BY <1>1, <1>2 DEF Calm, Alone, AtWork

(* A handler that is alone with its item goes on or ends.                   *)
LEMMA CalmMove ==
  ASSUME Shape, NEW h \in Handlers, NEW i \in Items, handler[h].item = i, NEW w,
         Calm(i), handler' = [handler EXCEPT ![h] = w],
         \/ w.item = i /\ Knows(i, w)'
         \/ w.item # i /\ entries'[i] = Scheduled(rows'[i])
  PROVE  Calm(i)'
<1>1. \A k \in Handlers : handler'[k] = IF k = h THEN w ELSE handler[k]
  BY DEF Shape, TypeOK
<1>2. \A k \in Handlers : handler'[k].item = i => k = h
  BY <1>1 DEF Calm, Alone
<1> QED BY <1>1, <1>2 DEF Calm, Alone, AtWork

LEMMA ScheduledThere ==
  ASSUME NEW i \in Items
  PROVE  ~There(i) => Scheduled(rows[i]) = 0
BY DEF There, Scheduled

LEMMA TakeUpCalm ==
  ASSUME Shape, CalmInv, NEW h \in Handlers, NEW j \in Items,
         CheckLimit(h, j) \/ ReadJob(h, j) \/ FindJob(h, j) \/ UnregisterAgent(h, j)
  PROVE  CalmInv'
<1>1. rows' = rows /\ disturbed \subseteq disturbed'
  BY DEF CheckLimit, ReadJob, FindJob, UnregisterAgent, Enter
<1>2. ASSUME NEW i \in Items, i \notin disturbed' PROVE Calm(i)'
  <2>1. Calm(i)
    BY <1>1, <1>2 DEF CalmInv
  <2>2. CASE i # j
    <3>1. entries'[i] = entries[i]
      BY <2>2 DEF CheckLimit, ReadJob, FindJob, UnregisterAgent, Shape, TypeOK
    <3>2. \A k \in Handlers : \/ handler'[k] = handler[k]
                              \/ handler[k].item # i /\ handler'[k].item # i
      BY <1>2, <2>2, RegistryAssumption
         DEF CheckLimit, ReadJob, FindJob, UnregisterAgent, Enter, Shape, TypeOK, Assigned
    <3> QED BY <1>1, <2>1, <3>1, <3>2, CalmFrame DEF There
  <2>3. CASE i = j
    <3>1. ~AtWork(i)
      BY <1>2, <2>3 DEF CheckLimit, ReadJob, FindJob, UnregisterAgent, Enter
    <3>2. entries[i] = Scheduled(rows[i])
      BY <2>1, <3>1 DEF Calm
    <3>3. CASE CheckLimit(h, j)
      <4>1. PICK w : /\ w.item = i /\ w.pc = "counted"
                     /\ handler' = [handler EXCEPT ![h] = w]
        BY <2>3, <3>3 DEF CheckLimit, Enter
      <4>2. entries' = entries
        BY <2>3, <3>3 DEF CheckLimit
      <4>3. Knows(i, w)'
        BY <1>1, <3>2, <4>1, <4>2 DEF Knows, There
      <4> QED BY <3>1, <4>1, <4>3, CalmEnter
    <3>4. CASE ReadJob(h, j)
      <4>1. PICK w : /\ w.item = i /\ w.pc = "read"
                     /\ handler' = [handler EXCEPT ![h] = w]
        BY <2>3, <3>4 DEF ReadJob, Enter
      <4>2. entries' = entries /\ There(i)
        BY <2>3, <3>4 DEF ReadJob
      <4>3. Knows(i, w)'
        BY <1>1, <3>2, <4>1, <4>2 DEF Knows, There
      <4> QED BY <3>1, <4>1, <4>3, CalmEnter
    <3>5. CASE FindJob(h, j)
      <4>1. PICK w : /\ w.item = i /\ w.pc = "found"
                     /\ handler' = [handler EXCEPT ![h] = w]
        BY <2>3, <3>5 DEF FindJob, Enter
      <4>2. entries' = entries
        BY <2>3, <3>5 DEF FindJob
      <4>3. Knows(i, w)'
        BY <1>1, <3>2, <4>1, <4>2 DEF Knows, There
      <4> QED BY <3>1, <4>1, <4>3, CalmEnter
    <3>6. CASE UnregisterAgent(h, j)
      <4>1. PICK w : /\ w.item = i /\ w.pc = "unregistered"
                     /\ handler' = [handler EXCEPT ![h] = w]
        BY <2>3, <3>6 DEF UnregisterAgent, Enter
      <4>2. entries'[i] = 0
        BY <2>3, <3>6 DEF UnregisterAgent, Shape, TypeOK
      <4>3. Knows(i, w)'
        BY <1>1, <3>2, <4>1, <4>2 DEF Knows, There
      <4> QED BY <3>1, <4>1, <4>3, CalmEnter
    <3> QED BY <3>3, <3>4, <3>5, <3>6
  <2> QED BY <2>2, <2>3
<1> QED BY <1>2 DEF CalmInv

LEMMA UpdateAgentCalm ==
  ASSUME Shape, CalmInv, NEW h \in Handlers, NEW j \in Items, NEW active \in BOOLEAN,
         NEW changed \in BOOLEAN, UpdateAgent(h, j, active, changed)
  PROVE  CalmInv'
<1>1. entries' = entries /\ disturbed \subseteq disturbed'
  BY DEF UpdateAgent, Enter
<1>2. Enter(h, j, "reread", Scheduled(rows'[j]))
  BY DEF UpdateAgent
<1>3. \A i \in Items : i # j => rows'[i] = rows[i]
  BY DEF UpdateAgent, Edit, Shape, TypeOK
<1>4. ASSUME NEW i \in Items, i \notin disturbed' PROVE Calm(i)'
  <2>1. Calm(i)
    BY <1>1, <1>4 DEF CalmInv
  <2>2. CASE i # j
    <3>1. \A k \in Handlers : \/ handler'[k] = handler[k]
                              \/ handler[k].item # i /\ handler'[k].item # i
      BY <1>2, <2>2, RegistryAssumption DEF Enter, Shape, TypeOK, Assigned
    <3> QED BY <1>1, <1>3, <2>1, <2>2, <3>1, CalmFrame DEF There
  <2>3. CASE i = j
    <3>1. PICK w : /\ w.item = i /\ w.pc = "reread" /\ w.seen = Scheduled(rows'[i])
                   /\ handler' = [handler EXCEPT ![h] = w]
      BY <1>2, <2>3 DEF Enter
    <3>2. Knows(i, w)' /\ ~AtWork(i)
      BY <1>2, <1>4, <2>3, <3>1 DEF Knows, Enter
    <3> QED BY <3>1, <3>2, CalmEnter
  <2> QED BY <2>2, <2>3
<1> QED BY <1>4 DEF CalmInv

GoesOn(h) ==
  \/ \E active \in BOOLEAN : Insert(h, active)
  \/ \E active, changed \in BOOLEAN : UpdateJob(h, active, changed)
  \/ RereadJob(h) \/ UnregisterJob(h) \/ Register(h) \/ DeleteRow(h) \/ Reject(h)

(* A handler that goes on changes nothing of other items.                   *)
LEMMA GoOnFrame ==
  ASSUME Shape, NEW h \in Handlers, GoesOn(h)
  PROVE  /\ handler[h].pc # "idle" /\ disturbed \subseteq disturbed' /\ fire' = fire
         /\ \A i \in Items : i # handler[h].item =>
              /\ rows'[i] = rows[i] /\ entries'[i] = entries[i]
              /\ \A k \in Handlers : \/ handler'[k] = handler[k]
                                     \/ handler[k].item # i /\ handler'[k].item # i
         /\ \A k \in Handlers : k # h => handler'[k] = handler[k]
<1>1. /\ handler[h].pc # "idle" /\ disturbed \subseteq disturbed' /\ fire' = fire
  BY DEF GoesOn, Insert, UpdateJob, RereadJob, UnregisterJob, Register, DeleteRow, Reject
<1>2. \A i \in Items : i # handler[h].item => rows'[i] = rows[i]
  BY DEF GoesOn, Insert, UpdateJob, Edit, RereadJob, UnregisterJob, Register, DeleteRow, Reject,
         Shape, TypeOK
<1>3. \A i \in Items : i # handler[h].item => entries'[i] = entries[i]
  BY DEF GoesOn, Insert, UpdateJob, RereadJob, UnregisterJob, Register, DeleteRow, Reject,
         Shape, TypeOK
<1>4. \/ \E pc, seen : Step(h, pc, seen)
      \/ Answer(h)
  BY DEF GoesOn, Insert, UpdateJob, RereadJob, UnregisterJob, Register, DeleteRow, Reject
<1>5. handler[h] \in Handler
  BY DEF Shape, TypeOK
<1>6. /\ \A k \in Handlers : k # h => handler'[k] = handler[k]
      /\ handler'[h].item \in {handler[h].item, NoItem}
  <2>1. CASE Answer(h)
    BY <2>1 DEF Answer, Idle, Shape, TypeOK
  <2>2. ASSUME NEW pc, NEW seen, Step(h, pc, seen)
        PROVE  /\ \A k \in Handlers : k # h => handler'[k] = handler[k]
               /\ handler'[h].item = handler[h].item
    <3>1. handler' = [handler EXCEPT ![h] = [handler[h] EXCEPT !.pc = pc, !.seen = seen]]
      BY <2>2 DEF Step, Shape, TypeOK
    <3> DEFINE w == [handler[h] EXCEPT !.pc = pc, !.seen = seen]
    <3>2. w.item = handler[h].item
      BY <1>5 DEF Handler
    <3> HIDE DEF w
    <3>3. handler' = [handler EXCEPT ![h] = w]
      BY <3>1 DEF w
    <3> QED BY <3>2, <3>3 DEF Shape, TypeOK
  <2> QED BY <1>4, <2>1, <2>2
<1> QED BY <1>1, <1>2, <1>3, <1>6, RegistryAssumption

LEMMA GoOnCalm ==
  ASSUME Shape, CalmInv, NEW h \in Handlers, GoesOn(h)
  PROVE  CalmInv'
<1>1. ASSUME NEW i \in Items, i \notin disturbed', i # handler[h].item PROVE Calm(i)'
  BY <1>1, GoOnFrame, CalmFrame DEF There, CalmInv
<1>2. ASSUME NEW i \in Items, i \notin disturbed', i = handler[h].item PROVE Calm(i)'
  <2>1. Calm(i) /\ Knows(i, handler[h]) /\ rows[i] \in Row /\ handler[h] \in Handler
    BY <1>2, GoOnFrame DEF CalmInv, Calm, Shape, TypeOK
  <2>2. NoItem # i /\ Idle.item = NoItem
    BY <1>2, RegistryAssumption DEF Idle
  <2>3. CASE \E active \in BOOLEAN : Insert(h, active)
    <3>1. PICK active \in BOOLEAN : Insert(h, active)
      BY <2>3
    <3> DEFINE row == [state |-> "there", active |-> active, edition |-> 1, next |-> 1]
    <3>2. rows'[i] = row /\ Step(h, "inserted", Scheduled(row)) /\ row \in Row
      BY <1>2, <3>1 DEF Insert, Shape, TypeOK, Row
    <3>3. Scheduled(row) \in Nat
      BY <3>2, ScheduledType
    <3> HIDE DEF row
    <3>4. PICK w \in Handler : /\ w.item = i /\ w.pc = "inserted" /\ w.seen = Scheduled(row)
                               /\ handler' = [handler EXCEPT ![h] = w]
      BY <1>2, <3>2, <3>3, Stepped
    <3>5. Knows(i, w)'
      BY <3>2, <3>4 DEF Knows
    <3> QED BY <1>2, <2>1, <3>4, <3>5, CalmMove
  <2>4. CASE \E active, changed \in BOOLEAN : UpdateJob(h, active, changed)
    <3>1. PICK active \in BOOLEAN, changed \in BOOLEAN : UpdateJob(h, active, changed)
      BY <2>4
    <3>2. PICK w \in Handler : /\ w.item = i /\ w.pc = "updated"
                               /\ handler' = [handler EXCEPT ![h] = w]
      BY <1>2, <3>1, Stepped DEF UpdateJob
    <3>3. There(i) /\ handler[h].seen \in Nat
      BY <2>1, <3>1 DEF Knows, UpdateJob, Handler
    <3>4. rows'[i] = Edited(rows[i], handler[h].seen, active, changed)
      BY <1>2, <3>1, <3>3 DEF UpdateJob, Edit, Shape, TypeOK
    <3>5. There(i)'
      BY <2>1, <3>3, <3>4, EditShape DEF There
    <3> QED BY <1>2, <2>1, <3>2, <3>5, CalmMove DEF Knows
  <2>5. CASE RereadJob(h)
    <3>1. There(i)
      BY <2>1, <2>5 DEF Knows, RereadJob
    <3>2. Step(h, "reread", Scheduled(rows[i])) /\ rows' = rows
      BY <1>2, <2>5, <3>1 DEF RereadJob
    <3>3. Scheduled(rows[i]) \in Nat
      BY <2>1, ScheduledType
    <3>4. PICK w \in Handler :
            /\ w.item = i /\ w.pc = "reread" /\ w.seen = Scheduled(rows[i])
            /\ handler' = [handler EXCEPT ![h] = w]
      BY <1>2, <3>2, <3>3, Stepped
    <3>5. Knows(i, w)'
      BY <3>2, <3>4 DEF Knows
    <3> QED BY <1>2, <2>1, <3>4, <3>5, CalmMove
  <2>6. CASE UnregisterJob(h)
    <3>1. PICK w \in Handler : /\ w.item = i /\ w.pc = "unregistered"
                               /\ handler' = [handler EXCEPT ![h] = w]
      BY <1>2, <2>6, Stepped DEF UnregisterJob
    <3>2. entries'[i] = 0
      BY <1>2, <2>6 DEF UnregisterJob, Shape, TypeOK
    <3>3. Knows(i, w)'
      BY <3>1, <3>2 DEF Knows
    <3> QED BY <1>2, <2>1, <3>1, <3>3, CalmMove
  <2>7. CASE Register(h)
    <3>1. /\ handler' = [handler EXCEPT ![h] = Idle]
          /\ entries'[i] = handler[h].seen /\ rows' = rows
      BY <1>2, <2>7 DEF Register, Answer, Shape, TypeOK
    <3>2. entries'[i] = Scheduled(rows'[i])
      BY <2>1, <2>7, <3>1 DEF Knows, Register
    <3> QED BY <1>2, <2>1, <2>2, <3>1, <3>2, CalmMove
  <2>8. CASE DeleteRow(h)
    <3>1. /\ handler' = [handler EXCEPT ![h] = Idle]
          /\ rows'[i] = Gone(rows[i]) /\ entries' = entries
      BY <1>2, <2>8 DEF DeleteRow, Answer, Shape, TypeOK
    <3>2. entries'[i] = Scheduled(rows'[i])
      BY <2>1, <2>8, <3>1, GoneShape DEF Knows, DeleteRow
    <3> QED BY <1>2, <2>1, <2>2, <3>1, <3>2, CalmMove
  <2>9. CASE Reject(h)
    <3>1. /\ handler' = [handler EXCEPT ![h] = Idle]
          /\ rows' = rows /\ entries' = entries
          /\ handler[h].pc \in {"counted", "read", "found"}
      BY <1>2, <2>1, <2>9 DEF Reject, Answer, Handler
    <3>2. entries'[i] = Scheduled(rows'[i])
      BY <2>1, <3>1 DEF Knows
    <3> QED BY <1>2, <2>1, <2>2, <3>1, <3>2, CalmMove
  <2> QED BY <2>3, <2>4, <2>5, <2>6, <2>7, <2>8, <2>9 DEF GoesOn
<1> QED BY <1>1, <1>2 DEF CalmInv

LEMMA ElsewhereCalm ==
  ASSUME Shape, CalmInv,
         (\E f \in Fires : FireStep(f)) \/ Cascade \/ \E listed : Restart(listed)
  PROVE  CalmInv'
<1>1. CASE \E f \in Fires : FireStep(f)
  <2>1. UNCHANGED <<entries, handler, disturbed>>
    BY <1>1 DEF FireStep, Fire, FireHeartbeatNow, Begin, FinishFire, GiveUp
  <2>2. ASSUME NEW i \in Items
        PROVE  Scheduled(rows'[i]) = Scheduled(rows[i]) /\ (There(i) => There(i)')
    <3>1. PICK f \in Fires : FireStep(f)
      BY <1>1
    <3>2. CASE rows' = rows
      BY <3>2 DEF There
    <3>3. CASE rows' = [rows EXCEPT ![fire[f].item].next = fire[f].seen]
      <4>1. rows[i] \in Row
        BY DEF Shape, TypeOK
      <4>2. /\ rows'[i].state = rows[i].state /\ rows'[i].active = rows[i].active
            /\ rows'[i].edition = rows[i].edition
        BY <3>3, <4>1 DEF Shape, TypeOK, Row
      <4> QED BY <4>2 DEF There, Scheduled
    <3> QED BY <3>1, <3>2, <3>3 DEF FireStep, Fire, FireHeartbeatNow, Begin, FinishFire, GiveUp
  <2> QED BY <2>1, <2>2, CalmFrame DEF CalmInv
<1>2. CASE Cascade
  <2>1. UNCHANGED <<entries, handler>> /\ disturbed' = disturbed \cup {i \in Items : There(i)}
    BY <1>2 DEF Cascade
  <2>2. ASSUME NEW i \in Items, ~There(i) PROVE rows'[i] = rows[i]
    <3>1. rows'[i] = Gone(rows[i]) /\ rows[i] \in Row
      BY <1>2 DEF Cascade, Shape, TypeOK
    <3> QED BY <2>2, <3>1, GoneShape DEF There
  <2> QED BY <2>1, <2>2, CalmFrame DEF CalmInv, There
<1>3. ASSUME NEW listed, Restart(listed) PROVE CalmInv'
  <2> USE <1>3 DEF Restart
  <2>1. ASSUME NEW i \in Items, i \notin disturbed' PROVE Calm(i)'
    <3>1. entries'[i] = Scheduled(rows'[i])
      BY <2>1
    <3>2. \A k \in Handlers : handler'[k].item # i
      BY <2>1, RegistryAssumption DEF Idle
    <3> QED BY <3>1, <3>2 DEF Calm, Alone, AtWork
  <2> QED BY <2>1 DEF CalmInv
<1> QED BY <1>1, <1>2, <1>3

(* The steps of a handler are those that take an item up and those that go  *)
(* on with it.                                                              *)
LEMMA HandlerSteps ==
  ASSUME NEW h \in Handlers, HandlerStep(h)
  PROVE  \/ GoesOn(h)
         \/ \E i \in Items : \/ CheckLimit(h, i) \/ ReadJob(h, i)
                             \/ FindJob(h, i) \/ UnregisterAgent(h, i)
         \/ \E i \in Items, active \in BOOLEAN, changed \in BOOLEAN :
              UpdateAgent(h, i, active, changed)
BY DEF HandlerStep, GoesOn

LEMMA NextCalm == Shape /\ CalmInv /\ [Next]_vars => CalmInv'
<1> SUFFICES ASSUME Shape, CalmInv, [Next]_vars PROVE CalmInv'
  OBVIOUS
<1>1. CASE UNCHANGED vars
  BY <1>1 DEF vars, CalmInv, Calm, Alone, AtWork, Knows, There, Scheduled
<1>2. ASSUME NEW h \in Handlers, HandlerStep(h) PROVE CalmInv'
  BY <1>2, HandlerSteps, TakeUpCalm, UpdateAgentCalm, GoOnCalm
<1> QED BY <1>1, <1>2, ElsewhereCalm DEF Next

-----------------------------------------------------------------------------
(* Leftover entries *)

LEMMA NextIdle ==
  ASSUME Shape, [Next]_vars, NEW i \in Items, Scheduled(rows[i]) = 0, Firings(i) = {}
  PROVE  Firings(i)' = {}
<1>1. CASE fire' = fire
  BY <1>1 DEF Firings
<1>2. ASSUME NEW f \in Fires, FireStep(f) PROVE Firings(i)' = {}
  <2>1. ASSUME NEW k \in Items, Begin(f, k), Scheduled(rows[k]) # 0 PROVE Firings(i)' = {}
    <3> DEFINE w == [pc |-> "read", item |-> k, seen |-> rows[k].edition]
    <3>1. fire' = [fire EXCEPT ![f] = w] /\ w.item = k
      BY <2>1 DEF Begin
    <3> HIDE DEF w
    <3> QED BY <2>1, <3>1 DEF Firings, Shape, TypeOK
  <2>2. CASE FinishFire(f) \/ GiveUp(f)
    BY <2>2, RegistryAssumption DEF FinishFire, GiveUp, Firings, Idle, Shape, TypeOK
  <2> QED BY <1>2, <2>1, <2>2 DEF FireStep, Fire, MayFire, FireHeartbeatNow
<1>3. ASSUME NEW listed, Restart(listed) PROVE Firings(i)' = {}
  BY <1>3, RegistryAssumption DEF Restart, Firings, Idle
<1>4. ASSUME NEW h \in Handlers, HandlerStep(h) PROVE fire' = fire
  BY <1>4 DEF HandlerStep, CheckLimit, ReadJob, FindJob, UnregisterAgent, UpdateJob, UpdateAgent,
              Insert, Register, RereadJob, UnregisterJob, DeleteRow, Reject
<1> QED BY <1>1, <1>2, <1>3, <1>4 DEF Next, vars, Cascade

-----------------------------------------------------------------------------
(* Limits *)

Kinds == {Jobs, Agents}

LEMMA Counting ==
  ASSUME NEW K \in Kinds
  PROVE  /\ IsFiniteSet(RowsOf(K)) /\ Cardinality(RowsOf(K)) \in Nat
         /\ IsFiniteSet(CreatingOf(K)) /\ Cardinality(CreatingOf(K)) \in Nat
         /\ IsFiniteSet(RowsOf(K))' /\ Cardinality(RowsOf(K))' \in Nat
         /\ IsFiniteSet(CreatingOf(K))' /\ Cardinality(CreatingOf(K))' \in Nat
         /\ Cardinality(CreatingOf(K))' <= Cardinality(Handlers)
         /\ Cardinality(Handlers) \in Nat /\ MaxRows \in Nat \ {0}
<1>1. IsFiniteSet(Items) /\ IsFiniteSet(Handlers) /\ MaxRows \in Nat \ {0}
  BY RegistryAssumption
<1>2. /\ RowsOf(K) \subseteq Items /\ RowsOf(K)' \subseteq Items
      /\ CreatingOf(K) \subseteq Handlers /\ CreatingOf(K)' \subseteq Handlers
  BY DEF RowsOf, CreatingOf, Kinds, Items
<1> QED BY <1>1, <1>2, FS_Subset, FS_CardinalityType

LEMMA LimitFrame ==
  ASSUME NEW K \in Kinds, Limited(K), crowded => crowded',
         RowsOf(K)' \subseteq RowsOf(K), CreatingOf(K)' \subseteq CreatingOf(K)
  PROVE  Limited(K)'
<1>1. /\ Cardinality(RowsOf(K))' <= Cardinality(RowsOf(K))
      /\ Cardinality(CreatingOf(K))' <= Cardinality(CreatingOf(K))
  BY Counting, FS_Subset
<1>2. Total(K)' <= Total(K) /\ Total(K) \in Nat /\ Total(K)' \in Nat
  BY <1>1, Counting DEF Total
<1> QED BY <1>2, Counting DEF Limited

LEMMA InitLimit == Init => LimitInv
<1> SUFFICES ASSUME Init, NEW K \in Kinds PROVE Limited(K)
  BY DEF LimitInv, Kinds
<1>1. RowsOf(K) = {} /\ CreatingOf(K) = {}
  BY DEF Init, RowsOf, CreatingOf, There, NoRow, Idle, Kinds, Items
<1> QED BY <1>1, Counting, FS_EmptySet DEF Limited, Total

(* The check admits one more creation.                                      *)
LEMMA CheckLimitLimit ==
  ASSUME Shape, LimitInv, NEW h \in Handlers, NEW i \in Items, CheckLimit(h, i)
  PROVE  LimitInv'
<1> SUFFICES ASSUME NEW K \in Kinds PROVE Limited(K)'
  BY DEF LimitInv, Kinds
<1>1. Limited(K)
  BY DEF LimitInv, Kinds
<1>2. PICK w : /\ w.item = i /\ w.pc = "counted" /\ handler[h].pc = "idle"
               /\ handler' = [handler EXCEPT ![h] = w]
  BY DEF CheckLimit, Enter
<1>3. RowsOf(K)' = RowsOf(K) /\ (crowded => crowded')
  BY DEF CheckLimit, RowsOf, There
<1>4. CASE i \in K
  <2>1. K = SameKind(i)
    BY <1>4, RegistryAssumption DEF Kinds, SameKind, Items
  <2>2. RowsOf(K) = {k \in SameKind(i) : There(k)} /\ CreatingOf(K) = Creating(i)
    BY <2>1 DEF RowsOf, CreatingOf, Creating
  <2>3. Cardinality(RowsOf(K)) < MaxRows /\ (~crowded' => CreatingOf(K) = {})
    BY <2>2 DEF CheckLimit, BelowLimit, Count
  <2>4. CreatingOf(K)' = CreatingOf(K) \cup {h} /\ h \notin CreatingOf(K)
    BY <1>2, <1>4 DEF CreatingOf, Shape, TypeOK
  <2>5. Cardinality(CreatingOf(K))' = Cardinality(CreatingOf(K)) + 1
    BY <2>4, Counting, FS_AddElement
  <2>6. ~crowded' => Cardinality(CreatingOf(K)) = 0
    BY <2>3, FS_EmptySet
  <2> QED BY <1>3, <2>3, <2>5, <2>6, Counting DEF Limited, Total
<1>5. CASE i \notin K
  <2>1. CreatingOf(K)' \subseteq CreatingOf(K)
    BY <1>2, <1>5 DEF CreatingOf, Shape, TypeOK
  <2> QED BY <1>1, <1>3, <2>1, LimitFrame
<1> QED BY <1>4, <1>5

(* The row replaces the creation.                                           *)
LEMMA InsertLimit ==
  ASSUME Shape, LimitInv, NEW h \in Handlers, NEW active \in BOOLEAN, Insert(h, active)
  PROVE  LimitInv'
<1> SUFFICES ASSUME NEW K \in Kinds PROVE Limited(K)'
  BY DEF LimitInv, Kinds
<1> DEFINE i == handler[h].item
           row == [state |-> "there", active |-> active, edition |-> 1, next |-> 1]
<1>1. Limited(K) /\ handler[h].pc = "counted" /\ crowded' = crowded
  BY DEF LimitInv, Kinds, Insert
<1>2. i \in Items /\ rows' = [rows EXCEPT ![i] = row]
  BY <1>1, Worker DEF Insert
<1>3. ~There(i)
  BY <1>1 DEF Shape, Born, There
<1>4. row.state = "there" /\ row \in Row
  BY DEF Row
<1>5. Scheduled(row) \in Nat
  BY <1>4, ScheduledType
<1> HIDE DEF row
<1>6. PICK w \in Handler : w.pc = "inserted" /\ handler' = [handler EXCEPT ![h] = w]
  BY <1>5, Stepped DEF Insert, row
<1>7. \A k \in Handlers : handler'[k] = IF k = h THEN w ELSE handler[k]
  BY <1>6 DEF Shape, TypeOK
<1>8. \A k \in Items : rows'[k] = IF k = i THEN row ELSE rows[k]
  BY <1>2 DEF Shape, TypeOK
<1>9. K \subseteq Items
  BY DEF Kinds, Items
<1>10. CASE i \in K
  <2>1. RowsOf(K)' = RowsOf(K) \cup {i} /\ i \notin RowsOf(K)
    BY <1>3, <1>4, <1>8, <1>9, <1>10 DEF RowsOf, There
  <2>2. CreatingOf(K)' = CreatingOf(K) \ {h} /\ h \in CreatingOf(K)
    BY <1>1, <1>6, <1>7, <1>10 DEF CreatingOf
  <2>3. Cardinality(RowsOf(K))' = Cardinality(RowsOf(K)) + 1
    BY <2>1, Counting, FS_AddElement
  <2>4. Cardinality(CreatingOf(K))' = Cardinality(CreatingOf(K)) - 1
    BY <2>2, Counting, FS_RemoveElement
  <2> QED BY <1>1, <2>3, <2>4, Counting DEF Limited, Total
<1>11. CASE i \notin K
  <2>1. RowsOf(K)' \subseteq RowsOf(K) /\ CreatingOf(K)' \subseteq CreatingOf(K)
    BY <1>6, <1>7, <1>8, <1>9, <1>11 DEF RowsOf, CreatingOf, There
  <2> QED BY <1>1, <2>1, LimitFrame
<1> QED BY <1>10, <1>11

(* No other step creates anything.                                          *)
LEMMA OtherLimit ==
  ASSUME Shape, LimitInv,
         \A k \in Items : There(k)' => There(k),
         \A k \in Handlers : handler'[k].pc = "counted" => handler'[k] = handler[k],
         crowded => crowded'
  PROVE  LimitInv'
<1> SUFFICES ASSUME NEW K \in Kinds PROVE Limited(K)'
  BY DEF LimitInv, Kinds
<1>1. RowsOf(K)' \subseteq RowsOf(K) /\ CreatingOf(K)' \subseteq CreatingOf(K)
  BY DEF RowsOf, CreatingOf, Kinds, Items
<1> QED BY <1>1, LimitFrame DEF LimitInv, Kinds

LEMMA HandlerLimit ==
  ASSUME Shape, LimitInv, NEW h \in Handlers, HandlerStep(h)
  PROVE  LimitInv'
<1>1. CASE \E i \in Items : CheckLimit(h, i)
  BY <1>1, CheckLimitLimit
<1>2. CASE \E active \in BOOLEAN : Insert(h, active)
  BY <1>2, InsertLimit
<1>3. ASSUME NEW i \in Items, ReadJob(h, i) \/ FindJob(h, i) \/ UnregisterAgent(h, i)
      PROVE  LimitInv'
  <2>1. rows' = rows /\ crowded' = crowded
    BY <1>3 DEF ReadJob, FindJob, UnregisterAgent
  <2>2. PICK w : w.pc # "counted" /\ handler' = [handler EXCEPT ![h] = w]
    BY <1>3 DEF ReadJob, FindJob, UnregisterAgent, Enter
  <2>3. \A k \in Handlers : handler'[k].pc = "counted" => handler'[k] = handler[k]
    BY <2>2 DEF Shape, TypeOK
  <2> QED BY <2>1, <2>3, OtherLimit DEF There
<1>4. ASSUME NEW i \in Items, NEW active \in BOOLEAN, NEW changed \in BOOLEAN,
             UpdateAgent(h, i, active, changed)
      PROVE  LimitInv'
  <2>1. crowded' = crowded
    BY <1>4 DEF UpdateAgent
  <2>2. PICK w : w.pc # "counted" /\ handler' = [handler EXCEPT ![h] = w]
    BY <1>4 DEF UpdateAgent, Enter
  <2>3. \A k \in Handlers : handler'[k].pc = "counted" => handler'[k] = handler[k]
    BY <2>2 DEF Shape, TypeOK
  <2>4. \A k \in Items : There(k)' => There(k)
    BY <1>4 DEF UpdateAgent, Edit, There, Shape, TypeOK
  <2> QED BY <2>1, <2>3, <2>4, OtherLimit
<1>5. CASE \/ \E active, changed \in BOOLEAN : UpdateJob(h, active, changed)
           \/ RereadJob(h) \/ UnregisterJob(h) \/ Register(h) \/ DeleteRow(h) \/ Reject(h)
  <2>1. crowded' = crowded
    BY <1>5 DEF UpdateJob, RereadJob, UnregisterJob, Register, DeleteRow, Reject
  <2>2. handler[h].pc # "idle" /\ handler[h] \in Handler
    BY <1>5 DEF UpdateJob, RereadJob, UnregisterJob, Register, DeleteRow, Reject, Shape, TypeOK
  <2>3. handler[h].item \in Items /\ rows[handler[h].item] \in Row
    BY <2>2, Worker
  <2>4. \A k \in Items : There(k)' => There(k)
    <3>1. CASE \E active, changed \in BOOLEAN : UpdateJob(h, active, changed)
      BY <2>2, <2>3, <3>1, EditShape DEF UpdateJob, Edit, There, Shape, TypeOK, Handler
    <3>2. CASE DeleteRow(h)
      BY <2>3, <3>2, GoneShape DEF DeleteRow, There, Shape, TypeOK
    <3> QED BY <1>5, <3>1, <3>2 DEF RereadJob, UnregisterJob, Register, Reject, There
  <2>5. \/ Answer(h)
        \/ \E pc \in {"updated", "reread", "unregistered"}, seen \in Nat : Step(h, pc, seen)
    <3>1. Scheduled(rows[handler[h].item]) \in Nat
      BY <2>3, ScheduledType
    <3> QED BY <1>5, <3>1 DEF UpdateJob, RereadJob, UnregisterJob, Register, DeleteRow, Reject
  <2>6. PICK w : w.pc # "counted" /\ handler' = [handler EXCEPT ![h] = w]
    <3>1. CASE Answer(h)
      BY <3>1 DEF Answer, Idle
    <3>2. CASE \E pc \in {"updated", "reread", "unregistered"}, seen \in Nat : Step(h, pc, seen)
      BY <3>2, Stepped
    <3> QED BY <2>5, <3>1, <3>2
  <2>7. \A k \in Handlers : handler'[k].pc = "counted" => handler'[k] = handler[k]
    BY <2>6 DEF Shape, TypeOK
  <2> QED BY <2>1, <2>4, <2>7, OtherLimit
<1> QED BY <1>1, <1>2, <1>3, <1>4, <1>5 DEF HandlerStep

LEMMA NextLimit == Shape /\ LimitInv /\ [Next]_vars => LimitInv'
<1> SUFFICES ASSUME Shape, LimitInv, [Next]_vars PROVE LimitInv'
  OBVIOUS
<1>1. CASE UNCHANGED vars
  BY <1>1, OtherLimit DEF vars, There
<1>2. ASSUME NEW f \in Fires, FireStep(f) PROVE LimitInv'
  <2>1. handler' = handler /\ crowded' = crowded
    BY <1>2 DEF FireStep, Fire, FireHeartbeatNow, Begin, FinishFire, GiveUp
  <2>2. \A k \in Items : There(k)' => There(k)
    BY <1>2 DEF FireStep, Fire, FireHeartbeatNow, Begin, FinishFire, GiveUp, There, Shape, TypeOK, Row
  <2> QED BY <2>1, <2>2, OtherLimit
<1>3. CASE Cascade
  <2>1. \A k \in Items : There(k)' => There(k)
    BY <1>3, GoneShape DEF Cascade, There, Shape, TypeOK
  <2> QED BY <1>3, <2>1, OtherLimit DEF Cascade
<1>4. ASSUME NEW listed, Restart(listed) PROVE LimitInv'
  BY <1>4, OtherLimit DEF Restart, There, Idle
<1> QED BY <1>1, <1>2, <1>3, <1>4, HandlerLimit DEF Next

LEMMA LimitOfItem ==
  ASSUME LimitInv, NEW i \in Items
  PROVE  LET total == Count(i) + Cardinality(Creating(i))
         IN  (~crowded => total <= MaxRows) /\ total < MaxRows + Cardinality(Handlers)
<1>1. PICK K \in Kinds : K = SameKind(i) /\ Limited(K)
  BY DEF Kinds, SameKind, LimitInv
<1> QED BY <1>1 DEF Limited, Total, RowsOf, CreatingOf, Count, Creating

-----------------------------------------------------------------------------
(* The next run *)

(* Nobody comes to the job, and its row stays or goes.                      *)
LEMMA CurrentFrame ==
  ASSUME NEW i \in Jobs, Current(i),
         rows'[i] = rows[i] \/ ~There(i)',
         \A k \in Handlers : handler'[k] = handler[k] \/ handler'[k].item # i,
         \A f \in Fires : fire'[f] = fire[f] \/ fire'[f].item # i
  PROVE  Current(i)'
BY DEF Current, Alone, There

(* The only handler at the job goes on, to something else than a read.      *)
LEMMA CurrentMove ==
  ASSUME Shape, NEW i \in Jobs, Current(i), NEW h \in Handlers, handler[h].item = i,
         \A k \in Handlers : k # h => handler'[k] = handler[k],
         handler'[h].pc # "read", fire' = fire,
         There(i)' => rows'[i].next = rows'[i].edition
  PROVE  Current(i)'
BY DEF Current, Alone

LEMMA TakeUpCurrent ==
  ASSUME Shape, CurrentInv, NEW h \in Handlers, NEW j \in Items,
         CheckLimit(h, j) \/ ReadJob(h, j) \/ FindJob(h, j) \/ UnregisterAgent(h, j)
  PROVE  CurrentInv'
<1>1. /\ rows' = rows /\ fire' = fire
      /\ overtaken' = IF j \in Jobs /\ (AtWork(j) \/ Firings(j) # {})
                        THEN overtaken \cup {j} ELSE overtaken
  BY DEF CheckLimit, ReadJob, FindJob, UnregisterAgent, Overtakes
<1>2. PICK w : /\ w.item = j /\ (w.pc = "read" => w.seen = rows[j].edition)
               /\ handler' = [handler EXCEPT ![h] = w]
  BY DEF CheckLimit, ReadJob, FindJob, UnregisterAgent, Enter
<1>3. \A k \in Handlers : handler'[k] = IF k = h THEN w ELSE handler[k]
  BY <1>2 DEF Shape, TypeOK
<1>4. ASSUME NEW i \in Jobs, i \notin overtaken' PROVE Current(i)'
  <2>1. Current(i)
    BY <1>1, <1>4 DEF CurrentInv
  <2>2. CASE i # j
    BY <1>1, <1>2, <1>3, <2>1, <2>2, CurrentFrame
  <2>3. CASE i = j
    <3>1. \A k \in Handlers : handler[k].item # i
      BY <1>1, <1>4, <2>3 DEF AtWork
    <3>2. \A f \in Fires : fire[f].item # i
      BY <1>1, <1>4, <2>3 DEF Firings
    <3> QED BY <1>1, <1>2, <1>3, <2>1, <2>3, <3>1, <3>2 DEF Current, Alone, There
  <2> QED BY <2>2, <2>3
<1> QED BY <1>4 DEF CurrentInv

LEMMA UpdateAgentCurrent ==
  ASSUME Shape, CurrentInv, NEW h \in Handlers, NEW j \in Items, NEW active \in BOOLEAN,
         NEW changed \in BOOLEAN, UpdateAgent(h, j, active, changed)
  PROVE  CurrentInv'
<1>1. j \notin Jobs /\ fire' = fire /\ overtaken' = overtaken
  BY RegistryAssumption DEF UpdateAgent, Overtakes
<1>2. PICK w : w.item = j /\ handler' = [handler EXCEPT ![h] = w]
  BY DEF UpdateAgent, Enter
<1>3. \A k \in Handlers : handler'[k] = IF k = h THEN w ELSE handler[k]
  BY <1>2 DEF Shape, TypeOK
<1>4. \A i \in Jobs : rows'[i] = rows[i]
  BY <1>1 DEF UpdateAgent, Edit, Shape, TypeOK, Items
<1> QED BY <1>1, <1>2, <1>3, <1>4, CurrentFrame DEF CurrentInv

LEMMA GoOnCurrent ==
  ASSUME Shape, CurrentInv, NEW h \in Handlers, GoesOn(h)
  PROVE  CurrentInv'
<1>1. overtaken' = overtaken
  BY DEF GoesOn, Insert, UpdateJob, RereadJob, UnregisterJob, Register, DeleteRow, Reject
<1>2. ASSUME NEW i \in Jobs, i \notin overtaken PROVE Current(i)'
  <2>1. Current(i) /\ i \in Items
    BY <1>2 DEF CurrentInv, Items
  <2>2. CASE i # handler[h].item
    BY <2>1, <2>2, GoOnFrame, CurrentFrame
  <2>3. CASE i = handler[h].item
    <3>1. /\ handler[h].pc # "idle" /\ fire' = fire
          /\ \A k \in Handlers : k # h => handler'[k] = handler[k]
      BY GoOnFrame
    <3>2. handler'[h].pc # "read"
      <4>1. \/ Answer(h)
            \/ \E pc \in {"inserted", "updated", "reread", "unregistered"} :
                 \E seen \in Nat : Step(h, pc, seen)
        <5>1. CASE \E active \in BOOLEAN : Insert(h, active)
          <6>1. PICK active \in BOOLEAN : Insert(h, active)
            BY <5>1
          <6> DEFINE row == [state |-> "there", active |-> active, edition |-> 1, next |-> 1]
          <6>2. row \in Row
            BY DEF Row
          <6>3. Scheduled(row) \in Nat
            BY <6>2, ScheduledType
          <6> QED BY <6>1, <6>3 DEF Insert
        <5>2. CASE RereadJob(h)
          <6>1. Scheduled(rows[i]) \in Nat
            BY <2>1, ScheduledType DEF Shape, TypeOK
          <6> QED BY <2>3, <5>2, <6>1 DEF RereadJob
        <5> QED BY <5>1, <5>2
                DEF GoesOn, UpdateJob, UnregisterJob, Register, DeleteRow, Reject
      <4>2. CASE Answer(h)
        BY <4>2 DEF Answer, Idle, Shape, TypeOK
      <4>3. ASSUME NEW pc \in {"inserted", "updated", "reread", "unregistered"},
                   NEW seen \in Nat, Step(h, pc, seen)
            PROVE  handler'[h].pc # "read"
        <5>1. PICK w \in Handler : w.pc = pc /\ handler' = [handler EXCEPT ![h] = w]
          BY <4>3, Stepped
        <5> QED BY <5>1 DEF Shape, TypeOK
      <4> QED BY <4>1, <4>2, <4>3
    <3>3. There(i)' => rows'[i].next = rows'[i].edition
      <4>1. CASE \E active \in BOOLEAN : Insert(h, active)
        BY <2>1, <2>3, <4>1 DEF Insert, Shape, TypeOK
      <4>2. CASE \E active, changed \in BOOLEAN : UpdateJob(h, active, changed)
        <5>1. PICK active \in BOOLEAN, changed \in BOOLEAN : UpdateJob(h, active, changed)
          BY <4>2
        <5>2. CASE There(i)
          <6>1. handler[h].seen = rows[i].edition /\ rows[i] \in Row
            BY <2>1, <2>3, <5>1, <5>2 DEF Current, UpdateJob, Shape, TypeOK
          <6>2. rows'[i] = Edited(rows[i], handler[h].seen, active, changed)
            BY <2>1, <2>3, <5>1, <5>2 DEF UpdateJob, Edit, Shape, TypeOK
          <6> QED BY <6>1, <6>2 DEF Edited, Row
        <5>3. CASE ~There(i)
          BY <2>3, <5>1, <5>3 DEF UpdateJob, There
        <5> QED BY <5>2, <5>3
      <4>3. CASE DeleteRow(h)
        <5>1. rows'[i] = Gone(rows[i]) /\ rows[i] \in Row
          BY <2>1, <2>3, <4>3 DEF DeleteRow, Shape, TypeOK
        <5> QED BY <5>1, GoneShape DEF There
      <4>4. CASE RereadJob(h) \/ UnregisterJob(h) \/ Register(h) \/ Reject(h)
        BY <2>1, <4>4 DEF RereadJob, UnregisterJob, Register, Reject, Current, There
      <4> QED BY <4>1, <4>2, <4>3, <4>4 DEF GoesOn
    <3> QED BY <2>1, <2>3, <3>1, <3>2, <3>3, CurrentMove
  <2> QED BY <2>2, <2>3
<1> QED BY <1>1, <1>2 DEF CurrentInv

LEMMA FireCurrent ==
  ASSUME Shape, CurrentInv, NEW f \in Fires, FireStep(f)
  PROVE  CurrentInv'
<1>1. handler' = handler
  BY DEF FireStep, Fire, FireHeartbeatNow, Begin, FinishFire, GiveUp
<1>2. ASSUME NEW j \in Items, Begin(f, j) PROVE CurrentInv'
  <2>1. PICK w : /\ w.item = j /\ w.seen = rows[j].edition
                 /\ fire' = [fire EXCEPT ![f] = w]
    BY <1>2 DEF Begin
  <2>2. \A g \in Fires : fire'[g] = IF g = f THEN w ELSE fire[g]
    BY <2>1 DEF Shape, TypeOK
  <2>3. rows' = rows
    BY <1>2 DEF Begin
  <2>4. ASSUME NEW i \in Jobs, i \notin overtaken' PROVE Current(i)'
    <3>1. Current(i)
      BY <1>2, <2>4 DEF CurrentInv, Begin
    <3>2. CASE i # j
      BY <1>1, <2>1, <2>2, <2>3, <3>1, <3>2, CurrentFrame
    <3>3. CASE i = j
      <4>1. \A k \in Handlers : handler[k].item # i
        BY <1>2, <2>4, <3>3 DEF Begin, AtWork
      <4> QED BY <1>1, <2>1, <2>2, <2>3, <3>1, <3>3, <4>1 DEF Current, Alone, There
    <3> QED BY <3>2, <3>3
  <2> QED BY <2>4 DEF CurrentInv
<1>3. CASE FinishFire(f) \/ GiveUp(f)
  <2>1. fire' = [fire EXCEPT ![f] = Idle] /\ overtaken' = overtaken
    BY <1>3 DEF FinishFire, GiveUp
  <2>2. \A g \in Fires : fire'[g] = IF g = f THEN Idle ELSE fire[g]
    BY <2>1 DEF Shape, TypeOK
  <2>3. ASSUME NEW i \in Jobs, Current(i) PROVE Current(i)'
    <3>1. i \in Items /\ Idle.item # i
      BY RegistryAssumption DEF Idle, Items
    <3>2. CASE rows'[i] = rows[i]
      BY <1>1, <2>2, <2>3, <3>1, <3>2, CurrentFrame
    <3>3. CASE rows'[i] # rows[i]
      <4>1. /\ i = fire[f].item /\ There(i)
            /\ rows' = [rows EXCEPT ![i].next = fire[f].seen]
        BY <1>3, <3>1, <3>3 DEF FinishFire, GiveUp, Shape, TypeOK
      <4>2. fire[f].seen = rows[i].edition
        BY <2>3, <4>1 DEF Current
      <4>3. rows[i] \in Row
        BY <3>1 DEF Shape, TypeOK
      <4>4. rows'[i].next = rows[i].edition /\ rows'[i].edition = rows[i].edition
        BY <3>1, <4>1, <4>2, <4>3 DEF Row, Shape, TypeOK
      <4> QED BY <1>1, <2>2, <2>3, <3>1, <4>1, <4>4 DEF Current, Alone
    <3> QED BY <3>2, <3>3
  <2> QED BY <2>1, <2>3 DEF CurrentInv
<1> QED BY <1>2, <1>3 DEF FireStep, Fire, FireHeartbeatNow

LEMMA NextCurrent == Shape /\ CurrentInv /\ [Next]_vars => CurrentInv'
<1> SUFFICES ASSUME Shape, CurrentInv, [Next]_vars PROVE CurrentInv'
  OBVIOUS
<1>1. CASE UNCHANGED vars
  BY <1>1 DEF vars, CurrentInv, Current, Alone, There
<1>2. ASSUME NEW h \in Handlers, HandlerStep(h) PROVE CurrentInv'
  BY <1>2, HandlerSteps, TakeUpCurrent, UpdateAgentCurrent, GoOnCurrent
<1>3. CASE Cascade
  <2>1. \A i \in Jobs : rows'[i] = Gone(rows[i]) /\ rows[i] \in Row
    BY <1>3 DEF Cascade, Items, Shape, TypeOK
  <2>2. \A i \in Jobs : ~There(i)'
    BY <2>1, GoneShape DEF There
  <2> QED BY <1>3, <2>2, CurrentFrame DEF Cascade, CurrentInv
<1>4. ASSUME NEW listed, Restart(listed) PROVE CurrentInv'
  <2>1. \A i \in Jobs : Idle.item # i
    BY RegistryAssumption DEF Idle, Items
  <2> QED BY <1>4, <2>1, CurrentFrame DEF Restart, CurrentInv
<1> QED BY <1>1, <1>2, <1>3, <1>4, FireCurrent DEF Next

-----------------------------------------------------------------------------
IInv == Shape /\ CalmInv /\ CurrentInv /\ LimitInv

LEMMA InitIInv == Init => IInv
<1> SUFFICES ASSUME Init PROVE IInv
  OBVIOUS
<1>1. CalmInv
  BY RegistryAssumption
     DEF Init, CalmInv, Calm, Alone, AtWork, Knows, Scheduled, NoRow, Idle
<1>2. CurrentInv
  BY RegistryAssumption DEF Init, CurrentInv, Current, Alone, There, NoRow, Idle, Items
<1> QED BY <1>1, <1>2, InitShape, InitLimit DEF IInv

LEMMA Invariance == Spec => []IInv
<1>1. IInv /\ [Next]_vars => IInv'
  BY NextShape, NextCalm, NextCurrent, NextLimit DEF IInv
<1> QED BY <1>1, InitIInv, PTL DEF Spec

(* Every variable keeps its type.                                           *)
THEOREM TypeCorrect == Spec => []TypeOK
<1>1. Shape => TypeOK
  BY DEF Shape
<1> QED BY <1>1, ShapeInvariance, PTL

(* An entry that no overlap, failure, cascade or boot disturbed is the      *)
(* schedule of its row, for any items and handlers (scheduler.ts and        *)
(* heartbeat-scheduler.ts with the handlers of routes.ts).                  *)
THEOREM EntriesAreOfRows == Spec => []EntriesMatchRows
<1>1. IInv => EntriesMatchRows
  BY DEF IInv, CalmInv, Calm, EntriesMatchRows
<1> QED BY <1>1, Invariance, PTL

(* The next run of a job is that of its schedule unless requests and        *)
(* firings overlapped (PUT of a job, fireJob).                              *)
THEOREM NextRunIsOfRow == Spec => []NextRunMatchesRow
<1>1. IInv => NextRunMatchesRow
  BY DEF IInv, CurrentInv, Current, NextRunMatchesRow
<1> QED BY <1>1, Invariance, PTL

(* A limit is kept unless creations overlap, and then passed by less than   *)
(* the number of handlers (maxScheduledJobs, maxAgents).                    *)
THEOREM LimitIsBounded == Spec => []LimitBounded
<1>1. IInv => LimitBounded
  BY LimitOfItem DEF IInv, LimitBounded
<1> QED BY <1>1, Invariance, PTL

(* No firing begins for an item that is inactive or gone, whatever entry    *)
(* was left behind (fireJob, fireHeartbeat).                                *)
THEOREM LeftoverEntriesAreIdle == Spec => LeftoverEntriesIdle
<1>1. Shape /\ [Next]_vars =>
        [\A i \in Items :
           Scheduled(rows[i]) = 0 /\ Firings(i) = {} => Firings(i)' = {}]_vars
  BY NextIdle
<1> QED BY <1>1, ShapeInvariance, PTL DEF Spec, LeftoverEntriesIdle
=============================================================================
