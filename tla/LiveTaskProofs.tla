--------------------------- MODULE LiveTaskProofs ---------------------------
(***************************************************************************)
(* Proofs about LiveTask, for any lines and any number of viewers: what an *)
(* open stream has sent, whom the end is told and when, and who keeps      *)
(* listeners.                                                              *)
(***************************************************************************)
EXTENDS LiveTask, TLAPS

(* A viewer that still lists or has listed will send what it found; one     *)
(* that has replayed has sent everything; and so on for the end.            *)
Listened(w) == /\ w.open => w.attached
               /\ w.attached => w.open \/ w.early

Sent(w) ==
  /\ w.open /\ w.pc = "listed" => emitted \subseteq w.sent \cup w.snapshot
  /\ w.open /\ w.pc \in {"checking", "checked", "over"} => emitted \subseteq w.sent
  /\ w.told /\ ~w.early => OutcomeLine \in w.sent

EndKnown(w) == w.ended \/ w.told => status # "running"

Stream(w) == Listened(w) /\ Sent(w) /\ EndKnown(w)

(* A line is emitted after its insert, the row is written after the line of *)
(* its outcome.                                                             *)
Ordered ==
  /\ emitted \subseteq stored
  /\ executor \in {"updated", "over"} => status # "running" /\ OutcomeLine \in emitted
  /\ status # "running" => executor \in {"updated", "over"}

IInv == TypeOK /\ Ordered /\ \A v \in Viewers : Stream(viewer[v])

LEMMA InitIInv == Init => IInv
<1> SUFFICES ASSUME Init PROVE IInv
  OBVIOUS
<1> USE DEF Init
<1>1. Nobody \in Viewer
  BY DEF Nobody, Viewer
<1>2. TypeOK
  BY <1>1 DEF TypeOK
<1>3. Ordered
  BY DEF Ordered
<1>4. ASSUME NEW v \in Viewers PROVE Stream(viewer[v])
  <2>1. viewer[v] = Nobody
    OBVIOUS
  <2> QED BY <2>1 DEF Stream, Listened, Sent, EndKnown, Nobody
<1> QED BY <1>2, <1>3, <1>4 DEF IInv

-----------------------------------------------------------------------------
(* Steps that leave the viewers alone *)

(* The container, its callbacks and the inserts of lines.                   *)
LEMMA RoundIInv ==
  ASSUME IInv, RoundStep \/ \E l \in Lines : Insert(l)
  PROVE  IInv'
<1>1. UNCHANGED <<emitted, executor, status, viewer, up>> /\ stored \subseteq stored'
  BY DEF RoundStep, PrintLine, PrintResult, PrintError, Exit, Close, Timeout,
         TimeoutRejects, Insert, Write, container, lines
<1>2. TypeOK'
  <2> USE DEF IInv, TypeOK, container, lines
  <2>1. CASE \E l \in Printed : PrintLine(l)
    BY <2>1 DEF PrintLine, Write, Lines
  <2>2. CASE PrintResult \/ Exit
    BY <2>2 DEF PrintResult, Exit
  <2>3. CASE PrintError \/ TimeoutRejects
    BY <2>3 DEF PrintError, TimeoutRejects, Settle
  <2>4. CASE Close
    BY <2>4 DEF Close, Settle
  <2>5. CASE Timeout
    BY <2>5 DEF Timeout, Write, Lines, Own
  <2>6. CASE \E l \in Lines : Insert(l)
    BY <2>6 DEF Insert
  <2> QED BY <2>1, <2>2, <2>3, <2>4, <2>5, <2>6 DEF RoundStep
<1>3. Ordered'
  BY <1>1 DEF IInv, Ordered, OutcomeLine
<1>4. \A v \in Viewers : Stream(viewer[v])'
  BY <1>1 DEF IInv, Stream, Listened, Sent, EndKnown, OutcomeLine
<1> QED BY <1>2, <1>3, <1>4 DEF IInv

(* The outcome is logged, fails once more or is lost.                       *)
LEMMA LogIInv ==
  ASSUME IInv, LogOutcome \/ FailOutcome \/ LoseOutcome
  PROVE  IInv'
<1> USE DEF LogOutcome, FailOutcome, LoseOutcome, Write
<1>1. /\ UNCHANGED <<emitted, stored, status, viewer, up>>
      /\ executor \in {"waiting", "logging", "failing"}
      /\ executor' \in {"logging", "failing", "lost"}
  BY DEF lines
<1>2. TypeOK'
  BY DEF IInv, TypeOK, container, lines, Lines, Own
<1>3. Ordered'
  BY <1>1 DEF IInv, Ordered
<1>4. \A v \in Viewers : Stream(viewer[v])'
  BY <1>1 DEF IInv, Stream, Listened, Sent, EndKnown, OutcomeLine
<1> QED BY <1>2, <1>3, <1>4 DEF IInv

(* The outcome is written to the row; nobody has been told before.          *)
LEMMA OutcomeIInv ==
  ASSUME IInv, UpdateRow
  PROVE  IInv'
<1>1. UNCHANGED <<emitted, stored, viewer, up>> /\ executor' = "updated"
  BY DEF UpdateRow, lines
<1>2. TypeOK'
  BY DEF IInv, TypeOK, UpdateRow, container, lines
<1>3. status = "running" /\ status' # "running" /\ OutcomeLine' \in emitted'
  BY <1>1 DEF IInv, Ordered, UpdateRow, OutcomeLogged, OutcomeLine
<1>4. Ordered'
  BY <1>1, <1>3 DEF IInv, Ordered
<1>5. \A v \in Viewers : Stream(viewer[v])'
  BY <1>1, <1>3 DEF IInv, Stream, Listened, Sent, EndKnown
<1> QED BY <1>2, <1>4, <1>5 DEF IInv

-----------------------------------------------------------------------------
(* Steps that give something to all viewers *)

LEMMA EmitIInv ==
  ASSUME IInv, NEW l \in Lines, Emit(l)
  PROVE  IInv'
<1> USE DEF Emit, Emittable
<1>1. TypeOK'
  BY DEF IInv, TypeOK, Viewer, container, Gets
<1>2. Ordered'
  BY DEF IInv, Ordered, OutcomeLine
<1>3. ASSUME NEW v \in Viewers PROVE Stream(viewer[v])'
  <2>1. Stream(viewer[v]) /\ viewer[v] \in Viewer
    BY DEF IInv, TypeOK
  <2>2. CASE Gets(v)
    <3>1. viewer'[v] = [viewer[v] EXCEPT !.sent = @ \cup {l}]
      BY <2>2
    <3> QED BY <2>1, <3>1 DEF Stream, Listened, Sent, EndKnown, OutcomeLine, Viewer
  <2>3. CASE ~Gets(v)
    <3>1. viewer'[v] = viewer[v] /\ ~viewer[v].open
      BY <2>1, <2>3 DEF Gets, Stream, Listened
    <3> QED BY <2>1, <3>1 DEF Stream, Listened, Sent, EndKnown, OutcomeLine
  <2> QED BY <2>2, <2>3
<1> QED BY <1>1, <1>2, <1>3 DEF IInv

LEMMA CrashIInv ==
  ASSUME IInv, Crash
  PROVE  IInv'
<1>1. TypeOK'
  BY DEF IInv, TypeOK, Crash, Viewer, container, lines
<1>2. Ordered'
  BY DEF IInv, Ordered, OutcomeLine, Crash, lines
<1>3. ASSUME NEW v \in Viewers PROVE Stream(viewer[v])'
  <2>1. viewer'[v] = [viewer[v] EXCEPT !.open = FALSE, !.attached = FALSE]
    BY DEF Crash
  <2>2. Stream(viewer[v]) /\ viewer[v] \in Viewer
    BY DEF IInv, TypeOK
  <2> QED BY <2>1, <2>2 DEF Crash, lines, Stream, Listened, Sent, EndKnown, OutcomeLine, Viewer
<1> QED BY <1>1, <1>2, <1>3 DEF IInv

LEMMA EmitDoneIInv ==
  ASSUME IInv, EmitDone
  PROVE  IInv'
<1>1. status # "running" /\ OutcomeLine \in emitted
  BY DEF IInv, Ordered, EmitDone, MayAnnounce
<1>2. TypeOK'
  BY DEF IInv, TypeOK, EmitDone, Viewer, Notified, Ended, container, lines
<1>3. Ordered'
  BY DEF IInv, Ordered, OutcomeLine, EmitDone, MayAnnounce, lines
<1>4. ASSUME NEW v \in Viewers PROVE Stream(viewer[v])'
  <2>1. Stream(viewer[v]) /\ viewer[v] \in Viewer
    BY DEF IInv, TypeOK
  <2>2. viewer'[v] = IF viewer[v].attached THEN Notified(viewer[v]) ELSE viewer[v]
    BY DEF EmitDone
  <2>3. UNCHANGED <<emitted, status>>
    BY DEF EmitDone, lines
  <2> QED BY <1>1, <2>1, <2>2, <2>3
          DEF Stream, Listened, Sent, EndKnown, OutcomeLine, Viewer, Notified, Ended
<1> QED BY <1>2, <1>3, <1>4 DEF IInv

-----------------------------------------------------------------------------
(* Steps of one viewer *)

ViewerStep(v) == Subscribe(v) \/ StreamStep(v) \/ QueryRejects(v) \/ Leave(v)

LEMMA ViewerIInv ==
  ASSUME IInv, NEW v \in Viewers, ViewerStep(v)
  PROVE  IInv'
<1> USE DEF ViewerStep, StreamStep, Subscribe, ListLogs, Replay, ReadRow, Finish,
           QueryRejects, Leave
<1>1. UNCHANGED <<container, executor, status, lines, up>>
  OBVIOUS
<1>2. Stream(viewer[v]) /\ viewer[v] \in Viewer /\ Ordered /\ viewer \in [Viewers -> Viewer]
      /\ stored \subseteq Lines
  BY DEF IInv, TypeOK
<1>3. viewer' = [viewer EXCEPT ![v] = viewer'[v]] /\ viewer'[v] \in Viewer
  <2>1. CASE Subscribe(v)
    BY <1>2, <2>1 DEF Viewer, Nobody
  <2>2. CASE ListLogs(v) \/ Replay(v)
    BY <1>2, <2>2 DEF Viewer
  <2>3. CASE ReadRow(v)
    <3>1. RowEnded \in BOOLEAN
      BY DEF RowEnded
    <3> QED BY <1>2, <2>3, <3>1 DEF Viewer
  <2>4. CASE Finish(v)
    BY <1>2, <2>4 DEF Viewer
  <2>5. CASE Leave(v)
    BY <1>2, <2>5 DEF Viewer, Ended
  <2>6. CASE QueryRejects(v)
    BY <1>2, <2>6 DEF Viewer
  <2> QED BY <2>1, <2>2, <2>3, <2>4, <2>5, <2>6
<1>4. Stream(viewer[v])'
  <2>1. CASE Subscribe(v)
    BY <1>1, <1>2, <2>1 DEF Stream, Listened, Sent, EndKnown, OutcomeLine, Viewer, Nobody, lines
  <2>2. CASE ListLogs(v)
    BY <1>1, <1>2, <2>2 DEF Stream, Listened, Sent, EndKnown, OutcomeLine, Viewer, lines, Ordered
  <2>3. CASE Replay(v)
    BY <1>1, <1>2, <2>3 DEF Stream, Listened, Sent, EndKnown, OutcomeLine, Viewer, lines
  <2>4. CASE ReadRow(v)
    BY <1>1, <1>2, <2>4 DEF Stream, Listened, Sent, EndKnown, OutcomeLine, Viewer, lines, RowEnded
  <2>5. CASE Finish(v)
    BY <1>1, <1>2, <2>5 DEF Stream, Listened, Sent, EndKnown, OutcomeLine, Viewer, lines, Ordered
  <2>6. CASE Leave(v)
    BY <1>1, <1>2, <2>6 DEF Stream, Listened, Sent, EndKnown, OutcomeLine, Viewer, lines, Ended
  <2>7. CASE QueryRejects(v)
    BY <1>1, <1>2, <2>7 DEF Stream, Listened, Sent, EndKnown, OutcomeLine, Viewer, lines
  <2> QED BY <2>1, <2>2, <2>3, <2>4, <2>5, <2>6, <2>7
<1>5. ASSUME NEW x \in Viewers PROVE Stream(viewer[x])'
  <2>1. CASE x = v
    BY <1>4, <2>1
  <2>2. CASE x # v
    <3>1. viewer'[x] = viewer[x]
      BY <1>2, <1>3, <2>2
    <3> QED BY <1>1, <3>1 DEF IInv, Stream, Listened, Sent, EndKnown, OutcomeLine, lines
  <2> QED BY <2>1, <2>2
<1>6. TypeOK'
  BY <1>1, <1>2, <1>3 DEF IInv, TypeOK, container, lines
<1>7. Ordered'
  BY <1>1 DEF IInv, Ordered, OutcomeLine, lines
<1> QED BY <1>5, <1>6, <1>7 DEF IInv

-----------------------------------------------------------------------------
LEMMA NextIInv == IInv /\ [Next]_vars => IInv'
<1> SUFFICES ASSUME IInv, [Next]_vars PROVE IInv'
  OBVIOUS
<1>1. CASE UNCHANGED vars
  BY <1>1 DEF vars, container, lines, IInv, TypeOK, Ordered, Stream, Listened,
             Sent, EndKnown, OutcomeLine
<1>2. CASE RoundStep \/ \E l \in Lines : Insert(l)
  BY <1>2, RoundIInv
<1>3. CASE LogOutcome \/ FailOutcome \/ LoseOutcome \/ UpdateRow
  BY <1>3, LogIInv, OutcomeIInv
<1>4. CASE \E l \in Lines : Emit(l)
  BY <1>4, EmitIInv
<1>5. CASE Crash
  BY <1>5, CrashIInv
<1>6. CASE EmitDone
  BY <1>6, EmitDoneIInv
<1>7. CASE \E v \in Viewers : ViewerStep(v)
  BY <1>7, ViewerIInv
<1> QED
  BY <1>1, <1>2, <1>3, <1>4, <1>5, <1>6, <1>7
  DEF Next, EndStep, LogStep, ViewerStep

LEMMA Invariance == Spec => []IInv
BY InitIInv, NextIInv, PTL DEF Spec

-----------------------------------------------------------------------------
(* Every variable keeps its type.                                           *)
THEOREM TypeCorrect == Spec => []TypeOK
<1>1. IInv => TypeOK
  BY DEF IInv
<1> QED BY <1>1, Invariance, PTL

(* No line falls between the replay and the live lines, for any number of   *)
(* lines and viewers (the subscription of routes.ts, the log of the         *)
(* executor).                                                               *)
THEOREM NoLineIsMissed == Spec => []NoLineMissed
<1>1. IInv => NoLineMissed
  BY DEF IInv, NoLineMissed, Stream, Sent
<1> QED BY <1>1, Invariance, PTL

(* Who is told the end after its replay has been sent the line of the       *)
(* outcome in the row (executeTaskInDocker awaits the line, then the row).  *)
THEOREM ToldHasSeenTheOutcome == Spec => []ToldSawOutcome
<1>1. IInv => ToldSawOutcome
  BY DEF IInv, ToldSawOutcome, Stream, Sent
<1> QED BY <1>1, Invariance, PTL

(* Nobody is told the end before the row is written.                        *)
THEOREM ToldOnlyAfterOutcome == Spec => []ToldAfterOutcome
<1>1. IInv => ToldAfterOutcome
  BY DEF IInv, ToldAfterOutcome, Stream, EndKnown
<1> QED BY <1>1, Invariance, PTL

(* Only streams that ended before their close handler was installed keep    *)
(* listeners.                                                               *)
THEOREM ListenersAreAccounted == Spec => []ListenersAccounted
<1>1. IInv => ListenersAccounted
  BY DEF IInv, ListenersAccounted, Stream, Listened
<1> QED BY <1>1, Invariance, PTL
=============================================================================
