-------------------------- MODULE CommsThreadProofs --------------------------
(***************************************************************************)
(* Proofs about CommsThread for every value of its constants: its types,   *)
(* the rows of a thread, what a reset leaves, what the history remembers,  *)
(* and where the answers of a conversation without overlap appear.         *)
(***************************************************************************)
EXTENDS CommsThread, TLAPS, FiniteSetTheorems

HandlerPcs == {"new", "creating", "found", "ready", "compacting", "summarising", "over"}

(* Where an event is, and what it has by then.                               *)
Placed(e) ==
  /\ handling[e].pc \in {"new", "creating"} =>
       Of(e) = Nothing /\ handling[e].seen = <<>> /\ handling[e].told = {}
  /\ handling[e].pc \in {"found", "ready", "compacting", "summarising"} => Of(e) \in Threads
  /\ handling[e].pc = "ready" => e \in Messages
  /\ handling[e].pc \in {"compacting", "summarising"} => e \in Commands

(* A task starts when its message's handler is over, after all earlier tasks *)
(* of that message; its appends start after it ran, and a reply is the only  *)
(* one of its message and comes when no task of it is left to run.           *)
Ordered(k) ==
  /\ execution[k] # "none" => handling[k[1]].pc = "over" /\ Of(k[1]) \in Threads
  /\ execution[k] \in {"none", "running"} =>
       \A r \in Roles : append[<<k, r>>].pc = "none"
  /\ execution[k] # "none" =>
       \A l \in TasksOf(k[1]) : l[2] < k[2] => execution[l] = "over"
  /\ reply[k].pc # "none" =>
       /\ execution[k] = "over"
       /\ \A l \in TasksOf(k[1]) : /\ execution[l] \in {"none", "over"}
                                   /\ l # k => reply[l].pc = "none"

Control == TypeOK /\ (\A e \in Events : Placed(e)) /\ \A k \in Tasks : Ordered(k)

-----------------------------------------------------------------------------
(* Records *)

(* A handler that moves on changes its place only.                           *)
LEMMA GotoEffect ==
  ASSUME TypeOK, NEW e \in Events, NEW pc \in HandlerPcs, Goto(e, pc)
  PROVE  /\ handling' \in [Events -> Handling]
         /\ handling'[e].pc = pc /\ handling'[e].thread = handling[e].thread
         /\ handling'[e].seen = handling[e].seen /\ handling'[e].told = handling[e].told
         /\ \A f \in Events \ {e} : handling'[f] = handling[f]
<1> DEFINE new == [handling[e] EXCEPT !.pc = pc]
<1>1. handling[e] \in Handling
  BY DEF TypeOK
<1>2. /\ new \in Handling /\ new.pc = pc /\ new.thread = handling[e].thread
      /\ new.seen = handling[e].seen /\ new.told = handling[e].told
  BY <1>1 DEF Handling, HandlerPcs
<1>3. handling' = [handling EXCEPT ![e] = new]
  BY DEF Goto
<1>4. QED
  <2> HIDE DEF new
  <2> QED BY <1>2, <1>3 DEF TypeOK

(* A handler that ends keeps its thread and forgets the rest.                *)
LEMMA FinishEffect ==
  ASSUME TypeOK, NEW e \in Events, Finish(e)
  PROVE  /\ handling' \in [Events -> Handling]
         /\ handling'[e].pc = "over" /\ handling'[e].thread = handling[e].thread
         /\ handling'[e].seen = <<>> /\ handling'[e].told = {}
         /\ \A f \in Events \ {e} : handling'[f] = handling[f]
<1> DEFINE new == [handling[e] EXCEPT !.pc = "over", !.seen = <<>>, !.told = {}]
<1>1. handling[e] \in Handling
  BY DEF TypeOK
<1>2. <<>> \in Seq(Entry) /\ {} \in Entry
  BY DEF Entry
<1>3. /\ new \in Handling /\ new.pc = "over" /\ new.thread = handling[e].thread
      /\ new.seen = <<>> /\ new.told = {}
  BY <1>1, <1>2 DEF Handling
<1>4. handling' = [handling EXCEPT ![e] = new]
  BY DEF Finish
<1>5. QED
  <2> HIDE DEF new
  <2> QED BY <1>3, <1>4 DEF TypeOK

(* An event finds its row.                                                   *)
LEMMA FoundEffect ==
  ASSUME TypeOK, NEW e \in Events, NEW t \in Threads, NEW seen \in Seq(Entry),
         handling' = [handling EXCEPT ![e] = [handling[e] EXCEPT
                        !.pc = "found", !.thread = t, !.seen = seen]]
  PROVE  /\ handling' \in [Events -> Handling]
         /\ handling'[e].pc = "found" /\ handling'[e].thread = t
         /\ handling'[e].seen = seen /\ handling'[e].told = handling[e].told
         /\ \A f \in Events \ {e} : handling'[f] = handling[f]
<1> DEFINE new == [handling[e] EXCEPT !.pc = "found", !.thread = t, !.seen = seen]
<1>1. handling[e] \in Handling
  BY DEF TypeOK
<1>2. /\ new \in Handling /\ new.pc = "found" /\ new.thread = t
      /\ new.seen = seen /\ new.told = handling[e].told
  BY <1>1 DEF Handling
<1>3. handling' = [handling EXCEPT ![e] = new]
  OBVIOUS
<1>4. QED
  <2> HIDE DEF new
  <2> QED BY <1>2, <1>3 DEF TypeOK

(* A command goes on with what it read and what it is to tell of.            *)
LEMMA CompactEffect ==
  ASSUME TypeOK, NEW e \in Events, NEW pc \in HandlerPcs, NEW seen \in Seq(Entry),
         NEW told \in Entry,
         handling' = [handling EXCEPT ![e] = [handling[e] EXCEPT
                        !.pc = pc, !.seen = seen, !.told = told]]
  PROVE  /\ handling' \in [Events -> Handling]
         /\ handling'[e].pc = pc /\ handling'[e].thread = handling[e].thread
         /\ handling'[e].seen = seen /\ handling'[e].told = told
         /\ \A f \in Events \ {e} : handling'[f] = handling[f]
<1> DEFINE new == [handling[e] EXCEPT !.pc = pc, !.seen = seen, !.told = told]
<1>1. handling[e] \in Handling
  BY DEF TypeOK
<1>2. /\ new \in Handling /\ new.pc = pc /\ new.thread = handling[e].thread
      /\ new.seen = seen /\ new.told = told
  BY <1>1 DEF Handling, HandlerPcs
<1>3. handling' = [handling EXCEPT ![e] = new]
  OBVIOUS
<1>4. QED
  <2> HIDE DEF new
  <2> QED BY <1>2, <1>3 DEF TypeOK

(* A write to one column of a row.                                           *)
LEMMA SetHistoryEffect ==
  ASSUME TypeOK, NEW t \in Threads, NEW h \in Seq(Entry),
         threads' = [threads EXCEPT ![t].history = h]
  PROVE  /\ threads' \in [Threads -> Thread] /\ threads'[t].history = h
         /\ \A s \in Threads \ {t} : threads'[s].history = threads[s].history
         /\ \A s \in Threads : /\ threads'[s].typing = threads[s].typing
                               /\ threads'[s].there = threads[s].there
<1> DEFINE new == [threads[t] EXCEPT !.history = h]
<1>1. threads[t] \in Thread
  BY DEF TypeOK
<1>2. /\ new \in Thread /\ new.history = h /\ new.typing = threads[t].typing
      /\ new.there = threads[t].there
  BY <1>1 DEF Thread
<1>3. threads' = [threads EXCEPT ![t] = new]
  OBVIOUS
<1>4. QED
  <2> HIDE DEF new
  <2> QED BY <1>2, <1>3 DEF TypeOK

LEMMA SetTypingEffect ==
  ASSUME TypeOK, NEW t \in Threads, NEW m \in Messages \cup {Nothing},
         threads' = [threads EXCEPT ![t].typing = m]
  PROVE  /\ threads' \in [Threads -> Thread] /\ threads'[t].typing = m
         /\ \A s \in Threads \ {t} : threads'[s].typing = threads[s].typing
         /\ \A s \in Threads : /\ threads'[s].history = threads[s].history
                               /\ threads'[s].there = threads[s].there
<1> DEFINE new == [threads[t] EXCEPT !.typing = m]
<1>1. threads[t] \in Thread
  BY DEF TypeOK
<1>2. /\ new \in Thread /\ new.typing = m /\ new.history = threads[t].history
      /\ new.there = threads[t].there
  BY <1>1 DEF Thread
<1>3. threads' = [threads EXCEPT ![t] = new]
  OBVIOUS
<1>4. QED
  <2> HIDE DEF new
  <2> QED BY <1>2, <1>3 DEF TypeOK

LEMMA SetThereEffect ==
  ASSUME TypeOK, NEW t \in Threads, threads' = [threads EXCEPT ![t].there = TRUE]
  PROVE  /\ threads' \in [Threads -> Thread] /\ threads'[t].there = TRUE
         /\ \A s \in Threads \ {t} : threads'[s].there = threads[s].there
         /\ \A s \in Threads : /\ threads'[s].history = threads[s].history
                               /\ threads'[s].typing = threads[s].typing
<1> DEFINE new == [threads[t] EXCEPT !.there = TRUE]
<1>1. threads[t] \in Thread
  BY DEF TypeOK
<1>2. /\ new \in Thread /\ new.there = TRUE /\ new.history = threads[t].history
      /\ new.typing = threads[t].typing
  BY <1>1 DEF Thread
<1>3. threads' = [threads EXCEPT ![t] = new]
  OBVIOUS
<1>4. QED
  <2> HIDE DEF new
  <2> QED BY <1>2, <1>3 DEF TypeOK

-----------------------------------------------------------------------------
(* The history *)

(* The newest entries are the end of the sequence, or all of it.             *)
LEMMA NewestFacts ==
  ASSUME NEW S, NEW s \in Seq(S), NEW n \in Nat
  PROVE  LET d == IF Len(s) > n THEN Len(s) - n ELSE 0
         IN  /\ Newest(s, n) \in Seq(S)
             /\ Len(Newest(s, n)) = Len(s) - d
             /\ \A i \in 1 .. Len(s) - d : Newest(s, n)[i] = s[i + d]
<1>1. PICK d \in Nat : d = IF Len(s) > n THEN Len(s) - n ELSE 0
  OBVIOUS
<1>2. d <= Len(s) /\ Newest(s, n) = SubSeq(s, d + 1, Len(s))
  BY <1>1 DEF Newest
<1>3. /\ SubSeq(s, d + 1, Len(s)) \in Seq(S)
      /\ Len(SubSeq(s, d + 1, Len(s))) = Len(s) - d
      /\ \A i \in 1 .. Len(s) - d : SubSeq(s, d + 1, Len(s))[i] = s[i + d]
  BY <1>2
<1>4. QED BY <1>1, <1>2, <1>3

(* An entry that is appended is the last one; an entry of before keeps its   *)
(* distance from it, or has HistoryLimit entries after it.                   *)
LEMMA AppendedFacts ==
  ASSUME NEW seen \in Seq(Entry), NEW told \in Entry
  PROVE  /\ Appended(seen, told) \in Seq(Entry)
         /\ Len(Appended(seen, told)) > 0
         /\ Appended(seen, told)[Len(Appended(seen, told))] = told
         /\ Mentioned(Appended(seen, told)) \subseteq Mentioned(seen) \cup told
         /\ \A p \in DOMAIN seen :
              Len(seen) + 1 - p < HistoryLimit =>
                \E q \in DOMAIN Appended(seen, told) :
                  /\ Appended(seen, told)[q] = seen[p]
                  /\ Len(Appended(seen, told)) - q = Len(seen) + 1 - p
<1> DEFINE s == Append(seen, told)
<1>1. /\ s \in Seq(Entry) /\ Len(s) = Len(seen) + 1 /\ s[Len(seen) + 1] = told
      /\ \A p \in 1 .. Len(seen) : s[p] = seen[p]
  OBVIOUS
<1> HIDE DEF s
<1>2. HistoryLimit \in Nat \ {0}
  BY CommsAssumption
<1>3. PICK d \in Nat : d = IF Len(s) > HistoryLimit THEN Len(s) - HistoryLimit ELSE 0
  <2>1. Len(s) \in Nat /\ HistoryLimit \in Nat
    BY <1>1, <1>2
  <2>2. CASE Len(s) > HistoryLimit
    <3>1. Len(s) - HistoryLimit \in Nat
      BY <2>1, <2>2
    <3>2. QED BY <2>2, <3>1
  <2>3. CASE ~(Len(s) > HistoryLimit)
    BY <2>3
  <2>4. QED BY <2>2, <2>3
<1>4. PICK a : a = Appended(seen, told)
  OBVIOUS
<1>5. /\ a \in Seq(Entry) /\ Len(a) = Len(s) - d
      /\ \A i \in 1 .. Len(s) - d : a[i] = s[i + d]
  <2>1. a = Newest(s, HistoryLimit)
    BY <1>4 DEF Appended, s
  <2>2. LET e == IF Len(s) > HistoryLimit THEN Len(s) - HistoryLimit ELSE 0
        IN  /\ Newest(s, HistoryLimit) \in Seq(Entry)
            /\ Len(Newest(s, HistoryLimit)) = Len(s) - e
            /\ \A i \in 1 .. Len(s) - e : Newest(s, HistoryLimit)[i] = s[i + e]
    BY <1>1, <1>2, NewestFacts
  <2>3. QED BY <1>3, <2>1, <2>2
<1>10. Len(seen) \in Nat /\ Len(s) \in Nat /\ Len(s) = Len(seen) + 1
  BY <1>1
<1>11. /\ d <= Len(seen) /\ Len(s) - d > 0 /\ Len(s) - d <= HistoryLimit
       /\ \A p \in Nat : p <= Len(seen) /\ Len(seen) + 1 - p < HistoryLimit /\ p > 0 => d < p
  <2>1. /\ d <= Len(seen) /\ Len(s) - d > 0 /\ Len(s) - d <= HistoryLimit
    <3>1. CASE Len(s) > HistoryLimit
      BY <1>2, <1>3, <1>10, <3>1
    <3>2. CASE ~ (Len(s) > HistoryLimit)
      BY <1>2, <1>3, <1>10, <3>2
    <3>3. QED BY <3>1, <3>2
  <2>2. \A p \in Nat : p <= Len(seen) /\ Len(seen) + 1 - p < HistoryLimit /\ p > 0 => d < p
    BY <1>1, <1>2, <1>3, <1>10
  <2>3. QED BY <2>1, <2>2
<1>6. Len(a) > 0 /\ d <= Len(seen) /\ a[Len(a)] = told
  <2>1. a[Len(s) - d] = s[Len(s) - d + d] /\ Len(s) - d + d = Len(s)
    BY <1>5, <1>10, <1>11
  <2>2. QED BY <1>1, <1>5, <1>11, <2>1
<1>7. Mentioned(a) \subseteq Mentioned(seen) \cup told
  <2>1. \A i \in DOMAIN a : a[i] = told \/ \E p \in DOMAIN seen : a[i] = seen[p]
    <3> TAKE i \in DOMAIN a
    <3>1. i \in 1 .. Len(a)
      BY <1>5
    <3>3. a[i] = s[i + d] /\ i + d \in 1 .. Len(seen) + 1
      BY <1>1, <1>5, <3>1
    <3>2. QED BY <1>1, <3>3
  <2>2. QED BY <2>1 DEF Mentioned
<1>8. ASSUME NEW p \in DOMAIN seen, Len(seen) + 1 - p < HistoryLimit
      PROVE  \E q \in DOMAIN a : a[q] = seen[p] /\ Len(a) - q = Len(seen) + 1 - p
  <2>1. p \in 1 .. Len(seen)
    OBVIOUS
  <2>2. p - d \in 1 .. Len(a)
    <3>1. d < p /\ p <= Len(seen)
      BY <1>8, <1>11, <2>1
    <3>2. QED BY <1>1, <1>5, <1>10, <2>1, <3>1
  <2>3. a[p - d] = seen[p] /\ Len(a) - (p - d) = Len(seen) + 1 - p
    BY <1>1, <1>5, <1>10, <2>1, <2>2
  <2>4. p - d \in DOMAIN a
    BY <1>5, <2>2
  <2>5. QED BY <2>3, <2>4
<1>9. QED BY <1>4, <1>5, <1>6, <1>7, <1>8

(* What a reader of the row finds is a history.                              *)
LEMMA HistoryType ==
  ASSUME TypeOK, NEW t \in Threads
  PROVE  threads[t].history \in Seq(Entry) /\ threads[t].typing \in Messages \cup {Nothing}
<1>1. threads[t] \in Thread
  BY DEF TypeOK
<1>2. QED BY <1>1 DEF Thread

LEMMA MentionedType == ASSUME NEW h \in Seq(Entry) PROVE Mentioned(h) \in Entry
BY DEF Mentioned, Entry

LEMMA HandlingType ==
  ASSUME TypeOK, NEW e \in Events
  PROVE  /\ handling[e].pc \in HandlerPcs /\ handling[e].thread \in Threads \cup {Nothing}
         /\ handling[e].seen \in Seq(Entry) /\ handling[e].told \in Entry
<1>1. handling[e] \in Handling
  BY DEF TypeOK
<1>2. QED BY <1>1 DEF Handling, HandlerPcs

LEMMA AppendType ==
  ASSUME TypeOK, NEW k \in Tasks, NEW r \in Roles
  PROVE  /\ append[<<k, r>>].pc \in {"none", "reading", "writing", "over"}
         /\ append[<<k, r>>].seen \in Seq(Entry)
<1>1. append[<<k, r>>] \in [pc : {"none", "reading", "writing", "over"}, seen : Seq(Entry)]
  BY DEF TypeOK
<1>2. QED BY <1>1

LEMMA ReplyType ==
  ASSUME TypeOK, NEW k \in Tasks
  PROVE  /\ reply[k].pc \in {"none", "updating", "posting", "clearing", "over"}
         /\ reply[k].slot \in Messages \cup {Nothing}
<1>1. reply[k] \in [pc : {"none", "updating", "posting", "clearing", "over"},
                    slot : Messages \cup {Nothing}]
  BY DEF TypeOK
<1>2. QED BY <1>1

-----------------------------------------------------------------------------
(* Types, and the order of a handler and its tasks *)

LEMMA InitControl == Init => Control
<1> SUFFICES ASSUME Init PROVE Control
  OBVIOUS
<1>1. <<>> \in Seq(Entry) /\ {} \in Entry
  BY DEF Entry
<1> DEFINE row == [there |-> FALSE, history |-> <<>>, typing |-> Nothing]
           first == [pc |-> "new", thread |-> Nothing, seen |-> <<>>, told |-> {}]
           idle == [pc |-> "none", seen |-> <<>>]
           mute == [pc |-> "none", slot |-> Nothing]
<1>2. /\ row \in Thread /\ first \in Handling /\ first.pc = "new" /\ first.thread = Nothing
      /\ first.seen = <<>> /\ first.told = {}
      /\ idle \in [pc : {"none", "reading", "writing", "over"}, seen : Seq(Entry)]
      /\ idle.pc = "none"
      /\ mute \in [pc : {"none", "updating", "posting", "clearing", "over"},
                   slot : Messages \cup {Nothing}]
      /\ mute.pc = "none"
  BY <1>1 DEF Thread, Handling
<1>3. /\ threads = [t \in Threads |-> row] /\ handling = [e \in Events |-> first]
      /\ execution = [k \in Tasks |-> "none"]
      /\ append = [k \in Tasks \X Roles |-> idle] /\ reply = [k \in Tasks |-> mute]
  BY DEF Init
<1> HIDE DEF row, first, idle, mute
<1>4. TypeOK
  <2>1. threads \in [Threads -> Thread] /\ handling \in [Events -> Handling]
    BY <1>2, <1>3
  <2>2. append \in [Tasks \X Roles -> [pc : {"none", "reading", "writing", "over"},
                                       seen : Seq(Entry)]]
    BY <1>2, <1>3
  <2>3. reply \in [Tasks -> [pc : {"none", "updating", "posting", "clearing", "over"},
                            slot : Messages \cup {Nothing}]]
    BY <1>2, <1>3
  <2>4. execution \in [Tasks -> {"none", "running", "accounting", "failed", "over"}]
    BY <1>3
  <2>5. /\ shown \in [Messages -> Messages \cup {Nothing, Thinking}]
        /\ since \in [Threads -> SUBSET Messages] /\ later \in [Messages -> SUBSET Writers]
    BY DEF Init
  <2>6. /\ undone \subseteq Threads /\ posted \subseteq Messages
        /\ delivered \subseteq Messages /\ raced \subseteq Messages
        /\ overlapped \in BOOLEAN /\ refLost \in BOOLEAN
    BY DEF Init
  <2>7. QED BY <2>1, <2>2, <2>3, <2>4, <2>5, <2>6 DEF TypeOK
<1>5. ASSUME NEW e \in Events PROVE Placed(e)
  BY <1>2, <1>3 DEF Placed, Of
<1>6. ASSUME NEW k \in Tasks PROVE Ordered(k)
  BY <1>2, <1>3 DEF Ordered
<1>7. QED BY <1>4, <1>5, <1>6 DEF Control

(* What a write of an entry leaves well-formed.                              *)
LEMMA WriteEntryType ==
  ASSUME TypeOK, NEW e \in Events, Of(e) \in Threads, NEW w \in Writers,
         NEW seen \in Seq(Entry), NEW told \in Entry, WriteEntry(e, w, seen, told)
  PROVE  /\ threads' \in [Threads -> Thread] /\ raced' \subseteq Messages
         /\ later' \in [Messages -> SUBSET Writers]
         /\ threads'[Of(e)].history = Appended(seen, told)
         /\ \A t \in Threads \ {Of(e)} : threads'[t].history = threads[t].history
         /\ \A t \in Threads : /\ threads'[t].typing = threads[t].typing
                               /\ threads'[t].there = threads[t].there
<1>1. Appended(seen, told) \in Seq(Entry)
  BY AppendedFacts
<1>2. threads' = [threads EXCEPT ![Of(e)].history = Appended(seen, told)]
  BY DEF WriteEntry, SetHistory
<1>3. raced' \subseteq Messages
  BY DEF WriteEntry, TypeOK, Entry
<1>4. later' \in [Messages -> SUBSET Writers]
  BY DEF WriteEntry, TypeOK
<1>5. QED BY <1>1, <1>2, <1>3, <1>4, SetHistoryEffect

(* A step of a handler moves no other event, and no task but the one that it *)
(* creates.                                                                  *)
LEMMA HandlerMoves ==
  ASSUME Control, NEW e \in Events, HandlerStep(e)
  PROVE  /\ TypeOK' /\ Placed(e)'
         /\ \A f \in Events \ {e} : handling'[f] = handling[f]
         /\ handling[e].pc \notin {"new", "over"}
         /\ append' = append /\ reply' = reply
         /\ \/ execution' = execution
            \/ /\ e \in Messages /\ handling[e].thread \in Threads
               /\ handling'[e].pc = "over" /\ handling'[e].thread = handling[e].thread
               /\ execution' = [execution EXCEPT ![<<e, 0>>] = "running"]
<1>0. /\ TypeOK /\ Placed(e) /\ handling[e].pc \in HandlerPcs
      /\ handling[e].thread \in Threads \cup {Nothing}
      /\ handling[e].seen \in Seq(Entry) /\ handling[e].told \in Entry
  BY HandlingType DEF Control
<1>a. Messages \cap Commands = {} /\ Events = Messages \cup Commands /\ e \in Threads
      /\ Nothing \notin Threads
  BY CommsAssumption DEF Events, Threads
<1>b. <<>> \in Seq(Entry)
  OBVIOUS
<1>1. CASE CreateThread(e)
  <2> DEFINE new == [handling[e] EXCEPT !.pc = "found", !.thread = e, !.seen = handling[e].seen]
  <2>1. handling' = [handling EXCEPT ![e] = new]
    <3>1. handling[e] \in Handling
      BY <1>0 DEF TypeOK
    <3>2. new = [handling[e] EXCEPT !.pc = "found", !.thread = e]
      BY <3>1 DEF Handling
    <3>3. handling' = [handling EXCEPT ![e] = [handling[e] EXCEPT !.pc = "found", !.thread = e]]
      BY <1>1 DEF CreateThread
    <3>4. QED BY <3>2, <3>3
  <2>2. /\ handling' \in [Events -> Handling]
        /\ handling'[e].pc = "found" /\ handling'[e].thread = e
        /\ \A f \in Events \ {e} : handling'[f] = handling[f]
    BY <1>0, <1>a, <2>1, FoundEffect
  <2>3. threads' \in [Threads -> Thread]
    BY <1>0, <1>1, <1>a, SetThereEffect DEF CreateThread
  <2>4. TypeOK'
    BY <1>0, <1>1, <2>2, <2>3 DEF TypeOK, CreateThread, history, answers
  <2>5. Placed(e)'
    BY <1>a, <2>2 DEF Placed, Of
  <2>6. QED BY <1>1, <2>2, <2>4, <2>5 DEF CreateThread, history, answers
<1>2. CASE ShowTyping(e)
  <2>1. TypeOK'
    BY <1>0, <1>2 DEF TypeOK, ShowTyping, history
  <2>2. QED BY <1>0, <1>2, <2>1 DEF ShowTyping, history, Placed, Of
<1>3. CASE NoTyping(e)
  <2>1. Goto(e, "ready") /\ "ready" \in HandlerPcs /\ handling[e].pc = "found"
    BY <1>3 DEF NoTyping, HandlerPcs
  <2>2. /\ handling' \in [Events -> Handling]
        /\ handling'[e].pc = "ready" /\ handling'[e].thread = handling[e].thread
        /\ \A f \in Events \ {e} : handling'[f] = handling[f]
    BY <1>0, <2>1, GotoEffect
  <2>3. TypeOK'
    BY <1>0, <1>3, <2>2 DEF TypeOK, NoTyping, history, answers
  <2>4. QED BY <1>0, <1>3, <2>1, <2>2, <2>3 DEF NoTyping, history, answers, Placed, Of
<1>4. CASE StoreTyping(e)
  <2>1. Goto(e, "ready") /\ "ready" \in HandlerPcs /\ handling[e].pc = "found" /\ e \in Messages
    BY <1>4 DEF StoreTyping, HandlerPcs
  <2>2. /\ handling' \in [Events -> Handling]
        /\ handling'[e].pc = "ready" /\ handling'[e].thread = handling[e].thread
        /\ \A f \in Events \ {e} : handling'[f] = handling[f]
    BY <1>0, <2>1, GotoEffect
  <2>3. threads' \in [Threads -> Thread]
    BY <1>0, <1>4, <2>1, SetTypingEffect DEF StoreTyping, Placed
  <2>4. TypeOK'
    BY <1>0, <1>4, <2>2, <2>3 DEF TypeOK, StoreTyping, history, answers
  <2>5. QED BY <1>0, <1>4, <2>1, <2>2, <2>4 DEF StoreTyping, history, answers, Placed, Of
<1>5. CASE CreateTask(e)
  <2>1. Finish(e) /\ handling[e].pc = "ready" /\ e \in Messages /\ handling[e].thread \in Threads
    BY <1>0, <1>5 DEF CreateTask, Placed, Of
  <2>2. /\ handling' \in [Events -> Handling]
        /\ handling'[e].pc = "over" /\ handling'[e].thread = handling[e].thread
        /\ \A f \in Events \ {e} : handling'[f] = handling[f]
    BY <1>0, <2>1, FinishEffect
  <2>3. TypeOK'
    BY <1>0, <1>5, <2>2 DEF TypeOK, CreateTask, history, answers
  <2>4. QED BY <1>0, <1>5, <2>1, <2>2, <2>3 DEF CreateTask, history, answers, Placed, Of
<1>6. CASE Drop(e)
  <2>1. Finish(e) /\ handling[e].pc \notin {"new", "over"}
    BY <1>6 DEF Drop
  <2>2. /\ handling' \in [Events -> Handling]
        /\ handling'[e].pc = "over" /\ handling'[e].thread = handling[e].thread
        /\ \A f \in Events \ {e} : handling'[f] = handling[f]
    BY <1>0, <2>1, FinishEffect
  <2>3. TypeOK'
    BY <1>0, <1>6, <2>2 DEF TypeOK, Drop, history, answers
  <2>4. QED BY <1>0, <1>6, <2>1, <2>2, <2>3 DEF Drop, history, answers, Placed, Of
<1>7. CASE Reset(e)
  <2>1. Finish(e) /\ handling[e].pc = "found" /\ Of(e) \in Threads
    BY <1>0, <1>7 DEF Reset, Placed
  <2>2. /\ handling' \in [Events -> Handling]
        /\ handling'[e].pc = "over" /\ handling'[e].thread = handling[e].thread
        /\ \A f \in Events \ {e} : handling'[f] = handling[f]
    BY <1>0, <2>1, FinishEffect
  <2>3. threads' \in [Threads -> Thread]
    BY <1>0, <1>7, <1>b, <2>1, SetHistoryEffect DEF Reset, SetHistory
  <2>4. since' \in [Threads -> SUBSET Messages] /\ undone' \subseteq Threads
    BY <1>0, <1>7, <2>1 DEF TypeOK, Reset
  <2>5. TypeOK'
    BY <1>0, <1>7, <2>2, <2>3, <2>4 DEF TypeOK, Reset, answers
  <2>6. QED BY <1>0, <1>7, <2>1, <2>2, <2>5 DEF Reset, answers, Placed, Of
<1>8. CASE Compact(e)
  <2>1. PICK told \in Entry : told = Mentioned(handling[e].seen)
    BY <1>0, MentionedType
  <2>2. /\ handling[e].pc = "found" /\ Of(e) \in Threads /\ e \in Commands
        /\ SetHistory(e, <<>>) /\ raced' = raced \cup told
        /\ handling' = [handling EXCEPT ![e] = [handling[e] EXCEPT
                          !.pc = "compacting", !.told = told]]
    BY <1>0, <1>8, <2>1 DEF Compact, Placed
  <2> DEFINE new == [handling[e] EXCEPT !.pc = "compacting", !.seen = handling[e].seen, !.told = told]
  <2>3. handling' = [handling EXCEPT ![e] = new]
    <3>1. handling[e] \in Handling
      BY <1>0 DEF TypeOK
    <3>2. new = [handling[e] EXCEPT !.pc = "compacting", !.told = told]
      BY <3>1 DEF Handling
    <3>3. QED BY <2>2, <3>2
  <2>4. "compacting" \in HandlerPcs
    BY DEF HandlerPcs
  <2>5. /\ handling' \in [Events -> Handling]
        /\ handling'[e].pc = "compacting" /\ handling'[e].thread = handling[e].thread
        /\ \A f \in Events \ {e} : handling'[f] = handling[f]
    BY <1>0, <2>3, <2>4, CompactEffect
  <2>6. threads' \in [Threads -> Thread]
    BY <1>0, <1>b, <2>2, SetHistoryEffect DEF SetHistory
  <2>7. raced' \subseteq Messages
    BY <1>0, <2>2 DEF TypeOK, Entry
  <2>8. TypeOK'
    BY <1>0, <1>8, <2>5, <2>6, <2>7 DEF TypeOK, Compact, answers
  <2>9. QED BY <1>0, <1>8, <2>2, <2>5, <2>8 DEF Compact, answers, Placed, Of
<1>9. CASE ReadForSummary(e)
  <2>1. PICK seen \in Seq(Entry) : seen = HistoryOf(e)
    <3>1. Of(e) \in Threads
      BY <1>0, <1>9 DEF ReadForSummary, Placed
    <3>2. QED BY <1>0, <3>1, HistoryType DEF HistoryOf
  <2>2. /\ handling[e].pc = "compacting"
        /\ handling' = [handling EXCEPT ![e] = [handling[e] EXCEPT
                          !.pc = "summarising", !.seen = seen]]
    BY <1>9, <2>1 DEF ReadForSummary
  <2> DEFINE new == [handling[e] EXCEPT !.pc = "summarising", !.seen = seen, !.told = handling[e].told]
  <2>3. handling' = [handling EXCEPT ![e] = new]
    <3>1. handling[e] \in Handling
      BY <1>0 DEF TypeOK
    <3>2. new = [handling[e] EXCEPT !.pc = "summarising", !.seen = seen]
      BY <3>1 DEF Handling
    <3>3. QED BY <2>2, <3>2
  <2>4. "summarising" \in HandlerPcs
    BY DEF HandlerPcs
  <2>5. /\ handling' \in [Events -> Handling]
        /\ handling'[e].pc = "summarising" /\ handling'[e].thread = handling[e].thread
        /\ \A f \in Events \ {e} : handling'[f] = handling[f]
    BY <1>0, <2>3, <2>4, CompactEffect
  <2>6. TypeOK'
    BY <1>0, <1>9, <2>5 DEF TypeOK, ReadForSummary, history, answers
  <2>7. QED BY <1>0, <1>9, <2>2, <2>5, <2>6 DEF ReadForSummary, history, answers, Placed, Of
<1>10. CASE WriteSummary(e)
  <2>1. /\ Finish(e) /\ handling[e].pc = "summarising" /\ Of(e) \in Threads /\ e \in Commands
        /\ WriteEntry(e, e, handling[e].seen, handling[e].told)
    BY <1>0, <1>10 DEF WriteSummary, Placed
  <2>2. /\ handling' \in [Events -> Handling]
        /\ handling'[e].pc = "over" /\ handling'[e].thread = handling[e].thread
        /\ \A f \in Events \ {e} : handling'[f] = handling[f]
    BY <1>0, <2>1, FinishEffect
  <2>3. e \in Writers
    BY <2>1 DEF Writers
  <2>4. /\ threads' \in [Threads -> Thread] /\ raced' \subseteq Messages
        /\ later' \in [Messages -> SUBSET Writers]
    BY <1>0, <2>1, <2>3, WriteEntryType
  <2>5. TypeOK'
    BY <1>0, <1>10, <2>2, <2>4 DEF TypeOK, WriteSummary, answers
  <2>6. QED BY <1>0, <1>10, <2>1, <2>2, <2>5 DEF WriteSummary, answers, Placed, Of
<1>11. QED
  BY <1>1, <1>2, <1>3, <1>4, <1>5, <1>6, <1>7, <1>8, <1>9, <1>10 DEF HandlerStep

(* A task is one of its message, and so is its next attempt.                 *)
LEMMA TaskFacts ==
  ASSUME NEW k \in Tasks
  PROVE  /\ k[1] \in Messages /\ k[1] \in Events /\ k[2] \in Nat /\ k \in TasksOf(k[1])
         /\ k = <<k[1], k[2]>>
         /\ k[2] < MaxRetries => <<k[1], k[2] + 1>> \in TasksOf(k[1])
         /\ \A l \in TasksOf(k[1]) : l \in Tasks /\ l[1] = k[1]
         /\ \A l \in Tasks : l[1] = k[1] <=> l \in TasksOf(k[1])
BY CommsAssumption DEF Tasks, TasksOf, Events

(* The row of a running task is changed, and perhaps its appends.            *)
LEMMA ExecutionOrdered ==
  ASSUME Control, NEW k \in Tasks, execution[k] \notin {"none", "over"},
         NEW s \in {"accounting", "failed", "over"},
         execution' = [execution EXCEPT ![k] = s], handling' = handling, reply' = reply,
         \A l \in Tasks, r \in Roles : l # k => append'[<<l, r>>] = append[<<l, r>>]
  PROVE  \A l \in Tasks : Ordered(l)'
<1> SUFFICES ASSUME NEW l \in Tasks PROVE Ordered(l)'
  OBVIOUS
<1>1. Ordered(l) /\ Ordered(k) /\ execution \in [Tasks -> {"none", "running", "accounting", "failed", "over"}]
  BY DEF Control, TypeOK
<1>2. execution'[k] = s /\ \A j \in Tasks : j # k => execution'[j] = execution[j]
  BY <1>1
<1>3. \A j \in Tasks : (execution'[j] = "none") = (execution[j] = "none")
  BY <1>2
<1>4. \A j \in TasksOf(l[1]) : j \in Tasks /\ j[1] = l[1]
  BY DEF TasksOf
<1>5. execution'[l] # "none" => handling'[l[1]].pc = "over" /\ Of(l[1])' \in Threads
  BY <1>1, <1>3 DEF Ordered, Of
<1>6. execution'[l] \in {"none", "running"} => \A r \in Roles : append'[<<l, r>>].pc = "none"
  BY <1>1, <1>2 DEF Ordered
<1>7. execution'[l] # "none" => \A j \in TasksOf(l[1]) : j[2] < l[2] => execution'[j] = "over"
  BY <1>1, <1>2, <1>3, <1>4 DEF Ordered
<1>8. reply'[l].pc # "none" =>
        /\ execution'[l] = "over"
        /\ \A j \in TasksOf(l[1]) : /\ execution'[j] \in {"none", "over"}
                                    /\ j # l => reply'[j].pc = "none"
  <2>1. l[1] = k[1] => k \in TasksOf(l[1])
    BY DEF TasksOf
  <2>2. l[1] # k[1] => k \notin TasksOf(l[1])
    BY DEF TasksOf
  <2>3. QED BY <1>1, <1>2, <1>4, <2>1, <2>2 DEF Ordered
<1>9. QED BY <1>5, <1>6, <1>7, <1>8 DEF Ordered, TasksOf

(* The appends and the reply of a task that has them go on.                  *)
LEMMA AppendOrdered ==
  ASSUME Control, handling' = handling, execution' = execution,
         \A l \in Tasks : (reply'[l].pc = "none") = (reply[l].pc = "none"),
         \A l \in Tasks, r \in Roles :
           (append'[<<l, r>>].pc = "none") = (append[<<l, r>>].pc = "none")
  PROVE  \A l \in Tasks : Ordered(l)'
<1> SUFFICES ASSUME NEW l \in Tasks PROVE Ordered(l)'
  OBVIOUS
<1>1. Ordered(l)
  BY DEF Control
<1>2. \A j \in TasksOf(l[1]) : j \in Tasks
  BY DEF TasksOf
<1>3. QED BY <1>1, <1>2 DEF Ordered, TasksOf, Of

(* An append of a task, or its reply, becomes another.                       *)
LEMMA SetAppendEffect ==
  ASSUME TypeOK, NEW k \in Tasks, NEW r \in Roles,
         NEW v \in [pc : {"none", "reading", "writing", "over"}, seen : Seq(Entry)],
         append' = [append EXCEPT ![<<k, r>>] = v]
  PROVE  /\ append' \in [Tasks \X Roles -> [pc : {"none", "reading", "writing", "over"},
                                            seen : Seq(Entry)]]
         /\ append'[<<k, r>>] = v
         /\ \A l \in Tasks, q \in Roles :
              <<l, q>> # <<k, r>> => append'[<<l, q>>] = append[<<l, q>>]
<1>1. <<k, r>> \in Tasks \X Roles
  OBVIOUS
<1>2. \A l \in Tasks, q \in Roles : <<l, q>> \in Tasks \X Roles
  OBVIOUS
<1>3. QED BY <1>1, <1>2 DEF TypeOK

LEMMA EndAppendEffect ==
  ASSUME TypeOK, NEW k \in Tasks, NEW r \in Roles, EndAppend(k, r)
  PROVE  /\ append' \in [Tasks \X Roles -> [pc : {"none", "reading", "writing", "over"},
                                            seen : Seq(Entry)]]
         /\ append'[<<k, r>>].pc = "over"
         /\ \A l \in Tasks, q \in Roles :
              <<l, q>> # <<k, r>> => append'[<<l, q>>] = append[<<l, q>>]
<1> DEFINE v == [pc |-> "over", seen |-> <<>>]
<1>1. v \in [pc : {"none", "reading", "writing", "over"}, seen : Seq(Entry)] /\ v.pc = "over"
  OBVIOUS
<1>2. append' = [append EXCEPT ![<<k, r>>] = v]
  BY DEF EndAppend
<1> HIDE DEF v
<1>3. QED BY <1>1, <1>2, SetAppendEffect

LEMMA SetReplyEffect ==
  ASSUME TypeOK, NEW k \in Tasks, NEW pc \in {"updating", "posting", "clearing", "over"},
         NEW slot \in Messages \cup {Nothing},
         reply' = [reply EXCEPT ![k] = [pc |-> pc, slot |-> slot]]
  PROVE  /\ reply' \in [Tasks -> [pc : {"none", "updating", "posting", "clearing", "over"},
                                  slot : Messages \cup {Nothing}]]
         /\ reply'[k].pc = pc /\ reply'[k].slot = slot
         /\ \A l \in Tasks : l # k => reply'[l] = reply[l]
<1> DEFINE v == [pc |-> pc, slot |-> slot]
<1>1. /\ v \in [pc : {"none", "updating", "posting", "clearing", "over"},
                slot : Messages \cup {Nothing}]
      /\ v.pc = pc /\ v.slot = slot
  OBVIOUS
<1>2. reply' = [reply EXCEPT ![k] = v]
  OBVIOUS
<1> HIDE DEF v
<1>3. QED BY <1>1, <1>2 DEF TypeOK

LEMMA ClearingEffect ==
  ASSUME TypeOK, NEW k \in Tasks, reply' = [reply EXCEPT ![k].pc = "clearing"]
  PROVE  /\ reply' \in [Tasks -> [pc : {"none", "updating", "posting", "clearing", "over"},
                                  slot : Messages \cup {Nothing}]]
         /\ reply'[k].pc = "clearing" /\ reply'[k].slot = reply[k].slot
         /\ \A l \in Tasks : l # k => reply'[l] = reply[l]
<1>1. PICK slot \in Messages \cup {Nothing} : slot = reply[k].slot
  BY ReplyType
<1>2. reply[k] \in [pc : {"none", "updating", "posting", "clearing", "over"},
                    slot : Messages \cup {Nothing}]
  BY DEF TypeOK
<1>3. reply' = [reply EXCEPT ![k] = [reply[k] EXCEPT !.pc = "clearing"]]
  OBVIOUS
<1>4. [reply[k] EXCEPT !.pc = "clearing"] = [pc |-> "clearing", slot |-> slot]
  BY <1>1, <1>2
<1>5. reply' = [reply EXCEPT ![k] = [pc |-> "clearing", slot |-> slot]]
  BY <1>3, <1>4
<1>6. QED BY <1>1, <1>5, SetReplyEffect

(* A step of a task moves no handler and no task of another message.         *)
TaskFrame(k) ==
  /\ handling' = handling
  /\ \A l \in Tasks : l[1] # k[1] =>
       /\ execution'[l] = execution[l] /\ reply'[l] = reply[l]
       /\ \A r \in Roles : append'[<<l, r>>] = append[<<l, r>>]

LEMMA TaskMoves ==
  ASSUME Control, NEW k \in Tasks, TaskStep(k)
  PROVE  /\ TypeOK' /\ (\A l \in Tasks : Ordered(l)') /\ TaskFrame(k)
         /\ AtWork(k[1])
<1>0. /\ TypeOK /\ Ordered(k) /\ k[1] \in Messages /\ k[1] \in Events /\ k \in TasksOf(k[1])
      /\ execution \in [Tasks -> {"none", "running", "accounting", "failed", "over"}]
  BY TaskFacts DEF Control, TypeOK
<1>a. Messages \subseteq Events /\ Nothing \notin Threads /\ Threads = Events
  BY CommsAssumption DEF Events, Threads
<1>b. execution[k] # "none" => Of(k[1]) \in Threads
  BY <1>0 DEF Ordered
<1>c. \A r \in Roles : append[<<k, r>>].pc \notin {"none"} => execution[k] # "none"
  BY <1>0 DEF Ordered
<1>d. reply[k].pc # "none" => execution[k] # "none"
  BY <1>0 DEF Ordered
<1>1. CASE Complete(k)
  <2> DEFINE v == [pc |-> "reading", seen |-> <<>>]
  <2>1. v \in [pc : {"none", "reading", "writing", "over"}, seen : Seq(Entry)]
    OBVIOUS
  <2>2. append' = [x \in Tasks \X Roles |-> IF x[1] = k THEN v ELSE append[x]]
    BY <1>1 DEF Complete
  <2> HIDE DEF v
  <2>3. append' \in [Tasks \X Roles -> [pc : {"none", "reading", "writing", "over"},
                                       seen : Seq(Entry)]]
    BY <1>0, <2>1, <2>2 DEF TypeOK
  <2>4. \A l \in Tasks, r \in Roles : l # k => append'[<<l, r>>] = append[<<l, r>>]
    BY <2>2
  <2>5. /\ execution[k] = "running" /\ execution' = [execution EXCEPT ![k] = "accounting"]
        /\ UNCHANGED <<threads, handling, since, later, raced, answers, undone, overlapped>>
    BY <1>1 DEF Complete, Become
  <2>6. TypeOK'
    BY <1>0, <2>3, <2>5 DEF TypeOK, answers
  <2>7. \A l \in Tasks : Ordered(l)'
    BY <2>4, <2>5, ExecutionOrdered DEF answers
  <2>8. QED BY <1>0, <2>4, <2>5, <2>6, <2>7 DEF TaskFrame, AtWork, answers
<1>2. CASE Fail(k)
  <2>1. PICK s \in {"accounting", "failed", "over"} : execution' = [execution EXCEPT ![k] = s]
    BY <1>2 DEF Fail, Become
  <2>2. /\ execution[k] \in {"running", "accounting"}
        /\ UNCHANGED <<threads, handling, history, answers, undone, overlapped>>
    BY <1>2 DEF Fail
  <2>3. TypeOK'
    BY <1>0, <2>1, <2>2 DEF TypeOK, answers, history
  <2>4. \A l \in Tasks : Ordered(l)'
    BY <2>1, <2>2, ExecutionOrdered DEF answers, history
  <2>5. QED BY <1>0, <2>1, <2>2, <2>3, <2>4 DEF TaskFrame, AtWork, answers, history
<1>3. CASE Retry(k)
  <2>1. PICK n \in TasksOf(k[1]) : n = <<k[1], k[2] + 1>>
    BY <1>3, TaskFacts DEF Retry
  <2>2. /\ execution[k] = "failed"
        /\ execution' = [execution EXCEPT ![k] = "over", ![n] = "running"]
        /\ UNCHANGED <<threads, handling, history, answers, undone, overlapped>>
    BY <1>3, <2>1 DEF Retry
  <2>3. n \in Tasks /\ n[1] = k[1] /\ n[2] = k[2] + 1 /\ n # k /\ k[2] \in Nat
    BY <2>1, TaskFacts
  <2>4. /\ execution'[k] = "over" /\ execution'[n] = "running"
        /\ \A l \in Tasks : l # k /\ l # n => execution'[l] = execution[l]
    BY <1>0, <2>2, <2>3
  <2>5. TypeOK'
    BY <1>0, <2>2 DEF TypeOK, answers, history
  <2>6. ASSUME NEW l \in TasksOf(k[1]) PROVE /\ reply[l].pc = "none"
                                             /\ l[2] < k[2] => execution[l] = "over"
                                             /\ l[2] > k[2] => execution[l] = "none"
    <3>1. l \in Tasks /\ l[1] = k[1] /\ Ordered(l) /\ k \in TasksOf(l[1])
      BY <1>0, <2>6, TaskFacts DEF Control
    <3>2. reply[l].pc = "none"
      BY <2>2, <3>1 DEF Ordered
    <3>3. l[2] < k[2] => execution[l] = "over"
      BY <1>0, <2>2 DEF Ordered
    <3>4. k[2] < l[2] /\ execution[l] # "none" => execution[k] = "over"
      BY <3>1 DEF Ordered
    <3>5. l[2] \in Nat
      BY <3>1, TaskFacts
    <3>6. QED BY <2>2, <2>3, <3>2, <3>3, <3>4, <3>5
  <2>7. ASSUME NEW l \in Tasks PROVE Ordered(l)'
    <3>1. Ordered(l)
      BY DEF Control
    <3>2. CASE l[1] # k[1]
      <4>1. \A j \in TasksOf(l[1]) : j \in Tasks /\ j # k /\ j # n
        BY <2>3, <3>2 DEF TasksOf
      <4>2. l # k /\ l # n
        BY <2>3, <3>2
      <4>3. QED BY <2>2, <2>4, <3>1, <4>1, <4>2 DEF Ordered, TasksOf, Of, answers, history
    <3>3. CASE l[1] = k[1]
      <4>0. l \in TasksOf(k[1]) /\ TasksOf(l[1]) = TasksOf(k[1]) /\ reply'[l].pc = "none" /\ l[2] \in Nat
        BY <2>2, <2>6, <3>3, TaskFacts DEF answers
      <4>1. handling'[l[1]].pc = "over" /\ Of(l[1])' \in Threads
        BY <1>0, <2>2, <3>3 DEF Ordered, Of
      <4>2. execution'[l] \in {"none", "running"} => \A r \in Roles : append'[<<l, r>>].pc = "none"
        <5>1. \A r \in Roles : append[<<n, r>>].pc = "none"
          <6>1. execution[n] = "none" /\ Ordered(n)
            BY <2>1, <2>3, <2>6 DEF Control
          <6>2. QED BY <6>1 DEF Ordered
        <5>2. QED BY <2>2, <2>4, <3>1, <5>1 DEF Ordered, history
      <4>3. execution'[l] # "none" => \A j \in TasksOf(l[1]) : j[2] < l[2] => execution'[j] = "over"
        <5>1. SUFFICES ASSUME execution'[l] # "none", NEW j \in TasksOf(k[1]), j[2] < l[2]
                       PROVE  execution'[j] = "over"
          BY <4>0
        <5>2. j \in Tasks /\ j[1] = k[1] /\ j[2] \in Nat
          BY TaskFacts
        <5>3. l[2] <= k[2] + 1
          BY <2>3, <2>4, <2>6, <4>0, <5>1
        <5>4. CASE j[2] = k[2]
          <6>1. j = k
            BY <5>2, <5>4, TaskFacts
          <6>2. QED BY <2>4, <6>1
        <5>5. CASE j[2] < k[2]
          <6>1. execution[j] = "over" /\ j # k /\ j # n
            BY <2>3, <2>6, <5>2, <5>5
          <6>2. QED BY <2>4, <5>2, <6>1
        <5>6. QED BY <2>3, <4>0, <5>1, <5>2, <5>3, <5>4, <5>5
      <4>4. QED BY <4>0, <4>1, <4>2, <4>3 DEF Ordered, TasksOf
    <3>4. QED BY <3>2, <3>3
  <2>8. \A l \in Tasks : l[1] # k[1] => execution'[l] = execution[l]
    BY <2>3, <2>4
  <2>9. QED BY <1>0, <2>2, <2>5, <2>7, <2>8 DEF TaskFrame, AtWork, answers, history
<1>4. CASE ReadRef(k)
  <2>1. PICK typing \in Messages \cup {Nothing} : typing = threads[Of(k[1])].typing
    BY <1>0, <1>4, <1>b, HistoryType DEF ReadRef
  <2>2. PICK pc \in {"posting", "updating", "clearing", "over"} :
          reply' = [reply EXCEPT ![k] = [pc |-> pc, slot |-> typing]]
    BY <1>4, <2>1 DEF ReadRef
  <2>3. /\ execution[k] = "accounting" /\ execution' = [execution EXCEPT ![k] = "over"]
        /\ UNCHANGED <<threads, handling, history, shown, posted, delivered, refLost, undone, overlapped>>
    BY <1>4 DEF ReadRef, Become
  <2>4. /\ reply' \in [Tasks -> [pc : {"none", "updating", "posting", "clearing", "over"},
                                 slot : Messages \cup {Nothing}]]
        /\ reply'[k].pc = pc
        /\ \A l \in Tasks : l # k => reply'[l] = reply[l]
    BY <1>0, <2>2, SetReplyEffect
  <2>5. TypeOK'
    BY <1>0, <2>3, <2>4 DEF TypeOK, history
  <2>6. execution'[k] = "over" /\ \A l \in Tasks : l # k => execution'[l] = execution[l]
    BY <1>0, <2>3
  <2>7. ASSUME NEW l \in TasksOf(k[1]) PROVE /\ reply[l].pc = "none"
                                             /\ l # k => execution[l] \in {"none", "over"}
    <3>1. l \in Tasks /\ l[1] = k[1] /\ Ordered(l) /\ k \in TasksOf(l[1]) /\ l[2] \in Nat /\ k[2] \in Nat
      BY <1>0, <2>7, TaskFacts DEF Control
    <3>2. reply[l].pc = "none"
      BY <2>3, <3>1 DEF Ordered
    <3>3. l[2] < k[2] => execution[l] = "over"
      BY <1>0, <2>3 DEF Ordered
    <3>4. k[2] < l[2] /\ execution[l] # "none" => execution[k] = "over"
      BY <3>1 DEF Ordered
    <3>5. l[2] = k[2] => l = k
      BY <3>1, TaskFacts
    <3>6. QED BY <2>3, <3>1, <3>2, <3>3, <3>4, <3>5
  <2>8. ASSUME NEW l \in Tasks PROVE Ordered(l)'
    <3>1. Ordered(l) /\ append' = append /\ handling' = handling
      BY <2>3 DEF Control, history
    <3>2. \A j \in TasksOf(l[1]) : j \in Tasks /\ j[1] = l[1]
      BY DEF TasksOf
    <3>3. execution'[l] # "none" => handling'[l[1]].pc = "over" /\ Of(l[1])' \in Threads
      BY <1>0, <2>3, <2>6, <3>1 DEF Ordered, Of
    <3>4. execution'[l] \in {"none", "running"} => \A r \in Roles : append'[<<l, r>>].pc = "none"
      BY <2>6, <3>1 DEF Ordered
    <3>5. execution'[l] # "none" => \A j \in TasksOf(l[1]) : j[2] < l[2] => execution'[j] = "over"
      BY <2>3, <2>6, <3>1, <3>2 DEF Ordered
    <3>6. reply'[l].pc # "none" =>
            /\ execution'[l] = "over"
            /\ \A j \in TasksOf(l[1]) : /\ execution'[j] \in {"none", "over"}
                                        /\ j # l => reply'[j].pc = "none"
      <4>1. CASE l[1] = k[1]
        <5>1. l \in TasksOf(k[1]) /\ TasksOf(l[1]) = TasksOf(k[1])
          BY <4>1, TaskFacts
        <5>2. l # k => reply'[l].pc = "none"
          BY <2>4, <2>7, <5>1
        <5>3. QED BY <2>4, <2>6, <2>7, <3>2, <5>1, <5>2
      <4>2. CASE l[1] # k[1]
        BY <2>4, <2>6, <3>1, <3>2, <4>2 DEF Ordered
      <4>3. QED BY <4>1, <4>2
    <3>7. QED BY <3>3, <3>4, <3>5, <3>6 DEF Ordered, TasksOf
  <2>9. \A l \in Tasks : l[1] # k[1] => execution'[l] = execution[l] /\ reply'[l] = reply[l]
    BY <2>4, <2>6
  <2>10. QED BY <1>0, <2>3, <2>5, <2>8, <2>9 DEF TaskFrame, AtWork, history
<1>5. CASE UpdateMessage(k)
  <2>1. /\ reply[k].pc = "updating" /\ reply' = [reply EXCEPT ![k].pc = "clearing"]
        /\ UNCHANGED <<threads, handling, execution, history, posted, refLost, undone, overlapped>>
        /\ shown' \in {shown, [shown EXCEPT ![reply[k].slot] = k[1]]}
        /\ delivered' \subseteq delivered \cup {k[1]}
    BY <1>5 DEF UpdateMessage
  <2>2. /\ reply' \in [Tasks -> [pc : {"none", "updating", "posting", "clearing", "over"},
                                 slot : Messages \cup {Nothing}]]
        /\ reply'[k].pc = "clearing"
        /\ \A l \in Tasks : l # k => reply'[l] = reply[l]
    BY <1>0, <2>1, ClearingEffect
  <2>3. TypeOK'
    <3>1. shown' \in [Messages -> Messages \cup {Nothing, Thinking}]
      BY <1>0, <2>1 DEF TypeOK
    <3>2. QED BY <1>0, <2>1, <2>2, <3>1 DEF TypeOK, history
  <2>4. \A l \in Tasks : Ordered(l)'
    BY <2>1, <2>2, AppendOrdered DEF history
  <2>5. QED BY <1>0, <2>1, <2>2, <2>3, <2>4 DEF TaskFrame, AtWork, history
<1>6. CASE ClearRef(k)
  <2>1. /\ reply[k].pc = "clearing"
        /\ reply' = [reply EXCEPT ![k] = [pc |-> "over", slot |-> Nothing]]
        /\ threads' = [threads EXCEPT ![Of(k[1])].typing = Nothing]
        /\ UNCHANGED <<handling, execution, history, shown, posted, delivered, refLost, undone, overlapped>>
    BY <1>6 DEF ClearRef, EndReply
  <2>2. /\ reply' \in [Tasks -> [pc : {"none", "updating", "posting", "clearing", "over"},
                                 slot : Messages \cup {Nothing}]]
        /\ reply'[k].pc = "over"
        /\ \A l \in Tasks : l # k => reply'[l] = reply[l]
    BY <1>0, <2>1, SetReplyEffect
  <2>3. threads' \in [Threads -> Thread]
    BY <1>0, <1>b, <1>d, <2>1, SetTypingEffect
  <2>4. TypeOK'
    BY <1>0, <2>1, <2>2, <2>3 DEF TypeOK, history
  <2>5. \A l \in Tasks : Ordered(l)'
    BY <2>1, <2>2, AppendOrdered DEF history
  <2>6. QED BY <1>0, <2>1, <2>2, <2>4, <2>5 DEF TaskFrame, AtWork, history
<1>7. CASE PostMessage(k) \/ DropReply(k)
  <2>1. /\ reply[k].pc \notin {"none", "over"}
        /\ reply' = [reply EXCEPT ![k] = [pc |-> "over", slot |-> Nothing]]
        /\ UNCHANGED <<threads, handling, execution, history, shown, undone, overlapped>>
        /\ posted' \subseteq posted \cup {k[1]} /\ delivered' \subseteq delivered \cup {k[1]}
    BY <1>7 DEF PostMessage, DropReply, EndReply
  <2>2. /\ reply' \in [Tasks -> [pc : {"none", "updating", "posting", "clearing", "over"},
                                 slot : Messages \cup {Nothing}]]
        /\ reply'[k].pc = "over"
        /\ \A l \in Tasks : l # k => reply'[l] = reply[l]
    BY <1>0, <2>1, SetReplyEffect
  <2>3. refLost' \in BOOLEAN
    BY <1>0, <1>7 DEF PostMessage, DropReply, TypeOK
  <2>4. TypeOK'
    BY <1>0, <2>1, <2>2, <2>3 DEF TypeOK, history
  <2>5. \A l \in Tasks : Ordered(l)'
    BY <2>1, <2>2, AppendOrdered DEF history
  <2>6. QED BY <1>0, <2>1, <2>2, <2>4, <2>5 DEF TaskFrame, AtWork, history
<1>8. ASSUME NEW r \in Roles, ReadHistory(k, r) PROVE TypeOK' /\ (\A l \in Tasks : Ordered(l)') /\ TaskFrame(k) /\ AtWork(k[1])
  <2>0. append[<<k, r>>].pc = "reading"
    BY <1>8 DEF ReadHistory
  <2> DEFINE v == [pc |-> "writing", seen |-> HistoryOf(k[1])]
  <2>1. v \in [pc : {"none", "reading", "writing", "over"}, seen : Seq(Entry)] /\ v.pc = "writing"
    <3>1. HistoryOf(k[1]) \in Seq(Entry)
      BY <1>0, <1>b, <1>c, <2>0, HistoryType DEF HistoryOf
    <3>2. QED BY <3>1
  <2>2. append' = [append EXCEPT ![<<k, r>>] = v]
    BY <1>8 DEF ReadHistory
  <2> HIDE DEF v
  <2>3. /\ append' \in [Tasks \X Roles -> [pc : {"none", "reading", "writing", "over"},
                                           seen : Seq(Entry)]]
        /\ append'[<<k, r>>].pc = "writing"
        /\ \A l \in Tasks, q \in Roles :
             <<l, q>> # <<k, r>> => append'[<<l, q>>] = append[<<l, q>>]
    BY <1>0, <2>1, <2>2, SetAppendEffect
  <2>4. UNCHANGED <<threads, handling, execution, since, later, raced, answers, undone, overlapped>>
    BY <1>8 DEF ReadHistory
  <2>5. TypeOK'
    BY <1>0, <2>3, <2>4 DEF TypeOK, answers
  <2>6. \A l \in Tasks, q \in Roles : (append'[<<l, q>>].pc = "none") = (append[<<l, q>>].pc = "none")
    BY <2>0, <2>3
  <2>7. \A l \in Tasks : Ordered(l)'
    BY <2>4, <2>6, AppendOrdered DEF answers
  <2>8. QED BY <1>0, <2>0, <2>3, <2>4, <2>5, <2>7 DEF TaskFrame, AtWork, answers
<1>9. ASSUME NEW r \in Roles, WriteHistory(k, r) \/ DropAppend(k, r)
      PROVE  TypeOK' /\ (\A l \in Tasks : Ordered(l)') /\ TaskFrame(k) /\ AtWork(k[1])
  <2>0. /\ append[<<k, r>>].pc \in {"reading", "writing"} /\ EndAppend(k, r)
        /\ UNCHANGED <<handling, execution, answers, undone, overlapped>>
    BY <1>9 DEF WriteHistory, DropAppend
  <2>1. /\ append' \in [Tasks \X Roles -> [pc : {"none", "reading", "writing", "over"},
                                           seen : Seq(Entry)]]
        /\ append'[<<k, r>>].pc = "over"
        /\ \A l \in Tasks, q \in Roles :
             <<l, q>> # <<k, r>> => append'[<<l, q>>] = append[<<l, q>>]
    BY <1>0, <2>0, EndAppendEffect
  <2>2. TypeOK'
    <3>1. CASE DropAppend(k, r)
      BY <1>0, <2>0, <2>1, <3>1 DEF TypeOK, DropAppend, answers
    <3>2. CASE WriteHistory(k, r)
      <4>1. <<k, r>> \in Writers /\ {k[1]} \in Entry /\ Of(k[1]) \in Threads
        BY <1>0, <1>b, <1>c, <2>0 DEF Writers, Entry
      <4>2. append[<<k, r>>].seen \in Seq(Entry)
        BY <1>0, AppendType
      <4>3. WriteEntry(k[1], <<k, r>>, append[<<k, r>>].seen, {k[1]})
        BY <3>2 DEF WriteHistory
      <4>4. /\ threads' \in [Threads -> Thread] /\ raced' \subseteq Messages
            /\ later' \in [Messages -> SUBSET Writers]
        BY <1>0, <4>1, <4>2, <4>3, WriteEntryType
      <4>5. since' \in [Threads -> SUBSET Messages]
        BY <1>0, <3>2 DEF WriteHistory, TypeOK
      <4>6. QED BY <1>0, <2>0, <2>1, <4>4, <4>5 DEF TypeOK, answers
    <3>3. QED BY <1>9, <3>1, <3>2
  <2>3. \A l \in Tasks, q \in Roles : (append'[<<l, q>>].pc = "none") = (append[<<l, q>>].pc = "none")
    BY <2>0, <2>1
  <2>4. \A l \in Tasks : Ordered(l)'
    BY <2>0, <2>3, AppendOrdered DEF answers
  <2>5. QED BY <1>0, <2>0, <2>1, <2>2, <2>4 DEF TaskFrame, AtWork, answers
<1>10. QED
  BY <1>1, <1>2, <1>3, <1>4, <1>5, <1>6, <1>7, <1>8, <1>9 DEF TaskStep

LEMMA LookupMoves ==
  ASSUME Control, NEW e \in Events, Lookup(e)
  PROVE  /\ TypeOK' /\ Placed(e)' /\ handling[e].pc = "new"
         /\ \A f \in Events \ {e} : handling'[f] = handling[f]
         /\ UNCHANGED <<threads, execution, history, answers, undone>>
         /\ overlapped' = (overlapped \/ Busy # {})
         /\ \/ Known = {} /\ handling'[e].pc = "creating"
            \/ /\ handling'[e].pc = "found" /\ handling'[e].thread \in Known
               /\ handling'[e].seen = threads[handling'[e].thread].history
<1>0. /\ TypeOK /\ Placed(e) /\ handling[e].pc = "new" /\ overlapped' = (overlapped \/ Busy # {})
      /\ UNCHANGED <<threads, execution, history, answers, undone>>
  BY DEF Lookup, Control
<1>1. CASE Known = {} /\ Goto(e, "creating")
  <2>1. "creating" \in HandlerPcs
    BY DEF HandlerPcs
  <2>2. /\ handling' \in [Events -> Handling]
        /\ handling'[e].pc = "creating" /\ handling'[e].thread = handling[e].thread
        /\ handling'[e].seen = handling[e].seen /\ handling'[e].told = handling[e].told
        /\ \A f \in Events \ {e} : handling'[f] = handling[f]
    BY <1>0, <1>1, <2>1, GotoEffect
  <2>3. TypeOK'
    BY <1>0, <2>2 DEF TypeOK, history, answers
  <2>4. QED BY <1>0, <1>1, <2>2, <2>3 DEF Placed, Of
<1>2. ASSUME NEW t \in Known,
             handling' = [handling EXCEPT
               ![e] = [@ EXCEPT !.pc = "found", !.thread = t, !.seen = threads[t].history]]
      PROVE  /\ TypeOK' /\ Placed(e)' /\ handling'[e].pc = "found" /\ handling'[e].thread = t
             /\ handling'[e].seen = threads[t].history
             /\ \A f \in Events \ {e} : handling'[f] = handling[f]
  <2>1. t \in Threads
    BY DEF Known
  <2>2. PICK seen \in Seq(Entry) : seen = threads[t].history
    BY <1>0, <2>1, HistoryType
  <2>3. handling' = [handling EXCEPT ![e] = [handling[e] EXCEPT
                       !.pc = "found", !.thread = t, !.seen = seen]]
    BY <1>2, <2>2
  <2>4. /\ handling' \in [Events -> Handling]
        /\ handling'[e].pc = "found" /\ handling'[e].thread = t /\ handling'[e].seen = seen
        /\ \A f \in Events \ {e} : handling'[f] = handling[f]
    BY <1>0, <2>1, <2>3, FoundEffect
  <2>5. TypeOK'
    BY <1>0, <2>4 DEF TypeOK, history, answers
  <2>6. QED BY <2>1, <2>2, <2>4, <2>5 DEF Placed, Of
<1>3. QED BY <1>0, <1>1, <1>2 DEF Lookup

(* The steps of an event's handler and of its tasks are all there are.       *)
LEMMA StepOfAnEvent ==
  ASSUME [Next]_vars
  PROVE  \/ UNCHANGED vars
         \/ \E e \in Events : Lookup(e) \/ HandlerStep(e)
         \/ \E k \in Tasks : TaskStep(k)
BY DEF Next, Work, TasksOf

LEMMA NextControl == Control /\ [Next]_vars => Control'
<1> SUFFICES ASSUME Control, [Next]_vars PROVE Control'
  OBVIOUS
<1>0. TypeOK /\ (\A e \in Events : Placed(e)) /\ \A k \in Tasks : Ordered(k)
  BY DEF Control
<1>1. ASSUME NEW e \in Events, \A f \in Events \ {e} : handling'[f] = handling[f]
      PROVE  \A f \in Events \ {e} : Placed(f)'
  BY <1>0, <1>1 DEF Placed, Of
<1>2. ASSUME NEW e \in Events, Lookup(e) PROVE Control'
  <2>1. /\ TypeOK' /\ Placed(e)' /\ handling[e].pc = "new"
        /\ \A f \in Events \ {e} : handling'[f] = handling[f]
        /\ UNCHANGED <<execution, reply, append>>
    BY <1>2, LookupMoves DEF history, answers
  <2>2. ASSUME NEW k \in Tasks PROVE Ordered(k)'
    <3>1. Ordered(k) /\ k[1] \in Events
      BY <1>0, TaskFacts
    <3>2. execution[k] # "none" => handling'[k[1]] = handling[k[1]]
      BY <2>1, <3>1 DEF Ordered
    <3>3. QED BY <2>1, <3>1, <3>2 DEF Ordered, TasksOf, Of
  <2>3. QED BY <1>1, <2>1, <2>2 DEF Control
<1>3. ASSUME NEW e \in Events, HandlerStep(e) PROVE Control'
  <2>1. /\ TypeOK' /\ Placed(e)'
        /\ \A f \in Events \ {e} : handling'[f] = handling[f]
        /\ handling[e].pc \notin {"new", "over"}
        /\ append' = append /\ reply' = reply
        /\ \/ execution' = execution
           \/ /\ e \in Messages /\ handling[e].thread \in Threads
              /\ handling'[e].pc = "over" /\ handling'[e].thread = handling[e].thread
              /\ execution' = [execution EXCEPT ![<<e, 0>>] = "running"]
    BY <1>3, HandlerMoves
  <2>2. ASSUME NEW k \in Tasks PROVE Ordered(k)'
    <3>1. /\ Ordered(k) /\ k[1] \in Events /\ k[2] \in Nat /\ k = <<k[1], k[2]>>
          /\ \A l \in TasksOf(k[1]) : l \in Tasks /\ l[1] = k[1] /\ l[2] \in Nat /\ l = <<l[1], l[2]>>
      BY <1>0, TaskFacts
    <3>2. CASE k[1] # e
      <4>1. handling'[k[1]] = handling[k[1]]
        BY <2>1, <3>1, <3>2
      <4>2. \A l \in TasksOf(k[1]) : l # <<e, 0>>
        BY <3>1, <3>2
      <4>3. k # <<e, 0>>
        BY <3>2
      <4>4. execution'[k] = execution[k] /\ \A l \in TasksOf(k[1]) : execution'[l] = execution[l]
        BY <1>0, <2>1, <3>1, <4>2, <4>3 DEF TypeOK
      <4>5. QED BY <2>1, <3>1, <4>1, <4>4 DEF Ordered, TasksOf, Of
    <3>3. CASE k[1] = e
      <4>1. \A l \in TasksOf(e) : execution[l] = "none" /\ reply[l].pc = "none"
        <5>1. \A l \in TasksOf(e) : l \in Tasks /\ l[1] = e /\ Ordered(l)
          BY <1>0, <3>1, <3>3
        <5>2. QED BY <2>1, <5>1 DEF Ordered
      <4>2. k \in TasksOf(e) /\ TasksOf(k[1]) = TasksOf(e)
        BY <3>3, TaskFacts
      <4>3. \A r \in Roles : append[<<k, r>>].pc = "none"
        BY <3>1, <4>1, <4>2 DEF Ordered
      <4>4. CASE execution' = execution
        BY <2>1, <4>1, <4>2, <4>3, <4>4 DEF Ordered, TasksOf
      <4>5. CASE /\ e \in Messages /\ handling[e].thread \in Threads
                 /\ handling'[e].pc = "over" /\ handling'[e].thread = handling[e].thread
                 /\ execution' = [execution EXCEPT ![<<e, 0>>] = "running"]
        <5>1. k[2] = 0 \/ execution'[k] = "none"
          <6>1. k[2] # 0 => k # <<e, 0>>
            BY <3>1
          <6>2. QED BY <1>0, <4>1, <4>2, <4>5, <6>1 DEF TypeOK
        <5>2. k[2] = 0 => \A l \in TasksOf(e) : ~ (l[2] < k[2])
          BY <3>1, <3>3
        <5>3. execution'[k] # "none" => \A l \in TasksOf(k[1]) : l[2] < k[2] => execution'[l] = "over"
          BY <4>2, <5>1, <5>2
        <5>4. handling'[k[1]].pc = "over" /\ Of(k[1])' \in Threads
          BY <3>3, <4>5 DEF Of
        <5>5. QED BY <2>1, <4>1, <4>2, <4>3, <5>3, <5>4 DEF Ordered, TasksOf
      <4>6. QED BY <2>1, <4>4, <4>5
    <3>4. QED BY <3>2, <3>3
  <2>3. QED BY <1>1, <2>1, <2>2 DEF Control
<1>4. ASSUME NEW k \in Tasks, TaskStep(k) PROVE Control'
  <2>1. TypeOK' /\ (\A l \in Tasks : Ordered(l)') /\ handling' = handling
    BY <1>4, TaskMoves DEF TaskFrame
  <2>2. QED BY <1>0, <2>1 DEF Control, Placed, Of
<1>5. CASE UNCHANGED vars
  <2>1. UNCHANGED <<threads, handling, execution, append, since, later, raced, reply, shown,
                    posted, delivered, refLost, undone, overlapped>>
    BY <1>5 DEF vars, history, answers
  <2>2. TypeOK'
    BY <1>0, <2>1 DEF TypeOK
  <2>3. QED BY <1>0, <2>1, <2>2 DEF Control, Placed, Ordered, TasksOf, Of
<1>6. QED BY <1>2, <1>3, <1>4, <1>5, StepOfAnEvent

LEMMA ControlInvariance == Spec => []Control
BY InitControl, NextControl, PTL DEF Spec

-----------------------------------------------------------------------------
(* One event at a time *)

(* While no events overlap one is at work at most, and a row is made only    *)
(* when there is none.                                                       *)
Serial ==
  ~overlapped =>
    /\ \A e, f \in Busy : e = f
    /\ \A e \in Events : handling[e].pc = "creating" => Known = {}
    /\ \A s, t \in Known : s = t

(* Work is done for an event that is at work, and puts no other to work.     *)
LEMMA WorkIsOfTheBusy ==
  ASSUME Control, NEW e \in Events, HandlerStep(e) \/ \E k \in TasksOf(e) : TaskStep(k)
  PROVE  e \in Busy /\ \A f \in Events \ {e} : AtWork(f)' => AtWork(f)
<1>1. CASE HandlerStep(e)
  <2>1. /\ \A f \in Events \ {e} : handling'[f] = handling[f]
        /\ handling[e].pc \notin {"new", "over"} /\ append' = append /\ reply' = reply
        /\ \A k \in Tasks : k[1] # e => execution'[k] = execution[k]
    <3>1. \A k \in Tasks : k[1] # e => k # <<e, 0>>
      OBVIOUS
    <3>2. /\ \A f \in Events \ {e} : handling'[f] = handling[f]
          /\ handling[e].pc \notin {"new", "over"} /\ append' = append /\ reply' = reply
          /\ \/ execution' = execution
             \/ execution' = [execution EXCEPT ![<<e, 0>>] = "running"]
      BY <1>1, HandlerMoves
    <3>3. DOMAIN execution = Tasks
      BY DEF Control, TypeOK
    <3>4. QED BY <3>1, <3>2, <3>3
  <2>2. \A f \in Events \ {e} : \A k \in TasksOf(f) : k \in Tasks /\ k[1] # e
    BY DEF TasksOf
  <2>3. QED BY <2>1, <2>2 DEF AtWork, Busy, TasksOf
<1>2. ASSUME NEW k \in TasksOf(e), TaskStep(k)
      PROVE  e \in Busy /\ \A f \in Events \ {e} : AtWork(f)' => AtWork(f)
  <2>1. k \in Tasks /\ k[1] = e
    BY DEF TasksOf
  <2>2. TaskFrame(k) /\ AtWork(e)
    BY <1>2, <2>1, TaskMoves
  <2>3. \A f \in Events \ {e} : \A l \in TasksOf(f) : l \in Tasks /\ l[1] # e
    BY DEF TasksOf
  <2>4. \A f \in Events \ {e} : \A l \in TasksOf(f) :
          /\ execution'[l] = execution[l] /\ reply'[l] = reply[l]
          /\ \A r \in Roles : append'[<<l, r>>] = append[<<l, r>>]
    BY <2>1, <2>2, <2>3 DEF TaskFrame
  <2>5. ASSUME NEW f \in Events \ {e}, AtWork(f)' PROVE AtWork(f)
    <3>1. handling' = handling
      BY <2>2 DEF TaskFrame
    <3>2. QED BY <2>4, <2>5, <3>1 DEF AtWork
  <2>6. e \in Busy
    BY <2>2 DEF Busy
  <2>7. QED BY <2>5, <2>6
<1>3. QED BY <1>1, <1>2

(* Only CreateThread makes a row.                                            *)
LEMMA KnownStep ==
  ASSUME Control, [Next]_vars
  PROVE  Known' = Known \/ \E e \in Events : handling[e].pc = "creating" /\ Known' = Known \cup {e}
<1>0. TypeOK /\ (\A e \in Events : Placed(e)) /\ (\A k \in Tasks : Ordered(k))
  BY DEF Control
<1>1. ASSUME \A t \in Threads : threads'[t].there = threads[t].there PROVE Known' = Known
  BY <1>1 DEF Known, Threads
<1>2. ASSUME NEW e \in Events, HandlerStep(e)
      PROVE  Known' = Known \/ (handling[e].pc = "creating" /\ Known' = Known \cup {e})
  <2>0. handling[e].seen \in Seq(Entry) /\ handling[e].told \in Entry /\ <<>> \in Seq(Entry)
    BY <1>0, HandlingType
  <2>1. CASE CreateThread(e)
    <3>1. /\ handling[e].pc = "creating" /\ threads' = [threads EXCEPT ![e].there = TRUE]
          /\ e \in Threads
      BY <2>1 DEF CreateThread, Threads
    <3>2. /\ threads'[e].there = TRUE
          /\ \A s \in Threads \ {e} : threads'[s].there = threads[s].there
      BY <1>0, <3>1, SetThereEffect
    <3>3. QED BY <3>1, <3>2 DEF Known, Threads
  <2>2. CASE ShowTyping(e) \/ NoTyping(e) \/ CreateTask(e) \/ ReadForSummary(e) \/ Drop(e)
    BY <1>1, <2>2 DEF ShowTyping, NoTyping, CreateTask, ReadForSummary, Drop
  <2>3. CASE StoreTyping(e)
    <3>1. Of(e) \in Threads /\ e \in Messages /\ threads' = [threads EXCEPT ![Of(e)].typing = e]
      BY <1>0, <2>3 DEF StoreTyping, Placed
    <3>2. QED BY <1>0, <1>1, <3>1, SetTypingEffect
  <2>4. CASE Reset(e) \/ Compact(e)
    <3>1. Of(e) \in Threads /\ threads' = [threads EXCEPT ![Of(e)].history = <<>>]
      BY <1>0, <2>4 DEF Reset, Compact, SetHistory, Placed
    <3>2. QED BY <1>0, <1>1, <2>0, <3>1, SetHistoryEffect
  <2>5. CASE WriteSummary(e)
    <3>1. /\ Of(e) \in Threads /\ e \in Writers
          /\ WriteEntry(e, e, handling[e].seen, handling[e].told)
      BY <1>0, <2>5 DEF WriteSummary, Placed, Writers
    <3>2. QED BY <1>0, <1>1, <2>0, <3>1, WriteEntryType
  <2>6. QED BY <1>2, <2>1, <2>2, <2>3, <2>4, <2>5 DEF HandlerStep
<1>3. ASSUME NEW k \in Tasks, TaskStep(k) PROVE Known' = Known
  <2>0. /\ k[1] \in Messages /\ k[1] \in Events /\ Ordered(k)
        /\ \A r \in Roles : append[<<k, r>>].seen \in Seq(Entry)
    BY <1>0, TaskFacts, AppendType
  <2>1. CASE ClearRef(k)
    <3>1. Of(k[1]) \in Threads /\ threads' = [threads EXCEPT ![Of(k[1])].typing = Nothing]
      BY <2>0, <2>1 DEF ClearRef, Ordered
    <3>2. QED BY <1>0, <1>1, <3>1, SetTypingEffect
  <2>2. ASSUME NEW r \in Roles, WriteHistory(k, r) PROVE Known' = Known
    <3>1. /\ Of(k[1]) \in Threads /\ <<k, r>> \in Writers /\ {k[1]} \in Entry
          /\ WriteEntry(k[1], <<k, r>>, append[<<k, r>>].seen, {k[1]})
      BY <2>0, <2>2 DEF WriteHistory, Ordered, Writers, Entry
    <3>2. QED BY <1>0, <1>1, <2>0, <3>1, WriteEntryType
  <2>3. CASE threads' = threads
    BY <1>1, <2>3
  <2>4. QED
    BY <1>3, <2>1, <2>2, <2>3
       DEF TaskStep, Complete, Fail, Retry, ReadRef, UpdateMessage, PostMessage, DropReply,
           ReadHistory, DropAppend
<1>4. CASE UNCHANGED vars \/ \E e \in Events : Lookup(e)
  BY <1>1, <1>4 DEF vars, Lookup
<1>5. QED BY <1>2, <1>3, <1>4, StepOfAnEvent

LEMMA NextSerial == Control /\ Serial /\ [Next]_vars => Serial'
<1> SUFFICES ASSUME Control, Serial, [Next]_vars, ~overlapped' PROVE
      /\ \A e, f \in Busy' : e = f
      /\ \A e \in Events : handling'[e].pc = "creating" => Known' = {}
      /\ \A s, t \in Known' : s = t
  BY DEF Serial
<1>0. /\ Known' = Known \/ \E e \in Events : handling[e].pc = "creating" /\ Known' = Known \cup {e}
      /\ TypeOK
  BY KnownStep DEF Control
<1>1. ASSUME NEW e \in Events, HandlerStep(e) \/ \E k \in TasksOf(e) : TaskStep(k), ~overlapped
      PROVE  /\ \A f, g \in Busy' : f = g
             /\ \A f \in Events : handling'[f].pc = "creating" => Known' = {}
             /\ \A s, t \in Known' : s = t
  <2>1. /\ \A f, g \in Busy : f = g
        /\ \A f \in Events : handling[f].pc = "creating" => Known = {}
        /\ \A s, t \in Known : s = t
    BY <1>1 DEF Serial
  <2>2. e \in Busy /\ \A f \in Events \ {e} : AtWork(f)' => AtWork(f)
    BY <1>1, WorkIsOfTheBusy
  <2>3. \A f \in Busy' : f = e
    BY <2>1, <2>2 DEF Busy
  <2>4. \A s, t \in Known' : s = t
    BY <1>0, <2>1
  <2>5. \A f \in Events : handling'[f].pc # "creating"
    <3>1. \A f \in Events \ {e} : handling'[f].pc # "creating"
      <4>1. \A f \in Events : handling'[f].pc = "creating" => f \in Busy'
        BY DEF Busy, AtWork
      <4>2. QED BY <2>3, <4>1
    <3>2. handling'[e].pc # "creating"
      <4>1. CASE HandlerStep(e)
        <5>1. CASE CreateThread(e)
          <6>1. handling' = [handling EXCEPT ![e] = [handling[e] EXCEPT !.pc = "found", !.thread = e]]
            BY <5>1 DEF CreateThread
          <6>2. handling[e] \in Handling
            BY <1>0 DEF TypeOK
          <6>3. [handling[e] EXCEPT !.pc = "found", !.thread = e].pc = "found"
            BY <6>2 DEF Handling
          <6>4. handling'[e] = [handling[e] EXCEPT !.pc = "found", !.thread = e]
            BY <1>0, <6>1 DEF TypeOK
          <6>5. QED BY <6>3, <6>4
        <5>2. CASE NoTyping(e) \/ StoreTyping(e)
          BY <1>0, <5>2, GotoEffect DEF NoTyping, StoreTyping, HandlerPcs
        <5>3. CASE ShowTyping(e)
          BY <5>3 DEF ShowTyping
        <5>4. CASE CreateTask(e) \/ Drop(e) \/ Reset(e) \/ WriteSummary(e)
          BY <1>0, <5>4, FinishEffect DEF CreateTask, Drop, Reset, WriteSummary
        <5>5. CASE Compact(e) \/ ReadForSummary(e)
          <6>1. handling[e] \in Handling
            BY <1>0 DEF TypeOK
          <6>2. CASE Compact(e)
            <7> DEFINE new == [handling[e] EXCEPT !.pc = "compacting",
                                                  !.told = Mentioned(handling[e].seen)]
            <7>1. new.pc = "compacting"
              BY <6>1 DEF Handling
            <7>2. handling' = [handling EXCEPT ![e] = new]
              BY <6>2 DEF Compact
            <7> HIDE DEF new
            <7>3. QED BY <1>0, <7>1, <7>2 DEF TypeOK
          <6>3. CASE ReadForSummary(e)
            <7> DEFINE new == [handling[e] EXCEPT !.pc = "summarising", !.seen = HistoryOf(e)]
            <7>1. new.pc = "summarising"
              BY <6>1 DEF Handling
            <7>2. handling' = [handling EXCEPT ![e] = new]
              BY <6>3 DEF ReadForSummary
            <7> HIDE DEF new
            <7>3. QED BY <1>0, <7>1, <7>2 DEF TypeOK
          <6>4. QED BY <5>5, <6>2, <6>3
        <5>6. QED BY <4>1, <5>1, <5>2, <5>3, <5>4, <5>5 DEF HandlerStep
      <4>2. ASSUME NEW k \in TasksOf(e), TaskStep(k) PROVE handling'[e].pc # "creating"
        <5>1. k \in Tasks /\ k[1] = e
          BY DEF TasksOf
        <5>2. AtWork(e) /\ handling' = handling /\ (\A l \in Tasks : Ordered(l)')
          BY <4>2, <5>1, TaskMoves DEF TaskFrame
        <5>3. execution[k] # "none"
          <6>1. Ordered(k)
            BY <5>1 DEF Control
          <6>2. QED
            BY <4>2, <6>1 DEF TaskStep, Ordered, Complete, Fail, Retry, ReadRef, UpdateMessage,
               ClearRef, PostMessage, DropReply, ReadHistory, WriteHistory, DropAppend
        <5>4. QED BY <5>1, <5>2, <5>3 DEF Control, Ordered
      <4>3. QED BY <1>1, <4>1, <4>2
    <3>3. QED BY <3>1, <3>2
  <2>6. QED BY <2>3, <2>4, <2>5
<1>2. ASSUME NEW e \in Events, Lookup(e)
      PROVE  /\ \A f, g \in Busy' : f = g
             /\ \A f \in Events : handling'[f].pc = "creating" => Known' = {}
             /\ \A s, t \in Known' : s = t
  <2>1. /\ \A f \in Events \ {e} : handling'[f] = handling[f]
        /\ UNCHANGED <<threads, execution, append, reply>>
        /\ ~overlapped /\ Busy = {}
        /\ handling'[e].pc = "creating" => Known = {}
    BY <1>2, LookupMoves DEF history, answers
  <2>2. \A f \in Events \ {e} : f \notin Busy'
    BY <2>1 DEF Busy, AtWork, TasksOf
  <2>3. \A f \in Events \ {e} : handling'[f].pc # "creating"
    BY <2>2 DEF Busy, AtWork
  <2>4. Known' = Known /\ \A s, t \in Known : s = t
    BY <2>1 DEF Known, Serial
  <2>5. \A f \in Busy' : f = e
    BY <2>2 DEF Busy
  <2>6. QED BY <2>1, <2>3, <2>4, <2>5
<1>3. CASE UNCHANGED vars
  <2>1. UNCHANGED <<threads, handling, execution, append, reply, overlapped>>
    BY <1>3 DEF vars, history, answers
  <2>2. Busy' = Busy /\ Known' = Known /\ ~overlapped
    BY <2>1 DEF Busy, AtWork, TasksOf, Known
  <2>3. QED BY <2>1, <2>2 DEF Serial
<1>4. ASSUME NEW k \in Tasks, TaskStep(k) PROVE ~overlapped
  BY <1>4 DEF TaskStep, Complete, Fail, Retry, ReadRef, UpdateMessage,
     ClearRef, PostMessage, DropReply, ReadHistory, WriteHistory, DropAppend
<1>5. ASSUME NEW e \in Events, HandlerStep(e) PROVE ~overlapped
  BY <1>5 DEF HandlerStep, CreateThread, ShowTyping, NoTyping, StoreTyping, CreateTask, Drop,
     Reset, Compact, ReadForSummary, WriteSummary
<1>6. \A k \in Tasks : k[1] \in Events /\ k \in TasksOf(k[1])
  BY TaskFacts
<1>7. QED BY <1>1, <1>2, <1>3, <1>4, <1>5, <1>6, StepOfAnEvent

LEMMA InitSerial == Init => Serial
<1> SUFFICES ASSUME Init PROVE Serial
  OBVIOUS
<1>1. \A e \in Events : handling[e].pc = "new"
  BY DEF Init
<1>2. \A k \in Tasks : /\ execution[k] = "none" /\ reply[k].pc = "none"
                       /\ \A r \in Roles : append[<<k, r>>].pc = "none"
  BY DEF Init
<1>3. Busy = {}
  BY <1>1, <1>2 DEF Busy, AtWork, TasksOf
<1>4. Known = {}
  BY DEF Init, Known
<1>5. QED BY <1>1, <1>3, <1>4 DEF Serial

LEMMA SerialInvariance == Spec => []Serial
BY InitSerial, NextSerial, ControlInvariance, PTL DEF Spec

-----------------------------------------------------------------------------
(* Theorems: types and rows *)

(* Rows, handlers, tasks, appends and replies are well-formed, for any       *)
(* number of messages, commands, retries and rejected awaits.                *)
THEOREM ThreadTypes == Spec => []TypeOK
<1>1. Control => TypeOK
  BY DEF Control
<1>2. QED BY <1>1, ControlInvariance, PTL

(* One external thread has one row, unless events came at the same time.     *)
THEOREM OneThread == Spec => []SerialOneThread
<1>1. ASSUME Serial, ~overlapped PROVE Cardinality(Known) <= 1
  <2>1. \A s, t \in Known : s = t
    BY <1>1 DEF Serial
  <2>2. CASE Known = {}
    BY <2>2, FS_EmptySet
  <2>3. CASE Known # {}
    <3>1. PICK s : s \in Known
      BY <2>3
    <3>2. Known = {s}
      BY <2>1, <3>1
    <3>3. Cardinality({s}) = 1
      BY FS_Singleton
    <3>4. QED BY <3>2, <3>3
  <2>4. QED BY <2>2, <2>3
<1>2. Serial => SerialOneThread
  BY <1>1 DEF SerialOneThread, Known
<1>3. QED BY <1>2, SerialInvariance, PTL

-----------------------------------------------------------------------------
(* What a step does to the histories *)

Quiet ==
  /\ \A t \in Threads : threads'[t].history = threads[t].history
  /\ UNCHANGED <<since, later, raced, undone>>

ClearsRow(e) ==
  /\ e \in Commands /\ handling[e].pc = "found" /\ Of(e) \in Threads /\ Of(e)' = Of(e)
  /\ threads'[Of(e)].history = <<>>
  /\ \A t \in Threads \ {Of(e)} : threads'[t].history = threads[t].history

(* The last disjuncts are /reset, the three steps of /compact, and others.   *)
HandlerWrites(e) ==
  \/ /\ Quiet /\ handling[e].pc = "creating" /\ handling'[e].pc = "found"
     /\ handling'[e].seen = <<>> /\ Of(e)' \in Threads
  \/ Quiet /\ Of(e)' = Of(e) /\ handling'[e] = handling[e]
  \/ Quiet /\ Of(e)' = Of(e) /\ handling'[e].pc \in {"ready", "over"}
  \/ ClearsRow(e) /\ Reset(e) /\ handling'[e].pc = "over"
  \/ /\ ClearsRow(e) /\ Len(handling[e].seen) >= CompactFrom /\ UNCHANGED <<since, later, undone>>
     /\ handling'[e].pc = "compacting" /\ handling'[e].told = Mentioned(handling[e].seen)
     /\ raced' = raced \cup Mentioned(handling[e].seen)
  \/ /\ Quiet /\ handling[e].pc = "compacting" /\ Of(e)' = Of(e) /\ Of(e) \in Threads
     /\ e \in Commands
     /\ handling'[e].pc = "summarising" /\ handling'[e].told = handling[e].told
     /\ handling'[e].seen = threads[Of(e)].history
  \/ /\ handling[e].pc = "summarising" /\ handling'[e].pc = "over" /\ e \in Commands
     /\ Of(e) \in Threads /\ Of(e)' = Of(e) /\ UNCHANGED <<since, undone>>
     /\ WriteEntry(e, e, handling[e].seen, handling[e].told)
     /\ threads'[Of(e)].history = Appended(handling[e].seen, handling[e].told)
     /\ \A t \in Threads \ {Of(e)} : threads'[t].history = threads[t].history

LEMMA HandlerHistory ==
  ASSUME Control, NEW e \in Events, HandlerStep(e)
  PROVE  HandlerWrites(e) /\ append' = append
<1>0. /\ TypeOK /\ Placed(e) /\ handling[e] \in Handling
      /\ handling[e].seen \in Seq(Entry) /\ handling[e].told \in Entry
      /\ append' = append /\ <<>> \in Seq(Entry) /\ DOMAIN handling = Events
  <2>1. TypeOK /\ Placed(e)
    BY DEF Control
  <2>2. append' = append
    BY HandlerMoves
  <2>3. handling[e] \in Handling /\ DOMAIN handling = Events
    BY <2>1 DEF TypeOK
  <2>4. handling[e].seen \in Seq(Entry) /\ handling[e].told \in Entry
    BY <2>1, HandlingType
  <2>5. <<>> \in Seq(Entry)
    OBVIOUS
  <2>6. QED BY <2>1, <2>2, <2>3, <2>4, <2>5
<1>1. CASE CreateThread(e)
  <2> DEFINE new == [handling[e] EXCEPT !.pc = "found", !.thread = e]
  <2>1. new.pc = "found" /\ new.thread = e /\ new.seen = handling[e].seen
    BY <1>0 DEF Handling
  <2>2. handling' = [handling EXCEPT ![e] = new] /\ handling[e].pc = "creating"
    BY <1>1 DEF CreateThread
  <2> HIDE DEF new
  <2>3. handling'[e] = new
    BY <1>0, <2>2
  <2>4. handling[e].seen = <<>>
    BY <1>0, <2>2 DEF Placed
  <2>5. \A t \in Threads : threads'[t].history = threads[t].history
    <3>1. e \in Threads /\ threads' = [threads EXCEPT ![e].there = TRUE]
      BY <1>1 DEF CreateThread, Threads
    <3>2. QED BY <1>0, <3>1, SetThereEffect
  <2>6. Quiet
    BY <1>1, <2>5 DEF Quiet, CreateThread, history
  <2>7. QED BY <1>0, <2>1, <2>2, <2>3, <2>4, <2>6 DEF HandlerWrites, Of, Threads
<1>2. CASE ShowTyping(e)
  <2>1. Quiet /\ handling' = handling
    BY <1>2 DEF ShowTyping, Quiet, history
  <2>2. QED BY <1>0, <2>1 DEF HandlerWrites, Of
<1>3. CASE NoTyping(e) \/ StoreTyping(e)
  <2>1. Goto(e, "ready") /\ "ready" \in HandlerPcs /\ handling[e].pc = "found"
    BY <1>3 DEF NoTyping, StoreTyping, HandlerPcs
  <2>2. handling'[e].pc = "ready" /\ handling'[e].thread = handling[e].thread
    BY <1>0, <2>1, GotoEffect
  <2>3. \A t \in Threads : threads'[t].history = threads[t].history
    <3>1. CASE NoTyping(e)
      BY <3>1 DEF NoTyping
    <3>2. CASE StoreTyping(e)
      <4>1. /\ Of(e) \in Threads /\ e \in Messages
            /\ threads' = [threads EXCEPT ![Of(e)].typing = e]
        BY <1>0, <2>1, <3>2 DEF StoreTyping, Placed
      <4>2. QED BY <1>0, <4>1, SetTypingEffect
    <3>3. QED BY <1>3, <3>1, <3>2
  <2>4. Quiet
    BY <1>3, <2>3 DEF NoTyping, StoreTyping, Quiet, history
  <2>5. QED BY <1>0, <2>2, <2>4 DEF HandlerWrites, Of
<1>4. CASE CreateTask(e) \/ Drop(e)
  <2>1. Finish(e) /\ Quiet
    BY <1>4 DEF CreateTask, Drop, Quiet, history
  <2>2. handling'[e].pc = "over" /\ handling'[e].thread = handling[e].thread
    BY <1>0, <2>1, FinishEffect
  <2>3. QED BY <1>0, <2>1, <2>2 DEF HandlerWrites, Of
<1>5. CASE Reset(e)
  <2>1. /\ Finish(e) /\ e \in Commands /\ handling[e].pc = "found" /\ Of(e) \in Threads
        /\ threads' = [threads EXCEPT ![Of(e)].history = <<>>]
    BY <1>0, <1>5 DEF Reset, SetHistory, Placed
  <2>2. handling'[e].pc = "over" /\ handling'[e].thread = handling[e].thread
    BY <1>0, <2>1, FinishEffect
  <2>3. /\ threads'[Of(e)].history = <<>>
        /\ \A t \in Threads \ {Of(e)} : threads'[t].history = threads[t].history
    BY <1>0, <2>1, SetHistoryEffect
  <2>4. QED BY <1>0, <1>5, <2>1, <2>2, <2>3 DEF HandlerWrites, ClearsRow, Of
<1>6. CASE Compact(e)
  <2> DEFINE told == Mentioned(handling[e].seen)
             new == [handling[e] EXCEPT !.pc = "compacting", !.told = told]
  <2>1. new.pc = "compacting" /\ new.thread = handling[e].thread /\ new.told = told
    BY <1>0 DEF Handling
  <2>2. /\ handling' = [handling EXCEPT ![e] = new] /\ handling[e].pc = "found"
        /\ e \in Commands /\ Of(e) \in Threads /\ Len(handling[e].seen) >= CompactFrom
        /\ threads' = [threads EXCEPT ![Of(e)].history = <<>>]
        /\ raced' = raced \cup told /\ UNCHANGED <<since, later, undone>>
    BY <1>0, <1>6 DEF Compact, SetHistory, Placed
  <2> HIDE DEF new
  <2>3. handling'[e] = new
    BY <1>0, <2>2
  <2>4. /\ threads'[Of(e)].history = <<>>
        /\ \A t \in Threads \ {Of(e)} : threads'[t].history = threads[t].history
    BY <1>0, <2>2, SetHistoryEffect
  <2>5. QED BY <1>0, <2>1, <2>2, <2>3, <2>4 DEF HandlerWrites, ClearsRow, Of
<1>7. CASE ReadForSummary(e)
  <2> DEFINE new == [handling[e] EXCEPT !.pc = "summarising", !.seen = HistoryOf(e)]
  <2>1. /\ new.pc = "summarising" /\ new.thread = handling[e].thread
        /\ new.told = handling[e].told /\ new.seen = threads[Of(e)].history
    BY <1>0 DEF Handling, HistoryOf
  <2>2. /\ handling' = [handling EXCEPT ![e] = new] /\ handling[e].pc = "compacting"
        /\ Of(e) \in Threads /\ e \in Commands
    BY <1>0, <1>7 DEF ReadForSummary, Placed
  <2> HIDE DEF new
  <2>3. handling'[e] = new
    BY <1>0, <2>2
  <2>4. Quiet
    BY <1>7 DEF ReadForSummary, Quiet, history
  <2>5. QED BY <1>0, <2>1, <2>2, <2>3, <2>4 DEF HandlerWrites, Of
<1>8. CASE WriteSummary(e)
  <2>1. /\ Finish(e) /\ handling[e].pc = "summarising" /\ Of(e) \in Threads /\ e \in Commands
        /\ WriteEntry(e, e, handling[e].seen, handling[e].told)
        /\ UNCHANGED <<since, undone>> /\ e \in Writers
    BY <1>0, <1>8 DEF WriteSummary, Placed, Writers
  <2>2. handling'[e].pc = "over" /\ handling'[e].thread = handling[e].thread
    BY <1>0, <2>1, FinishEffect
  <2>3. /\ threads'[Of(e)].history = Appended(handling[e].seen, handling[e].told)
        /\ \A t \in Threads \ {Of(e)} : threads'[t].history = threads[t].history
    BY <1>0, <2>1, WriteEntryType
  <2>4. QED BY <1>0, <2>1, <2>2, <2>3 DEF HandlerWrites, Of
<1>9. QED
  BY <1>1, <1>2, <1>3, <1>4, <1>5, <1>6, <1>7, <1>8 DEF HandlerStep

(* An append of another task is as before.                                   *)
OtherAppends(k, r) ==
  \A l \in Tasks, q \in Roles : <<l, q>> # <<k, r>> => append'[<<l, q>>] = append[<<l, q>>]

TaskWrites(k) ==
  \/ /\ Quiet
     /\ \A l \in Tasks, r \in Roles :
          append'[<<l, r>>] = append[<<l, r>>] \/ append'[<<l, r>>].pc # "writing"
     /\ \A l \in Tasks, r \in Roles :
          append[<<l, r>>].pc = "over" => append'[<<l, r>>].pc = "over"
  \/ \E r \in Roles :
       /\ Quiet /\ append[<<k, r>>].pc = "reading" /\ OtherAppends(k, r)
       /\ append'[<<k, r>>].pc = "writing"
       /\ append'[<<k, r>>].seen = threads[Of(k[1])].history
  \/ \E r \in Roles :
       /\ WriteHistory(k, r) /\ append'[<<k, r>>].pc = "over" /\ OtherAppends(k, r)
       /\ UNCHANGED undone
       /\ threads'[Of(k[1])].history = Appended(append[<<k, r>>].seen, {k[1]})
       /\ \A t \in Threads \ {Of(k[1])} : threads'[t].history = threads[t].history

LEMMA TaskHistory ==
  ASSUME Control, NEW k \in Tasks, TaskStep(k)
  PROVE  /\ TaskWrites(k) /\ handling' = handling /\ Of(k[1]) \in Threads
         /\ k[1] \in Messages
<1>0. /\ TypeOK /\ Ordered(k) /\ k[1] \in Messages /\ k[1] \in Events
  BY TaskFacts DEF Control
<1>1. handling' = handling
  BY TaskMoves DEF TaskFrame
<1>2. Of(k[1]) \in Threads
  <2>1. execution[k] # "none"
    BY <1>0 DEF TaskStep, Ordered, Complete, Fail, Retry, ReadRef, UpdateMessage,
               ClearRef, PostMessage, DropReply, ReadHistory, WriteHistory, DropAppend
  <2>2. QED BY <1>0, <2>1 DEF Ordered
<1>3. CASE Complete(k)
  <2> DEFINE v == [pc |-> "reading", seen |-> <<>>]
  <2>1. append' = [x \in Tasks \X Roles |-> IF x[1] = k THEN v ELSE append[x]]
    BY <1>3 DEF Complete
  <2>2. v.pc = "reading"
    OBVIOUS
  <2> HIDE DEF v
  <2>3. \A r \in Roles : append'[<<k, r>>] = v
    BY <2>1
  <2>4. \A l \in Tasks, r \in Roles : l # k => append'[<<l, r>>] = append[<<l, r>>]
    BY <2>1
  <2>5. \A r \in Roles : append[<<k, r>>].pc = "none"
    BY <1>0, <1>3 DEF Complete, Ordered
  <2>6. Quiet
    BY <1>3 DEF Complete, Quiet
  <2>7. QED BY <1>0, <1>1, <1>2, <2>2, <2>3, <2>4, <2>5, <2>6 DEF TaskWrites
<1>4. CASE Fail(k) \/ Retry(k) \/ ReadRef(k) \/ UpdateMessage(k) \/ PostMessage(k) \/ DropReply(k)
  <2>1. Quiet /\ append' = append
    BY <1>4 DEF Quiet, Fail, Retry, ReadRef, UpdateMessage, PostMessage, DropReply, history
  <2>2. QED BY <1>0, <1>1, <1>2, <2>1 DEF TaskWrites
<1>5. CASE ClearRef(k)
  <2>1. threads' = [threads EXCEPT ![Of(k[1])].typing = Nothing] /\ append' = append
    BY <1>5 DEF ClearRef, history
  <2>2. \A t \in Threads : threads'[t].history = threads[t].history
    BY <1>0, <1>2, <2>1, SetTypingEffect
  <2>3. Quiet
    BY <1>5, <2>2 DEF Quiet, ClearRef, history
  <2>4. QED BY <1>0, <1>1, <1>2, <2>1, <2>3 DEF TaskWrites
<1>6. ASSUME NEW r \in Roles, ReadHistory(k, r) PROVE TaskWrites(k)
  <2> DEFINE v == [pc |-> "writing", seen |-> HistoryOf(k[1])]
  <2>1. v \in [pc : {"none", "reading", "writing", "over"}, seen : Seq(Entry)]
    <3>1. HistoryOf(k[1]) \in Seq(Entry)
      BY <1>0, <1>2, HistoryType DEF HistoryOf
    <3>2. QED BY <3>1
  <2>2. v.pc = "writing" /\ v.seen = threads[Of(k[1])].history
    BY DEF HistoryOf
  <2>3. append' = [append EXCEPT ![<<k, r>>] = v] /\ append[<<k, r>>].pc = "reading" /\ Quiet
    BY <1>6 DEF ReadHistory, Quiet
  <2> HIDE DEF v
  <2>4. append'[<<k, r>>] = v /\ OtherAppends(k, r)
    BY <1>0, <2>1, <2>3, SetAppendEffect DEF OtherAppends
  <2>5. QED BY <2>2, <2>3, <2>4 DEF TaskWrites
<1>7. ASSUME NEW r \in Roles, DropAppend(k, r) PROVE TaskWrites(k)
  <2>1. EndAppend(k, r) /\ Quiet
    BY <1>7 DEF DropAppend, Quiet
  <2>2. append'[<<k, r>>].pc = "over" /\ OtherAppends(k, r)
    BY <1>0, <2>1, EndAppendEffect DEF OtherAppends
  <2>3. \A l \in Tasks, q \in Roles :
          append'[<<l, q>>] = append[<<l, q>>] \/ append'[<<l, q>>].pc = "over"
    BY <2>2 DEF OtherAppends
  <2>4. QED BY <2>1, <2>3 DEF TaskWrites
<1>8. ASSUME NEW r \in Roles, WriteHistory(k, r) PROVE TaskWrites(k)
  <2>1. /\ EndAppend(k, r) /\ UNCHANGED undone /\ <<k, r>> \in Writers /\ {k[1]} \in Entry
        /\ WriteEntry(k[1], <<k, r>>, append[<<k, r>>].seen, {k[1]})
    BY <1>0, <1>8 DEF WriteHistory, Writers, Entry
  <2>2. append'[<<k, r>>].pc = "over" /\ OtherAppends(k, r)
    BY <1>0, <2>1, EndAppendEffect DEF OtherAppends
  <2>3. append[<<k, r>>].seen \in Seq(Entry)
    BY <1>0, AppendType
  <2>4. /\ threads'[Of(k[1])].history = Appended(append[<<k, r>>].seen, {k[1]})
        /\ \A t \in Threads \ {Of(k[1])} : threads'[t].history = threads[t].history
    BY <1>0, <1>2, <2>1, <2>3, WriteEntryType
  <2>5. QED BY <1>8, <2>1, <2>2, <2>4 DEF TaskWrites
<1>9. QED BY <1>0, <1>1, <1>2, <1>3, <1>4, <1>5, <1>6, <1>7, <1>8 DEF TaskStep

-----------------------------------------------------------------------------
(* Where what is written comes from *)

(* Writes that are about to be made: of a task, and of a command.            *)
MayWrite(c) ==
  \/ handling[c].pc = "found" /\ Len(handling[c].seen) >= CompactFrom
  \/ handling[c].pc = "summarising"

(* What an append or a command works on, it had before or has just read.     *)
AppendRead(k, r) ==
  append'[<<k, r>>].pc = "writing" =>
    \/ append[<<k, r>>].pc = "writing" /\ append'[<<k, r>>].seen = append[<<k, r>>].seen
    \/ /\ append[<<k, r>>].pc = "reading"
       /\ append'[<<k, r>>].seen = threads[Of(k[1])].history

CommandRead(c) ==
  /\ MayWrite(c)' =>
       \/ MayWrite(c) /\ Of(c)' = Of(c) /\ handling'[c].seen = handling[c].seen
       \/ handling'[c].seen = threads[Of(c)'].history
  /\ handling'[c].pc \in {"compacting", "summarising"} =>
       /\ Of(c)' = Of(c)
       /\ \/ /\ handling[c].pc \in {"compacting", "summarising"}
             /\ handling'[c].told = handling[c].told
          \/ MayWrite(c) /\ handling'[c].told = Mentioned(handling[c].seen)

(* A history stays, is emptied, or gets an entry over what was read.         *)
RowWritten(t) ==
  \/ threads'[t].history = threads[t].history
  \/ threads'[t].history = <<>>
  \/ \E k \in Tasks, r \in Roles :
       /\ WriteHistory(k, r) /\ Of(k[1]) = t
       /\ threads'[t].history = Appended(append[<<k, r>>].seen, {k[1]})
  \/ \E c \in Commands :
       /\ handling[c].pc = "summarising" /\ Of(c) = t
       /\ threads'[t].history = Appended(handling[c].seen, handling[c].told)

(* An event keeps the row that it has.                                       *)
Stays(e) == Of(e) \in Threads => Of(e)' = Of(e)

LEMMA StepReads ==
  ASSUME Control, [Next]_vars
  PROVE  /\ \A k \in Tasks, r \in Roles : AppendRead(k, r)
         /\ \A c \in Commands : CommandRead(c)
         /\ \A t \in Threads : RowWritten(t)
         /\ \A e \in Events : Stays(e)
<1>0. (\A e \in Events : Placed(e)) /\ Commands \subseteq Events /\ Nothing \notin Threads
  BY CommsAssumption DEF Control, Events, Threads
<1>1. ASSUME NEW e \in Events, handling'[e] = handling[e]
      PROVE  Stays(e) /\ CommandRead(e)
  BY <1>1 DEF Stays, CommandRead, MayWrite, Of
<1>2. ASSUME append' = append
      PROVE  \A k \in Tasks, r \in Roles : AppendRead(k, r)
  BY <1>2 DEF AppendRead
<1>3. ASSUME \A t \in Threads : threads'[t].history = threads[t].history
      PROVE  \A t \in Threads : RowWritten(t)
  BY <1>3 DEF RowWritten
<1>4. CASE UNCHANGED vars
  <2>1. append' = append /\ handling' = handling /\ threads' = threads
    BY <1>4 DEF vars, history
  <2>2. QED BY <1>0, <1>1, <1>2, <1>3, <2>1
<1>5. ASSUME NEW e \in Events, Lookup(e)
      PROVE  /\ append' = append /\ threads' = threads
             /\ \A f \in Events : Stays(f) /\ CommandRead(f)
  <2>1. /\ handling[e].pc = "new"
        /\ \A f \in Events \ {e} : handling'[f] = handling[f]
        /\ UNCHANGED <<threads, history>>
        /\ \/ handling'[e].pc = "creating"
           \/ /\ handling'[e].pc = "found"
              /\ handling'[e].seen = threads[handling'[e].thread].history
    BY <1>5, LookupMoves
  <2>2. Of(e) = Nothing
    BY <1>0, <2>1 DEF Placed
  <2>3. Stays(e)
    BY <1>0, <2>2 DEF Stays
  <2>4. CommandRead(e)
    BY <2>1 DEF CommandRead, MayWrite, Of
  <2>5. QED BY <1>1, <2>1, <2>3, <2>4 DEF history
<1>6. ASSUME NEW e \in Events, HandlerStep(e)
      PROVE  /\ append' = append
             /\ \A f \in Events : Stays(f) /\ CommandRead(f)
             /\ \A t \in Threads : RowWritten(t)
  <2>1. HandlerWrites(e) /\ append' = append
    BY <1>6, HandlerHistory
  <2>2. \A f \in Events \ {e} : handling'[f] = handling[f]
    BY <1>6, HandlerMoves
  <2>3. Placed(e)
    BY <1>0
  <2>4. Stays(e)
    BY <1>0, <2>1, <2>3 DEF HandlerWrites, ClearsRow, Stays, Placed
  <2>5. CommandRead(e)
    <3>1. CASE handling'[e].pc = "found" /\ handling'[e].seen = <<>>
      <4>1. ~(Len(handling'[e].seen) >= CompactFrom)
        BY <3>1, CommsAssumption
      <4>2. QED BY <3>1, <4>1 DEF CommandRead, MayWrite
    <3>2. QED BY <2>1, <3>1 DEF HandlerWrites, ClearsRow, CommandRead, MayWrite, Of
  <2>6. \A t \in Threads : RowWritten(t)
    BY <2>1 DEF HandlerWrites, ClearsRow, RowWritten, Quiet
  <2>7. QED BY <1>1, <2>1, <2>2, <2>4, <2>5, <2>6
<1>7. ASSUME NEW k \in Tasks, TaskStep(k)
      PROVE  /\ handling' = handling
             /\ \A l \in Tasks, r \in Roles : AppendRead(l, r)
             /\ \A t \in Threads : RowWritten(t)
  <2>1. TaskWrites(k) /\ handling' = handling
    BY <1>7, TaskHistory
  <2>2. ASSUME NEW l \in Tasks, NEW r \in Roles PROVE AppendRead(l, r)
    BY <2>1 DEF TaskWrites, AppendRead, OtherAppends
  <2>3. \A t \in Threads : RowWritten(t)
    BY <2>1 DEF TaskWrites, RowWritten, Quiet
  <2>4. QED BY <2>1, <2>2, <2>3
<1>8. CASE \E e \in Events : Lookup(e)
  BY <1>0, <1>2, <1>3, <1>5, <1>8
<1>9. CASE \E e \in Events : HandlerStep(e)
  BY <1>0, <1>2, <1>6, <1>9
<1>10. CASE \E k \in Tasks : TaskStep(k)
  BY <1>0, <1>1, <1>7, <1>10
<1>11. QED BY <1>4, <1>8, <1>9, <1>10, StepOfAnEvent

-----------------------------------------------------------------------------
(* What the histories tell of *)

(* The history, and what is about to be written to it, tell of S.            *)
Tells(t, S) ==
  /\ Mentioned(threads[t].history) \subseteq S
  /\ \A k \in Tasks, r \in Roles :
       Of(k[1]) = t /\ append[<<k, r>>].pc = "writing" =>
         Mentioned(append[<<k, r>>].seen) \subseteq S
  /\ \A c \in Commands : Of(c) = t =>
       /\ MayWrite(c) => Mentioned(handling[c].seen) \subseteq S
       /\ handling[c].pc \in {"compacting", "summarising"} => handling[c].told \subseteq S

(* A thread's history tells of its own messages, and when no reset of it was *)
(* undone, of those written since.                                           *)
Home(t) == {m \in Messages : Of(m) = t}
AtHome == \A t \in Threads : since[t] \subseteq Home(t) /\ Tells(t, Home(t))
Reminded == \A t \in Threads \ undone : Tells(t, since[t])

LEMMA NothingMentioned == Mentioned(<<>>) = {}
BY DEF Mentioned

(* A task that appends has its message's handler behind it.                  *)
LEMMA AppendsHaveRows ==
  ASSUME Control, NEW k \in Tasks, NEW r \in Roles, append[<<k, r>>].pc # "none"
  PROVE  Of(k[1]) \in Threads /\ k[1] \in Messages /\ k[1] \in Events
<1>1. Ordered(k) /\ k[1] \in Messages /\ k[1] \in Events
  BY TaskFacts DEF Control
<1>2. QED BY <1>1 DEF Ordered

(* A step tells of nothing more than an exchange that it appends.            *)
LEMMA TellsStep ==
  ASSUME Control, [Next]_vars, NEW t \in Threads, NEW S, NEW T, S \subseteq T, Tells(t, S),
         \A k \in Tasks, r \in Roles : WriteHistory(k, r) /\ Of(k[1]) = t => k[1] \in T
  PROVE  Tells(t, T)'
<1>0. /\ \A k \in Tasks, r \in Roles : AppendRead(k, r)
      /\ \A c \in Commands : CommandRead(c)
      /\ \A e \in Events : Stays(e)
      /\ Commands \subseteq Events /\ Nothing \notin Threads /\ TypeOK
      /\ RowWritten(t)
  BY StepReads, CommsAssumption DEF Control, Events, Threads
<1>c. Control'
  BY NextControl
<1>1. Mentioned(threads[t].history) \subseteq T
  BY DEF Tells
<1>2. Mentioned(threads'[t].history) \subseteq T
  <2>1. ASSUME NEW seen \in Seq(Entry), NEW told \in Entry,
               Mentioned(seen) \subseteq T, told \subseteq T,
               threads'[t].history = Appended(seen, told)
        PROVE  Mentioned(threads'[t].history) \subseteq T
    <3>1. Mentioned(Appended(seen, told)) \subseteq Mentioned(seen) \cup told
      BY AppendedFacts
    <3>2. QED BY <2>1, <3>1
  <2>2. ASSUME NEW k \in Tasks, NEW r \in Roles, WriteHistory(k, r), Of(k[1]) = t,
               threads'[t].history = Appended(append[<<k, r>>].seen, {k[1]})
        PROVE  Mentioned(threads'[t].history) \subseteq T
    <3>1. append[<<k, r>>].pc = "writing" /\ {k[1]} \subseteq T
      BY <2>2 DEF WriteHistory
    <3>2. append[<<k, r>>].seen \in Seq(Entry) /\ {k[1]} \in Entry
      BY <1>0, AppendType, TaskFacts DEF Entry
    <3>3. Mentioned(append[<<k, r>>].seen) \subseteq T
      BY <2>2, <3>1 DEF Tells
    <3>4. QED BY <2>1, <2>2, <3>1, <3>2, <3>3
  <2>3. ASSUME NEW c \in Commands, handling[c].pc = "summarising", Of(c) = t,
               threads'[t].history = Appended(handling[c].seen, handling[c].told)
        PROVE  Mentioned(threads'[t].history) \subseteq T
    <3>1. handling[c].seen \in Seq(Entry) /\ handling[c].told \in Entry
      BY <1>0, HandlingType
    <3>2. Mentioned(handling[c].seen) \subseteq T /\ handling[c].told \subseteq T
      BY <2>3 DEF Tells, MayWrite
    <3>3. QED BY <2>1, <2>3, <3>1, <3>2
  <2>4. QED BY <1>0, <1>1, <2>2, <2>3, NothingMentioned DEF RowWritten
<1>3. ASSUME NEW k \in Tasks, NEW r \in Roles, Of(k[1])' = t, append'[<<k, r>>].pc = "writing"
      PROVE  Mentioned(append'[<<k, r>>].seen) \subseteq T
  <2>1. AppendRead(k, r)
    BY <1>0
  <2>2. append[<<k, r>>].pc # "none" => Of(k[1]) = t
    <3>1. append[<<k, r>>].pc # "none" => Of(k[1]) \in Threads /\ k[1] \in Events
      BY AppendsHaveRows
    <3>2. QED BY <1>0, <1>3, <3>1 DEF Stays
  <2>3. CASE append[<<k, r>>].pc = "writing" /\ append'[<<k, r>>].seen = append[<<k, r>>].seen
    BY <2>2, <2>3 DEF Tells
  <2>4. CASE /\ append[<<k, r>>].pc = "reading"
             /\ append'[<<k, r>>].seen = threads[Of(k[1])].history
    BY <1>1, <2>2, <2>4
  <2>5. QED BY <1>3, <2>1, <2>3, <2>4 DEF AppendRead
<1>4. ASSUME NEW c \in Commands, Of(c)' = t, MayWrite(c)'
      PROVE  Mentioned(handling'[c].seen) \subseteq T
  <2>1. CommandRead(c)
    BY <1>0
  <2>2. CASE MayWrite(c) /\ Of(c)' = Of(c) /\ handling'[c].seen = handling[c].seen
    BY <1>4, <2>2 DEF Tells
  <2>3. CASE handling'[c].seen = threads[Of(c)'].history
    BY <1>1, <1>4, <2>3
  <2>4. QED BY <1>4, <2>1, <2>2, <2>3 DEF CommandRead
<1>5. ASSUME NEW c \in Commands, Of(c)' = t, handling'[c].pc \in {"compacting", "summarising"}
      PROVE  handling'[c].told \subseteq T
  <2>1. CommandRead(c)
    BY <1>0
  <2>2. QED BY <1>5, <2>1 DEF CommandRead, Tells
<1>6. QED BY <1>2, <1>3, <1>4, <1>5 DEF Tells

LEMMA InitTells ==
  ASSUME Init, NEW t \in Threads, NEW S
  PROVE  Tells(t, S)
<1>1. threads[t].history = <<>>
  BY DEF Init
<1>2. \A k \in Tasks, r \in Roles : append[<<k, r>>].pc = "none"
  BY DEF Init
<1>3. \A c \in Commands : handling[c].pc = "new"
  BY DEF Init, Events
<1>4. QED BY <1>1, <1>2, <1>3, NothingMentioned DEF Tells, MayWrite

LEMMA InitAtHome == Init => AtHome /\ Reminded
<1> SUFFICES ASSUME Init PROVE AtHome /\ Reminded
  OBVIOUS
<1>1. \A t \in Threads : since[t] = {}
  BY DEF Init
<1>2. \A t \in Threads : Tells(t, Home(t)) /\ Tells(t, since[t])
  BY InitTells
<1>3. QED BY <1>1, <1>2 DEF AtHome, Reminded

(* What a step does to the exchanges since a reset.                          *)
LEMMA StepSince ==
  ASSUME Control, [Next]_vars
  PROVE  /\ \A k \in Tasks, r \in Roles :
              WriteHistory(k, r) => Of(k[1]) \in Threads /\ k[1] \in since'[Of(k[1])]
         /\ \A t \in Threads : \A x \in since'[t] :
              x \in since[t] \/ (x \in Messages /\ Of(x) = t)
         /\ \/ \E c \in Commands :
                 /\ Reset(c) /\ Of(c) \in Threads /\ since'[Of(c)] = {}
                 /\ handling'[c].pc = "over" /\ append' = append
                 /\ threads'[Of(c)].history = <<>>
                 /\ \A e \in Events \ {c} : handling'[e] = handling[e]
                 /\ \A t \in Threads \ {Of(c)} :
                      since'[t] = since[t] /\ (t \in undone => t \in undone')
            \/ undone' = undone /\ \A t \in Threads : since[t] \subseteq since'[t]
<1>0. TypeOK /\ since \in [Threads -> SUBSET Messages]
  BY DEF Control, TypeOK
<1>1. ASSUME NEW k \in Tasks, NEW r \in Roles, WriteHistory(k, r)
      PROVE  /\ Of(k[1]) \in Threads /\ k[1] \in Messages
             /\ since' = [since EXCEPT ![Of(k[1])] = since[Of(k[1])] \cup {k[1]}]
             /\ undone' = undone
  <2>1. append[<<k, r>>].pc # "none"
    BY <1>1 DEF WriteHistory
  <2>2. Of(k[1]) \in Threads /\ k[1] \in Messages
    BY <2>1, AppendsHaveRows
  <2>3. QED BY <1>1, <2>2 DEF WriteHistory
<1>2. \A k \in Tasks, r \in Roles :
        WriteHistory(k, r) => Of(k[1]) \in Threads /\ k[1] \in since'[Of(k[1])]
  BY <1>0, <1>1
<1>3. ASSUME NEW k \in Tasks, NEW r \in Roles, WriteHistory(k, r)
      PROVE  /\ \A t \in Threads : \A x \in since'[t] :
                  x \in since[t] \/ (x \in Messages /\ Of(x) = t)
             /\ undone' = undone /\ \A t \in Threads : since[t] \subseteq since'[t]
  BY <1>0, <1>1, <1>3
<1>4. ASSUME NEW c \in Commands, Reset(c), ClearsRow(c), handling'[c].pc = "over",
             append' = append, \A e \in Events \ {c} : handling'[e] = handling[e]
      PROVE  /\ \A t \in Threads : \A x \in since'[t] : x \in since[t]
             /\ Of(c) \in Threads /\ since'[Of(c)] = {} /\ handling'[c].pc = "over"
             /\ append' = append /\ threads'[Of(c)].history = <<>>
             /\ \A e \in Events \ {c} : handling'[e] = handling[e]
             /\ \A t \in Threads \ {Of(c)} :
                  since'[t] = since[t] /\ (t \in undone => t \in undone')
  <2>1. /\ since' = [since EXCEPT ![Of(c)] = {}] /\ Of(c) \in Threads
        /\ threads'[Of(c)].history = <<>>
        /\ undone' = undone \cup {Of(c)} \/ undone' = undone \ {Of(c)}
    BY <1>4 DEF Reset, ClearsRow
  <2>2. QED BY <1>0, <1>4, <2>1
<1>5. CASE since' = since /\ undone' = undone
  BY <1>2, <1>5
<1>6. CASE \E k \in Tasks, r \in Roles : WriteHistory(k, r)
  BY <1>2, <1>3, <1>6
<1>7. CASE UNCHANGED vars
  BY <1>5, <1>7 DEF vars, history
<1>8. ASSUME NEW e \in Events, Lookup(e) PROVE since' = since /\ undone' = undone
  BY <1>8 DEF Lookup, history
<1>9. ASSUME NEW e \in Events, HandlerStep(e)
      PROVE  \/ since' = since /\ undone' = undone
             \/ /\ Reset(e) /\ ClearsRow(e) /\ handling'[e].pc = "over" /\ e \in Commands
                /\ append' = append /\ \A f \in Events \ {e} : handling'[f] = handling[f]
  <2>1. HandlerWrites(e) /\ append' = append
    BY <1>9, HandlerHistory
  <2>2. \A f \in Events \ {e} : handling'[f] = handling[f]
    BY <1>9, HandlerMoves
  <2>3. QED BY <2>1, <2>2 DEF HandlerWrites, ClearsRow, Quiet
<1>10. ASSUME NEW k \in Tasks, TaskStep(k)
       PROVE  (since' = since /\ undone' = undone) \/ \E r \in Roles : WriteHistory(k, r)
  <2>1. TaskWrites(k)
    BY <1>10, TaskHistory
  <2>2. QED BY <2>1 DEF TaskWrites, Quiet
<1>11. CASE \E e \in Events : HandlerStep(e)
  <2>1. PICK e \in Events : HandlerStep(e)
    BY <1>11
  <2>2. CASE /\ Reset(e) /\ ClearsRow(e) /\ handling'[e].pc = "over" /\ e \in Commands
             /\ append' = append /\ \A f \in Events \ {e} : handling'[f] = handling[f]
    BY <1>2, <1>4, <2>2
  <2>3. QED BY <1>5, <1>9, <2>1, <2>2
<1>12. QED BY <1>5, <1>6, <1>7, <1>8, <1>10, <1>11, StepOfAnEvent

LEMMA NextAtHome == Control /\ AtHome /\ [Next]_vars => AtHome'
<1> SUFFICES ASSUME Control, AtHome, [Next]_vars PROVE AtHome'
  OBVIOUS
<1>1. \A e \in Events : Stays(e)
  BY StepReads
<1>2. SUFFICES ASSUME NEW t \in Threads
               PROVE  since'[t] \subseteq Home(t)' /\ Tells(t, Home(t))'
  BY DEF AtHome
<1>3. PICK T : T = Home(t)'
  OBVIOUS
<1>4. \A m \in Messages : Of(m) = t => m \in T
  BY <1>1, <1>3 DEF Home, Stays, Events
<1>5. since'[t] \subseteq T
  <2>1. since[t] \subseteq Home(t)
    BY DEF AtHome
  <2>2. \A x \in since'[t] : x \in since[t] \/ (x \in Messages /\ Of(x) = t)
    BY StepSince
  <2>3. QED BY <1>4, <2>1, <2>2 DEF Home
<1>6. Tells(t, T)'
  <2>1. Home(t) \subseteq T
    BY <1>4 DEF Home
  <2>2. Tells(t, Home(t))
    BY DEF AtHome
  <2>3. PICK S : S = Home(t)
    OBVIOUS
  <2>4. \A k \in Tasks, r \in Roles : WriteHistory(k, r) /\ Of(k[1]) = t => k[1] \in T
    BY <1>4, TaskFacts
  <2>5. S \subseteq T /\ Tells(t, S)
    BY <2>1, <2>2, <2>3
  <2>6. QED BY <2>4, <2>5, TellsStep
<1>7. QED BY <1>3, <1>5, <1>6

(* Nothing that a reset leaves behind is about to be written.                *)
LEMMA ResetTellsNothing ==
  ASSUME Control, NEW c \in Commands, Reset(c), NEW t \in Threads, t = Of(c), t \notin undone',
         handling'[c].pc = "over", append' = append, threads'[t].history = <<>>,
         \A e \in Events \ {c} : handling'[e] = handling[e]
  PROVE  Tells(t, {})'
<1>0. /\ ~ComesBack(c) /\ Commands \subseteq Events
      /\ \A k \in Tasks : k[1] # c /\ k[1] \in Events
  <2>1. ~ComesBack(c)
    BY DEF Reset
  <2>2. Commands \subseteq Events /\ Messages \cap Commands = {}
    BY CommsAssumption DEF Events
  <2>3. \A k \in Tasks : k[1] \in Messages /\ k[1] \in Events
    BY TaskFacts
  <2>4. QED BY <2>1, <2>2, <2>3
<1>1. ASSUME NEW k \in Tasks, NEW r \in Roles, Of(k[1])' = t, append'[<<k, r>>].pc = "writing"
      PROVE  FALSE
  <2>1. Of(k[1]) = t /\ append[<<k, r>>].pc = "writing" /\ k[1] # c
    BY <1>0, <1>1 DEF Of
  <2>2. QED BY <1>0, <2>1 DEF ComesBack, Pending, Appending
<1>2. ASSUME NEW d \in Commands, Of(d)' = t
      PROVE  ~MayWrite(d)' /\ handling'[d].pc \notin {"compacting", "summarising"}
  <2>1. CASE d = c
    BY <2>1 DEF MayWrite
  <2>2. CASE d # c
    <3>1. Of(d) = t /\ handling'[d] = handling[d] /\ d \in Commands \ {c}
      BY <1>0, <1>2, <2>2 DEF Of
    <3>2. ~MayWrite(d) /\ handling[d].pc \notin {"compacting", "summarising"}
      BY <1>0, <3>1 DEF ComesBack, Pending, Compacting, MayWrite
    <3>3. QED BY <3>1, <3>2 DEF MayWrite
  <2>3. QED BY <2>1, <2>2
<1>3. Mentioned(threads'[t].history) = {}
  BY NothingMentioned
<1>4. QED BY <1>1, <1>2, <1>3 DEF Tells

LEMMA NextReminded == Control /\ Reminded /\ [Next]_vars => Reminded'
<1> SUFFICES ASSUME Control, Reminded, [Next]_vars PROVE Reminded'
  OBVIOUS
<1>1. SUFFICES ASSUME NEW t \in Threads, t \notin undone' PROVE Tells(t, since[t])'
  BY DEF Reminded
<1>2. PICK T : T = since'[t]
  OBVIOUS
<1>3. ASSUME t \notin undone, since[t] \subseteq T PROVE Tells(t, T)'
  <2>1. PICK S : S = since[t]
    OBVIOUS
  <2>2. Tells(t, S) /\ S \subseteq T
    BY <1>3, <2>1 DEF Reminded
  <2>3. \A k \in Tasks, r \in Roles : WriteHistory(k, r) /\ Of(k[1]) = t => k[1] \in T
    BY <1>2, StepSince
  <2>4. QED BY <2>2, <2>3, TellsStep
<1>4. CASE undone' = undone /\ \A s \in Threads : since[s] \subseteq since'[s]
  <2>1. Tells(t, T)'
    BY <1>1, <1>2, <1>3, <1>4
  <2>2. QED BY <1>2, <2>1
<1>5. ASSUME NEW c \in Commands, Reset(c), Of(c) \in Threads, since'[Of(c)] = {},
             handling'[c].pc = "over", append' = append, threads'[Of(c)].history = <<>>,
             \A e \in Events \ {c} : handling'[e] = handling[e],
             \A s \in Threads \ {Of(c)} :
               since'[s] = since[s] /\ (s \in undone => s \in undone')
      PROVE  Tells(t, T)'
  <2>1. CASE t = Of(c)
    <3>1. Tells(t, {})' /\ T = {}
      BY <1>1, <1>2, <1>5, <2>1, ResetTellsNothing
    <3>2. QED BY <3>1
  <2>2. CASE t # Of(c)
    BY <1>1, <1>2, <1>3, <1>5, <2>2
  <2>3. QED BY <2>1, <2>2
<1>6. CASE \E c \in Commands :
             /\ Reset(c) /\ Of(c) \in Threads /\ since'[Of(c)] = {}
             /\ handling'[c].pc = "over" /\ append' = append
             /\ threads'[Of(c)].history = <<>>
             /\ \A e \in Events \ {c} : handling'[e] = handling[e]
             /\ \A s \in Threads \ {Of(c)} :
                  since'[s] = since[s] /\ (s \in undone => s \in undone')
  <2>1. Tells(t, T)'
    BY <1>5, <1>6
  <2>2. QED BY <1>2, <2>1
<1>7. QED BY <1>4, <1>6, StepSince

LEMMA RemindedInvariance == Spec => [](AtHome /\ Reminded)
BY InitAtHome, NextAtHome, NextReminded, ControlInvariance, PTL DEF Spec

(* After /reset a history tells of nothing from before, unless a write was   *)
(* pending that brings it back: for any number of resets, summaries and      *)
(* appends in flight, in any order.                                          *)
THEOREM ResetsHold == Spec => []ResetHolds
<1>1. Reminded => ResetHolds
  BY DEF Reminded, Tells, ResetHolds
<1>2. QED BY <1>1, RemindedInvariance, PTL

-----------------------------------------------------------------------------
(* What the history remembers *)

(* At most n entries of a history come after one that tells of x.            *)
Keeps(h, x, n) == HistoryLimit <= n \/ \E p \in DOMAIN h : x \in h[p] /\ Len(h) - p <= n

LEMMA KeepsMore ==
  ASSUME NEW h \in Seq(Entry), NEW x, NEW n \in Nat, NEW m \in Nat, n <= m, Keeps(h, x, n)
  PROVE  Keeps(h, x, m)
<1>1. HistoryLimit \in Nat /\ Len(h) \in Nat
  BY CommsAssumption
<1>2. CASE HistoryLimit <= n
  BY <1>1, <1>2 DEF Keeps
<1>3. CASE \E p \in DOMAIN h : x \in h[p] /\ Len(h) - p <= n
  <2>1. PICK p \in DOMAIN h : x \in h[p] /\ Len(h) - p <= n
    BY <1>3
  <2>2. p \in Nat
    BY <2>1
  <2>3. Len(h) - p <= m
    BY <1>1, <2>1, <2>2
  <2>4. QED BY <2>1, <2>3 DEF Keeps
<1>4. QED BY <1>2, <1>3 DEF Keeps

LEMMA KeepsMentioned ==
  ASSUME NEW h \in Seq(Entry), NEW x, NEW n \in Nat, n < HistoryLimit, Keeps(h, x, n)
  PROVE  x \in Mentioned(h)
<1>1. ~(HistoryLimit <= n)
  BY CommsAssumption
<1>2. QED BY <1>1 DEF Keeps, Mentioned

(* One entry more comes after what the history kept, none after itself.      *)
LEMMA KeepsAppended ==
  ASSUME NEW seen \in Seq(Entry), NEW told \in Entry, NEW x, NEW n \in Nat
  PROVE  /\ x \in told => Keeps(Appended(seen, told), x, n)
         /\ Keeps(seen, x, n) => Keeps(Appended(seen, told), x, n + 1)
<1>0. HistoryLimit \in Nat /\ Len(seen) \in Nat
  BY CommsAssumption
<1>1. PICK h : h = Appended(seen, told)
  OBVIOUS
<1>2. /\ h \in Seq(Entry) /\ Len(h) > 0 /\ h[Len(h)] = told
      /\ \A p \in DOMAIN seen :
           Len(seen) + 1 - p < HistoryLimit =>
             \E q \in DOMAIN h : h[q] = seen[p] /\ Len(h) - q = Len(seen) + 1 - p
  BY <1>1, AppendedFacts
<1>3. ASSUME x \in told PROVE Keeps(h, x, n)
  <2>1. Len(h) \in DOMAIN h /\ Len(h) - Len(h) <= n
    BY <1>2
  <2>2. x \in h[Len(h)]
    BY <1>2, <1>3
  <2>3. QED BY <2>1, <2>2 DEF Keeps
<1>4. ASSUME HistoryLimit <= n PROVE Keeps(h, x, n + 1)
  <2>1. HistoryLimit <= n + 1
    BY <1>0, <1>4
  <2>2. QED BY <2>1 DEF Keeps
<1>5. ASSUME NEW p \in DOMAIN seen, x \in seen[p], Len(seen) - p <= n
      PROVE  Keeps(h, x, n + 1)
  <2>0. p \in Nat
    OBVIOUS
  <2>1. CASE HistoryLimit <= n + 1
    BY <2>1 DEF Keeps
  <2>2. CASE ~(HistoryLimit <= n + 1)
    <3>1. Len(seen) + 1 - p <= n + 1 /\ Len(seen) + 1 - p < HistoryLimit
      BY <1>0, <1>5, <2>0, <2>2
    <3>2. PICK q \in DOMAIN h : h[q] = seen[p] /\ Len(h) - q = Len(seen) + 1 - p
      BY <1>2, <3>1
    <3>3. x \in h[q] /\ Len(h) - q <= n + 1
      BY <1>5, <3>1, <3>2
    <3>4. QED BY <3>2, <3>3 DEF Keeps
  <2>3. QED BY <2>1, <2>2
<1>6. Keeps(seen, x, n) => Keeps(h, x, n + 1)
  BY <1>4, <1>5 DEF Keeps
<1>7. QED BY <1>1, <1>3, <1>6

LEMMA LaterCounts ==
  ASSUME TypeOK, NEW x \in Messages
  PROVE  /\ IsFiniteSet(later[x]) /\ Cardinality(later[x]) \in Nat
         /\ \A w : w \notin later[x] =>
              Cardinality(later[x] \cup {w}) = Cardinality(later[x]) + 1
<1>1. IsFiniteSet(Writers)
  <2>1. IsFiniteSet(Messages) /\ IsFiniteSet(Commands) /\ IsFiniteSet(Roles)
    <3>1. Messages \subseteq Events /\ Commands \subseteq Events /\ IsFiniteSet(Events)
      BY CommsAssumption DEF Events
    <3>2. QED BY <3>1, FS_Subset, CommsAssumption
  <2>2. IsFiniteSet(0 .. MaxRetries)
    BY FS_Interval, CommsAssumption
  <2>3. IsFiniteSet(Tasks)
    BY <2>1, <2>2, FS_Product DEF Tasks
  <2>4. IsFiniteSet(Tasks \X Roles)
    BY <2>1, <2>3, FS_Product
  <2>5. QED BY <2>1, <2>4, FS_Union DEF Writers
<1>2. later[x] \subseteq Writers
  BY DEF TypeOK
<1>3. IsFiniteSet(later[x])
  BY <1>1, <1>2, FS_Subset
<1>4. QED BY <1>3, FS_CardinalityType, FS_AddElement

(* So do the history, and what other events are about to write to it.        *)
Recall(t, x, n) ==
  /\ Keeps(threads[t].history, x, n)
  /\ \A k \in Tasks, r \in Roles :
       Of(k[1]) = t /\ k[1] # x /\ append[<<k, r>>].pc = "writing" =>
         Keeps(append[<<k, r>>].seen, x, n)
  /\ \A c \in Commands :
       Of(c) = t /\ MayWrite(c) => Keeps(handling[c].seen, x, n)

Done(w) ==
  /\ \A k \in Tasks, r \in Roles : w = <<k, r>> => append[<<k, r>>].pc = "over"
  /\ w \in Commands => handling[w].pc = "over"

(* Entries are counted after they are written; an exchange that no race      *)
(* dropped has no more of them after it than were counted.                   *)
Counted == \A x \in Messages : \A w \in later[x] : Done(w)
Recalled == \A t \in Threads : \A x \in since[t] \ raced : Recall(t, x, Cardinality(later[x]))

LEMMA StaysDone ==
  ASSUME Control, [Next]_vars, NEW w, Done(w)
  PROVE  Done(w)'
<1>0. Commands \subseteq Events
  BY DEF Events
<1>1. ASSUME NEW k \in Tasks, NEW r \in Roles, append[<<k, r>>].pc = "over"
      PROVE  append'[<<k, r>>].pc = "over"
  <2>1. ASSUME NEW l \in Tasks, TaskStep(l) PROVE append'[<<k, r>>].pc = "over"
    <3>1. TaskWrites(l)
      BY <2>1, TaskHistory
    <3>2. \A q \in Roles : <<l, q>> # <<k, r>> =>
            (OtherAppends(l, q) => append'[<<k, r>>] = append[<<k, r>>])
      BY DEF OtherAppends
    <3>3. CASE \E q \in Roles : append[<<l, q>>].pc = "reading" /\ OtherAppends(l, q)
      <4>1. PICK q \in Roles : append[<<l, q>>].pc = "reading" /\ OtherAppends(l, q)
        BY <3>3
      <4>2. <<l, q>> # <<k, r>>
        BY <1>1, <4>1
      <4>3. QED BY <1>1, <3>2, <4>1, <4>2
    <3>4. CASE \E q \in Roles : append'[<<l, q>>].pc = "over" /\ OtherAppends(l, q)
      BY <1>1, <3>2, <3>4
    <3>5. QED BY <1>1, <3>1, <3>3, <3>4 DEF TaskWrites
  <2>2. ASSUME NEW e \in Events, HandlerStep(e) PROVE append' = append
    BY <2>2, HandlerMoves
  <2>3. ASSUME NEW e \in Events, Lookup(e) PROVE append' = append
    BY <2>3 DEF Lookup, history
  <2>4. UNCHANGED vars => append' = append
    BY DEF vars, history
  <2>5. QED BY <1>1, <2>1, <2>2, <2>3, <2>4, StepOfAnEvent
<1>2. ASSUME NEW c \in Events, handling[c].pc = "over" PROVE handling'[c].pc = "over"
  <2>1. ASSUME NEW e \in Events, Lookup(e) \/ HandlerStep(e) PROVE handling'[c] = handling[c]
    <3>1. Lookup(e) => /\ handling[e].pc = "new"
                       /\ \A f \in Events \ {e} : handling'[f] = handling[f]
      BY LookupMoves
    <3>2. HandlerStep(e) => /\ handling[e].pc \notin {"new", "over"}
                            /\ \A f \in Events \ {e} : handling'[f] = handling[f]
      BY HandlerMoves
    <3>3. e # c
      BY <1>2, <2>1, <3>1, <3>2
    <3>4. QED BY <2>1, <3>1, <3>2, <3>3
  <2>2. ASSUME NEW k \in Tasks, TaskStep(k) PROVE handling' = handling
    BY <2>2, TaskHistory
  <2>3. UNCHANGED vars => handling' = handling
    BY DEF vars
  <2>4. QED BY <1>2, <2>1, <2>2, <2>3, StepOfAnEvent
<1>3. QED BY <1>0, <1>1, <1>2 DEF Done

(* An entry that e writes over the row of its thread.                        *)
Enters(e, w, seen, told) ==
  /\ Of(e) \in Threads /\ WriteEntry(e, w, seen, told)
  /\ ~Done(w) /\ Done(w)'
  /\ told \subseteq Home(Of(e)) /\ (e \in Messages => told = {e})
  /\ e \in Commands => handling'[e].pc = "over"
  /\ \A x \in Messages, n \in Nat : Recall(Of(e), x, n) /\ x \notin told => Keeps(seen, x, n)
  /\ threads'[Of(e)].history = Appended(seen, told)
  /\ \A t \in Threads \ {Of(e)} : /\ threads'[t].history = threads[t].history
                                  /\ since'[t] = since[t]
  /\ since'[Of(e)] \subseteq since[Of(e)] \cup told
  /\ \A k \in Tasks, r \in Roles :
       append'[<<k, r>>] = append[<<k, r>>] \/ append'[<<k, r>>].pc = "over"
  /\ \A c \in Commands : handling'[c] = handling[c] \/ handling'[c].pc = "over"
  /\ \A m \in Messages : handling'[m] = handling[m]

(* No entry is written; a history is emptied by /reset or by /compact.       *)
Rests ==
  /\ later' = later /\ raced \subseteq raced'
  /\ \A t \in Threads :
       /\ since'[t] \subseteq since[t]
       /\ \/ threads'[t].history = threads[t].history
          \/ since'[t] = {}
          \/ \E c \in Commands : /\ Of(c) = t /\ MayWrite(c)
                                 /\ Mentioned(handling[c].seen) \subseteq raced'

LEMMA StepEnters ==
  ASSUME Control, AtHome, [Next]_vars
  PROVE  \/ Rests
         \/ \E e \in Events, w \in Writers, seen \in Seq(Entry), told \in Entry :
              Enters(e, w, seen, told)
<1>0. /\ TypeOK /\ since \in [Threads -> SUBSET Messages]
      /\ Messages \cap Commands = {} /\ (Tasks \X Roles) \cap Commands = {}
      /\ Events = Messages \cup Commands
  BY CommsAssumption DEF Control, TypeOK, Events
<1>1. Quiet => Rests
  BY <1>0 DEF Quiet, Rests
<1>2. CASE UNCHANGED vars
  BY <1>1, <1>2 DEF Quiet, vars, history
<1>3. ASSUME NEW e \in Events, Lookup(e) PROVE Quiet
  BY <1>3 DEF Lookup, Quiet, history
<1>4. ASSUME NEW e \in Events, ClearsRow(e), Reset(e) PROVE Rests
  <2>1. /\ since' = [since EXCEPT ![Of(e)] = {}] /\ later' = later /\ raced' = raced
    BY <1>4 DEF Reset
  <2>2. QED BY <1>0, <1>4, <2>1 DEF Rests, ClearsRow
<1>5. ASSUME NEW e \in Events, ClearsRow(e), Len(handling[e].seen) >= CompactFrom,
             UNCHANGED <<since, later, undone>>,
             raced' = raced \cup Mentioned(handling[e].seen)
      PROVE  Rests
  <2>1. MayWrite(e) /\ e \in Commands
    BY <1>5 DEF MayWrite, ClearsRow
  <2>2. QED BY <1>0, <1>5, <2>1 DEF Rests, ClearsRow
<1>6. ASSUME NEW e \in Events, HandlerStep(e), handling[e].pc = "summarising",
             handling'[e].pc = "over", e \in Commands, Of(e) \in Threads,
             UNCHANGED <<since, undone>>,
             WriteEntry(e, e, handling[e].seen, handling[e].told),
             threads'[Of(e)].history = Appended(handling[e].seen, handling[e].told),
             \A t \in Threads \ {Of(e)} : threads'[t].history = threads[t].history
      PROVE  /\ Enters(e, e, handling[e].seen, handling[e].told)
             /\ e \in Writers /\ handling[e].seen \in Seq(Entry) /\ handling[e].told \in Entry
  <2>1. \A f \in Events \ {e} : handling'[f] = handling[f]
    BY <1>6, HandlerMoves
  <2>2. append' = append
    BY <1>6, HandlerMoves
  <2>3. ~Done(e) /\ Done(e)'
    BY <1>0, <1>6 DEF Done
  <2>4. handling[e].told \subseteq Home(Of(e))
    BY <1>6 DEF AtHome, Tells
  <2>5. \A x, n : Recall(Of(e), x, n) => Keeps(handling[e].seen, x, n)
    BY <1>6 DEF Recall, MayWrite
  <2>6. e \in Writers /\ handling[e].seen \in Seq(Entry) /\ handling[e].told \in Entry
    BY <1>0, <1>6, HandlingType DEF Writers
  <2>7. Enters(e, e, handling[e].seen, handling[e].told)
    BY <1>0, <1>6, <2>1, <2>2, <2>3, <2>4, <2>5 DEF Enters
  <2>8. QED BY <2>6, <2>7
<1>7. ASSUME NEW k \in Tasks, NEW r \in Roles, TaskStep(k),
             WriteHistory(k, r), append'[<<k, r>>].pc = "over", OtherAppends(k, r),
             threads'[Of(k[1])].history = Appended(append[<<k, r>>].seen, {k[1]}),
             \A t \in Threads \ {Of(k[1])} : threads'[t].history = threads[t].history
      PROVE  /\ Enters(k[1], <<k, r>>, append[<<k, r>>].seen, {k[1]})
             /\ k[1] \in Events /\ <<k, r>> \in Writers
             /\ append[<<k, r>>].seen \in Seq(Entry) /\ {k[1]} \in Entry
  <2>1. /\ handling' = handling /\ Of(k[1]) \in Threads /\ k[1] \in Messages
    BY <1>7, TaskHistory
  <2>2. /\ append[<<k, r>>].pc = "writing"
        /\ WriteEntry(k[1], <<k, r>>, append[<<k, r>>].seen, {k[1]})
        /\ since' = [since EXCEPT ![Of(k[1])] = since[Of(k[1])] \cup {k[1]}]
    BY <1>7 DEF WriteHistory
  <2>3. <<k, r>> \notin Commands
    BY <1>0
  <2>4. ~Done(<<k, r>>) /\ Done(<<k, r>>)'
    BY <1>7, <2>2, <2>3 DEF Done
  <2>5. {k[1]} \subseteq Home(Of(k[1]))
    BY <2>1 DEF Home
  <2>6. \A x \in Messages, n \in Nat :
          Recall(Of(k[1]), x, n) /\ x \notin {k[1]} => Keeps(append[<<k, r>>].seen, x, n)
    BY <2>2 DEF Recall
  <2>7. \A l \in Tasks, q \in Roles :
          append'[<<l, q>>] = append[<<l, q>>] \/ append'[<<l, q>>].pc = "over"
    BY <1>7 DEF OtherAppends
  <2>8. /\ k[1] \in Events /\ <<k, r>> \in Writers
        /\ append[<<k, r>>].seen \in Seq(Entry) /\ {k[1]} \in Entry
    BY <1>0, <2>1, AppendType DEF Writers, Entry
  <2>9. /\ since'[Of(k[1])] \subseteq since[Of(k[1])] \cup {k[1]}
        /\ \A t \in Threads \ {Of(k[1])} : since'[t] = since[t]
    BY <1>0, <2>1, <2>2
  <2>10. k[1] \notin Commands
    BY <1>0, <2>1
  <2>11. Enters(k[1], <<k, r>>, append[<<k, r>>].seen, {k[1]})
    BY <1>7, <2>1, <2>2, <2>4, <2>5, <2>6, <2>7, <2>9, <2>10 DEF Enters
  <2>12. QED BY <2>8, <2>11
<1>8. ASSUME NEW e \in Events, HandlerStep(e)
      PROVE  \/ Rests
             \/ /\ Enters(e, e, handling[e].seen, handling[e].told)
                /\ e \in Writers /\ handling[e].seen \in Seq(Entry)
                /\ handling[e].told \in Entry
  <2>1. HandlerWrites(e)
    BY <1>8, HandlerHistory
  <2>2. QED BY <1>1, <1>4, <1>5, <1>6, <1>8, <2>1 DEF HandlerWrites
<1>9. ASSUME NEW k \in Tasks, TaskStep(k)
      PROVE  \/ Rests
             \/ \E r \in Roles :
                  /\ Enters(k[1], <<k, r>>, append[<<k, r>>].seen, {k[1]})
                  /\ k[1] \in Events /\ <<k, r>> \in Writers
                  /\ append[<<k, r>>].seen \in Seq(Entry) /\ {k[1]} \in Entry
  <2>1. TaskWrites(k)
    BY <1>9, TaskHistory
  <2>2. QED BY <1>1, <1>7, <1>9, <2>1 DEF TaskWrites
<1>10. CASE \E e \in Events : HandlerStep(e)
  BY <1>8, <1>10
<1>11. CASE \E k \in Tasks : TaskStep(k)
  BY <1>9, <1>11
<1>12. QED BY <1>1, <1>2, <1>3, <1>10, <1>11, StepOfAnEvent

LEMMA NextCounted == Control /\ AtHome /\ Counted /\ [Next]_vars => Counted'
<1> SUFFICES ASSUME Control, AtHome, Counted, [Next]_vars PROVE Counted'
  OBVIOUS
<1>1. SUFFICES ASSUME NEW x \in Messages, NEW w \in later'[x] PROVE Done(w)'
  BY DEF Counted
<1>2. CASE w \in later[x]
  <2>1. Done(w)
    BY <1>2 DEF Counted
  <2>2. QED BY <2>1, StaysDone
<1>3. CASE w \notin later[x]
  <2>1. later' # later
    BY <1>1, <1>3
  <2>2. PICK e \in Events, v \in Writers, seen \in Seq(Entry), told \in Entry :
             Enters(e, v, seen, told)
    BY <2>1, StepEnters DEF Rests
  <2>3. later'[x] = {} \/ later'[x] = later[x] \/ later'[x] = later[x] \cup {v}
    BY <2>2 DEF Enters, WriteEntry
  <2>4. w = v
    BY <1>1, <1>3, <2>3
  <2>5. QED BY <2>2, <2>4 DEF Enters
<1>4. QED BY <1>2, <1>3

(* What is read of a row that keeps an exchange keeps it as well.            *)
LEMMA ReadersRecall ==
  ASSUME Control, [Next]_vars, NEW t \in Threads, NEW x, NEW n \in Nat, Recall(t, x, n)
  PROVE  /\ \A k \in Tasks, r \in Roles :
              Of(k[1])' = t /\ k[1] # x /\ append'[<<k, r>>].pc = "writing" =>
                Keeps(append'[<<k, r>>].seen, x, n) /\ append'[<<k, r>>].seen \in Seq(Entry)
         /\ \A c \in Commands :
              Of(c)' = t /\ MayWrite(c)' =>
                Keeps(handling'[c].seen, x, n) /\ handling'[c].seen \in Seq(Entry)
<1>0. /\ \A k \in Tasks, r \in Roles : AppendRead(k, r)
      /\ \A c \in Commands : CommandRead(c)
      /\ \A e \in Events : Stays(e)
  BY StepReads
<1>1. TypeOK' /\ Commands \subseteq Events
  BY NextControl DEF Control, Events
<1>2. ASSUME NEW k \in Tasks, NEW r \in Roles, Of(k[1])' = t, k[1] # x,
             append'[<<k, r>>].pc = "writing"
      PROVE  Keeps(append'[<<k, r>>].seen, x, n)
  <2>1. AppendRead(k, r)
    BY <1>0
  <2>2. append[<<k, r>>].pc # "none" => Of(k[1]) = t
    <3>1. append[<<k, r>>].pc # "none" => Of(k[1]) \in Threads /\ k[1] \in Events
      BY AppendsHaveRows
    <3>2. QED BY <1>0, <1>2, <3>1 DEF Stays
  <2>3. QED BY <1>2, <2>1, <2>2 DEF AppendRead, Recall
<1>3. ASSUME NEW c \in Commands, Of(c)' = t, MayWrite(c)'
      PROVE  Keeps(handling'[c].seen, x, n)
  <2>1. CommandRead(c)
    BY <1>0
  <2>2. QED BY <1>3, <2>1 DEF CommandRead, Recall
<1>4. \A k \in Tasks, r \in Roles : append'[<<k, r>>].seen \in Seq(Entry)
  <2>1. ASSUME NEW k \in Tasks, NEW r \in Roles
        PROVE  append'[<<k, r>>] \in [pc : {"none", "reading", "writing", "over"},
                                      seen : Seq(Entry)]
    BY <1>1 DEF TypeOK
  <2>2. QED BY <2>1
<1>5. \A c \in Commands : handling'[c].seen \in Seq(Entry)
  <2>1. \A c \in Commands : handling'[c] \in Handling
    BY <1>1 DEF TypeOK
  <2>2. QED BY <2>1 DEF Handling
<1>6. QED BY <1>2, <1>3, <1>4, <1>5

LEMMA RestRecalls ==
  ASSUME Control, [Next]_vars, Rests, NEW t \in Threads, NEW x, NEW n \in Nat,
         x \in since'[t], x \notin raced', Recall(t, x, n)
  PROVE  Recall(t, x, n)'
<1>1. Keeps(threads'[t].history, x, n)
  <2>1. CASE threads'[t].history = threads[t].history
    BY <2>1 DEF Recall
  <2>2. ASSUME NEW c \in Commands, Of(c) = t, MayWrite(c),
               Mentioned(handling[c].seen) \subseteq raced'
        PROVE  Keeps(threads'[t].history, x, n)
    <3>1. Keeps(handling[c].seen, x, n) /\ handling[c].seen \in Seq(Entry)
      BY <2>2, HandlingType DEF Recall, Control, Events
    <3>2. x \notin Mentioned(handling[c].seen)
      BY <2>2
    <3>3. ~(n < HistoryLimit)
      BY <3>1, <3>2, KeepsMentioned
    <3>4. QED BY <3>3, CommsAssumption DEF Keeps
  <2>3. QED BY <2>1, <2>2 DEF Rests
<1>2. QED BY <1>1, ReadersRecall DEF Recall

LEMMA EntryRecalls ==
  ASSUME Control, AtHome, Counted, [Next]_vars,
         NEW e \in Events, NEW w \in Writers, NEW seen \in Seq(Entry), NEW told \in Entry,
         Enters(e, w, seen, told), NEW t \in Threads, NEW x \in Messages,
         x \in since'[t], x \notin raced',
         x \in since[t] \ raced => Recall(t, x, Cardinality(later[x]))
  PROVE  Recall(t, x, Cardinality(later[x]))'
<1>0. TypeOK /\ TypeOK' /\ Events = Messages \cup Commands
  BY NextControl DEF Control, Events
<1>1. /\ later'[x] = IF x \in told THEN {} ELSE
                     IF x \in since[Of(e)] THEN later[x] \cup {w} ELSE later[x]
      /\ raced' = IF Pending(e) THEN raced \cup told ELSE raced \ told
  BY DEF Enters, WriteEntry
<1>2. PICK n : n = Cardinality(later[x])
  OBVIOUS
<1>3. n \in Nat /\ \A v : v \notin later[x] => Cardinality(later[x] \cup {v}) = n + 1
  BY <1>0, <1>2, LaterCounts
<1>4. CASE x \in told
  <2>1. t = Of(e) /\ ~Pending(e)
    <3>1. ~Pending(e)
      BY <1>1, <1>4
    <3>2. since'[t] \subseteq Home(t)'
      BY NextAtHome DEF AtHome
    <3>3. Of(x)' = t /\ Of(x) = Of(e)
      BY <1>4, <3>2 DEF Enters, Home
    <3>4. handling'[x] = handling[x]
      BY DEF Enters
    <3>5. QED BY <3>1, <3>3, <3>4 DEF Of
  <2>2. later'[x] = {} /\ Cardinality({}) = 0
    BY <1>1, <1>4, FS_EmptySet
  <2>3. Keeps(threads'[t].history, x, 0)
    BY <1>4, <2>1, KeepsAppended DEF Enters
  <2>4. ASSUME NEW k \in Tasks, NEW r \in Roles, Of(k[1])' = t, k[1] # x,
               append'[<<k, r>>].pc = "writing"
        PROVE  FALSE
    <3>1. k[1] \in Messages /\ k[1] # e
      <4>1. k[1] \in Messages /\ Messages \cap Commands = {}
        BY TaskFacts, CommsAssumption
      <4>2. e \in Messages => x = e
        BY <1>4 DEF Enters
      <4>3. QED BY <1>0, <2>4, <4>1, <4>2
    <3>2. append[<<k, r>>].pc = "writing" /\ Of(k[1]) = t
      BY <2>4, <3>1 DEF Enters, Of
    <3>3. QED BY <2>1, <3>1, <3>2 DEF Pending, Appending
  <2>5. ASSUME NEW c \in Commands, Of(c)' = t, MayWrite(c)'
        PROVE  FALSE
    <3>1. handling'[c].pc # "over"
      BY <2>5 DEF MayWrite
    <3>2. c # e /\ handling'[c] = handling[c]
      BY <3>1 DEF Enters
    <3>3. Of(c) = t /\ MayWrite(c) /\ c \in Commands \ {e}
      BY <2>5, <3>2 DEF MayWrite, Of
    <3>4. QED BY <2>1, <3>3 DEF Pending, Compacting, MayWrite
  <2>6. QED BY <2>2, <2>3, <2>4, <2>5 DEF Recall
<1>5. CASE x \notin told /\ t = Of(e)
  <2>1. x \in since[t] /\ x \notin raced
    BY <1>1, <1>5 DEF Enters
  <2>2. Recall(t, x, n)
    BY <1>2, <2>1
  <2>3. w \notin later[x]
    BY DEF Counted, Enters
  <2>4. Cardinality(later'[x]) = n + 1
    BY <1>1, <1>3, <1>5, <2>1, <2>3
  <2>5. Keeps(threads'[t].history, x, n + 1)
    <3>1. Keeps(seen, x, n)
      BY <1>3, <1>5, <2>2 DEF Enters
    <3>2. Keeps(Appended(seen, told), x, n + 1)
      BY <1>3, <3>1, KeepsAppended
    <3>3. QED BY <1>5, <3>2 DEF Enters
  <2>6. n + 1 \in Nat /\ n <= n + 1
    BY <1>3
  <2>7. ASSUME NEW h \in Seq(Entry), Keeps(h, x, n) PROVE Keeps(h, x, n + 1)
    BY <1>3, <2>6, <2>7, KeepsMore
  <2>8. \A k \in Tasks, r \in Roles :
          Of(k[1])' = t /\ k[1] # x /\ append'[<<k, r>>].pc = "writing" =>
            Keeps(append'[<<k, r>>].seen, x, n + 1)
    BY <1>3, <2>2, <2>7, ReadersRecall
  <2>9. \A c \in Commands :
          Of(c)' = t /\ MayWrite(c)' => Keeps(handling'[c].seen, x, n + 1)
    BY <1>3, <2>2, <2>7, ReadersRecall
  <2>10. QED BY <2>4, <2>5, <2>8, <2>9 DEF Recall
<1>6. CASE x \notin told /\ t # Of(e)
  <2>1. /\ threads'[t].history = threads[t].history /\ since'[t] = since[t]
        /\ x \notin raced
    BY <1>1, <1>6 DEF Enters
  <2>2. Recall(t, x, n)
    BY <1>2, <2>1
  <2>3. since[t] \subseteq Home(t) /\ since[Of(e)] \subseteq Home(Of(e))
    BY DEF AtHome, Enters
  <2>4. later'[x] = later[x]
    BY <1>1, <1>6, <2>1, <2>3 DEF Home
  <2>5. QED BY <1>2, <1>3, <2>1, <2>2, <2>4, ReadersRecall DEF Recall
<1>7. QED BY <1>4, <1>5, <1>6

LEMMA NextRecalled ==
  Control /\ AtHome /\ Counted /\ Recalled /\ [Next]_vars => Recalled'
<1> SUFFICES ASSUME Control, AtHome, Counted, Recalled, [Next]_vars PROVE Recalled'
  OBVIOUS
<1>1. SUFFICES ASSUME NEW t \in Threads, NEW x \in since'[t], x \notin raced'
               PROVE  Recall(t, x, Cardinality(later[x]))'
  BY DEF Recalled
<1>2. x \in Messages /\ TypeOK
  <2>1. TypeOK /\ TypeOK'
    BY NextControl DEF Control
  <2>2. QED BY <2>1 DEF TypeOK
<1>3. CASE Rests
  <2>1. /\ later' = later /\ x \in since[t] /\ x \notin raced
    BY <1>1, <1>3 DEF Rests
  <2>2. PICK n : n = Cardinality(later[x])
    OBVIOUS
  <2>3. n \in Nat /\ Recall(t, x, n)
    BY <1>2, <2>1, <2>2, LaterCounts DEF Recalled
  <2>4. Recall(t, x, n)'
    BY <1>1, <1>3, <2>3, RestRecalls
  <2>5. QED BY <2>1, <2>2, <2>4
<1>4. ASSUME NEW e \in Events, NEW w \in Writers, NEW seen \in Seq(Entry),
             NEW told \in Entry, Enters(e, w, seen, told)
      PROVE  Recall(t, x, Cardinality(later[x]))'
  <2>1. x \in since[t] \ raced => Recall(t, x, Cardinality(later[x]))
    BY DEF Recalled
  <2>2. QED BY <1>1, <1>2, <1>4, <2>1, EntryRecalls
<1>5. QED BY <1>3, <1>4, StepEnters

LEMMA InitRecalled == Init => Counted /\ Recalled
BY DEF Init, Counted, Recalled

LEMMA RecalledInvariance == Spec => []Recalled
<1>1. Control /\ AtHome /\ Counted /\ Recalled /\ [Next]_vars => Counted' /\ Recalled'
  BY NextCounted, NextRecalled
<1>2. QED
  BY <1>1, InitRecalled, RemindedInvariance, ControlInvariance, PTL DEF Spec

(* An exchange is in the history until HistoryLimit entries came after it,   *)
(* unless a write was pending when it was written: for any number of tasks,  *)
(* retries, roles and summaries, and any limit.                              *)
THEOREM RecentsRemembered == Spec => []RecentRemembered
<1>1. ASSUME TypeOK, Recalled, NEW t \in Threads, NEW x \in since[t], x \notin raced,
             Cardinality(later[x]) < HistoryLimit
      PROVE  x \in Mentioned(threads[t].history)
  <2>1. x \in Messages
    BY <1>1 DEF TypeOK
  <2>2. PICK n : n = Cardinality(later[x])
    OBVIOUS
  <2>3. n \in Nat /\ n < HistoryLimit
    BY <1>1, <2>1, <2>2, LaterCounts
  <2>4. Keeps(threads[t].history, x, n)
    BY <1>1, <2>2 DEF Recalled, Recall
  <2>5. threads[t].history \in Seq(Entry)
    BY <1>1, HistoryType
  <2>6. QED BY <2>3, <2>4, <2>5, KeepsMentioned
<1>2. Control /\ Recalled => RecentRemembered
  BY <1>1 DEF Control, RecentRemembered
<1>3. QED BY <1>2, ControlInvariance, RecalledInvariance, PTL

-----------------------------------------------------------------------------
(* Where answers appear *)

(* A message whose task is to come, or runs.                                 *)
Live(m) == handling[m].pc = "ready" \/ \E k \in TasksOf(m) : execution[k] \notin {"none", "over"}
TypingOf(m) == threads[Of(m)].typing

Slots ==
  /\ \A t \in Threads : threads[t].typing # Nothing => Of(threads[t].typing) = t
  /\ \A m \in delivered : \E k \in TasksOf(m) : reply[k].pc \in {"clearing", "over"}

(* A row refers to a typing message, or to one that a reply has just used.   *)
Held(t) ==
  threads[t].typing # Nothing =>
    \/ shown[threads[t].typing] = Thinking
    \/ \E k \in Tasks : reply[k].pc = "clearing" /\ Of(k[1]) = t

(* The answer to a message goes to its own typing message, or to an older    *)
(* one that nothing was written to, or to a message of its own.              *)
Aimed(m) ==
  /\ handling[m].pc \in {"new", "creating"} => shown[m] = Nothing
  /\ handling[m].pc = "found" => shown[m] \in {Nothing, Thinking}
  /\ Live(m) /\ shown[m] # Nothing => TypingOf(m) = m
  /\ \A k \in TasksOf(m) :
       /\ reply[k].pc = "updating" =>
            /\ reply[k].slot \in Messages /\ TypingOf(m) = reply[k].slot
            /\ shown[reply[k].slot] = Thinking
            /\ shown[m] # Nothing => reply[k].slot = m
       /\ reply[k].pc = "posting" => shown[m] = Nothing

Visible ==
  \A m \in delivered : /\ shown[m] \in {Nothing, m}
                       /\ m \in posted \/ \E n \in Messages : shown[n] = m

Answered ==
  /\ Slots
  /\ ~overlapped /\ ~refLost =>
       (\A t \in Threads : Held(t)) /\ (\A m \in Messages : Aimed(m)) /\ Visible

(* While one event is at work nothing of the others is under way.            *)
LEMMA Alone ==
  ASSUME Serial, ~overlapped, NEW e \in Busy, NEW m \in Messages, m # e
  PROVE  /\ ~Live(m) /\ handling[m].pc \in {"new", "over"}
         /\ \A k \in TasksOf(m) : reply[k].pc \in {"none", "over"}
<1>1. m \notin Busy /\ m \in Events
  BY DEF Serial, Events, Busy
<1>2. ~AtWork(m)
  BY <1>1 DEF Busy
<1>3. QED BY <1>2 DEF AtWork, Live

LEMMA LiveHasRow ==
  ASSUME Control, NEW m \in Messages, Live(m)
  PROVE  Of(m) \in Threads /\ m \in Busy
<1>0. (\A e \in Events : Placed(e)) /\ (\A k \in Tasks : Ordered(k)) /\ m \in Events
  BY DEF Control, Events
<1>1. CASE handling[m].pc = "ready"
  BY <1>0, <1>1 DEF Placed, Busy, AtWork
<1>2. CASE \E k \in TasksOf(m) : execution[k] \notin {"none", "over"}
  BY <1>0, <1>2 DEF TasksOf, Ordered, Busy, AtWork
<1>3. QED BY <1>1, <1>2 DEF Live

(* A reply is the last thing of a message.                                   *)
LEMMA ReplyIsLast ==
  ASSUME Control, NEW k \in Tasks, reply[k].pc # "none"
  PROVE  /\ ~Live(k[1]) /\ handling[k[1]].pc = "over" /\ Of(k[1]) \in Threads
         /\ \A l \in TasksOf(k[1]) : l # k => reply[l].pc = "none"
         /\ reply[k].pc # "over" => k[1] \in Busy
<1>0. Ordered(k) /\ k[1] \in Events /\ k \in TasksOf(k[1])
  BY TaskFacts DEF Control
<1>1. /\ execution[k] = "over" /\ handling[k[1]].pc = "over" /\ Of(k[1]) \in Threads
      /\ \A l \in TasksOf(k[1]) : /\ execution[l] \in {"none", "over"}
                                  /\ l # k => reply[l].pc = "none"
  BY <1>0 DEF Ordered
<1>2. ~Live(k[1])
  BY <1>1 DEF Live
<1>3. reply[k].pc # "over" => k[1] \in Busy
  BY <1>0 DEF Busy, AtWork
<1>4. QED BY <1>1, <1>2, <1>3

LEMMA InitAnswered == Init => Answered
<1> SUFFICES ASSUME Init PROVE Answered
  OBVIOUS
<1>1. /\ \A m \in Messages : shown[m] = Nothing
      /\ \A t \in Threads : threads[t].typing = Nothing
      /\ \A k \in Tasks : reply[k].pc = "none"
      /\ delivered = {}
  BY DEF Init
<1>2. \A m \in Messages : \A k \in TasksOf(m) : reply[k].pc = "none"
  BY <1>1 DEF TasksOf
<1>3. Slots /\ Visible
  BY <1>1 DEF Slots, Visible
<1>4. \A t \in Threads : Held(t)
  BY <1>1 DEF Held
<1>5. \A m \in Messages : Aimed(m)
  BY <1>1, <1>2 DEF Aimed
<1>6. QED BY <1>3, <1>4, <1>5 DEF Answered

(* A step that leaves replies, typing messages and references alone.         *)
Aside ==
  /\ UNCHANGED answers /\ (~overlapped' => ~overlapped)
  /\ \A t \in Threads : threads'[t].typing = threads[t].typing
  /\ \A m \in Messages :
       /\ Live(m)' => Live(m) \/ shown[m] = Nothing
       /\ handling'[m].pc \in {"new", "creating"} => handling[m].pc \in {"new", "creating"}
       /\ handling'[m].pc = "found" => handling[m].pc \in {"new", "creating", "found"}

LEMMA AsideAnswered ==
  ASSUME Control, [Next]_vars, Answered, Aside
  PROVE  Answered'
<1>0. /\ \A e \in Events : Stays(e)
      /\ Messages \subseteq Events /\ Nothing \notin Threads
      /\ UNCHANGED <<reply, shown, posted, delivered, refLost>>
      /\ \A t \in Threads : threads'[t].typing = threads[t].typing
  BY StepReads, CommsAssumption DEF Aside, answers, Events, Threads
<1>1. \A m \in Messages, t \in Threads : Of(m) = t => Of(m)' = t
  BY <1>0 DEF Stays
<1>2. Slots'
  <2>2. ASSUME NEW t \in Threads, threads'[t].typing # Nothing
        PROVE  (Of(threads[t].typing) = t)'
    <3>1. PICK m \in Messages : m = threads[t].typing
      BY <1>0, <2>2, HistoryType DEF Control
    <3>2. Of(m) = t
      BY <1>0, <2>2, <3>1 DEF Answered, Slots
    <3>3. Of(m)' = t /\ threads'[t].typing = m
      BY <1>0, <1>1, <3>1, <3>2
    <3>4. QED BY <3>3 DEF Of
  <2>3. \A m \in delivered' : \E k \in TasksOf(m) : reply'[k].pc \in {"clearing", "over"}
    BY <1>0 DEF Answered, Slots
  <2>4. QED BY <2>2, <2>3 DEF Slots
<1>3. ASSUME ~overlapped', ~refLost'
      PROVE  (\A t \in Threads : Held(t))' /\ (\A m \in Messages : Aimed(m))' /\ Visible'
  <2>0. (\A t \in Threads : Held(t)) /\ (\A m \in Messages : Aimed(m)) /\ Visible
    BY <1>0, <1>3 DEF Answered, Aside
  <2>1. ASSUME NEW t \in Threads PROVE Held(t)'
    <3>1. \A k \in Tasks : Of(k[1]) = t => Of(k[1])' = t
      BY <1>1, TaskFacts
    <3>2. Held(t)
      BY <2>0
    <3>3. QED BY <1>0, <3>1, <3>2 DEF Held
  <2>2. ASSUME NEW m \in Messages PROVE Aimed(m)'
    <3>0. Aimed(m)
      BY <2>0
    <3>1. Of(m) \in Threads => TypingOf(m)' = TypingOf(m)
      BY <1>0, <1>1 DEF TypingOf
    <3>2. /\ handling'[m].pc \in {"new", "creating"} => shown'[m] = Nothing
          /\ handling'[m].pc = "found" => shown'[m] \in {Nothing, Thinking}
      BY <1>0, <3>0 DEF Aside, Aimed
    <3>3. Live(m)' /\ shown'[m] # Nothing => TypingOf(m)' = m
      <4>1. Live(m)' /\ shown'[m] # Nothing => Live(m) /\ shown[m] # Nothing
        BY <1>0 DEF Aside
      <4>2. QED BY <3>0, <3>1, <4>1, LiveHasRow DEF Aimed
    <3>4. \A k \in TasksOf(m) : reply[k].pc # "none" => TypingOf(m)' = TypingOf(m)
      BY <3>1, ReplyIsLast DEF TasksOf
    <3>5. QED BY <1>0, <3>0, <3>2, <3>3, <3>4 DEF Aimed
  <2>3. Visible'
    BY <1>0, <2>0 DEF Visible
  <2>4. QED BY <2>1, <2>2, <2>3
<1>4. QED BY <1>2, <1>3 DEF Answered

(* A handler that stores no reference, and sends no typing message.          *)
LEMMA HandlerAside ==
  ASSUME Control, NEW e \in Events, HandlerStep(e), ~ShowTyping(e), ~StoreTyping(e)
  PROVE  Aside
<1>0. TypeOK /\ Placed(e) /\ <<>> \in Seq(Entry)
  BY DEF Control
<1>1. /\ \A f \in Events \ {e} : handling'[f] = handling[f]
      /\ \A k \in Tasks : k[1] # e => execution'[k] = execution[k]
  <2>1. /\ \A f \in Events \ {e} : handling'[f] = handling[f]
        /\ \/ execution' = execution
           \/ execution' = [execution EXCEPT ![<<e, 0>>] = "running"]
    BY HandlerMoves
  <2>2. \A k \in Tasks : k[1] # e => k # <<e, 0>>
    OBVIOUS
  <2>3. execution \in [Tasks -> {"none", "running", "accounting", "failed", "over"}]
    BY <1>0 DEF TypeOK
  <2>4. QED BY <2>1, <2>2, <2>3
<1>2. /\ handling[e].pc \notin {"new", "over"}
      /\ \/ handling[e].pc = "creating" /\ handling'[e].pc = "found"
         \/ handling'[e] = handling[e]
         \/ handling'[e].pc \in {"ready", "over", "compacting", "summarising"}
  <2>1. HandlerWrites(e)
    BY HandlerHistory
  <2>2. handling[e].pc \notin {"new", "over"}
    BY HandlerMoves
  <2>3. QED BY <2>1, <2>2 DEF HandlerWrites
<1>3. UNCHANGED <<answers, overlapped>>
  BY DEF HandlerStep, CreateThread, NoTyping, CreateTask, Drop, Reset, Compact,
         ReadForSummary, WriteSummary, answers
<1>4. \A t \in Threads : threads'[t].typing = threads[t].typing
  <2>1. CASE CreateThread(e)
    <3>1. e \in Threads /\ threads' = [threads EXCEPT ![e].there = TRUE]
      BY <2>1 DEF CreateThread, Threads
    <3>2. QED BY <1>0, <3>1, SetThereEffect
  <2>2. CASE NoTyping(e) \/ CreateTask(e) \/ Drop(e) \/ ReadForSummary(e)
    BY <2>2 DEF NoTyping, CreateTask, Drop, ReadForSummary
  <2>3. CASE Reset(e) \/ Compact(e)
    <3>1. handling[e].pc = "found" /\ SetHistory(e, <<>>)
      BY <2>3 DEF Reset, Compact
    <3>2. Of(e) \in Threads /\ threads' = [threads EXCEPT ![Of(e)].history = <<>>]
      BY <1>0, <3>1 DEF Placed, SetHistory
    <3>3. QED BY <1>0, <3>2, SetHistoryEffect
  <2>4. CASE WriteSummary(e)
    <3>1. /\ handling[e].pc = "summarising"
          /\ WriteEntry(e, e, handling[e].seen, handling[e].told)
      BY <2>4 DEF WriteSummary
    <3>2. e \in Commands /\ Of(e) \in Threads /\ e \in Writers
      BY <1>0, <3>1 DEF Placed, Writers
    <3>3. handling[e].seen \in Seq(Entry) /\ handling[e].told \in Entry
      BY <1>0, HandlingType
    <3>4. QED BY <1>0, <3>1, <3>2, <3>3, WriteEntryType
  <2>5. QED BY <2>1, <2>2, <2>3, <2>4 DEF HandlerStep
<1>5. \A m \in Messages : m # e => (Live(m)' => Live(m))
  BY <1>1 DEF Live, TasksOf, Events
<1>6. ASSUME e \in Messages PROVE Live(e)' => Live(e) \/ shown[e] = Nothing
  <2>1. CASE NoTyping(e)
    BY <2>1 DEF NoTyping
  <2>2. CASE CreateTask(e)
    BY <2>2 DEF CreateTask, Live
  <2>3. CASE ~NoTyping(e) /\ ~CreateTask(e)
    <3>1. execution' = execution
      BY <2>3 DEF HandlerStep, CreateThread, Drop, Reset, Compact, ReadForSummary, WriteSummary
    <3>2. handling'[e].pc # "ready"
      <4>1. CASE CreateThread(e)
        <5> DEFINE new == [handling[e] EXCEPT !.pc = "found", !.thread = e]
        <5>1. new.pc = "found"
          <6>1. handling[e] \in Handling
            BY <1>0 DEF TypeOK
          <6>2. QED BY <6>1 DEF Handling
        <5>2. handling' = [handling EXCEPT ![e] = new]
          BY <4>1 DEF CreateThread
        <5> HIDE DEF new
        <5>3. handling'[e] = new
          BY <1>0, <5>2 DEF TypeOK
        <5>4. QED BY <5>1, <5>3
      <4>2. CASE Drop(e) \/ Reset(e) \/ WriteSummary(e)
        BY <1>0, <4>2, FinishEffect DEF Drop, Reset, WriteSummary
      <4>3. CASE Compact(e) \/ ReadForSummary(e)
        BY <1>0, <1>6, <4>3, CommsAssumption DEF Compact, ReadForSummary, Placed
      <4>4. QED BY <2>3, <4>1, <4>2, <4>3 DEF HandlerStep
    <3>3. QED BY <3>1, <3>2 DEF Live
  <2>4. QED BY <2>1, <2>2, <2>3
<1>7. ASSUME NEW m \in Messages
      PROVE  /\ handling'[m].pc \in {"new", "creating"} => handling[m].pc \in {"new", "creating"}
             /\ handling'[m].pc = "found" => handling[m].pc \in {"new", "creating", "found"}
  <2>1. m \in Events
    BY DEF Events
  <2>2. QED BY <1>1, <1>2, <2>1
<1>8. QED BY <1>3, <1>4, <1>5, <1>6, <1>7 DEF Aside

(* A task that runs, fails, is retried, or appends.                          *)
LEMMA TaskAside ==
  ASSUME Control, NEW k \in Tasks, TaskStep(k),
         ~ReadRef(k), ~UpdateMessage(k), ~ClearRef(k), ~PostMessage(k), ~DropReply(k)
  PROVE  Aside
<1>0. TypeOK /\ k[1] \in Messages /\ k[1] \in Events /\ k \in TasksOf(k[1])
  BY TaskFacts DEF Control
<1>1. TaskFrame(k) /\ handling' = handling
  BY TaskMoves DEF TaskFrame
<1>2. UNCHANGED <<answers, overlapped>>
  BY DEF TaskStep, Complete, Fail, Retry, ReadHistory, WriteHistory, DropAppend, answers
<1>3. \A t \in Threads : threads'[t].typing = threads[t].typing
  <2>1. ASSUME NEW r \in Roles, WriteHistory(k, r)
        PROVE  \A t \in Threads : threads'[t].typing = threads[t].typing
    <3>1. /\ WriteEntry(k[1], <<k, r>>, append[<<k, r>>].seen, {k[1]})
          /\ append[<<k, r>>].pc # "none"
      BY <2>1 DEF WriteHistory
    <3>2. Of(k[1]) \in Threads
      BY <3>1, AppendsHaveRows
    <3>3. append[<<k, r>>].seen \in Seq(Entry) /\ {k[1]} \in Entry /\ <<k, r>> \in Writers
      BY <1>0, AppendType DEF Entry, Writers
    <3>4. QED BY <1>0, <3>1, <3>2, <3>3, WriteEntryType
  <2>2. CASE threads' = threads
    BY <2>2
  <2>3. QED BY <2>1, <2>2 DEF TaskStep, Complete, Fail, Retry, ReadHistory, DropAppend
<1>4. ASSUME NEW m \in Messages, Live(m)' PROVE Live(m)
  <2>1. CASE m # k[1]
    BY <1>1, <1>4, <2>1 DEF TaskFrame, Live, TasksOf
  <2>2. CASE m = k[1] /\ execution' = execution
    BY <1>1, <1>4, <2>2 DEF Live
  <2>3. CASE m = k[1] /\ execution[k] \notin {"none", "over"}
    BY <1>0, <2>3 DEF Live
  <2>4. QED
    BY <2>1, <2>2, <2>3 DEF TaskStep, Complete, Fail, Retry, ReadHistory, WriteHistory, DropAppend
<1>5. QED BY <1>1, <1>2, <1>3, <1>4 DEF Aside

LEMMA LookupAside ==
  ASSUME Control, NEW e \in Events, Lookup(e)
  PROVE  Aside
<1>1. /\ handling[e].pc = "new" /\ handling'[e].pc \in {"creating", "found"}
      /\ \A f \in Events \ {e} : handling'[f] = handling[f]
      /\ UNCHANGED <<threads, execution, answers>> /\ overlapped' = (overlapped \/ Busy # {})
  BY LookupMoves
<1>2. \A m \in Messages : m \in Events
  BY DEF Events
<1>3. \A m \in Messages : Live(m)' => Live(m)
  BY <1>1, <1>2 DEF Live
<1>4. \A m \in Messages :
        /\ handling'[m].pc \in {"new", "creating"} => handling[m].pc \in {"new", "creating"}
        /\ handling'[m].pc = "found" => handling[m].pc \in {"new", "creating", "found"}
  BY <1>1, <1>2
<1>5. QED BY <1>1, <1>3, <1>4 DEF Aside

LEMMA ShowTypingAnswered ==
  ASSUME Control, Serial, Answered, NEW e \in Messages, ShowTyping(e)
  PROVE  Answered'
<1>0. /\ TypeOK /\ e \in Events /\ handling[e].pc = "found" /\ shown[e] = Nothing
      /\ shown' = [shown EXCEPT ![e] = Thinking]
      /\ UNCHANGED <<threads, handling, execution, reply, posted, delivered, refLost, overlapped>>
      /\ Slots /\ Nothing \notin Messages /\ Thinking \notin Messages /\ Nothing # Thinking
  BY CommsAssumption DEF ShowTyping, Control, Answered, Events
<1>1. shown'[e] = Thinking /\ \A m \in Messages : m # e => shown'[m] = shown[m]
  BY <1>0 DEF TypeOK
<1>2. e \in Busy
  BY <1>0 DEF Busy, AtWork
<1>3. \A k \in TasksOf(e) : reply[k].pc = "none"
  BY <1>0, ReplyIsLast DEF TasksOf
<1>4. ~Live(e)
  BY <1>0 DEF Live, Control, Ordered, TasksOf
<1>5. e \notin delivered
  BY <1>0, <1>3 DEF Slots
<1>6. Slots'
  BY <1>0, <1>1 DEF Slots, Of
<1>7. ASSUME ~overlapped, ~refLost
      PROVE  (\A t \in Threads : Held(t))' /\ (\A m \in Messages : Aimed(m))' /\ Visible'
  <2>0. (\A t \in Threads : Held(t)) /\ (\A m \in Messages : Aimed(m)) /\ Visible
    BY <1>7 DEF Answered
  <2>1. \A m \in Messages : shown[m] = Thinking => shown'[m] = Thinking
    BY <1>1
  <2>2. ASSUME NEW t \in Threads PROVE Held(t)'
    <3>1. Held(t) /\ threads[t].typing \in Messages \cup {Nothing}
      BY <1>0, <2>0, HistoryType
    <3>2. QED BY <1>0, <2>1, <3>1 DEF Held, Of
  <2>3. ASSUME NEW m \in Messages PROVE Aimed(m)'
    <3>1. CASE m = e
      BY <1>0, <1>1, <1>3, <1>4, <3>1 DEF Aimed, Live
    <3>2. CASE m # e
      <4>1. /\ ~Live(m) /\ handling[m].pc # "found"
            /\ \A k \in TasksOf(m) : reply[k].pc \in {"none", "over"}
        BY <1>2, <1>7, <3>2, Alone
      <4>2. handling[m].pc \in {"new", "creating"} => shown[m] = Nothing
        BY <2>0 DEF Aimed
      <4>3. QED BY <1>0, <1>1, <3>2, <4>1, <4>2 DEF Aimed, Live
    <3>3. QED BY <3>1, <3>2
  <2>4. Visible'
    <3>1. \A m \in delivered, n \in Messages : shown[n] = m => n # e
      BY <1>0 DEF Control, TypeOK
    <3>2. delivered \subseteq Messages
      BY <1>0 DEF TypeOK
    <3>3. QED BY <1>0, <1>1, <1>5, <2>0, <3>1, <3>2 DEF Visible
  <2>5. QED BY <2>2, <2>3, <2>4
<1>8. QED BY <1>0, <1>6, <1>7 DEF Answered

LEMMA StoreTypingAnswered ==
  ASSUME Control, Serial, Answered, NEW e \in Messages, StoreTyping(e)
  PROVE  Answered'
<1>0. /\ TypeOK /\ e \in Events /\ handling[e].pc = "found" /\ shown[e] # Nothing
      /\ Of(e) \in Threads /\ threads' = [threads EXCEPT ![Of(e)].typing = e]
      /\ Goto(e, "ready") /\ "ready" \in HandlerPcs
      /\ UNCHANGED <<execution, reply, shown, posted, delivered, refLost, overlapped>>
      /\ Slots /\ Nothing \notin Messages
  BY CommsAssumption DEF StoreTyping, Control, Answered, Events, answers, Placed, HandlerPcs
<1>1. /\ handling'[e].pc = "ready" /\ handling'[e].thread = handling[e].thread
      /\ \A f \in Events \ {e} : handling'[f] = handling[f]
  BY <1>0, GotoEffect
<1>2. /\ threads'[Of(e)].typing = e
      /\ \A t \in Threads \ {Of(e)} : threads'[t].typing = threads[t].typing
  BY <1>0, SetTypingEffect
<1>3. \A m \in Messages : m \in Events /\ Of(m)' = Of(m)
  BY <1>1 DEF Of, Events
<1>4. e \in Busy
  BY <1>0 DEF Busy, AtWork
<1>5. \A k \in TasksOf(e) : reply[k].pc = "none"
  BY <1>0, ReplyIsLast DEF TasksOf
<1>6. Slots'
  <2>2. ASSUME NEW t \in Threads, threads'[t].typing # Nothing
        PROVE  (Of(threads[t].typing) = t)'
    <3>1. CASE t = Of(e)
      <4>1. Of(e)' = t /\ threads'[t].typing = e
        BY <1>2, <1>3, <3>1
      <4>2. QED BY <4>1 DEF Of
    <3>2. CASE t # Of(e)
      <4>1. PICK m \in Messages : m = threads[t].typing
        BY <1>0, <1>2, <2>2, <3>2, HistoryType
      <4>2. Of(m) = t /\ threads'[t].typing = m
        BY <1>0, <1>2, <2>2, <3>2, <4>1 DEF Slots
      <4>3. Of(m)' = t
        BY <1>3, <4>2
      <4>4. QED BY <4>2, <4>3 DEF Of
    <3>3. QED BY <3>1, <3>2
  <2>3. \A m \in delivered' : \E k \in TasksOf(m) : reply'[k].pc \in {"clearing", "over"}
    BY <1>0 DEF Slots
  <2>4. QED BY <2>2, <2>3 DEF Slots
<1>7. ASSUME ~overlapped, ~refLost
      PROVE  (\A t \in Threads : Held(t))' /\ (\A m \in Messages : Aimed(m))' /\ Visible'
  <2>0. (\A t \in Threads : Held(t)) /\ (\A m \in Messages : Aimed(m)) /\ Visible
    BY <1>7 DEF Answered
  <2>1. shown[e] = Thinking
    BY <1>0, <2>0 DEF Aimed
  <2>2. ASSUME NEW t \in Threads PROVE Held(t)'
    <3>1. CASE t = Of(e)
      BY <1>0, <1>2, <2>1, <3>1 DEF Held
    <3>2. CASE t # Of(e)
      <4>1. Held(t) /\ threads'[t].typing = threads[t].typing
        BY <1>2, <2>0, <3>2
      <4>2. \A k \in Tasks : Of(k[1])' = Of(k[1])
        BY <1>3, TaskFacts
      <4>3. QED BY <1>0, <4>1, <4>2 DEF Held
    <3>3. QED BY <3>1, <3>2
  <2>3. ASSUME NEW m \in Messages PROVE Aimed(m)'
    <3>1. CASE m = e
      <4>1. TypingOf(m)' = m
        BY <1>2, <1>3, <3>1 DEF TypingOf
      <4>2. QED BY <1>0, <1>1, <1>5, <3>1, <4>1 DEF Aimed
    <3>2. CASE m # e
      <4>1. /\ ~Live(m) /\ handling[m].pc # "found"
            /\ \A k \in TasksOf(m) : reply[k].pc \in {"none", "over"}
        BY <1>4, <1>7, <3>2, Alone
      <4>2. handling'[m] = handling[m]
        BY <1>1, <1>3, <3>2
      <4>3. ~Live(m)'
        BY <1>0, <4>1, <4>2 DEF Live
      <4>4. handling[m].pc \in {"new", "creating"} => shown[m] = Nothing
        BY <2>0 DEF Aimed
      <4>5. QED BY <1>0, <4>1, <4>2, <4>3, <4>4 DEF Aimed
    <3>3. QED BY <3>1, <3>2
  <2>4. Visible'
    BY <1>0, <2>0 DEF Visible
  <2>5. QED BY <2>2, <2>3, <2>4
<1>8. QED BY <1>0, <1>6, <1>7 DEF Answered

(* While a reply is under way nothing else is.                               *)
LEMMA ReplyAlone ==
  ASSUME Control, Serial, ~overlapped, NEW k \in Tasks, reply[k].pc \notin {"none", "over"}
  PROVE  \A m \in Messages :
           /\ ~Live(m) /\ handling[m].pc \in {"new", "over"}
           /\ \A l \in TasksOf(m) : l # k => reply[l].pc \in {"none", "over"}
<1>1. /\ ~Live(k[1]) /\ handling[k[1]].pc = "over" /\ k[1] \in Busy
      /\ \A l \in TasksOf(k[1]) : l # k => reply[l].pc = "none"
  BY ReplyIsLast
<1>2. QED BY <1>1, Alone

LEMMA ReadRefAnswered ==
  ASSUME Control, Serial, Answered, NEW k \in Tasks, ReadRef(k)
  PROVE  Answered'
<1>0. /\ TypeOK /\ k[1] \in Messages /\ k \in TasksOf(k[1]) /\ execution[k] = "accounting"
      /\ execution' = [execution EXCEPT ![k] = "over"]
      /\ UNCHANGED <<threads, handling, shown, posted, delivered, refLost, overlapped>>
      /\ Slots /\ Nothing \notin Messages
  BY TaskFacts, CommsAssumption DEF ReadRef, Become, Control, Answered, Events
<1>1. Live(k[1])
  BY <1>0 DEF Live
<1>2. Of(k[1]) \in Threads /\ k[1] \in Busy
  BY <1>0, <1>1, LiveHasRow
<1>3. PICK typing \in Messages \cup {Nothing} : typing = TypingOf(k[1])
  BY <1>0, <1>2, HistoryType DEF TypingOf
<1>4. /\ reply'[k].pc = (IF typing = Nothing THEN "posting" ELSE "updating")
      /\ reply'[k].slot = typing
      /\ \A l \in Tasks : l # k => reply'[l] = reply[l]
  <2>1. PICK pc \in {"updating", "posting"} :
             pc = IF typing = Nothing THEN "posting" ELSE "updating"
    OBVIOUS
  <2>2. reply' = [reply EXCEPT ![k] = [pc |-> pc, slot |-> typing]]
    BY <1>3, <2>1 DEF ReadRef, TypingOf
  <2>3. QED BY <1>0, <2>1, <2>2, SetReplyEffect
<1>5. \A l \in TasksOf(k[1]) : reply[l].pc = "none"
  BY <1>0, ReplyIsLast, <1>1 DEF TasksOf
<1>6. ASSUME NEW m \in Messages PROVE Live(m)' => Live(m)
  BY <1>0 DEF Live, TasksOf, TypeOK
<1>7. Slots'
  <2>1. \A m \in delivered' : \E l \in TasksOf(m) : reply'[l].pc \in {"clearing", "over"}
    <3>1. \A l \in Tasks : reply[l].pc \in {"clearing", "over"} => reply'[l] = reply[l]
      BY <1>0, <1>4, <1>5
    <3>2. QED BY <1>0, <3>1 DEF Slots, TasksOf
  <2>2. QED BY <1>0, <2>1 DEF Slots, Of
<1>8. ASSUME ~overlapped, ~refLost
      PROVE  (\A t \in Threads : Held(t))' /\ (\A m \in Messages : Aimed(m))' /\ Visible'
  <2>0. (\A t \in Threads : Held(t)) /\ (\A m \in Messages : Aimed(m)) /\ Visible
    BY <1>8 DEF Answered
  <2>1. \A l \in Tasks : reply[l].pc = "clearing" => reply'[l] = reply[l]
    BY <1>0, <1>4, <1>5
  <2>2. ASSUME NEW t \in Threads PROVE Held(t)'
    <3>1. Held(t)
      BY <2>0
    <3>2. QED BY <1>0, <2>1, <3>1 DEF Held, Of
  <2>3. ASSUME NEW m \in Messages PROVE Aimed(m)'
    <3>1. CASE m = k[1]
      <4>1. Aimed(m) /\ Held(Of(m)) /\ Of(m) \in Threads
        BY <1>2, <2>0, <3>1
      <4>2. shown[m] # Nothing => typing = m
        BY <1>1, <1>3, <3>1, <4>1 DEF Aimed
      <4>3. typing # Nothing => shown[typing] = Thinking
        <5>1. ASSUME NEW l \in Tasks, reply[l].pc = "clearing" PROVE l[1] = m => FALSE
          BY <1>5, <3>1, <5>1 DEF TasksOf
        <5>2. ASSUME NEW l \in Tasks, reply[l].pc = "clearing" PROVE l[1] = m
          <6>1. l[1] \in Messages /\ l \in TasksOf(l[1])
            BY TaskFacts
          <6>2. QED BY <1>2, <1>8, <3>1, <5>2, <6>1, Alone
        <5>3. QED BY <1>3, <3>1, <4>1, <5>1, <5>2 DEF Held, TypingOf
      <4>4. TypingOf(m)' = typing /\ shown' = shown
        BY <1>0, <1>3, <3>1 DEF TypingOf, Of
      <4>5. /\ handling'[m].pc \in {"new", "creating"} => shown'[m] = Nothing
            /\ handling'[m].pc = "found" => shown'[m] \in {Nothing, Thinking}
        BY <1>0, <4>1 DEF Aimed
      <4>6. Live(m)' /\ shown'[m] # Nothing => TypingOf(m)' = m
        BY <4>2, <4>4
      <4>7. ASSUME NEW l \in TasksOf(m)
            PROVE  /\ reply'[l].pc = "updating" =>
                        /\ reply'[l].slot \in Messages /\ TypingOf(m)' = reply'[l].slot
                        /\ shown'[reply'[l].slot] = Thinking
                        /\ shown'[m] # Nothing => reply'[l].slot = m
                   /\ reply'[l].pc = "posting" => shown'[m] = Nothing
        <5>1. CASE l = k
          <6>1. CASE typing = Nothing
            BY <1>0, <1>4, <4>2, <4>4, <5>1, <6>1
          <6>2. CASE typing # Nothing
            BY <1>3, <1>4, <4>2, <4>3, <4>4, <5>1, <6>2
          <6>3. QED BY <6>1, <6>2
        <5>2. CASE l # k
          <6>1. reply'[l].pc = "none"
            BY <1>4, <1>5, <3>1, <5>2 DEF TasksOf
          <6>2. QED BY <6>1
        <5>3. QED BY <5>1, <5>2
      <4>8. QED BY <4>5, <4>6, <4>7 DEF Aimed
    <3>2. CASE m # k[1]
      <4>1. /\ ~Live(m) /\ handling[m].pc # "found"
            /\ \A l \in TasksOf(m) : reply[l].pc \in {"none", "over"}
        BY <1>2, <1>8, <3>2, Alone
      <4>2. \A l \in TasksOf(m) : reply'[l] = reply[l]
        BY <1>4, <3>2 DEF TasksOf
      <4>3. handling[m].pc \in {"new", "creating"} => shown[m] = Nothing
        BY <2>0 DEF Aimed
      <4>4. QED BY <1>0, <1>6, <4>1, <4>2, <4>3 DEF Aimed
    <3>3. QED BY <3>1, <3>2
  <2>4. Visible'
    BY <1>0, <2>0 DEF Visible
  <2>5. QED BY <2>2, <2>3, <2>4
<1>9. QED BY <1>0, <1>7, <1>8 DEF Answered

LEMMA UpdateAnswered ==
  ASSUME Control, Serial, Answered, NEW k \in Tasks, UpdateMessage(k)
  PROVE  Answered'
<1>0. /\ TypeOK /\ k[1] \in Messages /\ k \in TasksOf(k[1]) /\ reply[k].pc = "updating"
      /\ \/ /\ shown' = [shown EXCEPT ![reply[k].slot] = k[1]]
            /\ delivered' = delivered \cup {k[1]}
         \/ UNCHANGED <<shown, delivered>>
      /\ UNCHANGED <<threads, handling, execution, posted, refLost, overlapped>>
      /\ Slots /\ Nothing \notin Messages /\ Thinking \notin Messages /\ Nothing # Thinking
  BY TaskFacts, CommsAssumption DEF UpdateMessage, Control, Answered, Events
<1>1. reply'[k].pc = "clearing" /\ \A l \in Tasks : l # k => reply'[l] = reply[l]
  BY <1>0, ClearingEffect DEF UpdateMessage
<1>2. /\ Of(k[1]) \in Threads /\ handling[k[1]].pc = "over"
      /\ \A l \in TasksOf(k[1]) : l # k => reply[l].pc = "none"
  BY <1>0, ReplyIsLast
<1>3. PICK slot : slot = reply[k].slot
  OBVIOUS
<1>4. \A m \in delivered' : \E l \in TasksOf(m) : reply'[l].pc \in {"clearing", "over"}
  <2>1. \A m \in delivered : \E l \in TasksOf(m) : reply'[l].pc \in {"clearing", "over"}
    BY <1>0, <1>1 DEF Slots, TasksOf
  <2>2. \A m \in delivered' : m \in delivered \/ m = k[1]
    BY <1>0
  <2>3. QED BY <1>0, <1>1, <2>1, <2>2
<1>5. Slots'
  BY <1>0, <1>4 DEF Slots, Of
<1>6. ASSUME ~overlapped, ~refLost
      PROVE  /\ (\A t \in Threads : Held(t))' /\ (\A m \in Messages : Aimed(m))' /\ Visible'
             /\ slot \in Messages /\ shown[slot] = Thinking
  <2>0. (\A t \in Threads : Held(t)) /\ (\A m \in Messages : Aimed(m)) /\ Visible
    BY <1>6 DEF Answered
  <2>1. /\ slot \in Messages /\ TypingOf(k[1]) = slot /\ shown[slot] = Thinking
        /\ shown[k[1]] # Nothing => slot = k[1]
    BY <1>0, <1>3, <2>0 DEF Aimed
  <2>2. \A m \in Messages : shown'[m] # shown[m] => m = slot /\ shown'[slot] = k[1]
    BY <1>0, <1>3, <2>1 DEF TypeOK
  <2>3. \A m \in Messages :
          /\ ~Live(m) /\ handling[m].pc \in {"new", "over"}
          /\ \A l \in TasksOf(m) : l # k => reply[l].pc \in {"none", "over"}
    BY <1>0, <1>6, ReplyAlone
  <2>4. ASSUME NEW t \in Threads PROVE Held(t)'
    <3>0. PICK typing \in Messages \cup {Nothing} : typing = threads[t].typing
      BY <1>0, HistoryType
    <3>1. CASE t = Of(k[1])
      <4>1. reply'[k].pc = "clearing" /\ Of(k[1])' = t
        BY <1>0, <1>1, <3>1 DEF Of
      <4>2. QED BY <4>1 DEF Held
    <3>2. CASE t # Of(k[1]) /\ typing # Nothing
      <4>1. Of(typing) = t /\ Of(slot) = Of(k[1])
        BY <1>0, <1>2, <2>1, <3>0, <3>2 DEF Slots, TypingOf
      <4>2. shown'[typing] = shown[typing]
        BY <2>2, <3>0, <3>2, <4>1
      <4>3. Held(t)
        BY <2>0
      <4>4. \A l \in Tasks : reply[l].pc = "clearing" => l # k /\ reply'[l] = reply[l]
        BY <1>0, <1>1
      <4>5. QED BY <1>0, <3>0, <4>2, <4>3, <4>4 DEF Held, Of
    <3>3. CASE typing = Nothing
      BY <1>0, <3>0, <3>3 DEF Held
    <3>4. QED BY <3>1, <3>2, <3>3
  <2>5. ASSUME NEW m \in Messages PROVE Aimed(m)'
    <3>1. ~Live(m) /\ handling[m].pc # "found"
      BY <2>3
    <3>2. \A l \in TasksOf(m) : reply'[l].pc \notin {"updating", "posting"}
      BY <1>1, <2>3 DEF TasksOf
    <3>3. handling[m].pc \in {"new", "creating"} => shown'[m] = Nothing
      <4>1. handling[m].pc \in {"new", "creating"} => shown[m] = Nothing
        BY <2>0 DEF Aimed
      <4>2. shown[m] = Nothing => m # slot
        BY <1>0, <2>1
      <4>3. QED BY <2>2, <4>1, <4>2
    <3>4. QED BY <1>0, <3>1, <3>2, <3>3 DEF Aimed, Live
  <2>6. Visible'
    <3>1. ASSUME NEW m \in delivered
          PROVE  /\ shown'[m] \in {Nothing, m}
                 /\ m \in posted \/ \E n \in Messages : shown'[n] = m
      <4>1. /\ m \in Messages /\ shown[m] \in {Nothing, m}
            /\ m \in posted \/ \E n \in Messages : shown[n] = m
        BY <1>0, <2>0 DEF Visible, TypeOK
      <4>2. m # slot
        BY <1>0, <2>1, <4>1
      <4>3. \A n \in Messages : shown[n] = m => n # slot
        BY <1>0, <2>1, <4>1
      <4>4. QED BY <2>2, <4>1, <4>2, <4>3
    <3>2. CASE UNCHANGED <<shown, delivered>>
      BY <1>0, <2>0, <3>2 DEF Visible
    <3>3. CASE /\ shown' = [shown EXCEPT ![reply[k].slot] = k[1]]
               /\ delivered' = delivered \cup {k[1]}
      <4>1. shown'[slot] = k[1]
        BY <1>0, <1>3, <2>1, <3>3 DEF TypeOK
      <4>2. shown'[k[1]] \in {Nothing, k[1]}
        BY <1>0, <2>1, <2>2, <4>1
      <4>3. QED BY <1>0, <2>1, <3>1, <3>3, <4>1, <4>2 DEF Visible
    <3>4. QED BY <1>0, <3>2, <3>3
  <2>7. QED BY <2>1, <2>4, <2>5, <2>6
<1>7. QED BY <1>0, <1>5, <1>6 DEF Answered

LEMMA ClearAnswered ==
  ASSUME Control, Serial, Answered, NEW k \in Tasks, ClearRef(k)
  PROVE  Answered'
<1>0. /\ TypeOK /\ k[1] \in Messages /\ k \in TasksOf(k[1]) /\ reply[k].pc = "clearing"
      /\ threads' = [threads EXCEPT ![Of(k[1])].typing = Nothing]
      /\ UNCHANGED <<handling, execution, shown, posted, delivered, refLost, overlapped>>
      /\ Slots
  BY TaskFacts DEF ClearRef, Control, Answered
<1>1. reply'[k].pc = "over" /\ \A l \in Tasks : l # k => reply'[l] = reply[l]
  BY <1>0, SetReplyEffect DEF ClearRef, EndReply
<1>2. /\ Of(k[1]) \in Threads
      /\ \A l \in TasksOf(k[1]) : l # k => reply[l].pc = "none"
  BY <1>0, ReplyIsLast
<1>3. /\ threads'[Of(k[1])].typing = Nothing
      /\ \A t \in Threads \ {Of(k[1])} : threads'[t].typing = threads[t].typing
  BY <1>0, <1>2, SetTypingEffect
<1>4. Slots'
  <2>1. \A m \in delivered' : \E l \in TasksOf(m) : reply'[l].pc \in {"clearing", "over"}
    BY <1>0, <1>1 DEF Slots, TasksOf
  <2>2. \A t \in Threads : threads'[t].typing # Nothing => (Of(threads[t].typing) = t)'
    BY <1>0, <1>3 DEF Slots, Of
  <2>3. QED BY <2>1, <2>2 DEF Slots
<1>5. ASSUME ~overlapped, ~refLost
      PROVE  (\A t \in Threads : Held(t))' /\ (\A m \in Messages : Aimed(m))' /\ Visible'
  <2>0. (\A t \in Threads : Held(t)) /\ (\A m \in Messages : Aimed(m)) /\ Visible
    BY <1>5 DEF Answered
  <2>1. ASSUME NEW t \in Threads PROVE Held(t)'
    <3>1. CASE t = Of(k[1])
      BY <1>3, <3>1 DEF Held
    <3>2. CASE t # Of(k[1])
      <4>1. Held(t) /\ threads'[t].typing = threads[t].typing
        BY <1>3, <2>0, <3>2
      <4>2. \A l \in Tasks : Of(l[1]) = t => l # k /\ Of(l[1])' = t
        BY <1>0, <3>2 DEF Of
      <4>3. QED BY <1>0, <1>1, <4>1, <4>2 DEF Held
    <3>3. QED BY <3>1, <3>2
  <2>2. ASSUME NEW m \in Messages PROVE Aimed(m)'
    <3>1. /\ ~Live(m) /\ handling[m].pc # "found"
          /\ \A l \in TasksOf(m) : l # k => reply[l].pc \in {"none", "over"}
      BY <1>0, <1>5, ReplyAlone
    <3>2. \A l \in TasksOf(m) : reply'[l].pc \notin {"updating", "posting"}
      BY <1>1, <3>1 DEF TasksOf
    <3>3. handling[m].pc \in {"new", "creating"} => shown[m] = Nothing
      BY <2>0 DEF Aimed
    <3>4. QED BY <1>0, <3>1, <3>2, <3>3 DEF Aimed, Live
  <2>3. Visible'
    BY <1>0, <2>0 DEF Visible
  <2>4. QED BY <2>1, <2>2, <2>3
<1>6. QED BY <1>0, <1>4, <1>5 DEF Answered

(* The reply posts a message of its own, or ends; where a reference was to   *)
(* be removed it is lost.                                                    *)
LEMMA EndAnswered ==
  ASSUME Control, Serial, Answered, NEW k \in Tasks, PostMessage(k) \/ DropReply(k)
  PROVE  Answered'
<1>0. /\ TypeOK /\ k[1] \in Messages /\ k \in TasksOf(k[1])
      /\ reply[k].pc \notin {"none", "over"} /\ EndReply(k)
      /\ UNCHANGED <<threads, handling, execution, shown, overlapped>>
      /\ Slots
  BY TaskFacts DEF PostMessage, DropReply, Control, Answered
<1>1. reply'[k].pc = "over" /\ \A l \in Tasks : l # k => reply'[l] = reply[l]
  BY <1>0, SetReplyEffect DEF EndReply
<1>2. \/ UNCHANGED <<posted, delivered>>
      \/ /\ reply[k].pc = "posting"
         /\ posted' = posted \cup {k[1]} /\ delivered' = delivered \cup {k[1]}
  BY DEF PostMessage, DropReply
<1>3. ~refLost' => ~refLost /\ reply[k].pc = "posting"
  <2>1. reply[k].pc \in {"updating", "posting", "clearing"}
    BY <1>0, ReplyType
  <2>2. QED BY <2>1 DEF PostMessage, DropReply
<1>4. Slots'
  <2>1. \A m \in delivered : \E l \in TasksOf(m) : reply'[l].pc \in {"clearing", "over"}
    BY <1>0, <1>1 DEF Slots, TasksOf
  <2>2. \A m \in delivered' : m \in delivered \/ m = k[1]
    BY <1>2
  <2>3. \A m \in delivered' : \E l \in TasksOf(m) : reply'[l].pc \in {"clearing", "over"}
    BY <1>0, <1>1, <2>1, <2>2
  <2>4. QED BY <1>0, <2>3 DEF Slots, Of
<1>5. ASSUME ~overlapped, ~refLost'
      PROVE  (\A t \in Threads : Held(t))' /\ (\A m \in Messages : Aimed(m))' /\ Visible'
  <2>0. (\A t \in Threads : Held(t)) /\ (\A m \in Messages : Aimed(m)) /\ Visible
    BY <1>3, <1>5 DEF Answered
  <2>1. ASSUME NEW t \in Threads PROVE Held(t)'
    <3>1. \A l \in Tasks : reply[l].pc = "clearing" => reply'[l] = reply[l]
      BY <1>1, <1>3, <1>5
    <3>2. Held(t)
      BY <2>0
    <3>3. QED BY <1>0, <3>1, <3>2 DEF Held, Of
  <2>2. ASSUME NEW m \in Messages PROVE Aimed(m)'
    <3>1. /\ ~Live(m) /\ handling[m].pc # "found"
          /\ \A l \in TasksOf(m) : l # k => reply[l].pc \in {"none", "over"}
      BY <1>0, <1>5, ReplyAlone
    <3>2. \A l \in TasksOf(m) : reply'[l].pc \notin {"updating", "posting"}
      BY <1>1, <3>1 DEF TasksOf
    <3>3. handling[m].pc \in {"new", "creating"} => shown[m] = Nothing
      BY <2>0 DEF Aimed
    <3>4. QED BY <1>0, <3>1, <3>2, <3>3 DEF Aimed, Live
  <2>3. Visible'
    <3>1. shown[k[1]] = Nothing
      BY <1>0, <1>3, <1>5, <2>0 DEF Aimed
    <3>2. QED BY <1>0, <1>2, <2>0, <3>1 DEF Visible
  <2>4. QED BY <2>1, <2>2, <2>3
<1>6. QED BY <1>0, <1>4, <1>5 DEF Answered

LEMMA NextAnswered == Control /\ Serial /\ Answered /\ [Next]_vars => Answered'
<1> SUFFICES ASSUME Control, Serial, Answered, [Next]_vars PROVE Answered'
  OBVIOUS
<1>1. CASE UNCHANGED vars
  <2>1. UNCHANGED <<threads, handling, execution, answers, overlapped>>
    BY <1>1 DEF vars
  <2>2. \A m \in Messages : Live(m)' => Live(m)
    BY <2>1 DEF Live
  <2>3. Aside
    BY <2>1, <2>2 DEF Aside
  <2>4. QED BY <2>3, AsideAnswered
<1>2. ASSUME NEW e \in Events, Lookup(e) PROVE Answered'
  BY <1>2, LookupAside, AsideAnswered
<1>3. ASSUME NEW e \in Events, HandlerStep(e) PROVE Answered'
  <2>1. CASE ShowTyping(e)
    BY <2>1, ShowTypingAnswered DEF ShowTyping
  <2>2. CASE StoreTyping(e)
    BY <2>2, StoreTypingAnswered DEF StoreTyping
  <2>3. CASE ~ShowTyping(e) /\ ~StoreTyping(e)
    BY <1>3, <2>3, HandlerAside, AsideAnswered
  <2>4. QED BY <2>1, <2>2, <2>3
<1>4. ASSUME NEW k \in Tasks, TaskStep(k) PROVE Answered'
  <2>1. CASE ReadRef(k)
    BY <2>1, ReadRefAnswered
  <2>2. CASE UpdateMessage(k)
    BY <2>2, UpdateAnswered
  <2>3. CASE ClearRef(k)
    BY <2>3, ClearAnswered
  <2>4. CASE PostMessage(k) \/ DropReply(k)
    BY <2>4, EndAnswered
  <2>5. CASE ~ReadRef(k) /\ ~UpdateMessage(k) /\ ~ClearRef(k) /\ ~PostMessage(k) /\ ~DropReply(k)
    BY <1>4, <2>5, TaskAside, AsideAnswered
  <2>6. QED BY <2>1, <2>2, <2>3, <2>4, <2>5
<1>5. QED BY <1>1, <1>2, <1>3, <1>4, StepOfAnEvent

(* Every answer that Slack accepted in a conversation of one message at a    *)
(* time stays to be seen, in its own typing message when there was one:      *)
(* for any number of messages, retries and rejected awaits.                  *)
THEOREM AnswersStay == Spec => []SerialAnswers
<1>1. Answered => SerialAnswers
  BY DEF Answered, Visible, SerialAnswers
<1>2. QED
  BY <1>1, InitAnswered, NextAnswered, ControlInvariance, SerialInvariance, PTL DEF Spec
=============================================================================
