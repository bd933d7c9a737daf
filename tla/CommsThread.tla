----------------------------- MODULE CommsThread -----------------------------
(***************************************************************************)
(* A conversation with an agent from Slack: the messages and commands of   *)
(* comms/slack-handler.ts, each handled on its own one await after the     *)
(* other, the tasks they make, the two appends to the thread's history     *)
(* that executor.ts starts and does not await, and the reply of            *)
(* comms-reply.ts with the typing message.  A delivery that the service    *)
(* repeats is one more message.  That the queue worker may run a task      *)
(* while it is pending is in TaskEngine, and left out here.                *)
(***************************************************************************)
EXTENDS Integers, FiniteSets, Sequences

CONSTANTS
  Roles,         \* of an entry, user and assistant
  Messages,      \* messages of one external thread, by delivery
  Commands,      \* /reset and /compact, by delivery
  Nothing, Thinking,
  HistoryLimit,  \* entries that a history keeps, 50 in the code
  CompactFrom,   \* entries that /compact asks for, 4 in the code
  MaxRetries,    \* of the orchestrator
  FaultWeight,   \* bound: what a rejected await counts
  MaxTrouble     \* bound: events that come while others are at work, and rejected awaits

Events == Messages \cup Commands
Tasks == Messages \X (0..MaxRetries)
Threads == Events   \* a row is named after the event that creates it
Writers == (Tasks \X Roles) \cup Commands   \* of an entry: an append, or /compact

ASSUME CommsAssumption ==
  /\ Messages \cap Commands = {} /\ {Nothing, Thinking} \cap Events = {}
  /\ (Tasks \X Roles) \cap Commands = {}
  /\ Nothing # Thinking /\ IsFiniteSet(Events) /\ IsFiniteSet(Roles)
  /\ HistoryLimit \in Nat \ {0} /\ CompactFrom \in Nat \ {0} /\ MaxRetries \in Nat
  /\ FaultWeight \in Nat /\ MaxTrouble \in Nat

VARIABLES
  threads,    \* comms_threads
  handling,   \* of an event: where its handler is, and what it read
  execution,  \* of a task
  append,     \* of a task and a role: an append to the history
  reply,      \* of a task
  shown,      \* what the typing message of an event shows
  posted,     \* messages with an answer of its own
  since,      \* ghost: of a thread, the exchanges with an entry since /reset
  later,      \* ghost: of an exchange, the entries after the last that tells of it
  raced,      \* ghost: exchanges another pending write may drop, or a /compact took
  undone,     \* ghost: threads reset while a write was pending
  delivered,  \* ghost: messages whose answer Slack accepted
  overlapped, \* ghost: an event came while another was at work
  refLost,    \* ghost: the typing message could not be removed from a row
  trouble

history == <<append, since, later, raced>>
answers == <<reply, shown, posted, delivered, refLost>>
vars == <<threads, handling, execution, history, answers, undone, overlapped, trouble>>

(* An entry is known by the exchanges that it tells of: one, or those of a  *)
(* summary.                                                                 *)
Entry == SUBSET Messages
Thread == [there : BOOLEAN, history : Seq(Entry), typing : Messages \cup {Nothing}]

Handling == [pc : {"new", "creating", "found", "ready", "compacting", "summarising", "over"},
             thread : Threads \cup {Nothing}, seen : Seq(Entry), told : Entry]

Init ==
  /\ threads = [t \in Threads |-> [there |-> FALSE, history |-> <<>>, typing |-> Nothing]]
  /\ handling = [e \in Events |-> [pc |-> "new", thread |-> Nothing, seen |-> <<>>, told |-> {}]]
  /\ execution = [k \in Tasks |-> "none"]
  /\ append = [k \in Tasks \X Roles |-> [pc |-> "none", seen |-> <<>>]]
  /\ reply = [k \in Tasks |-> [pc |-> "none", slot |-> Nothing]]
  /\ shown = [m \in Messages |-> Nothing] /\ posted = {}
  /\ since = [t \in Threads |-> {}] /\ later = [m \in Messages |-> {}]
  /\ raced = {} /\ undone = {} /\ delivered = {}
  /\ overlapped = FALSE /\ refLost = FALSE /\ trouble = 0

-----------------------------------------------------------------------------
TasksOf(e) == {k \in Tasks : k[1] = e}

AtWork(e) ==
  \/ handling[e].pc \notin {"new", "over"}
  \/ \E k \in TasksOf(e) :
       \/ execution[k] \notin {"none", "over"}
       \/ reply[k].pc \notin {"none", "over"}
       \/ \E r \in Roles : append[<<k, r>>].pc \notin {"none", "over"}

Busy == {e \in Events : AtWork(e)}

Of(e) == handling[e].thread
HistoryOf(e) == threads[Of(e)].history
Goto(e, pc) == handling' = [handling EXCEPT ![e].pc = pc]
SetHistory(e, h) == threads' = [threads EXCEPT ![Of(e)].history = h]

Trouble(n) == trouble + n <= MaxTrouble /\ trouble' = trouble + n

(* What a handler or a reply remembers goes with it.                        *)
Finish(e) == handling' = [handling EXCEPT ![e].pc = "over", ![e].seen = <<>>, ![e].told = {}]
EndReply(k) == reply' = [reply EXCEPT ![k] = [pc |-> "over", slot |-> Nothing]]

(* Mutated: the lookup misses the row.                                      *)
KnownNever == {}

Known == {t \in Threads : threads[t].there}

Mentioned(h) == UNION {h[n] : n \in DOMAIN h}
Newest(s, n) == SubSeq(s, IF Len(s) > n THEN Len(s) - n + 1 ELSE 1, Len(s))

-----------------------------------------------------------------------------
(* The handler of an event *)

(* The row of the external thread, one of them when there are two.          *)
Lookup(e) ==
  /\ handling[e].pc = "new"
  /\ IF Busy = {} THEN UNCHANGED trouble ELSE Trouble(1)
  /\ overlapped' = (overlapped \/ Busy # {})
  /\ \/ /\ Known = {}
        /\ Goto(e, "creating")
     \/ \E t \in Known :
          handling' = [handling EXCEPT
            ![e] = [@ EXCEPT !.pc = "found", !.thread = t, !.seen = threads[t].history]]
  /\ UNCHANGED <<threads, execution, history, answers, undone>>

CreateThread(e) ==
  /\ handling[e].pc = "creating"
  /\ threads' = [threads EXCEPT ![e].there = TRUE]
  /\ handling' = [handling EXCEPT ![e].pc = "found", ![e].thread = e]
  /\ UNCHANGED <<execution, history, answers, undone, overlapped, trouble>>

(* The typing message; without one the handler goes on.                     *)
ShowTyping(m) ==
  /\ m \in Messages /\ handling[m].pc = "found" /\ shown[m] = Nothing
  /\ shown' = [shown EXCEPT ![m] = Thinking]
  /\ UNCHANGED <<threads, handling, execution, history, reply, posted, delivered,
                 refLost, undone, overlapped, trouble>>

NoTyping(m) ==
  /\ m \in Messages /\ handling[m].pc = "found" /\ shown[m] = Nothing
  /\ Goto(m, "ready")
  /\ UNCHANGED <<threads, execution, history, answers, undone, overlapped, trouble>>

(* Mutated: the row keeps the typing message that it has.                   *)
StoreTypingOnce(m) ==
  /\ m \in Messages /\ handling[m].pc = "found" /\ shown[m] # Nothing
  /\ threads' = [threads EXCEPT ![Of(m)].typing = IF @ = Nothing THEN m ELSE @]
  /\ Goto(m, "ready")
  /\ UNCHANGED <<execution, history, answers, undone, overlapped, trouble>>

(* The row's reference, as the lookup read it, with the typing message.     *)
StoreTyping(m) ==
  /\ m \in Messages /\ handling[m].pc = "found" /\ shown[m] # Nothing
  /\ threads' = [threads EXCEPT ![Of(m)].typing = m]
  /\ Goto(m, "ready")
  /\ UNCHANGED <<execution, history, answers, undone, overlapped, trouble>>

CreateTask(m) ==
  /\ handling[m].pc = "ready"
  /\ Finish(m)
  /\ execution' = [execution EXCEPT ![<<m, 0>>] = "running"]
  /\ UNCHANGED <<threads, history, answers, undone, overlapped, trouble>>

(* An await rejects, or the model that summarises; a command that is        *)
(* neither of the two, or has too little to compact, ends here as well.     *)
Drop(e) ==
  /\ Trouble(FaultWeight)
  /\ handling[e].pc \notin {"new", "over"}
  /\ Finish(e)
  /\ UNCHANGED <<threads, execution, history, answers, undone, overlapped>>

-----------------------------------------------------------------------------
(* The history *)

(* Writes to a thread that other events are about to make, from what they   *)
(* read before.                                                             *)
Appending(t, e) ==
  \E k \in Tasks : k[1] # e /\ Of(k[1]) = t /\ \E r \in Roles : append[<<k, r>>].pc = "writing"

Compacting(t, e) ==
  \E c \in Commands \ {e} :
    /\ Of(c) = t
    /\ \/ handling[c].pc = "found" /\ Len(handling[c].seen) >= CompactFrom
       \/ handling[c].pc = "summarising"

Pending(e) == Appending(Of(e), e) \/ Compacting(Of(e), e)

(* What was there before a reset will be back.                              *)
ComesBack(c) ==
  Pending(c) \/ \E d \in Commands \ {c} : Of(d) = Of(c) /\ handling[d].pc = "compacting"

(* Mutated: the row is looked for under another id.                         *)
ResetElsewhere(c) ==
  /\ c \in Commands /\ handling[c].pc = "found"
  /\ threads' = [threads EXCEPT ![c].history = <<>>]
  /\ since' = [since EXCEPT ![Of(c)] = {}]
  /\ undone' = IF ComesBack(c) THEN undone \cup {Of(c)} ELSE undone \ {Of(c)}
  /\ Finish(c)
  /\ UNCHANGED <<execution, append, later, raced, answers, overlapped, trouble>>

Reset(c) ==
  /\ c \in Commands /\ handling[c].pc = "found"
  /\ SetHistory(c, <<>>)
  /\ since' = [since EXCEPT ![Of(c)] = {}]
  /\ undone' = IF ComesBack(c) THEN undone \cup {Of(c)} ELSE undone \ {Of(c)}
  /\ Finish(c)
  /\ UNCHANGED <<execution, append, later, raced, answers, overlapped, trouble>>

(* The history that the lookup read is summarised, then the row is reset.   *)
Compact(c) ==
  LET told == Mentioned(handling[c].seen)
  IN  /\ c \in Commands /\ handling[c].pc = "found" /\ Len(handling[c].seen) >= CompactFrom
      /\ SetHistory(c, <<>>)
      /\ raced' = raced \cup told
      /\ handling' = [handling EXCEPT ![c].pc = "compacting", ![c].told = told]
      /\ UNCHANGED <<execution, append, since, later, answers, undone, overlapped, trouble>>

(* Mutated: the history keeps what it had first.                            *)
AppendedFirst(seen, entry) ==
  IF Len(seen) < HistoryLimit THEN Append(seen, entry) ELSE seen

Appended(seen, entry) == Newest(Append(seen, entry), HistoryLimit)

(* An entry is written over the row; a pending write of another event will  *)
(* drop what it tells of.                                                   *)
WriteEntry(e, w, seen, told) ==
  /\ SetHistory(e, Appended(seen, told))
  /\ later' = [x \in Messages |-> IF x \in told THEN {}
                 ELSE IF x \in since[Of(e)] THEN later[x] \cup {w} ELSE later[x]]
  /\ raced' = IF Pending(e) THEN raced \cup told ELSE raced \ told

ReadForSummary(c) ==
  /\ handling[c].pc = "compacting"
  /\ handling' = [handling EXCEPT ![c].pc = "summarising", ![c].seen = HistoryOf(c)]
  /\ UNCHANGED <<threads, execution, history, answers, undone, overlapped, trouble>>

WriteSummary(c) ==
  /\ handling[c].pc = "summarising"
  /\ WriteEntry(c, c, handling[c].seen, handling[c].told)
  /\ Finish(c)
  /\ UNCHANGED <<execution, append, since, answers, undone, overlapped, trouble>>

ReadHistory(k, r) ==
  /\ append[<<k, r>>].pc = "reading"
  /\ append' = [append EXCEPT ![<<k, r>>] = [pc |-> "writing", seen |-> HistoryOf(k[1])]]
  /\ UNCHANGED <<threads, handling, execution, since, later, raced, answers, undone, overlapped, trouble>>

EndAppend(k, r) == append' = [append EXCEPT ![<<k, r>>] = [pc |-> "over", seen |-> <<>>]]

WriteHistory(k, r) ==
  LET m == k[1]
  IN  /\ append[<<k, r>>].pc = "writing"
      /\ WriteEntry(m, <<k, r>>, append[<<k, r>>].seen, {m})
      /\ since' = [since EXCEPT ![Of(m)] = @ \cup {m}]
      /\ EndAppend(k, r)
      /\ UNCHANGED <<handling, execution, answers, undone, overlapped, trouble>>

(* The read or the update rejects, which is logged.                         *)
DropAppend(k, r) ==
  /\ Trouble(FaultWeight)
  /\ append[<<k, r>>].pc \in {"reading", "writing"}
  /\ EndAppend(k, r)
  /\ UNCHANGED <<threads, handling, execution, since, later, raced, answers, undone, overlapped>>

-----------------------------------------------------------------------------
(* The task *)

Become(k, state) == execution' = [execution EXCEPT ![k] = state]

(* The row is completed and both appends start.                             *)
Complete(k) ==
  /\ execution[k] = "running"
  /\ Become(k, "accounting")
  /\ append' = [x \in Tasks \X Roles |->
       IF x[1] = k THEN [pc |-> "reading", seen |-> <<>>] ELSE append[x]]
  /\ UNCHANGED <<threads, handling, since, later, raced, answers, undone, overlapped, trouble>>

Retried(k) == k[2] < MaxRetries

(* Before the completion or in the accounting after it, an await rejects;   *)
(* in the catch block one may reject as well.                               *)
Fail(k) ==
  /\ Trouble(FaultWeight)
  /\ execution[k] \in {"running", "accounting"}
  /\ Become(k, IF Retried(k) THEN "failed" ELSE "over") \/ Become(k, "over")
  /\ UNCHANGED <<threads, handling, history, answers, undone, overlapped>>

Retry(k) ==
  /\ execution[k] = "failed" /\ k[2] < MaxRetries
  /\ execution' = [execution EXCEPT ![k] = "over", ![<<k[1], k[2] + 1>>] = "running"]
  /\ UNCHANGED <<threads, handling, history, answers, undone, overlapped, trouble>>

-----------------------------------------------------------------------------
(* The reply *)

(* The executor starts the reply, which reads the thread again.             *)
ReadRef(k) ==
  LET typing == threads[Of(k[1])].typing
  IN  /\ execution[k] = "accounting"
      /\ Become(k, "over")
      /\ reply' = [reply EXCEPT ![k] =
           [pc |-> IF typing = Nothing THEN "posting" ELSE "updating", slot |-> typing]]
      /\ UNCHANGED <<threads, handling, history, shown, posted, delivered,
                     refLost, undone, overlapped, trouble>>

(* Slack may refuse the update, which is logged.                            *)
UpdateMessage(k) ==
  /\ reply[k].pc = "updating"
  /\ reply' = [reply EXCEPT ![k].pc = "clearing"]
  /\ \/ /\ shown' = [shown EXCEPT ![reply[k].slot] = k[1]]
        /\ delivered' = delivered \cup {k[1]}
     \/ UNCHANGED <<shown, delivered>>
  /\ UNCHANGED <<threads, handling, execution, history, posted, refLost, undone, overlapped, trouble>>

ClearRef(k) ==
  /\ reply[k].pc = "clearing"
  /\ threads' = [threads EXCEPT ![Of(k[1])].typing = Nothing]
  /\ EndReply(k)
  /\ UNCHANGED <<handling, execution, history, shown, posted, delivered, refLost,
                 undone, overlapped, trouble>>

PostMessage(k) ==
  /\ reply[k].pc = "posting"
  /\ EndReply(k)
  /\ posted' = posted \cup {k[1]} /\ delivered' = delivered \cup {k[1]}
  /\ UNCHANGED <<threads, handling, execution, history, shown, refLost, undone, overlapped, trouble>>

(* An await of the reply rejects, or Slack refuses the post: logged.        *)
DropReply(k) ==
  /\ Trouble(FaultWeight)
  /\ reply[k].pc \notin {"none", "over"}
  /\ EndReply(k)
  /\ refLost' = (refLost \/ reply[k].pc \in {"updating", "clearing"})
  /\ UNCHANGED <<threads, handling, execution, history, shown, posted, delivered,
                 undone, overlapped>>

-----------------------------------------------------------------------------
HandlerStep(e) ==
  \/ CreateThread(e) \/ ShowTyping(e) \/ NoTyping(e) \/ StoreTyping(e) \/ CreateTask(e)
  \/ Reset(e) \/ Compact(e) \/ ReadForSummary(e) \/ WriteSummary(e) \/ Drop(e)

TaskStep(k) ==
  \/ Complete(k) \/ Fail(k) \/ Retry(k)
  \/ ReadRef(k) \/ UpdateMessage(k) \/ ClearRef(k) \/ PostMessage(k) \/ DropReply(k)
  \/ \E r \in Roles : ReadHistory(k, r) \/ WriteHistory(k, r) \/ DropAppend(k, r)

Work(e) == HandlerStep(e) \/ \E k \in TasksOf(e) : TaskStep(k)

Next == \E e \in Events : Lookup(e) \/ Work(e)

Spec == Init /\ [][Next]_vars

-----------------------------------------------------------------------------
(* Properties *)

TypeOK ==
  /\ threads \in [Threads -> Thread] /\ handling \in [Events -> Handling]
  /\ execution \in [Tasks -> {"none", "running", "accounting", "failed", "over"}]
  /\ append \in [Tasks \X Roles -> [pc : {"none", "reading", "writing", "over"}, seen : Seq(Entry)]]
  /\ reply \in [Tasks -> [pc : {"none", "updating", "posting", "clearing", "over"},
                         slot : Messages \cup {Nothing}]]
  /\ shown \in [Messages -> Messages \cup {Nothing, Thinking}]
  /\ since \in [Threads -> SUBSET Messages] /\ undone \subseteq Threads
  /\ later \in [Messages -> SUBSET Writers]
  /\ posted \subseteq Messages /\ delivered \subseteq Messages /\ raced \subseteq Messages
  /\ overlapped \in BOOLEAN /\ refLost \in BOOLEAN

(* An exchange of the conversation is in the history, on its own or in a    *)
(* summary, until as many entries came after it as a history keeps; unless  *)
(* the write of another event was pending when it was written, which then   *)
(* dropped it, or a /compact took it that has not written its summary.  The *)
(* two entries of one exchange, appended at the same time, never both go    *)
(* (appendCommsThreadHistory, executor.ts and /compact).                    *)
RecentRemembered ==
  \A t \in Threads : \A x \in since[t] :
    Cardinality(later[x]) < HistoryLimit => x \in raced \cup Mentioned(threads[t].history)

(* After /reset the history tells of nothing from before, unless a write    *)
(* was pending that brings it back (resetCommsThreadHistory).               *)
ResetHolds ==
  \A t \in Threads \ undone :
    Mentioned(threads[t].history) \subseteq since[t]

(* In a conversation that goes one message at a time, every answer that     *)
(* Slack accepted stays to be seen, in the place of its own typing message  *)
(* when there was one (StoreTyping and dispatchCommsReply).                 *)
SerialAnswers ==
  ~overlapped /\ ~refLost =>
    \A m \in delivered :
      /\ shown[m] \in {Nothing, m}
      /\ m \in posted \/ \E n \in Messages : shown[n] = m

(* One external thread has one row, unless events came at the same time:    *)
(* no index keeps a second row away (getCommsThread, createCommsThread).    *)
SerialOneThread == ~overlapped => Cardinality({t \in Threads : threads[t].there}) <= 1
=============================================================================
