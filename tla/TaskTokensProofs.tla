-------------------------- MODULE TaskTokensProofs --------------------------
(***************************************************************************)
(* Proofs about TaskTokens for every value of its constants: the two maps  *)
(* of the token store are inverse to each other, no token outlives the run *)
(* that holds it, a run that has its task to itself is served until its    *)
(* token expires, and usage is booked once and left by failed runs only.   *)
(***************************************************************************)
EXTENDS TaskTokens, TLAPS

-----------------------------------------------------------------------------
(* Maps *)

(* Deleting the keys S leaves the other entries as they were.                *)
LEMMA WithoutMap ==
  ASSUME NEW f, NEW S
  PROVE  /\ DOMAIN Without(f, S) = DOMAIN f \ S
         /\ \A x \in DOMAIN f \ S : Without(f, S)[x] = f[x]
         /\ Without(f, S) = [x \in DOMAIN f \ S |-> f[x]]
BY DEF Without, Restrict

-----------------------------------------------------------------------------
(* The store *)

StoreType ==
  /\ issued \in Nat
  /\ DOMAIN byToken \subseteq 1 .. issued
  /\ byToken \in [DOMAIN byToken -> TokenEntry]
  /\ DOMAIN byTask \subseteq Tasks
  /\ byTask \in [DOMAIN byTask -> Nat]

StoreOK == StoreType /\ MapsInverse

(* Revoking by task removes the task's token, if it has one, and no other.   *)
LEMMA RevokeStore ==
  ASSUME StoreOK, NEW t \in Tasks, Revoke(t), issued' = issued
  PROVE  /\ StoreOK'
         /\ DOMAIN byToken' = {k \in DOMAIN byToken : byToken[k].task # t}
         /\ \A k \in DOMAIN byToken' : byToken'[k] = byToken[k]
<1>1. /\ DOMAIN byToken' = DOMAIN byToken \ TokenOf(t)
      /\ \A k \in DOMAIN byToken \ TokenOf(t) : byToken'[k] = byToken[k]
      /\ byToken' = [k \in DOMAIN byToken \ TokenOf(t) |-> byToken[k]]
  BY WithoutMap DEF Revoke
<1>2. /\ DOMAIN byTask' = DOMAIN byTask \ {t}
      /\ \A u \in DOMAIN byTask \ {t} : byTask'[u] = byTask[u]
      /\ byTask' = [u \in DOMAIN byTask \ {t} |-> byTask[u]]
  BY WithoutMap DEF Revoke
<1>3. TokenOf(t) = {k \in DOMAIN byToken : byToken[k].task = t}
  BY DEF TokenOf, StoreOK, MapsInverse
<1>4. StoreType'
  BY <1>1, <1>2 DEF StoreOK, StoreType
<1>5. MapsInverse'
  BY <1>1, <1>2, <1>3 DEF StoreOK, MapsInverse
<1>6. QED
  BY <1>1, <1>3, <1>4, <1>5 DEF StoreOK

(* A fresh token replaces the task's old one and leaves the others alone.    *)
LEMMA IssueStore ==
  ASSUME StoreOK, now \in Nat, NEW t \in Tasks, Issue(t)
  PROVE  /\ StoreOK'
         /\ issued + 1 \notin DOMAIN byToken
         /\ DOMAIN byToken' = {k \in DOMAIN byToken : byToken[k].task # t}
                                \cup {issued + 1}
         /\ \A k \in DOMAIN byToken' : k # issued + 1 => byToken'[k] = byToken[k]
         /\ byToken'[issued + 1].task = t
         /\ byToken'[issued + 1].expires = now + TTL
<1> DEFINE entry == [task |-> t, expires |-> now + TTL]
           kept == Without(byToken, TokenOf(t))
<1>1. issued + 1 \notin DOMAIN byToken /\ issued' = issued + 1
  BY DEF StoreOK, StoreType, Issue
<1>2. TokenOf(t) = {k \in DOMAIN byToken : byToken[k].task = t}
  BY DEF TokenOf, StoreOK, MapsInverse
<1>3. /\ DOMAIN kept = {k \in DOMAIN byToken : byToken[k].task # t}
      /\ \A k \in DOMAIN kept : kept[k] = byToken[k]
  BY <1>2 DEF Without, Restrict
<1>4. byToken' = With(kept, issued + 1, entry)
  BY DEF Issue
<1>5. /\ DOMAIN byToken' = DOMAIN kept \cup {issued + 1}
      /\ byToken'[issued + 1] = entry
      /\ \A k \in DOMAIN kept : k # issued + 1 => byToken'[k] = kept[k]
      /\ byToken' = [k \in DOMAIN kept \cup {issued + 1} |->
                       IF k = issued + 1 THEN entry ELSE kept[k]]
  <2> HIDE DEF kept, entry
  <2> QED BY <1>4 DEF With
<1>6. entry \in TokenEntry /\ entry.task = t /\ entry.expires = now + TTL
  BY TokensAssumption DEF TokenEntry
<1>7. byTask' = With(byTask, t, issued + 1)
  BY DEF Issue
<1>8. /\ DOMAIN byTask' = DOMAIN byTask \cup {t}
      /\ byTask'[t] = issued + 1
      /\ \A u \in DOMAIN byTask : u # t => byTask'[u] = byTask[u]
      /\ byTask' = [u \in DOMAIN byTask \cup {t} |->
                      IF u = t THEN issued + 1 ELSE byTask[u]]
  BY <1>7 DEF With
<1> HIDE DEF entry, kept
<1>9. StoreType'
  <2>1. issued' \in Nat /\ DOMAIN byToken' \subseteq 1 .. issued'
    BY <1>1, <1>3, <1>5 DEF StoreOK, StoreType
  <2>2. byToken' \in [DOMAIN byToken' -> TokenEntry]
    BY <1>3, <1>5, <1>6 DEF StoreOK, StoreType
  <2>3. DOMAIN byTask' \subseteq Tasks /\ byTask' \in [DOMAIN byTask' -> Nat]
    BY <1>1, <1>8 DEF StoreOK, StoreType
  <2>4. QED
    BY <2>1, <2>2, <2>3 DEF StoreType
<1>10. MapsInverse'
  BY <1>1, <1>3, <1>5, <1>6, <1>8 DEF StoreOK, MapsInverse
<1>11. QED
  BY <1>1, <1>3, <1>5, <1>6, <1>9, <1>10 DEF StoreOK

(* Dropping tokens takes exactly their tasks' entries along.                 *)
LEMMA DropStore ==
  ASSUME StoreOK, NEW S \in SUBSET DOMAIN byToken, DropExpired(S),
         issued' = issued
  PROVE  /\ StoreOK'
         /\ DOMAIN byToken' = DOMAIN byToken \ S
         /\ \A k \in DOMAIN byToken' : byToken'[k] = byToken[k]
<1> DEFINE gone == {byToken[k].task : k \in S}
<1>1. /\ DOMAIN byToken' = DOMAIN byToken \ S
      /\ \A k \in DOMAIN byToken \ S : byToken'[k] = byToken[k]
      /\ byToken' = [k \in DOMAIN byToken \ S |-> byToken[k]]
  BY WithoutMap DEF DropExpired
<1>2. byTask' = Without(byTask, gone)
  BY DEF DropExpired
<1>3. /\ DOMAIN byTask' = DOMAIN byTask \ gone
      /\ \A u \in DOMAIN byTask \ gone : byTask'[u] = byTask[u]
      /\ byTask' = [u \in DOMAIN byTask \ gone |-> byTask[u]]
  <2> HIDE DEF gone
  <2> QED BY <1>2, WithoutMap
<1>4. StoreType'
  <2> HIDE DEF gone
  <2> QED BY <1>1, <1>3 DEF StoreOK, StoreType
<1>5. MapsInverse'
  BY <1>1, <1>3 DEF StoreOK, MapsInverse
<1>6. QED
  BY <1>1, <1>4, <1>5 DEF StoreOK

-----------------------------------------------------------------------------
(* Runs *)

RunType ==
  /\ run \in [Runs -> Run]
  /\ \A r \in Runs : Live(r) => run[r].task \in Tasks

(* Between its start and its end a run keeps its task and its token.         *)
SameRuns ==
  \A q \in Runs : /\ Live(q)' <=> Live(q)
                  /\ run'[q].task = run[q].task
                  /\ run'[q].token = run[q].token
                  /\ run'[q].expires = run[q].expires
                  /\ run'[q].alone = run[q].alone

LEMMA MoveRun ==
  ASSUME RunType, NEW r \in Runs, Live(r), NEW new \in Run,
         new.pc # "idle", new.task = run[r].task, new.token = run[r].token,
         new.expires = run[r].expires, new.alone = run[r].alone,
         run' = [run EXCEPT ![r] = new]
  PROVE  RunType' /\ SameRuns
BY DEF RunType, SameRuns, Live

LEMMA SteppedRun ==
  ASSUME RunType, NEW r \in Runs, Live(r),
         ToolCalls(r) \/ NextRound(r) \/ Result(r) \/ Account(r) \/ Fail(r)
  PROVE  RunType' /\ SameRuns
<1>1. run[r] \in Run
  BY DEF RunType
<1>2. ASSUME NEW pc \in RunPcs, pc # "idle",
             run' = [run EXCEPT ![r].pc = pc]
      PROVE  RunType' /\ SameRuns
  <2> DEFINE new == [run[r] EXCEPT !.pc = pc]
  <2>1. /\ new \in Run /\ new.pc = pc /\ new.task = run[r].task
        /\ new.token = run[r].token /\ new.expires = run[r].expires
        /\ new.alone = run[r].alone
    BY <1>1 DEF Run
  <2>2. run' = [run EXCEPT ![r] = new]
    BY <1>2
  <2>3. QED
    <3> HIDE DEF new
    <3> QED BY <1>2, <2>1, <2>2, MoveRun
<1>3. CASE ToolCalls(r)
  <2>0. PICK n \in Nat : n = run[r].round + 1
    BY <1>1 DEF Run
  <2> DEFINE new == [run[r] EXCEPT !.pc = "tools", !.round = n]
  <2>1. /\ new \in Run /\ new.pc = "tools" /\ new.task = run[r].task
        /\ new.token = run[r].token /\ new.expires = run[r].expires
        /\ new.alone = run[r].alone
    BY <1>1 DEF Run, RunPcs
  <2>2. run' = [run EXCEPT ![r] = new]
    BY <1>1, <1>3, <2>0 DEF ToolCalls, RunType
  <2>3. QED
    <3> HIDE DEF new
    <3> QED BY <2>1, <2>2, MoveRun
<1>4. CASE NextRound(r)
  <2> DEFINE new == [run[r] EXCEPT !.pc = "round", !.age = 0]
  <2>1. /\ new \in Run /\ new.pc = "round" /\ new.task = run[r].task
        /\ new.token = run[r].token /\ new.expires = run[r].expires
        /\ new.alone = run[r].alone
    BY <1>1 DEF Run, RunPcs
  <2>2. run' = [run EXCEPT ![r] = new]
    BY <1>1, <1>4 DEF NextRound, RunType
  <2>3. QED
    <3> HIDE DEF new
    <3> QED BY <2>1, <2>2, MoveRun
<1>5. CASE Result(r) \/ Account(r) \/ Fail(r)
  <2>1. PICK pc \in RunPcs : pc # "idle" /\ run' = [run EXCEPT ![r].pc = pc]
    BY <1>5 DEF Result, Account, Fail, RunPcs
  <2>2. QED BY <1>2, <2>1
<1>6. QED
  BY <1>3, <1>4, <1>5

LEMMA TickedRuns ==
  ASSUME RunType, Tick
  PROVE  RunType' /\ SameRuns
<1>1. ASSUME NEW q \in Runs
      PROVE  /\ run'[q] \in Run /\ run'[q].pc = run[q].pc
             /\ run'[q].task = run[q].task /\ run'[q].token = run[q].token
             /\ run'[q].expires = run[q].expires
             /\ run'[q].alone = run[q].alone
  <2> DEFINE new == [run[q] EXCEPT !.age = @ + 1]
  <2>1. run[q] \in Run
    BY DEF RunType
  <2>2. /\ new \in Run /\ new.pc = run[q].pc /\ new.task = run[q].task
        /\ new.token = run[q].token /\ new.expires = run[q].expires
        /\ new.alone = run[q].alone
    BY <2>1 DEF Run
  <2>3. run'[q] = new \/ run'[q] = run[q]
    BY DEF Tick
  <2>4. QED
    <3> HIDE DEF new
    <3> QED BY <2>1, <2>2, <2>3
<1>2. DOMAIN run' = Runs /\ run' = [q \in Runs |-> run'[q]]
  BY DEF Tick
<1>3. QED
  BY <1>1, <1>2 DEF RunType, SameRuns, Live

LEMMA StartedRuns ==
  ASSUME RunType, now \in Nat, issued \in Nat,
         NEW r \in Runs, NEW t \in Tasks, Start(r, t)
  PROVE  /\ RunType'
         /\ ~Live(r) /\ Live(r)'
         /\ run'[r].task = t /\ run'[r].token = issued + 1
         /\ run'[r].expires = now + TTL
         /\ run'[r].alone = (LiveOn(t) = {})
         /\ run'[r].pc = "round"
         /\ \A q \in Runs \ {r} :
              /\ Live(q)' <=> Live(q)
              /\ run'[q].pc = run[q].pc
              /\ run'[q].task = run[q].task
              /\ run'[q].token = run[q].token
              /\ run'[q].expires = run[q].expires
              /\ run'[q].alone => run[q].alone /\ run[q].task # t
<1> DEFINE first == [pc |-> "round", task |-> t, token |-> issued + 1,
                     expires |-> now + TTL, round |-> 0, age |-> 0,
                     alone |-> LiveOn(t) = {}]
<1>1. /\ first \in Run /\ first.pc = "round" /\ first.task = t
      /\ first.token = issued + 1 /\ first.expires = now + TTL
      /\ first.alone = (LiveOn(t) = {})
  BY TokensAssumption DEF Run, RunPcs
<1>2. run'[r] = first /\ run[r].pc = "idle"
  BY DEF Start
<1>3. ASSUME NEW q \in Runs \ {r}
      PROVE  /\ run'[q] \in Run /\ run'[q].pc = run[q].pc
             /\ run'[q].task = run[q].task
             /\ run'[q].token = run[q].token
             /\ run'[q].expires = run[q].expires
             /\ run'[q].alone => run[q].alone /\ run[q].task # t
  <2> DEFINE new == [run[q] EXCEPT !.alone = @ /\ run[q].task # t]
  <2>1. run[q] \in Run
    BY DEF RunType
  <2>2. /\ new \in Run /\ new.pc = run[q].pc /\ new.task = run[q].task
        /\ new.token = run[q].token /\ new.expires = run[q].expires
        /\ new.alone => run[q].alone /\ run[q].task # t
    BY <2>1 DEF Run
  <2>3. run'[q] = new
    BY DEF Start
  <2>4. QED
    <3> HIDE DEF new
    <3> QED BY <2>2, <2>3
<1>4. DOMAIN run' = Runs /\ run' = [q \in Runs |-> run'[q]]
  BY DEF Start
<1>5. QED
  <2> HIDE DEF first
  <2> QED BY <1>1, <1>2, <1>3, <1>4 DEF RunType, Live

LEMMA EndedRuns ==
  ASSUME RunType, NEW r \in Runs, End(r)
  PROVE  /\ RunType'
         /\ Live(r) /\ ~Live(r)'
         /\ \A q \in Runs \ {r} : run'[q] = run[q]
<1>1. Over \in Run /\ Over.pc = "idle"
  BY DEF Over, Run, RunPcs
<1>2. run' = [run EXCEPT ![r] = Over] /\ run[r].pc \in {"failing", "ending"}
  BY DEF End
<1>3. QED
  BY <1>1, <1>2 DEF RunType, Live

-----------------------------------------------------------------------------
(* The invariant *)

CountsType ==
  /\ now \in Nat /\ asked \in Nat
  /\ request \in [Runs -> Tasks \cup {NoTask}]
  /\ usage \in [Tasks -> Nat]
  /\ answered \in [Tasks -> Nat]
  /\ recorded \in [Tasks -> Nat]
  /\ spoiled \subseteq Tasks

(* SoleRunServed made inductive: while a run is alone no live run shares its *)
(* task, and until it expires its token is in the store, as it was issued.   *)
SoleRun(r) ==
  Live(r) /\ run[r].alone =>
    /\ \A q \in Runs \ {r} : Live(q) => run[q].task # run[r].task
    /\ now <= run[r].expires =>
         /\ run[r].token \in DOMAIN byToken
         /\ byToken[run[r].token].task = run[r].task
         /\ byToken[run[r].token].expires = run[r].expires

IInv ==
  /\ StoreOK
  /\ RunType
  /\ CountsType
  /\ NoTokenOutlivesItsRun
  /\ \A r \in Runs : SoleRun(r)

LEMMA InitIInv == Init => IInv
<1> SUFFICES ASSUME Init PROVE IInv
  OBVIOUS
<1>1. DOMAIN byToken = {} /\ DOMAIN byTask = {}
  BY DEF Init
<1>2. StoreOK
  BY <1>1 DEF Init, StoreOK, StoreType, MapsInverse
<1>3. Over \in Run /\ Over.pc = "idle"
  BY DEF Over, Run, RunPcs
<1>4. RunType /\ \A r \in Runs : ~Live(r)
  BY <1>3 DEF Init, RunType, Live
<1>5. CountsType
  BY DEF Init, CountsType
<1>6. QED
  BY <1>1, <1>2, <1>4, <1>5 DEF IInv, NoTokenOutlivesItsRun, SoleRun

(* A step that moves runs forward and leaves the store alone.                *)
LEMMA StoreKept ==
  ASSUME IInv, RunType', SameRuns, CountsType', now' \in {now, now + 1},
         UNCHANGED <<issued, byToken, byTask>>
  PROVE  IInv'
<1>1. StoreOK'
  BY DEF IInv, StoreOK, StoreType, MapsInverse
<1>2. NoTokenOutlivesItsRun'
  BY DEF IInv, NoTokenOutlivesItsRun, SameRuns
<1>3. ASSUME NEW r \in Runs PROVE SoleRun(r)'
  <2>1. now' <= run'[r].expires => now <= run[r].expires
    <3>1. now \in Nat /\ run[r].expires \in Nat
      BY DEF IInv, CountsType, RunType, Run
    <3>2. QED BY <3>1 DEF SameRuns
  <2>2. QED
    BY <2>1 DEF IInv, SoleRun, SameRuns
<1>4. QED
  BY <1>1, <1>2, <1>3 DEF IInv

(* A step that only drops expired tokens.                                    *)
LEMMA ExpiredDropped ==
  ASSUME IInv, NEW S \in SUBSET DOMAIN byToken, \A k \in S : Expired(k),
         DropExpired(S), UNCHANGED <<now, issued, run>>, CountsType'
  PROVE  IInv'
<1>1. /\ StoreOK'
      /\ DOMAIN byToken' = DOMAIN byToken \ S
      /\ \A k \in DOMAIN byToken' : byToken'[k] = byToken[k]
  BY DropStore DEF IInv
<1>2. RunType' /\ \A r \in Runs : Live(r)' <=> Live(r)
  BY DEF IInv, RunType, Live
<1>3. NoTokenOutlivesItsRun'
  BY <1>1, <1>2 DEF IInv, NoTokenOutlivesItsRun
<1>4. ASSUME NEW r \in Runs PROVE SoleRun(r)'
  <2>1. ASSUME Live(r), run[r].alone, now <= run[r].expires
        PROVE  run[r].token \in DOMAIN byToken \ S
    <3>1. now \in Nat /\ run[r].expires \in Nat
      BY DEF IInv, CountsType, RunType, Run
    <3>2. /\ run[r].token \in DOMAIN byToken
          /\ byToken[run[r].token].expires = run[r].expires
      BY <2>1 DEF IInv, SoleRun
    <3>3. ~Expired(run[r].token)
      BY <2>1, <3>1, <3>2 DEF Expired
    <3>4. QED BY <3>2, <3>3
  <2>2. SoleRun(r)
    BY DEF IInv
  <2>3. QED
    BY <1>1, <1>2, <2>1, <2>2 DEF SoleRun
<1>5. QED
  BY <1>1, <1>2, <1>3, <1>4 DEF IInv

LEMMA StartIInv ==
  ASSUME IInv, NEW r \in Runs, NEW t \in Tasks, Start(r, t)
  PROVE  IInv'
<1>1. StoreOK /\ RunType /\ CountsType /\ now \in Nat /\ issued \in Nat
  BY DEF IInv, CountsType, StoreOK, StoreType
<1>2. /\ StoreOK'
      /\ issued + 1 \notin DOMAIN byToken
      /\ DOMAIN byToken' = {k \in DOMAIN byToken : byToken[k].task # t}
                             \cup {issued + 1}
      /\ \A k \in DOMAIN byToken' : k # issued + 1 => byToken'[k] = byToken[k]
      /\ byToken'[issued + 1].task = t
      /\ byToken'[issued + 1].expires = now + TTL
  BY <1>1, IssueStore DEF Start
<1>3. /\ RunType'
      /\ ~Live(r) /\ Live(r)'
      /\ run'[r].task = t /\ run'[r].token = issued + 1
      /\ run'[r].expires = now + TTL
      /\ run'[r].alone = (LiveOn(t) = {})
      /\ \A q \in Runs \ {r} :
           /\ Live(q)' <=> Live(q)
           /\ run'[q].task = run[q].task
           /\ run'[q].token = run[q].token
           /\ run'[q].expires = run[q].expires
           /\ run'[q].alone => run[q].alone /\ run[q].task # t
  BY <1>1, StartedRuns
<1>4. CountsType' /\ now' = now
  BY <1>1 DEF Start, CountsType, booking
<1>5. NoTokenOutlivesItsRun'
  <2> SUFFICES ASSUME NEW k \in DOMAIN byToken'
               PROVE  \E q \in Runs : /\ Live(q)' /\ run'[q].token = k
                                      /\ run'[q].task = byToken'[k].task
    BY DEF NoTokenOutlivesItsRun
  <2>1. CASE k = issued + 1
    BY <2>1, <1>2, <1>3
  <2>2. CASE k # issued + 1
    <3>1. k \in DOMAIN byToken /\ byToken'[k] = byToken[k]
      BY <2>2, <1>2
    <3>2. PICK q \in Runs : /\ Live(q) /\ run[q].token = k
                            /\ run[q].task = byToken[k].task
      BY <3>1 DEF IInv, NoTokenOutlivesItsRun
    <3>3. q \in Runs \ {r}
      BY <3>2, <1>3
    <3>4. QED BY <3>1, <3>2, <3>3, <1>3
  <2>3. QED BY <2>1, <2>2
<1>6. SoleRun(r)'
  BY <1>2, <1>3 DEF SoleRun, LiveOn
<1>7. ASSUME NEW q \in Runs \ {r} PROVE SoleRun(q)'
  <2> SUFFICES ASSUME Live(q)', run'[q].alone
               PROVE  /\ \A p \in Runs \ {q} : Live(p)' => run'[p].task # run'[q].task
                      /\ now' <= run'[q].expires =>
                           /\ run'[q].token \in DOMAIN byToken'
                           /\ byToken'[run'[q].token].task = run'[q].task
                           /\ byToken'[run'[q].token].expires = run'[q].expires
    BY DEF SoleRun
  <2>1. Live(q) /\ run[q].alone /\ run[q].task # t
    BY <1>3
  <2>2. /\ \A p \in Runs \ {q} : Live(p) => run[p].task # run[q].task
        /\ now <= run[q].expires =>
             /\ run[q].token \in DOMAIN byToken
             /\ byToken[run[q].token].task = run[q].task
             /\ byToken[run[q].token].expires = run[q].expires
    BY <2>1 DEF IInv, SoleRun
  <2>3. ASSUME NEW p \in Runs \ {q}, Live(p)'
        PROVE  run'[p].task # run'[q].task
    BY <2>1, <2>2, <2>3, <1>3
  <2>4. ASSUME now' <= run'[q].expires
        PROVE  /\ run'[q].token \in DOMAIN byToken'
               /\ byToken'[run'[q].token].task = run'[q].task
               /\ byToken'[run'[q].token].expires = run'[q].expires
    BY <2>1, <2>2, <2>4, <1>2, <1>3, <1>4
  <2>5. QED BY <2>3, <2>4
<1>8. QED
  BY <1>2, <1>3, <1>4, <1>5, <1>6, <1>7 DEF IInv

LEMMA EndIInv ==
  ASSUME IInv, NEW r \in Runs, End(r)
  PROVE  IInv'
<1>1. StoreOK /\ RunType /\ CountsType
  BY DEF IInv
<1>2. /\ RunType' /\ Live(r) /\ ~Live(r)'
      /\ \A q \in Runs \ {r} : run'[q] = run[q]
  BY <1>1, EndedRuns
<1>3. run[r].task \in Tasks
  BY <1>1, <1>2 DEF RunType
<1>4. /\ StoreOK'
      /\ DOMAIN byToken' = {k \in DOMAIN byToken : byToken[k].task # run[r].task}
      /\ \A k \in DOMAIN byToken' : byToken'[k] = byToken[k]
  BY <1>1, <1>3, RevokeStore DEF End
<1>5. CountsType' /\ now' = now
  BY <1>1 DEF End, CountsType, booking
<1>6. \A q \in Runs \ {r} : Live(q)' <=> Live(q)
  BY <1>2 DEF Live
<1>7. NoTokenOutlivesItsRun'
  <2> SUFFICES ASSUME NEW k \in DOMAIN byToken'
               PROVE  \E q \in Runs : /\ Live(q)' /\ run'[q].token = k
                                      /\ run'[q].task = byToken'[k].task
    BY DEF NoTokenOutlivesItsRun
  <2>1. /\ k \in DOMAIN byToken /\ byToken'[k] = byToken[k]
        /\ byToken[k].task # run[r].task
    BY <1>4
  <2>2. PICK q \in Runs : /\ Live(q) /\ run[q].token = k
                          /\ run[q].task = byToken[k].task
    BY <2>1 DEF IInv, NoTokenOutlivesItsRun
  <2>3. q \in Runs \ {r}
    BY <2>1, <2>2
  <2>4. QED BY <1>2, <1>6, <2>1, <2>2, <2>3
<1>8. ASSUME NEW q \in Runs PROVE SoleRun(q)'
  <2>1. CASE q = r
    BY <2>1, <1>2 DEF SoleRun
  <2>2. CASE q # r
    <3>1. SoleRun(q)
      BY DEF IInv
    <3>2. \A p \in Runs \ {q} : Live(p)' => Live(p) /\ run'[p] = run[p]
      BY <1>2, <1>6
    <3>3. QED
      BY <2>2, <1>2, <1>4, <1>5, <1>6, <3>1, <3>2 DEF SoleRun
  <2>3. QED BY <2>1, <2>2
<1>9. QED
  BY <1>2, <1>4, <1>5, <1>7, <1>8 DEF IInv

LEMMA NextIInv == IInv /\ [Next]_vars => IInv'
<1> SUFFICES ASSUME IInv, [Next]_vars PROVE IInv'
  OBVIOUS
<1>0. StoreOK /\ RunType /\ CountsType
  BY DEF IInv
<1>1. ASSUME NEW r \in Runs, NEW t \in Tasks, Start(r, t) PROVE IInv'
  BY <1>1, StartIInv
<1>2. ASSUME NEW r \in Runs, Ask(r) PROVE IInv'
  <2>1. /\ CountsType' /\ UNCHANGED <<now, issued, run>>
    <3>1. UNCHANGED <<now, issued, run, usage, answered, recorded, spoiled>> /\ asked' \in Nat
      BY <1>2, <1>0 DEF Ask, CountsType, booking
    <3>2. request' \in [Runs -> Tasks \cup {NoTask}]
      <4>1. \A k \in DOMAIN byToken : byToken[k].task \in Tasks
        BY <1>0 DEF StoreOK, StoreType, TokenEntry
      <4>2. QED BY <4>1, <1>2, <1>0 DEF Ask, CountsType
    <3>3. QED BY <1>0, <3>1, <3>2 DEF CountsType
  <2>2. CASE run[r].token \in DOMAIN byToken /\ ~Expired(run[r].token)
    <3>1. UNCHANGED <<byToken, byTask>>
      BY <1>2, <2>2 DEF Ask
    <3>2. RunType' /\ SameRuns
      BY <2>1, <1>0 DEF RunType, SameRuns, Live
    <3>3. QED BY <2>1, <3>1, <3>2, StoreKept
  <2>3. CASE ~(run[r].token \in DOMAIN byToken /\ ~Expired(run[r].token))
    <3> DEFINE S == {run[r].token} \cap DOMAIN byToken
    <3>1. DropExpired(S)
      BY <1>2, <2>3 DEF Ask
    <3>2. S \in SUBSET DOMAIN byToken /\ \A k \in S : Expired(k)
      BY <2>3
    <3>3. QED
      <4> HIDE DEF S
      <4> QED BY <2>1, <3>1, <3>2, ExpiredDropped
  <2>4. QED BY <2>2, <2>3
<1>3. ASSUME NEW r \in Runs, Answer(r) PROVE IInv'
  <2>1. UNCHANGED <<now, issued, byToken, byTask, run, asked, recorded, spoiled>>
    BY <1>3 DEF Answer
  <2>2. CountsType'
    <3>1. request[r] \in Tasks
      BY <1>0, <1>3 DEF Answer, CountsType
    <3>2. request' \in [Runs -> Tasks \cup {NoTask}]
      BY <1>0, <1>3 DEF Answer, CountsType
    <3>3. usage' \in [Tasks -> Nat] /\ answered' \in [Tasks -> Nat]
      BY <1>0, <1>3, <3>1 DEF Answer, CountsType
    <3>4. QED BY <1>0, <2>1, <3>2, <3>3 DEF CountsType
  <2>3. RunType' /\ SameRuns
    BY <2>1, <1>0 DEF RunType, SameRuns, Live
  <2>4. QED BY <2>1, <2>2, <2>3, StoreKept
<1>4. ASSUME NEW r \in Runs,
             ToolCalls(r) \/ NextRound(r) \/ Result(r) \/ Account(r) \/ Fail(r)
      PROVE  IInv'
  <2>1. Live(r)
    BY <1>4 DEF ToolCalls, NextRound, Result, Account, Fail, Live
  <2>2. UNCHANGED <<now, issued, byToken, byTask>>
    BY <1>4 DEF ToolCalls, NextRound, Result, Account, Fail
  <2>3. CountsType'
    <3>1. CASE ToolCalls(r) \/ NextRound(r) \/ Result(r)
      BY <1>0, <3>1 DEF ToolCalls, NextRound, Result, CountsType, booking
    <3>2. CASE Account(r)
      <4>1. run[r].task \in Tasks
        BY <1>0, <2>1 DEF RunType
      <4>2. recorded' \in [Tasks -> Nat] /\ usage' \in [Tasks -> Nat]
        BY <1>0, <3>2, <4>1 DEF Account, CountsType
      <4>3. QED BY <1>0, <3>2, <4>2 DEF Account, CountsType
    <3>3. CASE Fail(r)
      <4>1. run[r].task \in Tasks
        BY <1>0, <2>1 DEF RunType
      <4>2. QED BY <1>0, <3>3, <4>1 DEF Fail, CountsType
    <3>4. QED BY <1>4, <3>1, <3>2, <3>3
  <2>4. RunType' /\ SameRuns
    BY <1>0, <1>4, <2>1, SteppedRun
  <2>5. QED BY <2>2, <2>3, <2>4, StoreKept
<1>5. ASSUME NEW r \in Runs, End(r) PROVE IInv'
  BY <1>5, EndIInv
<1>6. CASE Sweep
  <2> DEFINE S == {k \in DOMAIN byToken : Expired(k)}
  <2>1. /\ DropExpired(S) /\ UNCHANGED <<now, issued, run>> /\ CountsType'
    BY <1>0, <1>6 DEF Sweep, CountsType, booking
  <2>2. S \in SUBSET DOMAIN byToken /\ \A k \in S : Expired(k)
    OBVIOUS
  <2>3. QED
    <3> HIDE DEF S
    <3> QED BY <2>1, <2>2, ExpiredDropped
<1>7. CASE Tick
  <2>1. UNCHANGED <<issued, byToken, byTask>> /\ now' = now + 1 /\ CountsType'
    BY <1>0, <1>7 DEF Tick, CountsType, booking
  <2>2. QED BY <1>0, <1>7, <2>1, TickedRuns, StoreKept
<1>8. CASE UNCHANGED vars
  <2>1. UNCHANGED <<now, issued, byToken, byTask, run>> /\ CountsType'
    BY <1>0, <1>8 DEF vars, CountsType, booking
  <2>2. RunType' /\ SameRuns
    BY <2>1, <1>0 DEF RunType, SameRuns, Live
  <2>3. QED BY <2>1, <2>2, StoreKept
<1>9. QED
  BY <1>1, <1>2, <1>3, <1>4, <1>5, <1>6, <1>7, <1>8 DEF Next

(* The inductive invariant holds in every reachable state.                   *)
LEMMA Invariance == Spec => []IInv
BY InitIInv, NextIInv, PTL DEF Spec

-----------------------------------------------------------------------------
(* Theorems *)

(* The variables have their types, whatever runs, clocks and requests do.    *)
THEOREM TokenTypes == Spec => []TypeOK
<1>1. IInv => TypeOK
  BY DEF IInv, StoreOK, StoreType, RunType, CountsType, TypeOK
<1>2. QED BY <1>1, Invariance, PTL

(* byToken and byTask, the two maps of inference-proxy.ts, stay inverse to   *)
(* each other under issue, revocation, lazy expiry and the sweep.            *)
THEOREM StoreConsistent == Spec => []MapsInverse
<1>1. IInv => MapsInverse
  BY DEF IInv, StoreOK
<1>2. QED BY <1>1, Invariance, PTL

(* The finally block of executeTaskInDocker and executeTaskInK3s revokes     *)
(* what it should: a token in the store is held by a run still live.         *)
THEOREM NoTokenLeaks == Spec => []NoTokenOutlivesItsRun
<1>1. IInv => NoTokenOutlivesItsRun
  BY DEF IInv
<1>2. QED BY <1>1, Invariance, PTL

(* A run that has its task to itself may call the provider until its token   *)
(* expires.                                                                  *)
THEOREM SoleRunsServed == Spec => []SoleRunServed
<1>1. ASSUME IInv PROVE SoleRunServed
  <2> SUFFICES ASSUME NEW r \in Runs, Live(r), run[r].alone, now <= run[r].expires
               PROVE  run[r].token \in DOMAIN byToken /\ ~Expired(run[r].token)
    BY DEF SoleRunServed
  <2>1. /\ run[r].token \in DOMAIN byToken
        /\ byToken[run[r].token].expires = run[r].expires
    BY <1>1 DEF IInv, SoleRun
  <2>2. now \in Nat /\ run[r].expires \in Nat
    BY <1>1 DEF IInv, CountsType, RunType, Run
  <2>3. QED BY <2>1, <2>2 DEF Expired
<1>2. QED BY <1>1, Invariance, PTL

-----------------------------------------------------------------------------
(* Usage *)

(* A live run's token was issued, and speaks for the run's own task.         *)
OwnTokens ==
  \A r \in Runs : Live(r) =>
    /\ run[r].token <= issued
    /\ run[r].token \in DOMAIN byToken => byToken[run[r].token].task = run[r].task

(* A call in flight is one of a round of its task, or its task's run failed. *)
CallsHeld ==
  \A r \in Runs :
    /\ request[r] # NoTask =>
         \/ request[r] \in spoiled
         \/ run[r].pc = "round" /\ run[r].task = request[r]
    /\ run[r].pc = "failing" => run[r].task \in spoiled

(* UsageAccounted made inductive.                                            *)
UsageInv == OwnTokens /\ CallsHeld /\ UsageAccounted

KeptTokens ==
  \A k \in DOMAIN byToken' : k \in DOMAIN byToken /\ byToken'[k] = byToken[k]

(* Steps that leave the runs, the calls in flight and the books alone.       *)
LEMMA TokensDropped ==
  ASSUME UsageInv, KeptTokens, UNCHANGED <<issued, request, booking>>,
         \A q \in Runs : /\ run'[q].pc = run[q].pc
                         /\ run'[q].task = run[q].task
                         /\ run'[q].token = run[q].token
  PROVE  UsageInv'
<1>1. OwnTokens'
  BY DEF UsageInv, OwnTokens, KeptTokens, Live
<1>2. CallsHeld'
  BY DEF UsageInv, CallsHeld, booking
<1>3. UsageAccounted'
  BY DEF UsageInv, UsageAccounted, booking
<1>4. QED BY <1>1, <1>2, <1>3 DEF UsageInv

(* A step of one run that leaves the store alone and does not end the run.   *)
LEMMA OwnTokensKept ==
  ASSUME OwnTokens, SameRuns, UNCHANGED <<issued, byToken>>
  PROVE  OwnTokens'
BY DEF OwnTokens, SameRuns

LEMMA StartUsage ==
  ASSUME IInv, UsageInv, NEW r \in Runs, NEW t \in Tasks, Start(r, t)
  PROVE  UsageInv'
<1>1. StoreOK /\ RunType /\ CountsType /\ now \in Nat /\ issued \in Nat
  BY DEF IInv, CountsType, StoreOK, StoreType
<1>2. /\ \A k \in DOMAIN byToken' :
           k # issued + 1 => k \in DOMAIN byToken /\ byToken'[k] = byToken[k]
      /\ byToken'[issued + 1].task = t
  BY <1>1, IssueStore DEF Start
<1>3. /\ ~Live(r) /\ run'[r].task = t /\ run'[r].token = issued + 1
      /\ run'[r].pc = "round"
      /\ \A q \in Runs \ {r} : /\ run'[q].pc = run[q].pc
                               /\ run'[q].task = run[q].task
                               /\ run'[q].token = run[q].token
  BY <1>1, StartedRuns
<1>4. /\ issued' = issued + 1 /\ request[r] = NoTask /\ run[r].pc = "idle"
      /\ UNCHANGED <<request, usage, answered, recorded, spoiled>>
  BY DEF Start, Issue, booking
<1>5. OwnTokens'
  <2> SUFFICES ASSUME NEW q \in Runs, Live(q)'
               PROVE  /\ run'[q].token <= issued'
                      /\ run'[q].token \in DOMAIN byToken' =>
                           byToken'[run'[q].token].task = run'[q].task
    BY DEF OwnTokens
  <2>1. CASE q = r
    BY <1>1, <1>2, <1>3, <1>4, <2>1
  <2>2. CASE q # r
    <3>1. Live(q) /\ run[q].token \in Nat
      BY <1>1, <1>3, <2>2 DEF Live, RunType, Run
    <3>2. run[q].token <= issued
      BY <3>1 DEF UsageInv, OwnTokens
    <3>3. run[q].token # issued + 1 /\ run[q].token <= issued + 1
      BY <1>1, <3>1, <3>2
    <3>4. QED BY <1>2, <1>3, <1>4, <2>2, <3>1, <3>3 DEF UsageInv, OwnTokens
  <2>3. QED BY <2>1, <2>2
<1>6. CallsHeld'
  BY <1>3, <1>4 DEF UsageInv, CallsHeld
<1>7. UsageAccounted'
  <2>1. \A q \in Runs : run[q].pc \in {"round", "tools", "account"} =>
          run'[q].pc = run[q].pc /\ run'[q].task = run[q].task
    BY <1>3, <1>4
  <2>2. QED BY <1>4, <2>1 DEF UsageInv, UsageAccounted
<1>8. QED BY <1>5, <1>6, <1>7 DEF UsageInv

LEMMA AskUsage ==
  ASSUME IInv, UsageInv, NEW r \in Runs, Ask(r)
  PROVE  UsageInv'
<1>1. StoreOK /\ RunType /\ CountsType
  BY DEF IInv
<1>2. UNCHANGED <<issued, run, usage, answered, recorded, spoiled>>
  BY DEF Ask, booking
<1>3. KeptTokens
  <2>1. CASE UNCHANGED <<byToken, byTask>>
    BY <2>1 DEF KeptTokens
  <2>2. CASE DropExpired({run[r].token} \cap DOMAIN byToken)
    <3> DEFINE S == {run[r].token} \cap DOMAIN byToken
    <3>1. S \in SUBSET DOMAIN byToken /\ DropExpired(S)
      BY <2>2
    <3> HIDE DEF S
    <3>2. QED BY <1>1, <1>2, <3>1, DropStore DEF KeptTokens
  <2>3. QED BY <2>1, <2>2 DEF Ask
<1>4. OwnTokens'
  BY <1>2, <1>3 DEF UsageInv, OwnTokens, KeptTokens, Live
<1>5. CallsHeld'
  <2>1. /\ \A q \in Runs \ {r} : request'[q] = request[q]
        /\ \/ request'[r] = request[r]
           \/ /\ run[r].token \in DOMAIN byToken
              /\ request'[r] = byToken[run[r].token].task
    BY <1>1 DEF Ask, CountsType
  <2>2. run[r].pc \in {"round", "failing"} /\ Live(r)
    BY DEF Ask, Live
  <2>3. \/ request'[r] = request[r]
        \/ request'[r] = run[r].task
    BY <2>1, <2>2 DEF UsageInv, OwnTokens
  <2>4. QED BY <1>2, <2>1, <2>2, <2>3 DEF UsageInv, CallsHeld
<1>6. UsageAccounted'
  BY <1>2 DEF UsageInv, UsageAccounted
<1>7. QED BY <1>4, <1>5, <1>6 DEF UsageInv

LEMMA AnswerUsage ==
  ASSUME IInv, UsageInv, NEW r \in Runs, Answer(r)
  PROVE  UsageInv'
<1>1. CountsType /\ request[r] \in Tasks
  BY DEF IInv, CountsType, Answer
<1>2. /\ UNCHANGED <<issued, byToken, run, recorded, spoiled>>
      /\ \A q \in Runs \ {r} : request'[q] = request[q]
      /\ request'[r] = NoTask
  BY <1>1 DEF Answer, CountsType
<1>3. OwnTokens' /\ CallsHeld'
  <2>1. OwnTokens'
    BY <1>2 DEF UsageInv, OwnTokens, Live
  <2>2. CallsHeld'
    BY <1>2 DEF UsageInv, CallsHeld
  <2>3. QED BY <2>1, <2>2
<1>4. ASSUME NEW t \in Tasks, t # request[r]
      PROVE  usage'[t] = usage[t] /\ answered'[t] = answered[t]
  BY <1>1, <1>4 DEF Answer, CountsType
<1>5. /\ answered'[request[r]] = answered[request[r]] + 1
      /\ usage'[request[r]] \in {usage[request[r]], usage[request[r]] + 1}
  BY <1>1 DEF Answer, CountsType
<1>6. \/ request[r] \in spoiled
      \/ run[r].pc = "round" /\ run[r].task = request[r]
  BY <1>1, TokensAssumption DEF UsageInv, CallsHeld
<1>7. UsageAccounted'
  <2> SUFFICES ASSUME NEW t \in Tasks
               PROVE  /\ recorded'[t] + usage'[t] <= answered'[t]
                      /\ usage'[t] > 0 =>
                           \/ \E q \in Runs :
                                /\ run'[q].task = t
                                /\ run'[q].pc \in {"round", "tools", "account"}
                           \/ t \in spoiled'
    BY DEF UsageAccounted
  <2>0. /\ recorded[t] \in Nat /\ usage[t] \in Nat /\ answered[t] \in Nat
        /\ recorded[t] + usage[t] <= answered[t]
    BY <1>1 DEF CountsType, UsageInv, UsageAccounted
  <2>1. CASE t = request[r]
    <3>1. recorded'[t] + usage'[t] <= answered'[t]
      BY <1>2, <1>5, <2>0, <2>1
    <3>2. QED BY <1>2, <1>6, <2>1, <3>1
  <2>2. CASE t # request[r]
    BY <1>2, <1>4, <2>2 DEF UsageInv, UsageAccounted
  <2>3. QED BY <2>1, <2>2
<1>8. QED BY <1>3, <1>7 DEF UsageInv

LEMMA RoundUsage ==
  ASSUME IInv, UsageInv, NEW r \in Runs,
         ToolCalls(r) \/ NextRound(r) \/ Result(r)
  PROVE  UsageInv'
<1>1. RunType /\ CountsType /\ Live(r)
  BY DEF IInv, ToolCalls, NextRound, Result, Live
<1>2. SameRuns
  BY <1>1, SteppedRun
<1>3. UNCHANGED <<issued, byToken, request, usage, answered, recorded, spoiled>>
  BY DEF ToolCalls, NextRound, Result, booking
<1>4. /\ \A q \in Runs \ {r} : run'[q] = run[q]
      /\ run'[r].pc \in {"round", "tools", "account"}
      /\ run'[r].task = run[r].task
      /\ run[r].pc = "round" => request[r] = NoTask
  <2>1. run \in [Runs -> Run] /\ run[r] \in Run
    BY <1>1 DEF RunType
  <2>2. \A q \in Runs \ {r} : run'[q] = run[q]
    BY <2>1 DEF ToolCalls, NextRound, Result
  <2>3. run'[r].pc \in {"round", "tools", "account"}
    <3>1. CASE ToolCalls(r)
      <4>1. PICK new : /\ new = [run[r] EXCEPT !.pc = "tools", !.round = @ + 1]
                       /\ run' = [run EXCEPT ![r] = new]
        BY <3>1 DEF ToolCalls
      <4>2. new.pc = "tools"
        BY <2>1, <4>1 DEF Run
      <4>3. QED BY <2>1, <4>1, <4>2
    <3>2. CASE NextRound(r)
      BY <2>1, <3>2 DEF NextRound, Run
    <3>3. CASE Result(r)
      BY <2>1, <3>3 DEF Result, Run
    <3>4. QED BY <3>1, <3>2, <3>3
  <2>4. run[r].pc = "round" => request[r] = NoTask
    BY DEF ToolCalls, NextRound, Result
  <2>5. QED BY <1>2, <2>2, <2>3, <2>4 DEF SameRuns
<1>5. OwnTokens'
  BY <1>2, <1>3, OwnTokensKept DEF UsageInv
<1>6. CallsHeld'
  BY <1>3, <1>4 DEF UsageInv, CallsHeld
<1>7. UsageAccounted'
  BY <1>3, <1>4 DEF UsageInv, UsageAccounted
<1>8. QED BY <1>5, <1>6, <1>7 DEF UsageInv

LEMMA AccountUsage ==
  ASSUME IInv, UsageInv, NEW r \in Runs, Account(r)
  PROVE  UsageInv'
<1>1. RunType /\ CountsType /\ Live(r) /\ run[r].pc = "account"
  BY DEF IInv, Account, Live
<1>2. SameRuns
  BY <1>1, SteppedRun
<1>3. UNCHANGED <<issued, byToken, request, answered, spoiled>>
  BY DEF Account
<1>4. /\ \A q \in Runs \ {r} : run'[q] = run[q]
      /\ run'[r].pc = "ending" /\ run'[r].task = run[r].task
  <2>1. run \in [Runs -> Run] /\ run[r] \in Run
    BY <1>1 DEF RunType
  <2>2. QED BY <2>1 DEF Account, Run
<1>5. OwnTokens'
  BY <1>2, <1>3, OwnTokensKept DEF UsageInv
<1>6. CallsHeld'
  BY <1>1, <1>3, <1>4 DEF UsageInv, CallsHeld
<1>7. PICK a : a = run[r].task
  OBVIOUS
<1>8. a \in Tasks
  BY <1>1, <1>7 DEF RunType
<1>9. /\ usage'[a] = 0
      /\ recorded'[a] \in {recorded[a], recorded[a] + usage[a]}
      /\ \A t \in Tasks \ {a} : usage'[t] = usage[t] /\ recorded'[t] = recorded[t]
  BY <1>1, <1>7, <1>8 DEF Account, CountsType
<1>10. UsageAccounted'
  <2> SUFFICES ASSUME NEW t \in Tasks
               PROVE  /\ recorded'[t] + usage'[t] <= answered'[t]
                      /\ usage'[t] > 0 =>
                           \/ \E q \in Runs :
                                /\ run'[q].task = t
                                /\ run'[q].pc \in {"round", "tools", "account"}
                           \/ t \in spoiled'
    BY DEF UsageAccounted
  <2>0. /\ recorded[t] \in Nat /\ usage[t] \in Nat /\ answered[t] \in Nat
        /\ recorded[t] + usage[t] <= answered[t]
        /\ usage[t] > 0 =>
             \/ \E q \in Runs : /\ run[q].task = t
                                /\ run[q].pc \in {"round", "tools", "account"}
             \/ t \in spoiled
    BY <1>1 DEF CountsType, UsageInv, UsageAccounted
  <2>1. CASE t = a
    BY <1>3, <1>9, <2>0, <2>1
  <2>2. CASE t # a
    <3>1. \A q \in Runs : run[q].task = t => q # r
      BY <1>7, <2>2
    <3>2. recorded'[t] = recorded[t] /\ usage'[t] = usage[t]
      BY <1>9, <2>2
    <3>3. QED BY <1>3, <1>4, <2>0, <3>1, <3>2
  <2>3. QED BY <2>1, <2>2
<1>11. QED BY <1>5, <1>6, <1>10 DEF UsageInv

LEMMA FailUsage ==
  ASSUME IInv, UsageInv, NEW r \in Runs, Fail(r)
  PROVE  UsageInv'
<1>1. RunType /\ CountsType /\ Live(r)
  BY DEF IInv, Fail, Live
<1>2. SameRuns
  BY <1>1, SteppedRun
<1>3. /\ UNCHANGED <<issued, byToken, request, usage, answered, recorded>>
      /\ spoiled' = spoiled \cup {run[r].task}
  BY DEF Fail
<1>4. /\ \A q \in Runs \ {r} : run'[q] = run[q]
      /\ run'[r].pc \in {"failing", "ending"} /\ run'[r].task = run[r].task
  <2>1. run \in [Runs -> Run] /\ run[r] \in Run
    BY <1>1 DEF RunType
  <2>2. QED BY <2>1 DEF Fail, Run
<1>5. OwnTokens'
  BY <1>2, <1>3, OwnTokensKept DEF UsageInv
<1>6. CallsHeld'
  BY <1>3, <1>4 DEF UsageInv, CallsHeld
<1>7. UsageAccounted'
  <2> SUFFICES ASSUME NEW t \in Tasks, usage[t] > 0, t \notin spoiled'
               PROVE  \E q \in Runs :
                        /\ run'[q].task = t
                        /\ run'[q].pc \in {"round", "tools", "account"}
    BY <1>3 DEF UsageInv, UsageAccounted
  <2>1. PICK q \in Runs : /\ run[q].task = t
                          /\ run[q].pc \in {"round", "tools", "account"}
    BY <1>3 DEF UsageInv, UsageAccounted
  <2>2. q # r
    BY <1>3, <2>1
  <2>3. QED BY <1>4, <2>1, <2>2
<1>8. QED BY <1>5, <1>6, <1>7 DEF UsageInv

LEMMA EndUsage ==
  ASSUME IInv, UsageInv, NEW r \in Runs, End(r)
  PROVE  UsageInv'
<1>1. StoreOK /\ RunType /\ CountsType /\ run[r].pc \in {"failing", "ending"}
  BY DEF IInv, End
<1>2. /\ ~Live(r)' /\ Live(r)
      /\ \A q \in Runs \ {r} : run'[q] = run[q]
  BY <1>1, EndedRuns
<1>3. UNCHANGED <<issued, request, usage, answered, recorded, spoiled>>
  BY DEF End, booking
<1>4. KeptTokens
  <2>1. run[r].task \in Tasks /\ Revoke(run[r].task)
    BY <1>1, <1>2 DEF RunType, End
  <2>2. QED BY <1>1, <1>3, <2>1, RevokeStore DEF KeptTokens
<1>5. OwnTokens'
  BY <1>2, <1>3, <1>4 DEF UsageInv, OwnTokens, KeptTokens, Live
<1>6. CallsHeld'
  BY <1>1, <1>2, <1>3 DEF UsageInv, CallsHeld, Live
<1>7. UsageAccounted'
  <2>1. \A q \in Runs : run[q].pc \in {"round", "tools", "account"} =>
          run'[q] = run[q]
    BY <1>1, <1>2
  <2>2. QED BY <1>3, <2>1 DEF UsageInv, UsageAccounted
<1>8. QED BY <1>5, <1>6, <1>7 DEF UsageInv

LEMMA NextUsage == IInv /\ UsageInv /\ [Next]_vars => UsageInv'
<1> SUFFICES ASSUME IInv, UsageInv, [Next]_vars PROVE UsageInv'
  OBVIOUS
<1>0. StoreOK /\ RunType
  BY DEF IInv
<1>1. ASSUME NEW r \in Runs, ToolCalls(r) \/ NextRound(r) \/ Result(r)
      PROVE  UsageInv'
  BY <1>1, RoundUsage
<1>2. CASE Sweep
  <2> DEFINE S == {k \in DOMAIN byToken : Expired(k)}
  <2>1. DropExpired(S) /\ UNCHANGED <<issued, run, request, booking>>
    BY <1>2 DEF Sweep
  <2>2. S \in SUBSET DOMAIN byToken
    OBVIOUS
  <2>3. KeptTokens
    <3> HIDE DEF S
    <3> QED BY <1>0, <2>1, <2>2, DropStore DEF KeptTokens
  <2>4. QED BY <2>1, <2>3, TokensDropped
<1>3. CASE Tick
  <2>1. UNCHANGED <<issued, byToken, request, booking>>
    BY <1>3 DEF Tick
  <2>2. KeptTokens
    BY <2>1 DEF KeptTokens
  <2>3. \A q \in Runs : /\ run'[q].pc = run[q].pc
                        /\ run'[q].task = run[q].task
                        /\ run'[q].token = run[q].token
    <3>1. SameRuns
      BY <1>0, <1>3, TickedRuns
    <3>2. \A q \in Runs : run[q] \in Run
      BY <1>0 DEF RunType
    <3>3. \A q \in Runs : run'[q].pc = run[q].pc
      BY <1>3, <3>2 DEF Tick, Run
    <3>4. QED BY <3>1, <3>3 DEF SameRuns
  <2>4. QED BY <2>1, <2>2, <2>3, TokensDropped
<1>4. CASE UNCHANGED vars
  <2>1. UNCHANGED <<issued, byToken, run, request, booking>>
    BY <1>4 DEF vars
  <2>2. KeptTokens
    BY <2>1 DEF KeptTokens
  <2>3. QED BY <2>1, <2>2, TokensDropped
<1>5. QED
  BY <1>1, <1>2, <1>3, <1>4, StartUsage, AskUsage, AnswerUsage, AccountUsage,
     FailUsage, EndUsage DEF Next

(* No call is booked twice, and usage waits in the accumulator only for a    *)
(* run of its task that will collect it, unless a run of the task failed.    *)
THEOREM UsageIsAccounted == Spec => []UsageAccounted
<1>1. Init => UsageInv
  <2> SUFFICES ASSUME Init PROVE UsageInv
    OBVIOUS
  <2>1. Over.pc = "idle"
    BY DEF Over
  <2>2. \A r \in Runs : run[r].pc = "idle" /\ request[r] = NoTask
    BY <2>1 DEF Init
  <2>3. \A t \in Tasks : recorded[t] = 0 /\ usage[t] = 0 /\ answered[t] = 0
    BY DEF Init
  <2>4. OwnTokens /\ CallsHeld
    BY <2>2 DEF OwnTokens, CallsHeld, Live
  <2>5. UsageAccounted
    BY <2>3 DEF UsageAccounted
  <2>6. QED BY <2>4, <2>5 DEF UsageInv
<1>2. UsageInv => UsageAccounted
  BY DEF UsageInv
<1>3. QED BY <1>1, <1>2, NextUsage, Invariance, PTL DEF Spec
=============================================================================
