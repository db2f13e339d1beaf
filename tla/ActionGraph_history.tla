------------------------ MODULE ActionGraph_history ------------------------
(***************************************************************************)
(* Proofs about ActionGraph for all constants and any number of crashes.   *)
(* With calls that take turns and without: what runs was asked for         *)
(* (Provenance), and what answers and audit rows say is true               *)
(* (TruthfulAnswer). With calls that take turns: a rejected id was         *)
(* executed only by calls that died (RejectionIsFinal), so were all but    *)
(* one of the executions of an id (RepeatNeedsCrash), and the end of a     *)
(* thread (EndIsFinal) and a stop before run with arguments the tool       *)
(* refuses (StuckForever) are final.                                       *)
(*                                                                         *)
(* The first two speak of tool invocations and answers, at the end of a    *)
(* path that a graph state takes through checkpoints and through the       *)
(* copies of several calls. What is inductive is that every such state,    *)
(* wherever it is kept, is sound: its arguments come from requests and its *)
(* result from an event. Requests are never changed and executions never   *)
(* forgotten, so that a sound state stays sound (SoundStays), however long *)
(* it lies in a checkpoint and whichever call picks it up after a crash.   *)
(*                                                                         *)
(* The others follow from the line of checkpoints of ActionGraph_proofs: a *)
(* step changes a thread only to what follows on it (ThreadStep), nothing  *)
(* follows on an end, and an execution is kept unless its call died.       *)
(***************************************************************************)
EXTENDS ActionGraph_proofs

-----------------------------------------------------------------------------
(* Sound graph states                                                      *)

\* The arguments are those of the request for id i, or come from `modify`
\* decisions on i, among the requests I.
Asked(I, i, args) ==
  \E a \in Calls :
    /\ I[a].kind = "apply" /\ I[a].id = i
    /\ \A k \in DOMAIN args :
         \/ k \in DOMAIN I[a].args /\ args[k] = I[a].args[k]
         \/ \E m \in Calls :
              /\ I[m].kind = "approve" /\ I[m].id = i /\ I[m].decision = "modify"
              /\ k \in DOMAIN I[m].args /\ args[k] = I[m].args[k]

\* The result of graph state s of id i stands for one of the executions E or of
\* the requests I, and is there exactly from the decision or the run on.
Told(I, E, i, s) ==
  /\ s.result = "ran" => \E e \in E : e.id = i /\ e.args = s.args
  /\ s.result = "rejected" => \E r \in Calls : I[r].id = i /\ I[r].decision = "reject"
  /\ s.next = "gate" => s.result = ""
  /\ s.next = "end" => s.result # ""

\* A known graph state of id i is asked for and true.
Sound(I, E, i, s) ==
  /\ s.next = "none" => s.result = ""
  /\ s.next # "none" => Asked(I, i, s.args) /\ Told(I, E, i, s)

\* Stored checkpoints, those that wait for a writer and copies are sound.
SoundInv ==
  /\ \A i \in Ids : Sound(inp, executed, i, thread[i])
  /\ \A c \in Calls : \A s \in Held(c) : Sound(inp, executed, inp[c].id, s)

\* Where a call stands agrees with what its audit row says.
PlaceInv ==
  \A c \in Calls :
    /\ pc[c] = "audit" => inp[c].kind = "approve"
    /\ <<"approve", c>> \in audit =>
         pc[c] = "answered" /\ inp[c].kind = "approve" /\ snap[c].result # ""

HInv == SoundInv /\ PlaceInv /\ Provenance

-----------------------------------------------------------------------------
(* What a step keeps                                                       *)

\* A request once made stays as it is, and no execution is forgotten.
Grows == executed \subseteq executed' /\ \A c \in Calls : inp[c] # NoInput => inp'[c] = inp[c]

\* A step adds requests and executions.
LEMMA StepGrows == ASSUME IInv, [Next]_vars PROVE Grows
<1>1. \A c \in Calls : inp[c] # NoInput => inp'[c] = inp[c]
  BY CallsStep DEF IInv, NodeInv, NodeAt
<1>2. executed \subseteq executed'
  BY DEF Next, Step, Apply, Approve, SaveInput, WriteCheckpoint, Gate, Run, Return, Audit,
         Crash, vars
<1> QED
  BY <1>1, <1>2 DEF Grows

\* No request is also the empty one.
LEMMA RequestIsSomething ==
  NoInput.kind \notin {"apply", "approve"} /\ NoInput.decision # "reject"
BY DEF NoInput

\* What was asked for stays asked for when requests are added.
LEMMA AskedStays ==
  ASSUME Grows, NEW i, NEW args, Asked(inp, i, args)
  PROVE  Asked(inp', i, args)
<1>1. PICK a \in Calls :
        /\ inp[a].kind = "apply" /\ inp[a].id = i
        /\ \A k \in DOMAIN args :
             \/ k \in DOMAIN inp[a].args /\ args[k] = inp[a].args[k]
             \/ \E m \in Calls :
                  /\ inp[m].kind = "approve" /\ inp[m].id = i /\ inp[m].decision = "modify"
                  /\ k \in DOMAIN inp[m].args /\ args[k] = inp[m].args[k]
  BY DEF Asked
<1>2. \A c \in Calls : inp[c].kind \in {"apply", "approve"} => inp'[c] = inp[c]
  BY RequestIsSomething DEF Grows
<1>3. inp'[a] = inp[a]
  BY <1>1, <1>2
<1>4. ASSUME NEW k \in DOMAIN args
      PROVE  \/ k \in DOMAIN inp'[a].args /\ args[k] = inp'[a].args[k]
             \/ \E m \in Calls :
                  /\ inp'[m].kind = "approve" /\ inp'[m].id = i /\ inp'[m].decision = "modify"
                  /\ k \in DOMAIN inp'[m].args /\ args[k] = inp'[m].args[k]
  BY <1>1, <1>2, <1>3, <1>4
<1> QED
  BY <1>1, <1>3, <1>4 DEF Asked

\* A sound state stays sound when requests and executions are added.
LEMMA SoundStays ==
  ASSUME Grows, NEW i, NEW s, Sound(inp, executed, i, s)
  PROVE  Sound(inp', executed', i, s)
<1>1. CASE s.next = "none"
  BY <1>1 DEF Sound
<1>2. CASE s.next # "none"
  <2>1. Asked(inp', i, s.args)
    BY <1>2, AskedStays DEF Sound
  <2>2. ASSUME NEW r \in Calls, inp[r].decision = "reject"
        PROVE  inp'[r] = inp[r]
    BY <2>2, RequestIsSomething DEF Grows
  <2>3. Told(inp', executed', i, s)
    BY <1>2, <2>2 DEF Sound, Told, Grows
  <2> QED
    BY <1>2, <2>1, <2>3 DEF Sound
<1> QED
  BY <1>1, <1>2

\* A step keeps all graph states sound, if those it writes are.
LEMMA SoundStep ==
  ASSUME SoundInv, Grows,
         \A i \in Ids : thread'[i] = thread[i] \/ Sound(inp', executed', i, thread'[i]),
         \A d \in Calls : \A s \in Held(d)' :
           \/ s \in Held(d) /\ inp'[d] = inp[d]
           \/ Sound(inp', executed', inp'[d].id, s)
  PROVE  SoundInv'
<1>1. ASSUME NEW i \in Ids PROVE Sound(inp', executed', i, thread'[i])
  BY SoundStays DEF SoundInv
<1>2. ASSUME NEW d \in Calls, NEW s \in Held(d)' PROVE Sound(inp', executed', inp'[d].id, s)
  BY <1>2, SoundStays DEF SoundInv
<1> QED
  BY <1>1, <1>2 DEF SoundInv

\* A call that starts holds the one state s.
LEMMA SoundStart ==
  ASSUME IInv, SoundInv, Grows, NEW c \in Calls, NEW s, pc[c] = "idle",
         UNCHANGED <<thread, unsaved>>, snap' = [snap EXCEPT ![c] = s],
         \A d \in Calls : d # c => inp'[d] = inp[d],
         Sound(inp', executed', inp'[c].id, s)
  PROVE  SoundInv'
<1>1. unsaved[c] = <<>>
  BY DEF IInv, NodeInv, NodeAt, Inside
<1>2. snap'[c] = s /\ \A d \in Calls : d # c => snap'[d] = snap[d]
  BY DEF IInv, TypeOK
<1>3. Held(c)' = {s} /\ \A d \in Calls : d # c => Held(d)' = Held(d)
  BY <1>1, <1>2, NoElems DEF Held, Elems
<1> QED
  BY <1>3, SoundStep

\* A call creates the sound checkpoint w.
LEMMA SoundCreate ==
  ASSUME IInv, SoundInv, Grows, NEW c \in Calls, inp[c].id \in Ids,
         NEW s, NEW w \in Thread, Stamped(c, s, w), UNCHANGED <<thread, inp>>,
         Sound(inp', executed', inp[c].id, w)
  PROVE  SoundInv'
<1>1. /\ Held(c)' = Elems(unsaved[c]) \cup {w}
      /\ \A d \in Calls \ {c} : Held(d)' = Held(d)
  BY StampedTypes DEF IInv
<1>2. Elems(unsaved[c]) \subseteq Held(c)
  BY DEF Held
<1> QED
  BY <1>1, <1>2, SoundStep

\* Executions stay asked for, if new ones are.
LEMMA ProvenanceStep ==
  ASSUME Provenance, Grows,
         \A e \in executed' : e \in executed \/ Asked(inp', e.id, e.args)
  PROVE  Provenance'
<1>1. ASSUME NEW e \in executed PROVE Asked(inp, e.id, e.args)
  BY DEF Provenance, Asked
<1>2. ASSUME NEW e \in executed' PROVE Asked(inp', e.id, e.args)
  BY <1>1, AskedStays
<1> QED
  BY <1>2 DEF Provenance, Asked

-----------------------------------------------------------------------------
(* The steps                                                               *)

\* A request for a new id is made; its arguments are asked for by itself.
LEMMA ApplyHistory ==
  ASSUME IInv, HInv, Grows, NEW c \in Calls, NEW i \in Ids, NEW t \in Tools,
         NEW a \in ApplyArgs, Apply(c, i, t, a)
  PROVE  HInv'
<1> DEFINE s == [stamp |-> 0, next |-> "gate", tool |-> t, args |-> a, result |-> ""]
<1>1. /\ pc[c] = "idle" /\ pc' = [pc EXCEPT ![c] = "start"]
      /\ inp' = [inp EXCEPT ![c] = [kind |-> "apply", id |-> i, decision |-> "", args |-> a]]
      /\ snap' = [snap EXCEPT ![c] = s] /\ UNCHANGED <<thread, unsaved, executed>>
  BY DEF Apply, MayStart, Goto
<1>2. inp'[c].kind = "apply" /\ inp'[c].id = i /\ inp'[c].args = a
  BY <1>1 DEF IInv, TypeOK
<1>3. s.next = "gate" /\ s.args = a /\ s.result = ""
  OBVIOUS
<1> HIDE DEF s
<1>4. Asked(inp', i, a)
  BY <1>2 DEF Asked
<1>5. Sound(inp', executed', inp'[c].id, s)
  BY <1>2, <1>3, <1>4 DEF Sound, Told
<1>6. \A d \in Calls : d # c => inp'[d] = inp[d]
  BY <1>1 DEF IInv, TypeOK
<1>7. SoundInv'
  BY <1>1, <1>5, <1>6, SoundStart DEF HInv
<1>8. Provenance'
  BY <1>1, ProvenanceStep DEF HInv
<1>9. PlaceInv'
  <2>1. \A d \in Calls : <<"approve", d>> \in audit' => <<"approve", d>> \in audit
    BY DEF Apply, WriteAudit
  <2>2. /\ pc'[c] = "start"
        /\ \A d \in Calls : d # c => pc'[d] = pc[d] /\ snap'[d] = snap[d]
    BY <1>1 DEF IInv, TypeOK
  <2>3. <<"approve", c>> \notin audit'
    BY <1>1, <2>1 DEF HInv, PlaceInv
  <2> QED
    BY <1>6, <2>1, <2>2, <2>3 DEF HInv, PlaceInv
<1> QED
  BY <1>7, <1>8, <1>9 DEF HInv

\* A decision is made on what the checkpoint holds.
LEMMA ApproveHistory ==
  ASSUME IInv, HInv, Grows, NEW c \in Calls, NEW i \in Ids, NEW d \in Decisions,
         NEW a \in DecisionArgs, Approve(c, i, d, a)
  PROVE  HInv'
<1>1. /\ pc[c] = "idle"
      /\ inp' = [inp EXCEPT ![c] = [kind |-> "approve", id |-> i, decision |-> d, args |-> a]]
      /\ snap' = [snap EXCEPT ![c] = thread[i]]
      /\ UNCHANGED <<thread, unsaved, executed, audit>>
  BY DEF Approve, MayStart
<1>2. inp'[c].kind = "approve" /\ inp'[c].id = i
  BY <1>1 DEF IInv, TypeOK
<1>3. Sound(inp', executed', inp'[c].id, thread[i])
  BY <1>2, SoundStays DEF HInv, SoundInv
<1>4. \A e \in Calls : e # c => inp'[e] = inp[e]
  BY <1>1 DEF IInv, TypeOK
<1>5. SoundInv'
  BY <1>1, <1>3, <1>4, SoundStart DEF HInv
<1>6. Provenance'
  BY <1>1, ProvenanceStep DEF HInv
<1>7. PlaceInv'
  <2>1. \A e \in Calls : e # c => pc'[e] = pc[e] /\ snap'[e] = snap[e]
    BY <1>1 DEF Approve, Goto, IInv, TypeOK
  <2>2. audit' = audit /\ <<"approve", c>> \notin audit
    BY <1>1 DEF HInv, PlaceInv
  <2> QED
    BY <1>2, <1>4, <2>1, <2>2 DEF HInv, PlaceInv
<1> QED
  BY <1>5, <1>6, <1>7 DEF HInv

\* What a new checkpoint keeps, if it is sound and the step brings no audit row.
LEMMA CreateHistory ==
  ASSUME IInv, HInv, Grows, NEW c \in Calls, inp[c].id \in Ids, pc[c] \in Active,
         NEW s, NEW w \in Thread, Stamped(c, s, w), UNCHANGED <<thread, inp, audit>>,
         NEW label \in Inside, pc' = [pc EXCEPT ![c] = label],
         Sound(inp', executed', inp[c].id, w), Provenance'
  PROVE  HInv'
<1>1. SoundInv'
  BY SoundCreate DEF HInv
<1>2. /\ pc'[c] = label /\ \A d \in Calls : d # c => pc'[d] = pc[d] /\ snap'[d] = snap[d]
  BY StampedTypes DEF IInv, TypeOK
<1>3. <<"approve", c>> \notin audit
  BY DEF HInv, PlaceInv, Active
<1>4. PlaceInv'
  BY <1>2, <1>3 DEF HInv, PlaceInv, Inside
<1> QED
  BY <1>1, <1>4 DEF HInv

\* A checkpoint of a sound state is sound.
LEMMA StampedIsSound ==
  ASSUME NEW I, NEW E, NEW i, NEW c, NEW s, NEW w, Stamped(c, s, w), Sound(I, E, i, s)
  PROVE  Sound(I, E, i, w)
<1>1. w.next = s.next /\ w.args = s.args /\ w.result = s.result
  BY DEF Stamped
<1> QED
  BY <1>1 DEF Sound, Told

\* What only moves call c to a place where it owes no row keeps the history.
LEMMA LeaveHistory ==
  ASSUME IInv, HInv, Grows, NEW c \in Calls, NEW label, label # "audit", pc[c] \in Active,
         pc' = [pc EXCEPT ![c] = label], UNCHANGED <<thread, snap, unsaved, inp, executed, audit>>
  PROVE  HInv'
<1>1. SoundInv'
  BY DEF HInv, SoundInv, Held, Elems
<1>2. Provenance'
  BY ProvenanceStep DEF HInv
<1>3. pc'[c] = label /\ \A d \in Calls : d # c => pc'[d] = pc[d]
  BY DEF IInv, TypeOK
<1>4. <<"approve", c>> \notin audit
  BY DEF HInv, PlaceInv, Active
<1>5. PlaceInv'
  BY <1>3, <1>4 DEF HInv, PlaceInv
<1> QED
  BY <1>1, <1>2, <1>5 DEF HInv

\* The input checkpoint is the state the call was sent with.
LEMMA SaveInputHistory ==
  ASSUME IInv, HInv, Grows, NEW c \in Calls, SaveInput(c) PROVE HInv'
<1>1. /\ pc[c] \in Active /\ inp[c].id \in Ids /\ UNCHANGED <<thread, inp, executed, audit>>
      /\ pc' = [pc EXCEPT ![c] = "gate"]
      /\ \E w \in Thread : Stamped(c, snap[c], w)
  BY SaveInputCases DEF IInv, Active
<1>2. PICK w \in Thread : Stamped(c, snap[c], w)
  BY <1>1
<1>3. Sound(inp, executed, inp[c].id, snap[c])
  BY DEF HInv, SoundInv, Held
<1>4. Sound(inp', executed', inp[c].id, w)
  BY <1>1, <1>2, <1>3, StampedIsSound
<1>5. Provenance'
  BY <1>1, ProvenanceStep DEF HInv
<1> QED
  BY <1>1, <1>2, <1>4, <1>5, CreateHistory DEF Inside

\* What is stored was sound when it was created.
LEMMA WriteHistory ==
  ASSUME IInv, HInv, Grows, NEW c \in Calls, WriteCheckpoint(c) PROVE HInv'
<1>1. PICK w \in Thread : Stored(c, w)
  BY WriteCases DEF IInv
<1>2. /\ UNCHANGED <<pc, inp, snap, executed, audit>> /\ inp[c].id \in Ids
      /\ \A d \in Calls : Held(d)' \subseteq Held(d)
  BY <1>1, WriteCases DEF IInv, Stored
<1>3. Sound(inp, executed, inp[c].id, w)
  BY <1>1 DEF Stored, HInv, SoundInv, Held
<1>4. \A i \in Ids : thread'[i] = thread[i] \/ (i = inp[c].id /\ thread'[i] = w)
  BY <1>1, <1>2 DEF Stored, IInv, TypeOK
<1>5. SoundInv'
  BY <1>2, <1>3, <1>4, SoundStep DEF HInv
<1>6. Provenance'
  BY <1>2, ProvenanceStep DEF HInv
<1>7. PlaceInv'
  BY <1>2 DEF HInv, PlaceInv
<1> QED
  BY <1>5, <1>6, <1>7 DEF HInv

\* What a decision makes of a sound state that waits at the gate is sound: a
\* rejection is on record, and `modify` brings arguments of its own request.
LEMMA GateKeepsSound ==
  ASSUME IInv, HInv, NEW c \in Calls, pc[c] = "gate", inp[c].kind = "approve",
         NEW s, s = GateUpdate(snap[c], inp[c].decision, inp[c].args)
  PROVE  s.next = "run" /\ Sound(inp, executed, inp[c].id, s)
<1>1. /\ snap[c] \in Thread /\ snap[c].next = "gate" /\ inp[c] \in Input
      /\ snap[c].args \in ArgMaps /\ inp[c].args \in ArgMaps
  BY DEF IInv, TypeOK, NodeInv, NodeAt, Thread, Input
<1>2. Asked(inp, inp[c].id, snap[c].args) /\ snap[c].result = ""
  <2>1. Sound(inp, executed, inp[c].id, snap[c])
    BY DEF HInv, SoundInv, Held
  <2> QED
    BY <1>1, <2>1 DEF Sound, Told
<1>3. CASE inp[c].decision = "reject"
  <2>1. s.next = "run" /\ s.result = "rejected" /\ s.args = snap[c].args
    BY <1>1, <1>3 DEF GateUpdate, Thread
  <2> QED
    BY <1>2, <1>3, <2>1 DEF Sound, Told
<1>4. CASE inp[c].decision = "modify"
  <2>1. s.next = "run" /\ s.result = "" /\ s.args = Merge(snap[c].args, inp[c].args)
    BY <1>1, <1>2, <1>4 DEF GateUpdate, Thread
  <2>2. /\ DOMAIN s.args = DOMAIN snap[c].args \cup DOMAIN inp[c].args
        /\ \A k \in DOMAIN s.args :
             \/ k \in DOMAIN snap[c].args /\ s.args[k] = snap[c].args[k]
             \/ k \in DOMAIN inp[c].args /\ s.args[k] = inp[c].args[k]
    BY <2>1 DEF Merge
  <2>3. Asked(inp, inp[c].id, s.args)
    <3>1. PICK a \in Calls :
            /\ inp[a].kind = "apply" /\ inp[a].id = inp[c].id
            /\ \A k \in DOMAIN snap[c].args :
                 \/ k \in DOMAIN inp[a].args /\ snap[c].args[k] = inp[a].args[k]
                 \/ \E m \in Calls :
                      /\ inp[m].kind = "approve" /\ inp[m].id = inp[c].id
                      /\ inp[m].decision = "modify"
                      /\ k \in DOMAIN inp[m].args /\ snap[c].args[k] = inp[m].args[k]
      BY <1>2 DEF Asked
    <3>2. ASSUME NEW k \in DOMAIN s.args
          PROVE  \/ k \in DOMAIN inp[a].args /\ s.args[k] = inp[a].args[k]
                 \/ \E m \in Calls :
                      /\ inp[m].kind = "approve" /\ inp[m].id = inp[c].id
                      /\ inp[m].decision = "modify"
                      /\ k \in DOMAIN inp[m].args /\ s.args[k] = inp[m].args[k]
      <4>1. CASE k \in DOMAIN snap[c].args /\ s.args[k] = snap[c].args[k]
        BY <3>1, <4>1
      <4>2. CASE k \in DOMAIN inp[c].args /\ s.args[k] = inp[c].args[k]
        BY <1>4, <4>2
      <4> QED
        BY <2>2, <4>1, <4>2
    <3> QED
      BY <3>1, <3>2 DEF Asked
  <2> QED
    BY <2>1, <2>3 DEF Sound, Told
<1>5. CASE inp[c].decision \notin {"reject", "modify"}
  <2>1. s.next = "run" /\ s.result = snap[c].result /\ s.args = snap[c].args
    BY <1>1, <1>5 DEF GateUpdate, Thread
  <2> QED
    BY <1>2, <2>1 DEF Sound, Told
<1> QED
  BY <1>3, <1>4, <1>5

\* The gate answers, or creates a decided state and hands it to the run.
LEMMA GateHistory ==
  ASSUME IInv, HInv, Grows, NEW c \in Calls, Gate(c) PROVE HInv'
<1>1. /\ pc[c] = "gate" /\ pc[c] \in Active /\ inp[c].id \in Ids
      /\ UNCHANGED <<inp, executed, audit>>
  BY GateCases DEF IInv, Active, Gate
<1>2. Provenance'
  BY <1>1, ProvenanceStep DEF HInv
<1>3. CASE Leaves(c, "answered")
  BY <1>1, <1>3, LeaveHistory DEF Leaves
<1>4. ASSUME NEW s \in Thread, NEW w \in Thread, GateState(c, s), Stamped(c, s, w), Passed(c, w)
      PROVE  HInv'
  <2>1. /\ snap[c] \in Thread /\ snap[c].next = "gate"
        /\ Sound(inp, executed, inp[c].id, snap[c]) /\ snap[c].result = ""
    <3>1. snap[c] \in Thread /\ snap[c].next = "gate"
      BY <1>1 DEF IInv, TypeOK, NodeInv, NodeAt
    <3>2. Sound(inp, executed, inp[c].id, snap[c])
      BY DEF HInv, SoundInv, Held
    <3> QED
      BY <3>1, <3>2 DEF Sound, Told
  <2>2. Sound(inp, executed, inp[c].id, s)
    <3>1. CASE s = GateUpdate(snap[c], inp[c].decision, inp[c].args) /\ inp[c].kind = "approve"
      BY <1>1, <3>1, GateKeepsSound
    <3>2. CASE s = [snap[c] EXCEPT !.next = "run"]
      <4>1. s.next = "run" /\ s.args = snap[c].args /\ s.result = snap[c].result
        BY <2>1, <3>2 DEF Thread
      <4>2. Asked(inp, inp[c].id, s.args)
        BY <2>1, <4>1 DEF Sound
      <4> QED
        BY <2>1, <4>1, <4>2 DEF Sound, Told
    <3> QED
      BY <1>4, <3>1, <3>2 DEF GateState
  <2>3. Sound(inp', executed', inp[c].id, w)
    BY <1>1, <1>4, <2>2, StampedIsSound
  <2>4. thread' = thread /\ pc' = [pc EXCEPT ![c] = "run"] /\ "run" \in Inside
    BY <1>4 DEF Passed, Inside
  <2> QED
    BY <1>1, <1>2, <1>4, <2>3, <2>4, CreateHistory
<1> QED
  BY <1>3, <1>4, GateCases DEF IInv

\* A tool that runs gives its result to the state it was run from.
LEMMA RunHistory ==
  ASSUME IInv, HInv, Grows, NEW c \in Calls, Run(c) PROVE HInv'
<1>1. /\ pc[c] = "run" /\ pc[c] \in Active /\ inp[c].id \in Ids /\ UNCHANGED <<inp, audit>>
  BY RunCases DEF IInv, Active
<1>2. snap[c] \in Thread /\ snap[c].next = "run" /\ Sound(inp, executed, inp[c].id, snap[c])
  BY <1>1 DEF IInv, TypeOK, NodeInv, NodeAt, HInv, SoundInv, Held
<1>3. CASE Leaves(c, "error")
  BY <1>1, <1>3, LeaveHistory DEF Leaves
<1>4. ASSUME NEW s \in Thread, NEW w \in Thread, Stamped(c, s, w), Finished(c, w)
      PROVE  HInv'
  <2>1. /\ w.next = "end" /\ w.args = snap[c].args /\ thread' = thread
        /\ pc' = [pc EXCEPT ![c] = "save"] /\ "save" \in Inside
    BY <1>4 DEF Finished, Inside
  <2>2. Asked(inp', inp[c].id, snap[c].args)
    BY <1>1, <1>2 DEF Sound
  <2>3. CASE snap[c].result # "" /\ w.result = snap[c].result /\ executed' = executed
    <3>1. Sound(inp', executed', inp[c].id, w)
      BY <1>1, <1>2, <2>1, <2>2, <2>3 DEF Sound, Told
    <3>2. Provenance'
      BY <2>3, ProvenanceStep DEF HInv
    <3> QED
      BY <1>1, <1>4, <2>1, <3>1, <3>2, CreateHistory
  <2>4. CASE w.result = "ran" /\ executed' = executed \cup
               {[id |-> inp[c].id, args |-> snap[c].args, call |-> c]}
    <3> DEFINE e == [id |-> inp[c].id, args |-> snap[c].args, call |-> c]
    <3>1. executed' = executed \cup {e} /\ e.id = inp[c].id /\ e.args = snap[c].args
      BY <2>4
    <3> HIDE DEF e
    <3>2. Sound(inp', executed', inp[c].id, w)
      BY <2>1, <2>2, <2>4, <3>1 DEF Sound, Told
    <3>3. Provenance'
      BY <2>2, <3>1, ProvenanceStep DEF HInv
    <3> QED
      BY <1>1, <1>4, <2>1, <3>2, <3>3, CreateHistory
  <2> QED
    BY <1>4, <2>3, <2>4 DEF Finished
<1> QED
  BY <1>3, <1>4, RunCases DEF IInv

\* The call returns the state its thread was finished with.
LEMMA ReturnHistory ==
  ASSUME IInv, HInv, Grows, NEW c \in Calls, Return(c) PROVE HInv'
<1>1. /\ pc[c] = "save" /\ pc[c] \in Active
      /\ UNCHANGED <<thread, snap, unsaved, inp, executed, audit>>
  BY DEF Return, Active
<1>2. CASE inp[c].kind # "approve"
  BY <1>1, <1>2, LeaveHistory DEF Return, Goto
<1>3. CASE inp[c].kind = "approve"
  <2>1. pc' = [pc EXCEPT ![c] = "audit"]
    BY <1>3 DEF Return, Goto
  <2>2. SoundInv'
    BY <1>1 DEF HInv, SoundInv, Held, Elems
  <2>3. Provenance'
    BY <1>1, ProvenanceStep DEF HInv
  <2>4. \A d \in Calls : d # c => pc'[d] = pc[d]
    BY <2>1 DEF IInv, TypeOK
  <2>5. <<"approve", c>> \notin audit
    BY <1>1 DEF HInv, PlaceInv
  <2>6. PlaceInv'
    BY <1>1, <1>3, <2>4, <2>5 DEF HInv, PlaceInv
  <2> QED
    BY <2>2, <2>3, <2>6 DEF HInv
<1> QED
  BY <1>2, <1>3

\* The row is of an approval whose copy has a result.
LEMMA AuditHistory ==
  ASSUME IInv, HInv, NEW c \in Calls, Audit(c) PROVE HInv'
<1>1. /\ pc[c] = "audit" /\ pc' = [pc EXCEPT ![c] = "answered"]
      /\ UNCHANGED <<thread, inp, snap, unsaved, executed>>
  BY DEF Audit, Goto
<1>2. \A d \in Calls : <<"approve", d>> \in audit' => <<"approve", d>> \in audit \/ d = c
  BY DEF Audit, WriteAudit
<1>3. snap[c].next = "end" /\ Sound(inp, executed, inp[c].id, snap[c])
  BY <1>1 DEF IInv, NodeInv, NodeAt, HInv, SoundInv, Held
<1>4. snap[c].result # "" /\ inp[c].kind = "approve"
  BY <1>1, <1>3 DEF Sound, Told, HInv, PlaceInv
<1>5. pc'[c] = "answered" /\ \A d \in Calls : d # c => pc'[d] = pc[d]
  BY <1>1 DEF IInv, TypeOK
<1>6. PlaceInv'
  BY <1>1, <1>2, <1>4, <1>5 DEF HInv, PlaceInv
<1> QED
  BY <1>1, <1>6 DEF HInv, SoundInv, Held, Elems, Provenance

\* Every step keeps the states sound and what runs asked for.
LEMMA HistoryStep == IInv /\ HInv /\ [Next]_vars => HInv'
<1> SUFFICES ASSUME IInv, HInv, [Next]_vars PROVE HInv'
  OBVIOUS
<1>1. Grows
  BY StepGrows
<1>2. ASSUME NEW c \in Calls, NEW i \in Ids, NEW t \in Tools, NEW a \in ApplyArgs,
             Apply(c, i, t, a)
      PROVE  HInv'
  BY <1>1, <1>2, ApplyHistory
<1>3. ASSUME NEW c \in Calls, NEW i \in Ids, NEW d \in Decisions, NEW a \in DecisionArgs,
             Approve(c, i, d, a)
      PROVE  HInv'
  BY <1>1, <1>3, ApproveHistory
<1>4. ASSUME NEW c \in Calls, Step(c) PROVE HInv'
  BY <1>1, <1>4, SaveInputHistory, WriteHistory, GateHistory, RunHistory, ReturnHistory,
     AuditHistory DEF Step
<1>5. CASE Crash
  <2>1. /\ UNCHANGED <<thread, inp, snap, executed, audit>>
        /\ \A c \in Calls : pc'[c] = IF pc[c] \in Active THEN "lost" ELSE pc[c]
        /\ \A c \in Calls : unsaved'[c] = <<>>
    BY <1>5 DEF Crash
  <2>2. \A c \in Calls : pc'[c] # "audit" /\ (pc[c] = "answered" => pc'[c] = "answered")
    BY <2>1 DEF Active
  <2>3. \A c \in Calls : Held(c)' \subseteq Held(c)
    BY <2>1, NoElems DEF Held, Elems
  <2>4. Provenance' /\ SoundInv'
    BY <1>1, <2>1, <2>3, ProvenanceStep, SoundStep DEF HInv
  <2>5. PlaceInv'
    BY <2>1, <2>2 DEF HInv, PlaceInv
  <2> QED
    BY <2>4, <2>5 DEF HInv
<1>6. CASE UNCHANGED vars
  BY <1>1, <1>6, ProvenanceStep DEF vars, HInv, SoundInv, Held, Elems, PlaceInv
<1> QED
  BY <1>2, <1>3, <1>4, <1>5, <1>6 DEF Next

\* At the start there is no state to be sound.
LEMMA InitHistory == Init => HInv
<1> SUFFICES ASSUME Init PROVE HInv
  OBVIOUS
<1>1. \A i \in Ids : thread[i].next = "none" /\ thread[i].result = ""
  BY DEF Init, NoThread
<1>2. \A c \in Calls : snap[c].next = "none" /\ snap[c].result = "" /\ pc[c] = "idle"
                       /\ unsaved[c] = <<>>
  BY DEF Init, NoThread
<1>3. SoundInv
  BY <1>1, <1>2, NoElems DEF SoundInv, Sound, Held
<1>4. PlaceInv
  BY <1>1, <1>2 DEF Init, PlaceInv
<1>5. Provenance
  BY DEF Init, Provenance
<1> QED
  BY <1>3, <1>4, <1>5 DEF HInv

\* What the invariant says of answers and audit rows.
LEMMA HistoryTells == HInv => TruthfulAnswer
<1> SUFFICES ASSUME HInv, NEW c \in Calls, pc[c] = "answered" \/ <<"approve", c>> \in audit
             PROVE  /\ <<"approve", c>> \in audit => inp[c].kind = "approve" /\ snap[c].result # ""
                    /\ snap[c].result = "ran" =>
                         \E e \in executed : e.id = inp[c].id /\ e.args = snap[c].args
                    /\ snap[c].result = "rejected" =>
                         \E r \in Calls : inp[r].id = inp[c].id /\ inp[r].decision = "reject"
  BY DEF TruthfulAnswer
<1>1. snap[c].result # "" => snap[c].next # "none"
  BY DEF HInv, SoundInv, Sound, Held
<1>2. snap[c].result \in {"ran", "rejected"} => Told(inp, executed, inp[c].id, snap[c])
  BY <1>1 DEF HInv, SoundInv, Sound, Held
<1> QED
  BY <1>2 DEF HInv, PlaceInv, Told

-----------------------------------------------------------------------------
(* The theorems                                                            *)

\* Every state is sound throughout.
LEMMA History == Spec => []HInv
<1>1. IInv /\ HInv /\ [Next]_vars => HInv'
  BY HistoryStep
<1> QED
  BY Invariance, InitHistory, <1>1, PTL DEF Spec

\* What a tool is called with was asked for on that id, or laid over it by a
\* `modify` decision on that id (actions.py:43-47).
THEOREM AskedFor == Spec => []Provenance
<1>1. HInv => Provenance
  BY DEF HInv
<1> QED
  BY History, <1>1, PTL

\* Answers and audit rows claim an execution or a rejection only after there
\* was one on their id, across calls and crashes (api.py:231-233).
THEOREM Truthful == Spec => []TruthfulAnswer
BY History, HistoryTells, PTL

-----------------------------------------------------------------------------
(* Approvers that take turns                                               *)

\* A step leaves a thread as it is or stores what follows on it.
LEMMA ThreadStep ==
  ASSUME IInv, Sequential, [Next]_vars, NEW i \in Ids
  PROVE  thread'[i] = thread[i] \/ Follows(thread[i], thread'[i])
<1>1. ASSUME NEW c \in Calls, WriteCheckpoint(c)
      PROVE  thread'[i] = thread[i] \/ Follows(thread[i], thread'[i])
  BY <1>1, WriteInLine DEF IInv, TurnsInv
<1>2. thread' = thread \/ \E c \in Calls : WriteCheckpoint(c)
  BY DEF Next, Step, Apply, Approve, SaveInput, Gate, Run, Return, Audit, Crash, vars
<1> QED
  BY <1>1, <1>2

\* What was executed by a call that lives is the end of its thread, or is about
\* to be stored as that; no answered state of the thread says anything else.
LEMMA TurnsTell ==
  ASSUME IInv, HInv, Sequential
  PROVE  RejectionIsFinal
<1> SUFFICES ASSUME NEW c \in Calls, pc[c] = "answered", snap[c].result = "rejected",
                    NEW e \in executed, e.id = inp[c].id, pc[e.call] # "lost"
             PROVE  FALSE
  BY DEF RejectionIsFinal
<1>1. Sound(inp, executed, inp[c].id, snap[c])
  BY DEF HInv, SoundInv, Held
<1>2. snap[c].next = "end"
  <2>1. snap[c].next \in {"gate", "end"}
    BY DEF IInv, NodeInv, NodeAt
  <2> QED
    BY <1>1, <2>1 DEF Sound, Told
<1>3. thread[e.id] = snap[c]
  BY <1>2 DEF IInv, TurnsInv
<1>4. e.call \in Calls /\ Kept(e)
  BY DEF IInv, TypeOK, TurnsInv
<1>5. pc[e.call] = "save" /\ inp[e.call].id = e.id /\ snap[e.call].result = "ran"
  BY <1>3, <1>4 DEF Kept
<1>6. InLine(e.call) /\ pc[e.call] \in Inside /\ TypeOK
  BY <1>4, <1>5 DEF IInv, TurnsInv, Inside
<1>7. snap[e.call] = thread[e.id]
  BY <1>2, <1>3, <1>4, <1>5, <1>6, InsideNotEnded
<1> QED
  BY <1>3, <1>5, <1>7

\* A call that died stays dead.
LEMMA LostStays ==
  ASSUME TypeOK, NodeInv, [Next]_vars, NEW d \in Calls, pc[d] = "lost"
  PROVE  pc'[d] = "lost"
<1>1. ASSUME NEW c \in Calls, pc[c] # "lost", NEW label, pc' = [pc EXCEPT ![c] = label]
      PROVE  pc'[d] = "lost"
  BY <1>1
<1>2. ASSUME NEW c \in Calls, Step(c)
      PROVE  pc' = pc \/ (pc[c] # "lost" /\ \E label : pc' = [pc EXCEPT ![c] = label])
  BY <1>2 DEF Step, SaveInput, WriteCheckpoint, Gate, Run, Return, Audit, Goto
<1>3. ASSUME NEW c \in Calls, NEW i \in Ids, NEW t \in Tools, NEW a \in ApplyArgs,
             Apply(c, i, t, a)
      PROVE  pc'[d] = "lost"
  BY <1>1, <1>3 DEF Apply, MayStart, Goto
<1>4. ASSUME NEW c \in Calls, NEW i \in Ids, NEW x \in Decisions, NEW a \in DecisionArgs,
             Approve(c, i, x, a)
      PROVE  pc'[d] = "lost"
  BY <1>1, <1>4 DEF Approve, MayStart, Goto
<1>5. CASE Crash
  BY <1>5 DEF Crash, Active
<1> QED
  BY <1>1, <1>2, <1>3, <1>4, <1>5 DEF Next, vars

\* A new execution is of an id whose earlier ones are by calls that died.
LEMMA RepeatStep ==
  ASSUME IInv, Sequential, RepeatNeedsCrash, [Next]_vars PROVE RepeatNeedsCrash'
<1>1. ASSUME NEW e \in executed, pc'[e.call] # "lost" PROVE pc[e.call] # "lost"
  BY <1>1, LostStays DEF IInv, TypeOK
<1>2. CASE executed' = executed
  BY <1>1, <1>2 DEF RepeatNeedsCrash
<1>3. ASSUME NEW c \in Calls, Run(c), executed' # executed PROVE RepeatNeedsCrash'
  <2> DEFINE x == [id |-> inp[c].id, args |-> snap[c].args, call |-> c]
  <2>1. pc[c] = "run" /\ executed' = executed \cup {x} /\ x.id = inp[c].id
    BY <1>3 DEF Run
  <2> HIDE DEF x
  <2>2. \A e \in executed : e.id = x.id => pc'[e.call] = "lost"
    BY <1>1, <2>1, FirstExecution
  <2> QED
    BY <1>1, <2>1, <2>2 DEF RepeatNeedsCrash
<1>4. executed' = executed \/ \E c \in Calls : Run(c) /\ executed' # executed
  BY DEF Next, Step, Apply, Approve, SaveInput, WriteCheckpoint, Gate, Return, Audit, Crash,
         vars
<1> QED
  BY <1>2, <1>3, <1>4

\* Nothing follows on the end of a thread.
LEMMA EndStays ==
  ASSUME IInv, Sequential, [Next]_vars, NEW i \in Ids, thread[i].next = "end"
  PROVE  thread'[i] = thread[i]
BY ThreadStep DEF Follows

\* What the tool refuses is followed by nothing: run raises on it.
LEMMA StuckStays ==
  ASSUME IInv, Sequential, [Next]_vars, NEW i \in Ids, Stuck(i)
  PROVE  Stuck(i)'
<1>1. thread'[i] = thread[i]
  BY ThreadStep DEF Follows, Stuck
<1> QED
  BY <1>1 DEF Stuck

\* A rejected id was executed by no call that lived to see its own end, when
\* approvers take turns, whatever was lost in crashes (actions.py:30-54).
THEOREM RejectedForGood == ASSUME Sequential PROVE Spec => []RejectionIsFinal
<1>1. IInv /\ HInv => RejectionIsFinal
  BY TurnsTell
<1> QED
  BY Invariance, History, <1>1, PTL

\* Of two executions of one id one is by a call that died with the process, when
\* approvers take turns: no retry repeats what its thread has on record
\* (api.py:226-233).
THEOREM RepeatedAfterCrash == ASSUME Sequential PROVE Spec => []RepeatNeedsCrash
<1>1. Init => RepeatNeedsCrash
  BY DEF Init, RepeatNeedsCrash
<1>2. IInv /\ RepeatNeedsCrash /\ [Next]_vars => RepeatNeedsCrash'
  BY RepeatStep
<1> QED
  BY Invariance, <1>1, <1>2, PTL DEF Spec

\* A finished thread is never reopened or changed while approvers take turns, by
\* no decision and no crash.
THEOREM FinishedForGood == ASSUME Sequential PROVE Spec => EndIsFinal
<1>1. IInv /\ [Next]_vars => [\A i \in Ids : thread[i].next = "end" => UNCHANGED thread[i]]_vars
  BY EndStays
<1> QED
  BY Invariance, <1>1, PTL DEF Spec, EndIsFinal

\* A thread that stopped before run with arguments its tool refuses stays there
\* while approvers take turns (actions.py:52-54).
THEOREM StuckForGood == ASSUME Sequential PROVE Spec => StuckForever
<1>1. IInv /\ [Next]_vars => [\A i \in Ids : Stuck(i) => Stuck(i)']_vars
  BY StuckStays
<1> QED
  BY Invariance, <1>1, PTL DEF Spec, StuckForever
=============================================================================
