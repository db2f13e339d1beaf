------------------------- MODULE ActionGraph_proofs ------------------------
(***************************************************************************)
(* Proofs about ActionGraph for any number of approval ids, calls, tools,  *)
(* decisions and arguments, and any bound on crashes: type correctness and *)
(* the refinement of the human gate.                                       *)
(*                                                                         *)
(* The gate only ever looks at its own copy of a checkpoint, so that the   *)
(* property "what run_node is about to invoke was granted" is inductive    *)
(* only together with the same fact about every checkpoint that is stored, *)
(* or waits for its writer, before run (GrantedInv).                       *)
(*                                                                         *)
(* "At most once" is about the life of a thread.  While calls take turns,  *)
(* the stored checkpoint of the thread, those that wait for the writer of  *)
(* the one call under way and that call's copy form a line in which each   *)
(* follows from the one before it (InLine).  An execution whose call lives *)
(* is the end of that line or of the stored thread (Kept), and nothing     *)
(* follows an end.                                                         *)
(***************************************************************************)
EXTENDS ActionGraph, TLAPS

-----------------------------------------------------------------------------
(* The inductive invariant                                                 *)

GrantedPairs == {<<g.id, g.args>> : g \in granted}
PerformedTriples == {<<e.id, e.args, e.call>> : e \in executed}

Elems(q) == {q[k] : k \in 1..Len(q)}

\* A graph state that is about to invoke a tool for id i is among the pairs G.
Cleared(G, i, s) ==
  s.next = "run" /\ s.result = "" /\ needs_approval(s.tool) => <<i, s.args>> \in G

\* The states that call c holds: its copy, and what its writer has to store.
Held(c) == Elems(unsaved[c]) \cup {snap[c]}

GrantedInv ==
  /\ \A i \in Ids : Cleared(GrantedPairs, i, thread[i])
  /\ \A c \in Calls : pc[c] # "idle" =>
       \A s \in Held(c) : Cleared(GrantedPairs, inp[c].id, s)

\* Which node a call stands at agrees with its copy of the state, and its
\* writer is at work only inside the graph.
Inside == {"gate", "run", "save"}

NodeAt(c) ==
  /\ pc[c] = "idle" => inp[c] = NoInput
  /\ pc[c] # "idle" => inp[c].id \in Ids
  /\ inp[c].kind = "approve" => inp[c].decision \in Decisions
  /\ pc[c] = "start" => inp[c].kind = "apply" /\ snap[c].next = "gate"
  /\ pc[c] \in {"gate", "run"} => snap[c].next = pc[c]
  /\ pc[c] \in {"save", "audit"} => snap[c].next = "end"
  /\ pc[c] = "answered" => snap[c].next \in {"gate", "end"}
  /\ pc[c] = "lost" => crashes # 0
  /\ pc[c] \notin Inside => unsaved[c] = <<>>

NodeInv == \A c \in Calls : NodeAt(c)

\* An id is known to the checkpointer, or to a call inside the graph, only
\* after the one call that applied for it has left its first step.
AppliedIds ==
  {i \in Ids : \E d \in Calls :
     inp[d].kind = "apply" /\ inp[d].id = i /\ pc[d] # "start"}

OneApplicant ==
  \A c, d \in Calls :
    inp[c].kind = "apply" /\ inp[d].kind = "apply" /\ inp[c].id = inp[d].id
      => c = d

KnownInv ==
  /\ OneApplicant
  /\ \A i \in Ids : thread[i].next # "none" => i \in AppliedIds
  /\ \A c \in Calls : pc[c] \in Inside => inp[c].id \in AppliedIds

\* No checkpoint is stamped later than the last one created.
StampInv ==
  /\ \A i \in Ids : thread[i].stamp <= made[i]
  /\ \A c \in Calls : pc[c] \in Inside =>
       \A s \in Held(c) : s.stamp <= made[inp[c].id]

\* Checkpoint t is what one node makes of checkpoint s.
Follows(s, t) ==
  /\ s.stamp < t.stamp
  /\ \/ s.next = "none" /\ t.next = "gate"
     \/ s.next = "gate" /\ t.next = "run"
     \/ /\ s.next = "run" /\ t.next = "end"
        /\ \/ s.result # "" /\ t.result = s.result
           \/ s.result = "" /\ t.result = "ran" /\ Invocable(s.tool, s.args)

\* The checkpoints q follow on s, one on the other.
Line(s, q) ==
  \A k \in 1..Len(q) : Follows(IF k = 1 THEN s ELSE q[k - 1], q[k])
LineEnd(s, q) == IF q = <<>> THEN s ELSE q[Len(q)]

InLine(c) ==
  pc[c] \in Inside =>
    /\ Line(thread[inp[c].id], unsaved[c])
    /\ snap[c] = LineEnd(thread[inp[c].id], unsaved[c])

\* An execution is stored with its thread, or its call waits for that.
Kept(e) ==
  \/ thread[e.id].next = "end" /\ thread[e.id].result = "ran"
  \/ pc[e.call] = "save" /\ inp[e.call].id = e.id /\ snap[e.call].result = "ran"

\* With approvers taking turns: one call is under way, its checkpoints are in
\* line, what a call executed is kept unless the call died, and a finished state
\* that was answered is that of its thread.
TurnsInv ==
  /\ \A c, d \in Calls : pc[c] \in Active /\ pc[d] \in Active => c = d
  /\ \A c \in Calls : InLine(c)
  /\ \A e \in executed : pc[e.call] # "lost" => Kept(e)
  /\ \A c \in Calls : pc[c] \in {"audit", "answered"} /\ snap[c].next = "end" =>
       thread[inp[c].id] = snap[c]

\* What every state of the two endpoints satisfies and every step keeps: types,
\* grants behind whatever is about to run, calls that agree with their copies,
\* ids with one applicant, stamps in order and, with approvers taking turns, no
\* way back from the end of a thread to run.
IInv ==
  /\ TypeOK /\ GrantedInv /\ NodeInv /\ KnownInv /\ StampInv
  /\ Sequential => TurnsInv

-----------------------------------------------------------------------------
(* Sequences of checkpoints                                                *)

\* The elements of a sequence one longer, and of the rest of a sequence.
LEMMA AppendElems ==
  ASSUME NEW q \in Seq(Thread), NEW w \in Thread
  PROVE  Append(q, w) \in Seq(Thread) /\ Elems(Append(q, w)) = Elems(q) \cup {w}
<1>1. /\ Append(q, w) \in Seq(Thread) /\ Len(q) \in Nat /\ Len(Append(q, w)) = Len(q) + 1
      /\ \A k \in 1..Len(q) : Append(q, w)[k] = q[k]
      /\ Append(q, w)[Len(q) + 1] = w
  OBVIOUS
<1>2. 1..Len(Append(q, w)) = 1..Len(q) \cup {Len(q) + 1}
  BY <1>1
<1> QED
  BY <1>1, <1>2 DEF Elems

LEMMA TailElems ==
  ASSUME NEW q \in Seq(Thread), q # <<>>
  PROVE  /\ Tail(q) \in Seq(Thread) /\ Elems(Tail(q)) \subseteq Elems(q)
         /\ Head(q) \in Thread /\ Head(q) \in Elems(q)
<1>1. /\ Tail(q) \in Seq(Thread) /\ Head(q) = q[1] /\ Head(q) \in Thread
      /\ Len(q) \in Nat /\ Len(q) # 0 /\ Len(Tail(q)) = Len(q) - 1
      /\ \A k \in 1..Len(Tail(q)) : Tail(q)[k] = q[k + 1]
  OBVIOUS
<1>2. 1 \in 1..Len(q) /\ \A k \in 1..Len(Tail(q)) : k + 1 \in 1..Len(q)
  BY <1>1
<1> QED
  BY <1>1, <1>2 DEF Elems

LEMMA NoElems == Elems(<<>>) = {}
BY DEF Elems

LEMMA EmptyLen == \A q \in Seq(Thread) : Len(q) = 0 <=> q = <<>>
OBVIOUS

\* A line grows at its end by what follows it.
LEMMA LineGrows ==
  ASSUME NEW s, NEW q \in Seq(Thread), NEW w \in Thread,
         Line(s, q), Follows(LineEnd(s, q), w)
  PROVE  Line(s, Append(q, w)) /\ LineEnd(s, Append(q, w)) = w
<1> DEFINE r == Append(q, w)
<1>1. /\ r \in Seq(Thread) /\ Len(q) \in Nat /\ Len(r) = Len(q) + 1
      /\ \A k \in 1..Len(q) : r[k] = q[k]
      /\ r[Len(q) + 1] = w /\ r # <<>>
  OBVIOUS
<1>2. Len(q) # 0 => q # <<>> /\ Len(q) \in 1..Len(q)
  BY <1>1
<1>3. Len(q) = 0 => q = <<>>
  BY <1>1
<1> HIDE DEF r
<1>4. LineEnd(s, r) = w
  BY <1>1 DEF LineEnd
<1>5. ASSUME NEW k \in 1..Len(r)
      PROVE  Follows(IF k = 1 THEN s ELSE r[k - 1], r[k])
  <2>1. CASE k \in 1..Len(q)
    <3>1. k # 1 => k - 1 \in 1..Len(q)
      BY <1>1, <2>1
    <3>2. Follows(IF k = 1 THEN s ELSE q[k - 1], q[k])
      BY <2>1 DEF Line
    <3>3. r[k] = q[k] /\ (k # 1 => r[k - 1] = q[k - 1])
      BY <1>1, <2>1, <3>1
    <3> QED
      BY <3>2, <3>3
  <2>2. CASE k = Len(q) + 1
    <3>1. CASE Len(q) = 0
      <4>1. k = 1 /\ LineEnd(s, q) = s
        BY <1>3, <2>2, <3>1 DEF LineEnd
      <4> QED
        BY <1>1, <2>2, <4>1
    <3>2. CASE Len(q) # 0
      <4>1. k # 1 /\ k - 1 = Len(q) /\ LineEnd(s, q) = q[Len(q)]
        BY <1>1, <1>2, <2>2, <3>2 DEF LineEnd
      <4>2. r[k - 1] = q[Len(q)]
        BY <1>1, <1>2, <3>2, <4>1
      <4> QED
        BY <1>1, <2>2, <4>1, <4>2
    <3> QED
      BY <3>1, <3>2
  <2> QED
    BY <1>1, <2>1, <2>2
<1> QED
  BY <1>4, <1>5 DEF Line, r

\* The first of a line follows its start, and starts the rest of it.
LEMMA LineShrinks ==
  ASSUME NEW s, NEW q \in Seq(Thread), q # <<>>, Line(s, q)
  PROVE  /\ Follows(s, Head(q)) /\ Line(Head(q), Tail(q))
         /\ LineEnd(Head(q), Tail(q)) = LineEnd(s, q)
<1> DEFINE r == Tail(q)
<1>1. /\ r \in Seq(Thread) /\ Head(q) = q[1]
      /\ Len(q) \in Nat /\ Len(q) # 0 /\ Len(r) = Len(q) - 1 /\ Len(r) \in Nat
      /\ \A k \in 1..Len(r) : r[k] = q[k + 1]
  OBVIOUS
<1> HIDE DEF r
<1>2. Len(r) = 0 <=> r = <<>>
  BY <1>1, EmptyLen
<1>3. Follows(s, Head(q))
  <2>1. 1 \in 1..Len(q)
    BY <1>1
  <2> QED
    BY <1>1, <2>1 DEF Line
<1>4. ASSUME NEW k \in 1..Len(r)
      PROVE  Follows(IF k = 1 THEN Head(q) ELSE r[k - 1], r[k])
  <2>1. k + 1 \in 1..Len(q) /\ k + 1 # 1 /\ (k + 1) - 1 = k
    BY <1>1
  <2>2. Follows(q[k], q[k + 1])
    BY <2>1 DEF Line
  <2>3. r[k] = q[k + 1]
    BY <1>1
  <2>4. k # 1 => k - 1 \in 1..Len(r) /\ (k - 1) + 1 = k
    BY <1>1
  <2>5. k # 1 => r[k - 1] = q[k]
    BY <1>1, <2>4
  <2> QED
    BY <1>1, <2>2, <2>3, <2>5
<1>5. LineEnd(Head(q), r) = LineEnd(s, q)
  <2>1. CASE Len(r) = 0
    <3>1. Len(q) = 1
      BY <1>1, <2>1
    <3> QED
      BY <1>1, <1>2, <2>1, <3>1 DEF LineEnd
  <2>2. CASE Len(r) # 0
    <3>1. Len(r) \in 1..Len(r) /\ Len(r) + 1 = Len(q)
      BY <1>1, <2>2
    <3> QED
      BY <1>1, <1>2, <2>2, <3>1 DEF LineEnd
  <2> QED
    BY <2>1, <2>2
<1> QED
  BY <1>3, <1>4, <1>5 DEF Line, r

\* Nothing follows the end of a thread.
LEMMA NothingAfterEnd ==
  ASSUME NEW s, NEW q \in Seq(Thread), Line(s, q), s.next = "end"
  PROVE  q = <<>> /\ LineEnd(s, q) = s
<1>1. q # <<>> => Follows(s, Head(q))
  BY LineShrinks
<1> QED
  BY <1>1 DEF Follows, LineEnd

-----------------------------------------------------------------------------
(* What the steps do                                                       *)

\* Laying arguments over arguments gives arguments.
LEMMA MergeType ==
  ASSUME NEW a \in ArgMaps, NEW b \in ArgMaps
  PROVE  Merge(a, b) \in ArgMaps
<1>1. PICK D \in SUBSET ArgNames : a \in [D -> Vals]
  BY DEF ArgMaps
<1>2. PICK E \in SUBSET ArgNames : b \in [E -> Vals]
  BY DEF ArgMaps
<1>3. DOMAIN a = D /\ DOMAIN b = E
  BY <1>1, <1>2
<1>4. Merge(a, b) \in [D \cup E -> Vals]
  BY <1>1, <1>2, <1>3 DEF Merge
<1>5. D \cup E \in SUBSET ArgNames
  OBVIOUS
<1>6. QED
  BY <1>4, <1>5 DEF ArgMaps

LEMMA NoArgsType == NoArgs \in ArgMaps
<1>1. NoArgs \in [{} -> Vals]
  BY DEF NoArgs
<1>2. {} \in SUBSET ArgNames
  OBVIOUS
<1>3. QED
  BY <1>1, <1>2 DEF ArgMaps

\* A decision leaves a graph state a graph state.
LEMMA GateUpdateType ==
  ASSUME NEW s \in Thread, NEW d, NEW a \in ArgMaps
  PROVE  /\ GateUpdate(s, d, a) \in Thread
         /\ GateUpdate(s, d, a).next = "run"
         /\ GateUpdate(s, d, a).tool = s.tool
<1>1. s.args \in ArgMaps /\ Merge(s.args, a) \in ArgMaps
  BY MergeType DEF Thread
<1>2. QED
  BY <1>1 DEF GateUpdate, Thread, Results

\* The only tools that can be invoked are tools that need an approval.
LEMMA InvocableNeedsApproval ==
  ASSUME NEW t, NEW a, Invocable(t, a)
  PROVE  needs_approval(t)
BY DEF Invocable, TOOL_MAP, needs_approval, RISK_LEVELS

\* A row of the audit log is one of the two kinds, written or not.
LEMMA AuditType ==
  ASSUME NEW c \in Calls, NEW action \in {"initiated", "approve"},
         audit \subseteq {"initiated", "approve"} \X Calls,
         WriteAudit(action, c)
  PROVE  audit' \subseteq {"initiated", "approve"} \X Calls
<1>1. PICK row \in {{}, {<<action, c>>}} : audit' = audit \cup row
  BY DEF WriteAudit
<1>2. <<action, c>> \in {"initiated", "approve"} \X Calls
  OBVIOUS
<1>3. QED
  BY <1>1, <1>2

\* The checkpoint w of a state s: s with the next stamp of its thread.
Stamped(c, s, w) ==
  /\ w \in Thread /\ w.stamp = made[inp[c].id] + 1
  /\ w.next = s.next /\ w.tool = s.tool /\ w.args = s.args /\ w.result = s.result
  /\ snap' = [snap EXCEPT ![c] = w]
  /\ unsaved' = [unsaved EXCEPT ![c] = Append(unsaved[c], w)]
  /\ made' = [made EXCEPT ![inp[c].id] = made[inp[c].id] + 1]

LEMMA CreateStamps ==
  ASSUME TypeOK, NEW c \in Calls, inp[c].id \in Ids, NEW s \in Thread, Create(c, s)
  PROVE  \E w \in Thread : Stamped(c, s, w)
<1> DEFINE w == [s EXCEPT !.stamp = made[inp[c].id] + 1]
<1>1. made[inp[c].id] + 1 \in Nat
  BY DEF TypeOK
<1>2. /\ w \in Thread /\ w.stamp = made[inp[c].id] + 1
      /\ w.next = s.next /\ w.tool = s.tool /\ w.args = s.args /\ w.result = s.result
  BY <1>1 DEF Thread
<1>3. /\ snap' = [snap EXCEPT ![c] = w]
      /\ unsaved' = [unsaved EXCEPT ![c] = Append(unsaved[c], w)]
      /\ made' = [made EXCEPT ![inp[c].id] = w.stamp]
  BY DEF Create
<1> HIDE DEF w
<1> QED
  BY <1>2, <1>3 DEF Stamped

\* The types that a new checkpoint touches, and what its call now holds.
LEMMA StampedTypes ==
  ASSUME TypeOK, NEW c \in Calls, inp[c].id \in Ids, NEW s, NEW w \in Thread,
         Stamped(c, s, w)
  PROVE  /\ snap' \in [Calls -> Thread] /\ unsaved' \in [Calls -> Seq(Thread)]
         /\ made' \in [Ids -> Nat]
         /\ snap'[c] = w /\ unsaved'[c] = Append(unsaved[c], w)
         /\ \A d \in Calls \ {c} : snap'[d] = snap[d] /\ unsaved'[d] = unsaved[d]
         /\ Held(c)' = Elems(unsaved[c]) \cup {w}
         /\ \A d \in Calls \ {c} : Held(d)' = Held(d)
<1>1. Append(unsaved[c], w) \in Seq(Thread)
      /\ Elems(Append(unsaved[c], w)) = Elems(unsaved[c]) \cup {w}
  BY AppendElems DEF TypeOK
<1>2. unsaved'[c] = Append(unsaved[c], w)
  BY DEF Stamped, TypeOK
<1>3. /\ snap'[c] = w
      /\ \A d \in Calls \ {c} : snap'[d] = snap[d] /\ unsaved'[d] = unsaved[d]
  BY DEF Stamped, TypeOK
<1>4. Held(c)' = Elems(unsaved[c]) \cup {w}
  BY <1>1, <1>2, <1>3 DEF Held, Elems
<1>5. \A d \in Calls \ {c} : Held(d)' = Held(d)
  BY <1>3 DEF Held, Elems
<1> QED
  BY <1>1, <1>2, <1>3, <1>4, <1>5 DEF Stamped, TypeOK

\* Nothing of a call is touched but where it stands.
Leaves(c, label) ==
  /\ pc' = [pc EXCEPT ![c] = label]
  /\ UNCHANGED <<thread, made, snap, unsaved, granted, executed>>

\* gate_node returned with the update whose checkpoint is w.  What is left to
\* run was granted just now, or needs no approval.
Passed(c, w) ==
  /\ w.next = "run"
  /\ pc' = [pc EXCEPT ![c] = "run"]
  /\ UNCHANGED <<thread, executed>>
  /\ \/ /\ granted' = granted
        /\ w.result = "" => ~needs_approval(w.tool)
     \/ \E d \in Decisions : granted' = granted \cup
          {[id |-> inp[c].id, args |-> w.args, decision |-> d, call |-> c]}

\* The state a gate that passes makes of the state s of call c.
GateState(c, s) ==
  \/ /\ ~needs_approval(snap[c].tool)
     /\ s = [snap[c] EXCEPT !.next = "run"]
  \/ /\ needs_approval(snap[c].tool) /\ inp[c].kind = "approve"
     /\ s = GateUpdate(snap[c], inp[c].decision, inp[c].args)

\* gate_node either interrupts, with nothing left to store, or passes.
LEMMA GateCases ==
  ASSUME TypeOK, NodeInv, NEW c \in Calls, Gate(c)
  PROVE  /\ pc[c] = "gate" /\ inp[c].id \in Ids /\ UNCHANGED <<inp, audit, crashes>>
         /\ \/ Leaves(c, "answered") /\ unsaved[c] = <<>>
            \/ \E s, w \in Thread : GateState(c, s) /\ Stamped(c, s, w) /\ Passed(c, w)
<1>1. /\ inp[c] \in Input /\ snap[c] \in Thread /\ inp[c].args \in ArgMaps
      /\ inp[c].id \in Ids /\ pc[c] = "gate" /\ UNCHANGED <<inp, audit, crashes>>
  BY DEF TypeOK, Input, NodeInv, NodeAt, Gate
<1>2. CASE needs_approval(snap[c].tool) /\ inp[c].kind = "apply"
  BY <1>1, <1>2 DEF Gate, Goto, Settled, Leaves
<1>3. CASE needs_approval(snap[c].tool) /\ inp[c].kind = "approve"
  <2> DEFINE s == GateUpdate(snap[c], inp[c].decision, inp[c].args)
  <2>1. s \in Thread /\ s.next = "run" /\ GateState(c, s)
    BY <1>1, <1>3, GateUpdateType DEF GateState
  <2>2. ~Grants(inp[c].decision) => s.result = "rejected"
    BY <1>1 DEF Grants, GateUpdate, Thread
  <2>3. /\ Create(c, s)
        /\ pc' = [pc EXCEPT ![c] = "run"]
        /\ UNCHANGED <<thread, executed>>
        /\ granted' = IF Grants(inp[c].decision)
                      THEN granted \cup {[id |-> inp[c].id, args |-> s.args,
                                          decision |-> inp[c].decision, call |-> c]}
                      ELSE granted
    BY <1>3 DEF Gate, Goto
  <2>4. inp[c].decision \in Decisions
    BY <1>1, <1>3 DEF NodeInv, NodeAt
  <2> HIDE DEF s
  <2>5. PICK w \in Thread : Stamped(c, s, w)
    BY <1>1, <2>1, <2>3, CreateStamps
  <2>6. w.next = "run" /\ w.args = s.args /\ w.result = s.result
    BY <2>1, <2>5 DEF Stamped
  <2>7. Passed(c, w)
    BY <2>2, <2>3, <2>4, <2>6 DEF Passed
  <2> QED
    BY <1>1, <2>1, <2>5, <2>7
<1>4. CASE ~needs_approval(snap[c].tool)
  <2> DEFINE s == [snap[c] EXCEPT !.next = "run"]
  <2>1. s \in Thread /\ s.next = "run" /\ s.tool = snap[c].tool /\ GateState(c, s)
    BY <1>1, <1>4 DEF Thread, GateState
  <2>2. /\ Create(c, s)
        /\ pc' = [pc EXCEPT ![c] = "run"]
        /\ UNCHANGED <<thread, executed, granted>>
    BY <1>4 DEF Gate, Goto
  <2> HIDE DEF s
  <2>3. PICK w \in Thread : Stamped(c, s, w)
    BY <1>1, <2>1, <2>2, CreateStamps
  <2>4. w.next = "run" /\ w.tool = snap[c].tool
    BY <2>1, <2>3 DEF Stamped
  <2>5. Passed(c, w)
    BY <1>4, <2>2, <2>4 DEF Passed
  <2> QED
    BY <1>1, <2>1, <2>3, <2>5
<1>5. QED
  BY <1>2, <1>3, <1>4 DEF Gate

\* run_node returned, and the finished state is checkpoint w.
Finished(c, w) ==
  /\ w.next = "end" /\ w.args = snap[c].args
  /\ pc' = [pc EXCEPT ![c] = "save"]
  /\ UNCHANGED <<thread, granted>>
  /\ \/ /\ snap[c].result # "" /\ w.result = snap[c].result
        /\ executed' = executed
     \/ /\ snap[c].result = "" /\ Invocable(snap[c].tool, snap[c].args)
        /\ w.result = "ran"
        /\ executed' = executed \cup
             {[id |-> inp[c].id, args |-> snap[c].args, call |-> c]}

\* run_node either raises, with nothing left to store, or finishes.
LEMMA RunCases ==
  ASSUME TypeOK, NodeInv, NEW c \in Calls, Run(c)
  PROVE  /\ pc[c] = "run" /\ inp[c].id \in Ids /\ UNCHANGED <<inp, audit, crashes>>
         /\ \/ Leaves(c, "error") /\ unsaved[c] = <<>>
            \/ \E s, w \in Thread : Stamped(c, s, w) /\ Finished(c, w)
<1>1. /\ snap[c] \in Thread /\ inp[c].id \in Ids /\ pc[c] = "run"
      /\ UNCHANGED <<inp, audit, crashes, thread, granted>>
  BY DEF TypeOK, NodeInv, NodeAt, Run
<1>2. CASE snap[c].result # ""
  <2> DEFINE s == [snap[c] EXCEPT !.next = "end"]
  <2>1. s \in Thread /\ s.next = "end" /\ s.args = snap[c].args /\ s.result = snap[c].result
    BY <1>1 DEF Thread
  <2>2. Create(c, s) /\ pc' = [pc EXCEPT ![c] = "save"] /\ executed' = executed
    BY <1>2 DEF Run, Goto
  <2> HIDE DEF s
  <2>3. PICK w \in Thread : Stamped(c, s, w)
    BY <1>1, <2>1, <2>2, CreateStamps
  <2>4. w.next = "end" /\ w.args = snap[c].args /\ w.result = snap[c].result
    BY <2>1, <2>3 DEF Stamped
  <2>5. Finished(c, w)
    BY <1>1, <1>2, <2>2, <2>4 DEF Finished
  <2> QED
    BY <1>1, <2>1, <2>3, <2>5
<1>3. CASE snap[c].result = "" /\ Invocable(snap[c].tool, snap[c].args)
  <2> DEFINE s == [snap[c] EXCEPT !.next = "end", !.result = "ran"]
  <2>1. s \in Thread /\ s.next = "end" /\ s.args = snap[c].args /\ s.result = "ran"
    BY <1>1 DEF Thread, Results
  <2>2. /\ Create(c, s) /\ pc' = [pc EXCEPT ![c] = "save"]
        /\ executed' = executed \cup
             {[id |-> inp[c].id, args |-> snap[c].args, call |-> c]}
    BY <1>3 DEF Run, Goto
  <2> HIDE DEF s
  <2>3. PICK w \in Thread : Stamped(c, s, w)
    BY <1>1, <2>1, <2>2, CreateStamps
  <2>4. w.next = "end" /\ w.args = snap[c].args /\ w.result = "ran"
    BY <2>1, <2>3 DEF Stamped
  <2>5. Finished(c, w)
    BY <1>1, <1>3, <2>2, <2>4 DEF Finished
  <2> QED
    BY <1>1, <2>1, <2>3, <2>5
<1>4. CASE snap[c].result = "" /\ ~Invocable(snap[c].tool, snap[c].args)
  BY <1>1, <1>4 DEF Run, Goto, Settled, Leaves
<1>5. QED
  BY <1>2, <1>3, <1>4

\* The input checkpoint is the state the call was sent with.
LEMMA SaveInputCases ==
  ASSUME TypeOK, NodeInv, NEW c \in Calls, SaveInput(c)
  PROVE  /\ pc[c] = "start" /\ inp[c].id \in Ids /\ inp[c].kind = "apply"
         /\ snap[c].next = "gate" /\ unsaved[c] = <<>>
         /\ UNCHANGED <<thread, inp, granted, executed, audit, crashes>>
         /\ pc' = [pc EXCEPT ![c] = "gate"]
         /\ \E w \in Thread : Stamped(c, snap[c], w)
<1>1. /\ pc[c] = "start" /\ inp[c].id \in Ids /\ inp[c].kind = "apply"
      /\ snap[c].next = "gate" /\ unsaved[c] = <<>> /\ snap[c] \in Thread
      /\ Create(c, snap[c])
  BY DEF SaveInput, NodeInv, NodeAt, TypeOK, Inside
<1>2. \E w \in Thread : Stamped(c, snap[c], w)
  BY <1>1, CreateStamps
<1> QED
  BY <1>1, <1>2 DEF SaveInput, Goto

\* The writer stores the first of what waits for it, unless a newer one is there.
Stored(c, w) ==
  /\ w \in Thread /\ w \in Elems(unsaved[c]) /\ w = Head(unsaved[c])
  /\ thread' = [thread EXCEPT ![inp[c].id] =
                  IF thread[inp[c].id].stamp < w.stamp THEN w ELSE thread[inp[c].id]]
  /\ unsaved' = [unsaved EXCEPT ![c] = Tail(unsaved[c])]
  /\ Tail(unsaved[c]) \in Seq(Thread)
  /\ \A d \in Calls : Held(d)' \subseteq Held(d)
  /\ UNCHANGED <<made, pc, inp, snap, granted, executed, audit, crashes>>

LEMMA WriteCases ==
  ASSUME TypeOK, NodeInv, NEW c \in Calls, WriteCheckpoint(c)
  PROVE  /\ pc[c] \in Inside /\ inp[c].id \in Ids /\ unsaved[c] # <<>>
         /\ \E w \in Thread : Stored(c, w)
<1>1. unsaved[c] # <<>> /\ unsaved[c] \in Seq(Thread)
  BY DEF WriteCheckpoint, TypeOK
<1>2. pc[c] \in Inside /\ inp[c].id \in Ids
  BY <1>1 DEF NodeInv, NodeAt, Inside
<1>3. /\ Tail(unsaved[c]) \in Seq(Thread) /\ Elems(Tail(unsaved[c])) \subseteq Elems(unsaved[c])
      /\ Head(unsaved[c]) \in Thread /\ Head(unsaved[c]) \in Elems(unsaved[c])
  BY <1>1, TailElems
<1>4. unsaved'[c] = Tail(unsaved[c])
  BY DEF WriteCheckpoint, TypeOK
<1>5. \A d \in Calls : Held(d)' \subseteq Held(d)
  <2>1. \A d \in Calls : snap'[d] = snap[d] /\ (d # c => unsaved'[d] = unsaved[d])
    BY DEF WriteCheckpoint, TypeOK
  <2>2. Elems(unsaved[c])' = Elems(Tail(unsaved[c]))
    BY <1>4 DEF Elems
  <2>3. Held(c)' \subseteq Held(c)
    BY <1>3, <2>1, <2>2 DEF Held
  <2>4. \A d \in Calls : d # c => Held(d)' = Held(d)
    BY <2>1 DEF Held, Elems
  <2> QED
    BY <2>3, <2>4
<1>6. Stored(c, Head(unsaved[c]))
  BY <1>3, <1>5 DEF WriteCheckpoint, Stored
<1> QED
  BY <1>1, <1>2, <1>3, <1>6

-----------------------------------------------------------------------------
(* Types                                                                   *)

LEMMA InitType == Init => TypeOK
<1>1. NoThread \in Thread /\ NoInput \in Input
  BY NoArgsType DEF NoThread, NoInput, Thread, Input, Results
<1>2. [c \in Calls |-> <<>>] \in [Calls -> Seq(Thread)]
  OBVIOUS
<1>3. QED
  BY <1>1, <1>2, ConstantsOK DEF Init, TypeOK, PCs

LEMMA TypeStep == TypeOK /\ NodeInv /\ [Next]_vars => TypeOK'
<1> SUFFICES ASSUME TypeOK, NodeInv, [Next]_vars
             PROVE  TypeOK'
  OBVIOUS
<1> USE DEF TypeOK
<1>1. ASSUME NEW c \in Calls, NEW i \in Ids, NEW t \in Tools, NEW a \in ApplyArgs,
             Apply(c, i, t, a)
      PROVE  TypeOK'
  <2>1. a \in ArgMaps
    BY ConstantsOK
  <2>2. [kind |-> "apply", id |-> i, decision |-> "", args |-> a] \in Input
    BY <2>1 DEF Input
  <2>3. [stamp |-> 0, next |-> "gate", tool |-> t, args |-> a, result |-> ""] \in Thread
    BY <2>1 DEF Thread, Results
  <2>4. audit' \subseteq {"initiated", "approve"} \X Calls
    <3>1. WriteAudit("initiated", c)
      BY <1>1 DEF Apply
    <3>2. QED
      BY <3>1, AuditType
  <2>5. QED
    BY <1>1, <2>2, <2>3, <2>4 DEF Apply, Goto, PCs, Active
<1>2. ASSUME NEW c \in Calls, NEW i \in Ids, NEW d \in Decisions,
             NEW a \in DecisionArgs, Approve(c, i, d, a)
      PROVE  TypeOK'
  <2>1. a \in ArgMaps
    BY ConstantsOK
  <2>2. [kind |-> "approve", id |-> i, decision |-> d, args |-> a] \in Input
    BY <2>1 DEF Input
  <2>3. ResumeAt(thread[i].next) \in PCs
    BY DEF ResumeAt, Thread, PCs, Active, Final
  <2>4. QED
    BY <1>2, <2>2, <2>3 DEF Approve, Goto
<1>3. ASSUME NEW c \in Calls, SaveInput(c)
      PROVE  TypeOK'
  <2>1. PICK w \in Thread : Stamped(c, snap[c], w)
    BY <1>3, SaveInputCases
  <2>2. /\ snap' \in [Calls -> Thread] /\ unsaved' \in [Calls -> Seq(Thread)]
        /\ made' \in [Ids -> Nat]
    BY <1>3, <2>1, SaveInputCases, StampedTypes
  <2>3. pc' \in [Calls -> PCs]
    BY <1>3 DEF SaveInput, Goto, PCs, Active
  <2> QED
    BY <1>3, <2>2, <2>3, SaveInputCases
<1>4. ASSUME NEW c \in Calls, WriteCheckpoint(c)
      PROVE  TypeOK'
  <2>1. PICK w \in Thread : Stored(c, w)
    BY <1>4, WriteCases
  <2> QED
    BY <2>1 DEF Stored
<1>5. ASSUME NEW c \in Calls, Gate(c)
      PROVE  TypeOK'
  <2>1. inp[c].id \in Ids /\ UNCHANGED <<inp, audit, crashes>>
    BY <1>5, GateCases
  <2>2. CASE Leaves(c, "answered")
    BY <2>1, <2>2 DEF Leaves, PCs, Final
  <2>3. ASSUME NEW s \in Thread, NEW w \in Thread, Stamped(c, s, w), Passed(c, w)
        PROVE  TypeOK'
    <3>1. /\ snap' \in [Calls -> Thread] /\ unsaved' \in [Calls -> Seq(Thread)]
          /\ made' \in [Ids -> Nat]
      BY <2>1, <2>3, StampedTypes
    <3>2. pc' \in [Calls -> PCs]
      BY <2>3 DEF Passed, PCs, Active
    <3>3. granted' \subseteq [id : Ids, args : ArgMaps, decision : Decisions, call : Calls]
      <4>1. w.args \in ArgMaps /\ inp[c].id \in Ids
        BY <2>1 DEF Thread
      <4>2. CASE granted' = granted
        BY <4>2
      <4>3. ASSUME NEW d \in Decisions, granted' = granted \cup
              {[id |-> inp[c].id, args |-> w.args, decision |-> d, call |-> c]}
            PROVE  granted' \subseteq
                     [id : Ids, args : ArgMaps, decision : Decisions, call : Calls]
        BY <4>1, <4>3
      <4>4. QED
        BY <2>3, <4>2, <4>3 DEF Passed
    <3>4. QED
      BY <2>1, <2>3, <3>1, <3>2, <3>3 DEF Passed
  <2>4. QED
    BY <1>5, <2>2, <2>3, GateCases
<1>6. ASSUME NEW c \in Calls, Run(c)
      PROVE  TypeOK'
  <2>1. inp[c].id \in Ids /\ snap[c] \in Thread /\ UNCHANGED <<inp, audit, crashes>>
    BY <1>6, RunCases
  <2>2. CASE Leaves(c, "error")
    BY <2>1, <2>2 DEF Leaves, PCs, Final
  <2>3. ASSUME NEW s \in Thread, NEW w \in Thread, Stamped(c, s, w), Finished(c, w)
        PROVE  TypeOK'
    <3>1. /\ snap' \in [Calls -> Thread] /\ unsaved' \in [Calls -> Seq(Thread)]
          /\ made' \in [Ids -> Nat]
      BY <2>1, <2>3, StampedTypes
    <3>2. pc' \in [Calls -> PCs]
      BY <2>3 DEF Finished, PCs, Active
    <3>3. executed' \subseteq [id : Ids, args : ArgMaps, call : Calls]
      <4>1. [id |-> inp[c].id, args |-> snap[c].args, call |-> c]
              \in [id : Ids, args : ArgMaps, call : Calls]
        BY <2>1 DEF Thread
      <4>2. QED
        BY <2>3, <4>1 DEF Finished
    <3>4. QED
      BY <2>1, <2>3, <3>1, <3>2, <3>3 DEF Finished
  <2>4. QED
    BY <1>6, <2>2, <2>3, RunCases
<1>7. ASSUME NEW c \in Calls, Return(c)
      PROVE  TypeOK'
  BY <1>7 DEF Return, Goto, PCs, Active, Final
<1>8. ASSUME NEW c \in Calls, Audit(c)
      PROVE  TypeOK'
  <2>1. WriteAudit("approve", c)
    BY <1>8 DEF Audit
  <2>2. audit' \subseteq {"initiated", "approve"} \X Calls
    BY <2>1, AuditType
  <2>3. QED
    BY <1>8, <2>2 DEF Audit, Goto, PCs, Final
<1>9. ASSUME Crash
      PROVE  TypeOK'
  <2>1. unsaved' \in [Calls -> Seq(Thread)]
    BY <1>9 DEF Crash
  <2>2. pc' \in [Calls -> PCs] /\ crashes' \in 0..MaxCrashes
    BY <1>9, ConstantsOK DEF Crash, PCs, Final
  <2> QED
    BY <1>9, <2>1, <2>2 DEF Crash
<1>10. CASE UNCHANGED vars
  BY <1>10 DEF vars
<1>11. QED
  BY <1>1, <1>2, <1>3, <1>4, <1>5, <1>6, <1>7, <1>8, <1>9, <1>10 DEF Next, Step

-----------------------------------------------------------------------------
(* The other parts of the invariant                                        *)

LEMMA NodeStep == TypeOK /\ NodeInv /\ [Next]_vars => NodeInv'
<1> SUFFICES ASSUME TypeOK, NodeInv, [Next]_vars
             PROVE  NodeInv'
  OBVIOUS
<1> USE DEF TypeOK, Inside
<1>1. ASSUME NEW c \in Calls, NEW i \in Ids, NEW t \in Tools, NEW a \in ApplyArgs,
             Apply(c, i, t, a)
      PROVE  NodeInv'
  <2>1. /\ pc[c] = "idle" /\ unsaved' = unsaved /\ crashes' = crashes
        /\ inp' = [inp EXCEPT ![c] =
             [kind |-> "apply", id |-> i, decision |-> "", args |-> a]]
        /\ snap'[c].next = "gate" /\ pc' = [pc EXCEPT ![c] = "start"]
        /\ \A d \in Calls : d # c => snap'[d] = snap[d]
    BY <1>1 DEF Apply, Goto, MayStart
  <2>2. unsaved[c] = <<>>
    BY <2>1 DEF NodeInv, NodeAt
  <2>3. inp'[c].kind = "apply" /\ inp'[c].id = i /\ pc'[c] = "start"
    BY <2>1
  <2>4. \A d \in Calls : d # c => pc'[d] = pc[d] /\ inp'[d] = inp[d]
    BY <2>1
  <2>5. NodeAt(c)'
    BY <2>1, <2>2, <2>3 DEF NodeAt
  <2>6. ASSUME NEW d \in Calls, d # c
        PROVE  NodeAt(d)'
    <3>1. /\ pc'[d] = pc[d] /\ inp'[d] = inp[d] /\ snap'[d] = snap[d]
          /\ unsaved'[d] = unsaved[d] /\ crashes' = crashes
      BY <2>1, <2>4, <2>6
    <3>2. NodeAt(d)
      BY DEF NodeInv
    <3> QED
      BY <3>1, <3>2 DEF NodeAt
  <2> QED
    BY <2>5, <2>6 DEF NodeInv
<1>2. ASSUME NEW c \in Calls, NEW i \in Ids, NEW d \in Decisions,
             NEW a \in DecisionArgs, Approve(c, i, d, a)
      PROVE  NodeInv'
  <2>1. thread[i] \in Thread
    OBVIOUS
  <2>2. /\ ResumeAt(thread[i].next) \in {"error", "gate", "run", "audit"}
        /\ ResumeAt(thread[i].next) \in {"gate", "run"} =>
             thread[i].next = ResumeAt(thread[i].next)
        /\ ResumeAt(thread[i].next) = "audit" => thread[i].next = "end"
    BY <2>1 DEF ResumeAt, Thread
  <2>3. /\ pc[c] = "idle" /\ unsaved' = unsaved /\ crashes' = crashes
        /\ inp'[c] = [kind |-> "approve", id |-> i, decision |-> d, args |-> a]
        /\ snap'[c] = thread[i] /\ pc' = [pc EXCEPT ![c] = ResumeAt(thread[i].next)]
        /\ \A e \in Calls : e # c => inp'[e] = inp[e] /\ snap'[e] = snap[e]
    BY <1>2 DEF Approve, Goto, MayStart
  <2>4. unsaved[c] = <<>>
    BY <2>3 DEF NodeInv, NodeAt
  <2>5. QED
    BY <2>2, <2>3, <2>4 DEF NodeInv, NodeAt
\* Of a step of call c that creates checkpoint w and goes to a node inside.
<1>a. ASSUME NEW c \in Calls, NEW s, NEW w \in Thread, Stamped(c, s, w), inp[c].id \in Ids,
             pc[c] # "idle", inp' = inp, crashes' = crashes, NEW label \in Inside,
             pc' = [pc EXCEPT ![c] = label],
             label \in {"gate", "run"} => w.next = label, label = "save" => w.next = "end"
      PROVE  NodeInv'
  <2>1. snap'[c] = w /\ \A d \in Calls \ {c} : snap'[d] = snap[d] /\ unsaved'[d] = unsaved[d]
    BY <1>a, StampedTypes
  <2> QED
    BY <1>a, <2>1 DEF NodeInv, NodeAt
<1>3. ASSUME NEW c \in Calls, SaveInput(c)
      PROVE  NodeInv'
  <2>1. PICK w \in Thread : Stamped(c, snap[c], w)
    BY <1>3, SaveInputCases
  <2>2. w.next = "gate"
    BY <1>3, <2>1, SaveInputCases DEF Stamped
  <2>3. /\ inp[c].id \in Ids /\ pc[c] # "idle" /\ inp' = inp /\ crashes' = crashes
        /\ pc' = [pc EXCEPT ![c] = "gate"]
    BY <1>3, SaveInputCases
  <2> QED
    BY <1>a, <2>1, <2>2, <2>3
<1>4. ASSUME NEW c \in Calls, WriteCheckpoint(c)
      PROVE  NodeInv'
  <2>1. pc[c] \in Inside /\ \E w \in Thread : Stored(c, w)
    BY <1>4, WriteCases
  <2> QED
    BY <2>1 DEF Stored, NodeInv, NodeAt
<1>5. ASSUME NEW c \in Calls, Gate(c)
      PROVE  NodeInv'
  <2>1. CASE Leaves(c, "answered") /\ unsaved[c] = <<>>
    BY <1>5, <2>1, GateCases DEF Leaves, NodeInv, NodeAt
  <2>2. ASSUME NEW s \in Thread, NEW w \in Thread, Stamped(c, s, w), Passed(c, w)
        PROVE  NodeInv'
    <3>1. w.next = "run" /\ pc' = [pc EXCEPT ![c] = "run"]
      BY <2>2 DEF Passed
    <3>2. inp[c].id \in Ids /\ pc[c] # "idle" /\ inp' = inp /\ crashes' = crashes
      BY <1>5, GateCases
    <3> QED
      BY <1>a, <2>2, <3>1, <3>2
  <2>3. QED
    BY <1>5, <2>1, <2>2, GateCases
<1>6. ASSUME NEW c \in Calls, Run(c)
      PROVE  NodeInv'
  <2>1. CASE Leaves(c, "error") /\ unsaved[c] = <<>>
    BY <1>6, <2>1, RunCases DEF Leaves, NodeInv, NodeAt
  <2>2. ASSUME NEW s \in Thread, NEW w \in Thread, Stamped(c, s, w), Finished(c, w)
        PROVE  NodeInv'
    <3>1. w.next = "end" /\ pc' = [pc EXCEPT ![c] = "save"]
      BY <2>2 DEF Finished
    <3>2. inp[c].id \in Ids /\ pc[c] # "idle" /\ inp' = inp /\ crashes' = crashes
      BY <1>6, RunCases
    <3> QED
      BY <1>a, <2>2, <3>1, <3>2
  <2>3. QED
    BY <1>6, <2>1, <2>2, RunCases
<1>7. ASSUME NEW c \in Calls, Return(c)
      PROVE  NodeInv'
  BY <1>7 DEF Return, Goto, Settled, NodeInv, NodeAt
<1>8. ASSUME NEW c \in Calls, Audit(c)
      PROVE  NodeInv'
  BY <1>8 DEF Audit, Goto, NodeInv, NodeAt
<1>9. ASSUME Crash
      PROVE  NodeInv'
  <2>1. crashes' # 0
    BY <1>9, ConstantsOK DEF Crash
  <2> QED
    BY <1>9, <2>1 DEF Crash, Active, NodeInv, NodeAt
<1>10. CASE UNCHANGED vars
  BY <1>10 DEF vars, NodeInv, NodeAt
<1>11. QED
  BY <1>1, <1>2, <1>3, <1>4, <1>5, <1>6, <1>7, <1>8, <1>9, <1>10 DEF Next, Step

\* What has been granted stays granted.
LEMMA ClearedStays ==
  ASSUME granted \subseteq granted', NEW i, NEW s, Cleared(GrantedPairs, i, s)
  PROVE  Cleared(GrantedPairs', i, s)
BY DEF Cleared, GrantedPairs

\* What the gate lets pass is cleared.
LEMMA PassedIsCleared ==
  ASSUME NEW c \in Calls, NEW w \in Thread, Passed(c, w)
  PROVE  granted \subseteq granted' /\ Cleared(GrantedPairs', inp[c].id, w)
<1>1. CASE granted' = granted /\ (w.result = "" => ~needs_approval(w.tool))
  BY <1>1 DEF Cleared
<1>2. ASSUME NEW d \in Decisions, granted' = granted \cup
        {[id |-> inp[c].id, args |-> w.args, decision |-> d, call |-> c]}
      PROVE  granted \subseteq granted' /\ Cleared(GrantedPairs', inp[c].id, w)
  <2> DEFINE g == [id |-> inp[c].id, args |-> w.args, decision |-> d, call |-> c]
  <2>1. g \in granted' /\ g.id = inp[c].id /\ g.args = w.args
    BY <1>2
  <2>2. <<inp[c].id, w.args>> \in GrantedPairs'
    BY <2>1 DEF GrantedPairs
  <2>3. QED
    BY <1>2, <2>2 DEF Cleared
<1>3. QED
  BY <1>1, <1>2 DEF Passed

LEMMA GrantedStep == TypeOK /\ NodeInv /\ GrantedInv /\ [Next]_vars => GrantedInv'
<1> SUFFICES ASSUME TypeOK, NodeInv, GrantedInv, [Next]_vars
             PROVE  GrantedInv'
  OBVIOUS
\* What is left to show of a step: that it forgets no grant, and that the states
\* it puts into a thread or a call are cleared.
<1>a. ASSUME granted \subseteq granted',
             \A i \in Ids : \/ Cleared(GrantedPairs, i, thread'[i])
                            \/ Cleared(GrantedPairs', i, thread'[i]),
             \A c \in Calls : pc'[c] # "idle" => \A s \in Held(c)' :
               \/ Cleared(GrantedPairs, inp'[c].id, s)
               \/ Cleared(GrantedPairs', inp'[c].id, s)
      PROVE  GrantedInv'
  <2>1. ASSUME NEW i \in Ids PROVE Cleared(GrantedPairs', i, thread'[i])
    BY <1>a, ClearedStays
  <2>2. ASSUME NEW c \in Calls, pc'[c] # "idle", NEW s \in Held(c)'
        PROVE  Cleared(GrantedPairs', inp'[c].id, s)
    BY <1>a, <2>2, ClearedStays
  <2> QED
    BY <2>1, <2>2 DEF GrantedInv
\* A step of a call inside that only moves it, and a step that changes nothing.
<1>b. ASSUME granted' = granted, UNCHANGED <<thread, snap, inp>>,
             \A c \in Calls : pc'[c] # "idle" => pc[c] # "idle",
             \A c \in Calls : Held(c)' \subseteq Held(c)
      PROVE  GrantedInv'
  BY <1>a, <1>b DEF GrantedInv
<1>1. ASSUME NEW c \in Calls, NEW i \in Ids, NEW t \in Tools, NEW a \in ApplyArgs,
             Apply(c, i, t, a)
      PROVE  GrantedInv'
  <2>1. /\ pc[c] = "idle" /\ UNCHANGED <<thread, unsaved, granted>>
        /\ snap'[c].next = "gate"
        /\ \A d \in Calls : d # c => snap'[d] = snap[d] /\ inp'[d] = inp[d] /\ pc'[d] = pc[d]
    BY <1>1 DEF Apply, MayStart, Goto, TypeOK
  <2>2. unsaved[c] = <<>>
    BY <2>1 DEF NodeInv, NodeAt, Inside
  <2>3. Held(c)' = {snap'[c]}
    BY <2>1, <2>2, NoElems DEF Held, Elems
  <2>4. \A d \in Calls : d # c => Held(d)' = Held(d)
    BY <2>1 DEF Held, Elems
  <2>5. \A s \in Held(c)' : Cleared(GrantedPairs, inp'[c].id, s)
    BY <2>1, <2>3 DEF Cleared
  <2>6. \A d \in Calls : pc'[d] # "idle" =>
          \A s \in Held(d)' : Cleared(GrantedPairs, inp'[d].id, s)
    BY <2>1, <2>4, <2>5 DEF GrantedInv
  <2> QED
    BY <1>a, <2>1, <2>6 DEF GrantedInv
<1>2. ASSUME NEW c \in Calls, NEW i \in Ids, NEW d \in Decisions,
             NEW a \in DecisionArgs, Approve(c, i, d, a)
      PROVE  GrantedInv'
  <2>1. /\ pc[c] = "idle" /\ UNCHANGED <<thread, unsaved, granted>>
        /\ snap'[c] = thread[i]
        /\ inp' = [inp EXCEPT ![c] =
             [kind |-> "approve", id |-> i, decision |-> d, args |-> a]]
        /\ \A e \in Calls : e # c => snap'[e] = snap[e] /\ pc'[e] = pc[e]
    BY <1>2 DEF Approve, MayStart, Goto, TypeOK
  <2>2. unsaved[c] = <<>>
    BY <2>1 DEF NodeInv, NodeAt, Inside
  <2>3. Held(c)' = {thread[i]}
    BY <2>1, <2>2, NoElems DEF Held, Elems
  <2>4. \A e \in Calls : e # c => Held(e)' = Held(e) /\ inp'[e] = inp[e]
    BY <2>1 DEF Held, Elems, TypeOK
  <2>5. \A s \in Held(c)' : Cleared(GrantedPairs, inp'[c].id, s)
    <3>1. inp'[c].id = i
      BY <2>1 DEF TypeOK
    <3> QED
      BY <2>3, <3>1 DEF GrantedInv
  <2>6. \A e \in Calls : pc'[e] # "idle" =>
          \A s \in Held(e)' : Cleared(GrantedPairs, inp'[e].id, s)
    BY <2>1, <2>4, <2>5 DEF GrantedInv
  <2> QED
    BY <1>a, <2>1, <2>6 DEF GrantedInv
\* A step of call c that creates a checkpoint which is cleared.
<1>c. ASSUME NEW c \in Calls, NEW s, NEW w \in Thread, inp[c].id \in Ids, Stamped(c, s, w),
             pc[c] # "idle", UNCHANGED <<thread, inp>>, granted \subseteq granted',
             \A d \in Calls : d # c => pc'[d] = pc[d],
             Cleared(GrantedPairs', inp[c].id, w)
      PROVE  GrantedInv'
  <2>1. /\ Held(c)' = Elems(unsaved[c]) \cup {w}
        /\ \A d \in Calls \ {c} : Held(d)' = Held(d)
    BY <1>c, StampedTypes
  <2>2. \A t \in Elems(unsaved[c]) : Cleared(GrantedPairs, inp[c].id, t)
    BY <1>c DEF GrantedInv, Held
  <2>3. \A d \in Calls : pc'[d] # "idle" => \A t \in Held(d)' :
          \/ Cleared(GrantedPairs, inp'[d].id, t)
          \/ Cleared(GrantedPairs', inp'[d].id, t)
    BY <1>c, <2>1, <2>2 DEF GrantedInv
  <2> QED
    BY <1>a, <1>c, <2>3 DEF GrantedInv
<1>3. ASSUME NEW c \in Calls, SaveInput(c)
      PROVE  GrantedInv'
  <2>1. PICK w \in Thread : Stamped(c, snap[c], w)
    BY <1>3, SaveInputCases
  <2>2. w.next = "gate"
    BY <1>3, <2>1, SaveInputCases DEF Stamped
  <2>3. Cleared(GrantedPairs', inp[c].id, w)
    BY <2>2 DEF Cleared
  <2>4. /\ inp[c].id \in Ids /\ pc[c] # "idle" /\ UNCHANGED <<thread, inp, granted>>
        /\ \A d \in Calls : d # c => pc'[d] = pc[d]
    BY <1>3, SaveInputCases DEF TypeOK
  <2> QED
    BY <1>c, <2>1, <2>3, <2>4
<1>4. ASSUME NEW c \in Calls, WriteCheckpoint(c)
      PROVE  GrantedInv'
  <2>1. PICK w \in Thread : Stored(c, w)
    BY <1>4, WriteCases
  <2>2. inp[c].id \in Ids /\ pc[c] # "idle"
    BY <1>4, WriteCases DEF Inside
  <2>3. Cleared(GrantedPairs, inp[c].id, w)
    BY <2>1, <2>2 DEF Stored, GrantedInv, Held
  <2>4. \A i \in Ids : thread'[i] = thread[i] \/ (i = inp[c].id /\ thread'[i] = w)
    BY <2>1, <2>2 DEF Stored, TypeOK
  <2>5. \A i \in Ids : Cleared(GrantedPairs, i, thread'[i])
    BY <2>3, <2>4 DEF GrantedInv
  <2> QED
    BY <1>a, <2>1, <2>5 DEF Stored, GrantedInv
<1>5. ASSUME NEW c \in Calls, Gate(c)
      PROVE  GrantedInv'
  <2>1. inp[c].id \in Ids /\ pc[c] # "idle" /\ inp' = inp
    BY <1>5, GateCases
  <2>2. CASE Leaves(c, "answered")
    BY <1>b, <2>1, <2>2 DEF Leaves, Held, Elems, TypeOK
  <2>3. ASSUME NEW s \in Thread, NEW w \in Thread, Stamped(c, s, w), Passed(c, w)
        PROVE  GrantedInv'
    <3>1. granted \subseteq granted' /\ Cleared(GrantedPairs', inp[c].id, w)
      BY <2>3, PassedIsCleared
    <3>2. thread' = thread /\ \A d \in Calls : d # c => pc'[d] = pc[d]
      BY <2>3 DEF Passed, TypeOK
    <3> QED
      BY <1>c, <2>1, <2>3, <3>1, <3>2
  <2>4. QED
    BY <1>5, <2>2, <2>3, GateCases
<1>6. ASSUME NEW c \in Calls, Run(c)
      PROVE  GrantedInv'
  <2>1. inp[c].id \in Ids /\ pc[c] # "idle" /\ inp' = inp
    BY <1>6, RunCases
  <2>2. CASE Leaves(c, "error")
    BY <1>b, <2>1, <2>2 DEF Leaves, Held, Elems, TypeOK
  <2>3. ASSUME NEW s \in Thread, NEW w \in Thread, Stamped(c, s, w), Finished(c, w)
        PROVE  GrantedInv'
    <3>1. Cleared(GrantedPairs', inp[c].id, w)
      BY <2>3 DEF Finished, Cleared
    <3>2. thread' = thread /\ granted' = granted /\ \A d \in Calls : d # c => pc'[d] = pc[d]
      BY <2>3 DEF Finished, TypeOK
    <3> QED
      BY <1>c, <2>1, <2>3, <3>1, <3>2
  <2>4. QED
    BY <1>6, <2>2, <2>3, RunCases
<1>7. ASSUME NEW c \in Calls, Return(c) \/ Audit(c)
      PROVE  GrantedInv'
  <2>1. UNCHANGED <<thread, snap, unsaved, inp, granted>>
    BY <1>7 DEF Return, Audit
  <2>2. \A d \in Calls : pc'[d] # "idle" => pc[d] # "idle"
    BY <1>7 DEF Return, Audit, Goto, TypeOK
  <2> QED
    BY <1>b, <2>1, <2>2 DEF Held, Elems
<1>8. ASSUME Crash
      PROVE  GrantedInv'
  <2>1. UNCHANGED <<thread, snap, inp, granted>> /\ \A c \in Calls : unsaved'[c] = <<>>
    BY <1>8 DEF Crash
  <2>2. \A c \in Calls : pc'[c] # "idle" => pc[c] # "idle"
    BY <1>8 DEF Crash, Active
  <2>3. \A c \in Calls : Held(c)' \subseteq Held(c)
    BY <2>1, NoElems DEF Held, Elems
  <2> QED
    BY <1>b, <2>1, <2>2, <2>3
<1>9. CASE UNCHANGED vars
  BY <1>b, <1>9 DEF vars, Held, Elems
<1>10. QED
  BY <1>1, <1>2, <1>3, <1>4, <1>5, <1>6, <1>7, <1>8, <1>9 DEF Next, Step

\* A call's request body is set once, when it starts.
LEMMA CallsStep ==
  ASSUME TypeOK, NodeInv, [Next]_vars, NEW d \in Calls, pc[d] # "idle"
  PROVE  inp'[d] = inp[d] /\ (pc[d] # "start" => pc'[d] # "start")
<1> USE DEF TypeOK
<1>1. ASSUME NEW c \in Calls, NEW i \in Ids, NEW t \in Tools, NEW a \in ApplyArgs,
             Apply(c, i, t, a)
      PROVE  inp'[d] = inp[d] /\ (pc[d] # "start" => pc'[d] # "start")
  BY <1>1 DEF Apply, Goto, MayStart
<1>2. ASSUME NEW c \in Calls, NEW i \in Ids, NEW x \in Decisions,
             NEW a \in DecisionArgs, Approve(c, i, x, a)
      PROVE  inp'[d] = inp[d] /\ (pc[d] # "start" => pc'[d] # "start")
  BY <1>2 DEF Approve, Goto, MayStart
<1>3. ASSUME NEW c \in Calls, Step(c)
      PROVE  inp'[d] = inp[d] /\ (pc[d] # "start" => pc'[d] # "start")
  BY <1>3 DEF Step, SaveInput, WriteCheckpoint, Gate, Run, Return, Audit, Goto
<1>4. ASSUME Crash
      PROVE  inp'[d] = inp[d] /\ (pc[d] # "start" => pc'[d] # "start")
  BY <1>4 DEF Crash
<1>5. QED
  BY <1>1, <1>2, <1>3, <1>4 DEF Next, vars

\* Once applied for, an id stays applied for.
LEMMA AppliedStays ==
  ASSUME TypeOK, NodeInv, [Next]_vars
  PROVE  AppliedIds \subseteq AppliedIds'
<1> SUFFICES ASSUME NEW i \in AppliedIds
             PROVE  i \in AppliedIds'
  OBVIOUS
<1>1. PICK d \in Calls : inp[d].kind = "apply" /\ inp[d].id = i /\ pc[d] # "start"
  BY DEF AppliedIds
<1>2. pc[d] # "idle"
  <2>1. pc[d] = "idle" => inp[d] = NoInput
    BY DEF NodeInv, NodeAt
  <2>2. NoInput.kind = "none"
    BY DEF NoInput
  <2>3. QED
    BY <1>1, <2>1, <2>2
<1>3. inp'[d] = inp[d] /\ pc'[d] # "start"
  BY <1>1, <1>2, CallsStep
<1>4. i \in Ids
  BY DEF AppliedIds
<1>5. QED
  BY <1>1, <1>3, <1>4 DEF AppliedIds

LEMMA OneApplicantStep ==
  ASSUME TypeOK, NodeInv, OneApplicant, [Next]_vars
  PROVE  OneApplicant'
<1> USE DEF TypeOK
<1>1. ASSUME NEW c \in Calls, NEW i \in Ids, NEW t \in Tools, NEW a \in ApplyArgs,
             Apply(c, i, t, a)
      PROVE  OneApplicant'
  <2>1. \A d \in Calls : inp[d].kind = "apply" => inp[d].id # i
    BY <1>1 DEF Apply
  <2>2. inp'[c].id = i /\ \A d \in Calls : d # c => inp'[d] = inp[d]
    BY <1>1 DEF Apply
  <2>3. QED
    BY <2>1, <2>2 DEF OneApplicant
<1>2. ASSUME NEW c \in Calls, NEW i \in Ids, NEW x \in Decisions,
             NEW a \in DecisionArgs, Approve(c, i, x, a)
      PROVE  OneApplicant'
  <2>1. inp'[c].kind = "approve" /\ \A d \in Calls : d # c => inp'[d] = inp[d]
    BY <1>2 DEF Approve
  <2>2. QED
    BY <2>1 DEF OneApplicant
<1>3. CASE UNCHANGED inp
  BY <1>3 DEF OneApplicant
<1>4. (\E c \in Calls : Step(c)) \/ Crash \/ UNCHANGED vars => UNCHANGED inp
  BY DEF Step, SaveInput, WriteCheckpoint, Gate, Run, Return, Audit, Crash, vars
<1>5. QED
  BY <1>1, <1>2, <1>3, <1>4 DEF Next

LEMMA KnownStep == TypeOK /\ NodeInv /\ KnownInv /\ [Next]_vars => KnownInv'
<1> SUFFICES ASSUME TypeOK, NodeInv, KnownInv, [Next]_vars
             PROVE  KnownInv'
  OBVIOUS
<1>a. AppliedIds \subseteq AppliedIds' /\ OneApplicant'
  BY AppliedStays, OneApplicantStep DEF KnownInv
\* What is left to show of a step: where it may add something to be known.
<1>b. ASSUME \A i \in Ids : thread'[i].next = thread[i].next \/ i \in AppliedIds',
             \A d \in Calls : pc'[d] \in Inside =>
               inp'[d].id \in AppliedIds' \/ (pc[d] \in Inside /\ inp'[d] = inp[d])
      PROVE  KnownInv'
  BY <1>a, <1>b DEF KnownInv
<1> USE DEF TypeOK
<1>1. ASSUME NEW c \in Calls, NEW i \in Ids, NEW t \in Tools, NEW a \in ApplyArgs,
             Apply(c, i, t, a)
      PROVE  KnownInv'
  <2>1. thread' = thread
    BY <1>1 DEF Apply
  <2>2. \A d \in Calls : pc'[d] \in Inside => pc[d] \in Inside /\ inp'[d] = inp[d]
    BY <1>1 DEF Apply, Goto, Inside
  <2>3. QED
    BY <1>b, <2>1, <2>2
<1>2. ASSUME NEW c \in Calls, NEW i \in Ids, NEW x \in Decisions,
             NEW a \in DecisionArgs, Approve(c, i, x, a)
      PROVE  KnownInv'
  <2>1. thread' = thread
    BY <1>2 DEF Approve
  <2>2. inp'[c].id = i /\ pc'[c] = ResumeAt(thread[i].next)
    BY <1>2 DEF Approve, Goto
  <2>3. pc'[c] \in Inside => i \in AppliedIds'
    <3>1. ResumeAt("none") \notin Inside
      BY DEF ResumeAt, Inside
    <3>2. QED
      BY <1>a, <2>2, <3>1 DEF KnownInv
  <2>4. \A d \in Calls : d # c => pc'[d] = pc[d] /\ inp'[d] = inp[d]
    BY <1>2 DEF Approve, Goto
  <2>5. QED
    BY <1>b, <2>1, <2>2, <2>3, <2>4
\* The steps of a call inside: its id is known already.
<1>c. ASSUME NEW c \in Calls, inp[c].id \in AppliedIds', inp' = inp,
             \A d \in Calls : d # c => pc'[d] = pc[d],
             \A i \in Ids : i # inp[c].id => thread'[i] = thread[i]
      PROVE  KnownInv'
  BY <1>b, <1>c
<1>3. ASSUME NEW c \in Calls, SaveInput(c)
      PROVE  KnownInv'
  <2>1. inp[c].id \in AppliedIds'
    BY <1>3, SaveInputCases DEF AppliedIds
  <2>2. QED
    BY <1>3, <1>c, <2>1 DEF SaveInput, Goto
<1>4. ASSUME NEW c \in Calls, WriteCheckpoint(c)
      PROVE  KnownInv'
  <2>1. inp[c].id \in AppliedIds'
    BY <1>a, <1>4, WriteCases DEF KnownInv
  <2>2. QED
    BY <1>4, <1>c, <2>1 DEF WriteCheckpoint
<1>5. ASSUME NEW c \in Calls, Gate(c)
      PROVE  KnownInv'
  <2>1. inp[c].id \in AppliedIds'
    BY <1>a, <1>5 DEF Gate, KnownInv, Inside
  <2>2. QED
    BY <1>5, <1>c, <2>1 DEF Gate, Goto
<1>6. ASSUME NEW c \in Calls, Run(c)
      PROVE  KnownInv'
  <2>1. inp[c].id \in AppliedIds'
    BY <1>a, <1>6 DEF Run, KnownInv, Inside
  <2>2. QED
    BY <1>6, <1>c, <2>1 DEF Run, Goto
<1>7. ASSUME NEW c \in Calls, Return(c) \/ Audit(c)
      PROVE  KnownInv'
  <2>1. UNCHANGED <<inp, thread>> /\ \A d \in Calls : pc'[d] \in Inside => pc[d] \in Inside
    BY <1>7 DEF Return, Audit, Goto, Inside
  <2> QED
    BY <1>b, <2>1
<1>8. ASSUME Crash
      PROVE  KnownInv'
  <2>1. UNCHANGED <<inp, thread>> /\ \A d \in Calls : pc'[d] \in Inside => pc[d] \in Inside
    BY <1>8 DEF Crash, Inside
  <2> QED
    BY <1>b, <2>1
<1>9. CASE UNCHANGED vars
  BY <1>b, <1>9 DEF vars
<1>10. QED
  BY <1>1, <1>2, <1>3, <1>4, <1>5, <1>6, <1>7, <1>8, <1>9 DEF Next, Step

LEMMA StampStep == TypeOK /\ NodeInv /\ StampInv /\ [Next]_vars => StampInv'
<1> SUFFICES ASSUME TypeOK, NodeInv, StampInv, [Next]_vars
             PROVE  StampInv'
  OBVIOUS
\* Of a step that creates nothing: no call gets a state, no thread a stamp.
<1>a. ASSUME made' = made, \A i \in Ids : thread'[i].stamp <= made[i],
             \A d \in Calls : pc'[d] \in Inside =>
               pc[d] \in Inside /\ inp'[d] = inp[d] /\ Held(d)' \subseteq Held(d)
      PROVE  StampInv'
  BY <1>a DEF StampInv
\* Of a step of call c that creates checkpoint w: the others see a larger bound.
<1>b. ASSUME NEW c \in Calls, NEW s, NEW w \in Thread, inp[c].id \in Ids, Stamped(c, s, w),
             UNCHANGED <<thread, inp>>, \A d \in Calls : d # c => pc'[d] = pc[d],
             pc[c] \in Inside \/ unsaved[c] = <<>>
      PROVE  StampInv'
  <2>1. made[inp[c].id] \in Nat /\ w.stamp = made[inp[c].id] + 1
        /\ \A i \in Ids : made'[i] = IF i = inp[c].id THEN made[i] + 1 ELSE made[i]
    BY <1>b DEF TypeOK, Stamped
  <2>2. \A i \in Ids : made[i] \in Nat /\ thread[i].stamp \in Nat
    BY DEF TypeOK, Thread
  <2>3. \A i \in Ids : thread'[i].stamp <= made'[i]
    BY <1>b, <2>1, <2>2 DEF StampInv
  <2>4. /\ Held(c)' = Elems(unsaved[c]) \cup {w}
        /\ \A d \in Calls \ {c} : Held(d)' = Held(d)
    BY <1>b, StampedTypes
  <2>5. ASSUME NEW d \in Calls, pc'[d] \in Inside, NEW t \in Held(d)'
        PROVE  t.stamp <= made'[inp[d].id]
    <3>1. ASSUME pc[d] \in Inside, t \in Held(d)
          PROVE  t.stamp <= made'[inp[d].id]
      <4>1. inp[d].id \in Ids /\ t.stamp <= made[inp[d].id]
        BY <3>1 DEF StampInv, NodeInv, NodeAt, Inside
      <4>2. t \in Thread
        BY <3>1 DEF Held, Elems, TypeOK
      <4>3. t.stamp \in Nat
        BY <4>2 DEF Thread
      <4> QED
        BY <2>1, <2>2, <4>1, <4>3
    <3>2. CASE d # c
      BY <1>b, <2>4, <2>5, <3>1, <3>2
    <3>3. CASE d = c /\ t = w
      BY <1>b, <2>1, <3>3
    <3>4. CASE d = c /\ t \in Elems(unsaved[c])
      <4>1. unsaved[c] # <<>>
        BY <3>4, NoElems
      <4> QED
        BY <1>b, <3>1, <3>4, <4>1 DEF Held
    <3> QED
      BY <2>4, <2>5, <3>2, <3>3, <3>4
  <2> QED
    BY <1>b, <2>3, <2>5 DEF StampInv
<1>1. ASSUME NEW c \in Calls, NEW i \in Ids, NEW t \in Tools, NEW a \in ApplyArgs,
             Apply(c, i, t, a)
      PROVE  StampInv'
  <2>1. UNCHANGED <<thread, made, unsaved>> /\ pc'[c] = "start"
        /\ \A d \in Calls : d # c => snap'[d] = snap[d] /\ inp'[d] = inp[d] /\ pc'[d] = pc[d]
    BY <1>1 DEF Apply, Goto, TypeOK
  <2>2. \A d \in Calls : d # c => Held(d)' = Held(d)
    BY <2>1 DEF Held, Elems
  <2> QED
    BY <1>a, <2>1, <2>2 DEF StampInv, Inside
<1>2. ASSUME NEW c \in Calls, NEW i \in Ids, NEW x \in Decisions,
             NEW a \in DecisionArgs, Approve(c, i, x, a)
      PROVE  StampInv'
  <2>1. /\ UNCHANGED <<thread, made, unsaved>> /\ pc[c] = "idle"
        /\ snap'[c] = thread[i] /\ inp'[c].id = i
        /\ \A d \in Calls : d # c => snap'[d] = snap[d] /\ inp'[d] = inp[d] /\ pc'[d] = pc[d]
    BY <1>2 DEF Approve, MayStart, Goto, TypeOK
  <2>2. unsaved[c] = <<>>
    BY <2>1 DEF NodeInv, NodeAt, Inside
  <2>3. Held(c)' = {thread[i]} /\ \A d \in Calls : d # c => Held(d)' = Held(d)
    BY <2>1, <2>2, NoElems DEF Held, Elems
  <2> QED
    BY <2>1, <2>3 DEF StampInv
<1>3. ASSUME NEW c \in Calls, SaveInput(c)
      PROVE  StampInv'
  <2>1. PICK w \in Thread : Stamped(c, snap[c], w)
    BY <1>3, SaveInputCases
  <2>2. /\ inp[c].id \in Ids /\ unsaved[c] = <<>> /\ UNCHANGED <<thread, inp>>
        /\ \A d \in Calls : d # c => pc'[d] = pc[d]
    BY <1>3, SaveInputCases DEF TypeOK
  <2> QED
    BY <1>b, <2>1, <2>2
<1>4. ASSUME NEW c \in Calls, WriteCheckpoint(c)
      PROVE  StampInv'
  <2>1. PICK w \in Thread : Stored(c, w)
    BY <1>4, WriteCases
  <2>2. inp[c].id \in Ids /\ w.stamp <= made[inp[c].id]
    BY <1>4, <2>1, WriteCases DEF Stored, StampInv, Held
  <2>3. \A i \in Ids : thread'[i] = thread[i] \/ (i = inp[c].id /\ thread'[i] = w)
    BY <2>1, <2>2 DEF Stored, TypeOK
  <2>4. \A i \in Ids : thread'[i].stamp <= made[i]
    BY <2>2, <2>3 DEF StampInv
  <2> QED
    BY <1>a, <2>1, <2>4 DEF Stored
<1>5. ASSUME NEW c \in Calls, Gate(c)
      PROVE  StampInv'
  <2>1. inp[c].id \in Ids /\ pc[c] \in Inside /\ inp' = inp
    BY <1>5, GateCases DEF Inside
  <2>2. CASE Leaves(c, "answered")
    BY <1>a, <2>1, <2>2 DEF Leaves, Held, Elems, TypeOK, StampInv, Inside
  <2>3. ASSUME NEW s \in Thread, NEW w \in Thread, Stamped(c, s, w), Passed(c, w)
        PROVE  StampInv'
    <3>1. thread' = thread /\ \A d \in Calls : d # c => pc'[d] = pc[d]
      BY <2>3 DEF Passed, TypeOK
    <3> QED
      BY <1>b, <2>1, <2>3, <3>1
  <2>4. QED
    BY <1>5, <2>2, <2>3, GateCases
<1>6. ASSUME NEW c \in Calls, Run(c)
      PROVE  StampInv'
  <2>1. inp[c].id \in Ids /\ pc[c] \in Inside /\ inp' = inp
    BY <1>6, RunCases DEF Inside
  <2>2. CASE Leaves(c, "error")
    BY <1>a, <2>1, <2>2 DEF Leaves, Held, Elems, TypeOK, StampInv, Inside
  <2>3. ASSUME NEW s \in Thread, NEW w \in Thread, Stamped(c, s, w), Finished(c, w)
        PROVE  StampInv'
    <3>1. thread' = thread /\ \A d \in Calls : d # c => pc'[d] = pc[d]
      BY <2>3 DEF Finished, TypeOK
    <3> QED
      BY <1>b, <2>1, <2>3, <3>1
  <2>4. QED
    BY <1>6, <2>2, <2>3, RunCases
<1>7. ASSUME NEW c \in Calls, Return(c) \/ Audit(c)
      PROVE  StampInv'
  <2>1. UNCHANGED <<thread, made, snap, unsaved, inp>>
        /\ \A d \in Calls : pc'[d] \in Inside => pc[d] \in Inside
    BY <1>7 DEF Return, Audit, Goto, Inside, TypeOK
  <2> QED
    BY <1>a, <2>1 DEF Held, Elems, StampInv
<1>8. ASSUME Crash
      PROVE  StampInv'
  <2>1. UNCHANGED <<thread, made, snap, inp>>
        /\ \A d \in Calls : pc'[d] \notin Inside
    BY <1>8 DEF Crash, Inside, Active
  <2> QED
    BY <1>a, <2>1 DEF StampInv
<1>9. CASE UNCHANGED vars
  BY <1>a, <1>9 DEF vars, Held, Elems, StampInv
<1>10. QED
  BY <1>1, <1>2, <1>3, <1>4, <1>5, <1>6, <1>7, <1>8, <1>9 DEF Next, Step

-----------------------------------------------------------------------------
(* Approvers that take turns                                               *)

\* Call c makes a step, alone, and no thread that is finished changes.
Alone(c) ==
  /\ pc[c] # "lost"
  /\ \A d \in Calls \ {c} :
       pc[d] \notin Active /\ pc'[d] = pc[d] /\ inp'[d] = inp[d] /\ snap'[d] = snap[d]
  /\ \A i \in Ids : thread[i].next = "end" => thread'[i] = thread[i]

\* After it, the checkpoints of c are in line, a finished state it is to answer
\* is stored, and what it executed is kept.
LinedUp(c) ==
  /\ InLine(c)'
  /\ pc'[c] \in {"audit", "answered"} /\ snap'[c].next = "end" =>
       thread'[inp'[c].id] = snap'[c]
  /\ pc[c] = "save" /\ snap[c].result = "ran" =>
       \/ pc'[c] = "save" /\ inp'[c] = inp[c] /\ snap'[c] = snap[c]
       \/ thread'[inp[c].id].next = "end" /\ thread'[inp[c].id].result = "ran"
  /\ \A e \in executed' : e \in executed \/ Kept(e)'

\* The rest of the calls, threads and executions is as before.
LEMMA OneTurn ==
  ASSUME TypeOK, NodeInv, TurnsInv, NEW c \in Calls, Alone(c), LinedUp(c)
  PROVE  TurnsInv'
<1>1. \A d, e \in Calls : pc'[d] \in Active /\ pc'[e] \in Active => d = e
  BY DEF Alone
<1>2. ASSUME NEW d \in Calls PROVE InLine(d)'
  BY DEF Alone, LinedUp, InLine, Inside, Active
<1>3. ASSUME NEW e \in executed', pc'[e.call] # "lost" PROVE Kept(e)'
  <2>1. CASE e \notin executed
    BY <1>3, <2>1 DEF LinedUp
  <2>2. CASE e \in executed
    <3>1. e.call \in Calls /\ e.id \in Ids
      BY <2>2 DEF TypeOK
    <3>2. Kept(e)
      BY <1>3, <2>2, <3>1 DEF Alone, TurnsInv
    <3>3. CASE thread[e.id].next = "end" /\ thread[e.id].result = "ran"
      BY <3>1, <3>3 DEF Alone, Kept
    <3>4. CASE pc[e.call] = "save" /\ inp[e.call].id = e.id /\ snap[e.call].result = "ran"
      <4>1. e.call = c
        BY <3>1, <3>4 DEF Alone, Active
      <4> QED
        BY <3>4, <4>1 DEF LinedUp, Kept
    <3> QED
      BY <3>2, <3>3, <3>4 DEF Kept
  <2> QED
    BY <2>1, <2>2
<1>4. ASSUME NEW d \in Calls, pc'[d] \in {"audit", "answered"}, snap'[d].next = "end"
      PROVE  thread'[inp'[d].id] = snap'[d]
  <2>1. CASE d = c
    BY <1>4, <2>1 DEF LinedUp
  <2>2. CASE d # c
    <3>1. /\ pc[d] \in {"audit", "answered"} /\ snap[d].next = "end"
          /\ inp'[d] = inp[d] /\ snap'[d] = snap[d]
      BY <1>4, <2>2 DEF Alone
    <3>2. thread[inp[d].id] = snap[d] /\ inp[d].id \in Ids
      BY <3>1 DEF TurnsInv, NodeInv, NodeAt
    <3> QED
      BY <3>1, <3>2 DEF Alone
  <2> QED
    BY <2>1, <2>2
<1> QED
  BY <1>1, <1>2, <1>3, <1>4 DEF TurnsInv

\* The call under way is the only one.
LEMMA OthersWait ==
  ASSUME TypeOK, TurnsInv, NEW c \in Calls, Step(c), NodeInv
  PROVE  /\ pc[c] \in Active /\ inp' = inp
         /\ \A d \in Calls \ {c} :
              pc[d] \notin Active /\ pc'[d] = pc[d] /\ snap'[d] = snap[d]
<1>1. CASE WriteCheckpoint(c)
  <2>1. pc[c] \in Active /\ UNCHANGED <<pc, inp, snap>>
    BY <1>1, WriteCases DEF WriteCheckpoint, Inside, Active
  <2> QED
    BY <2>1 DEF TurnsInv
<1>2. CASE ~WriteCheckpoint(c)
  <2>1. pc[c] \in Active /\ inp' = inp
    BY <1>2 DEF Step, SaveInput, Gate, Run, Return, Audit, Active
  <2>2. \A d \in Calls \ {c} : pc'[d] = pc[d] /\ snap'[d] = snap[d]
    BY <1>2 DEF Step, SaveInput, Gate, Run, Return, Audit, Goto, Create, TypeOK
  <2> QED
    BY <2>1, <2>2 DEF TurnsInv
<1> QED
  BY <1>1, <1>2

\* A thread is unknown as long as its one applicant has not left its first step.
LEMMA FreshThread ==
  ASSUME KnownInv, NEW c \in Calls, pc[c] = "start", inp[c].kind = "apply", inp[c].id \in Ids
  PROVE  thread[inp[c].id].next = "none"
<1>1. inp[c].id \notin AppliedIds
  BY DEF KnownInv, OneApplicant, AppliedIds
<1> QED
  BY <1>1 DEF KnownInv

\* A checkpoint that follows on the last one of its call lengthens the line.
LEMMA CreateInLine ==
  ASSUME TypeOK, NEW c \in Calls, inp[c].id \in Ids, inp' = inp, thread' = thread,
         NEW s, NEW w \in Thread, Stamped(c, s, w),
         Line(thread[inp[c].id], unsaved[c]),
         Follows(LineEnd(thread[inp[c].id], unsaved[c]), w)
  PROVE  InLine(c)' /\ snap'[c] = w
<1> DEFINE t == thread[inp[c].id]
<1>1. unsaved[c] \in Seq(Thread)
  BY DEF TypeOK
<1>2. Line(t, Append(unsaved[c], w)) /\ LineEnd(t, Append(unsaved[c], w)) = w
  BY <1>1, LineGrows
<1>3. unsaved'[c] = Append(unsaved[c], w) /\ snap'[c] = w
  BY StampedTypes
<1> QED
  BY <1>2, <1>3 DEF InLine

\* The checkpoint that a call inside creates is later than its copy.
LEMMA CreateIsLater ==
  ASSUME TypeOK, StampInv, NEW c \in Calls, pc[c] \in Inside, inp[c].id \in Ids,
         NEW s, NEW w \in Thread, Stamped(c, s, w)
  PROVE  snap[c].stamp < w.stamp
<1>1. snap[c].stamp \in Nat /\ made[inp[c].id] \in Nat /\ w.stamp = made[inp[c].id] + 1
  BY DEF TypeOK, Thread, Stamped
<1>2. snap[c].stamp <= made[inp[c].id]
  BY DEF StampInv, Held
<1> QED
  BY <1>1, <1>2

\* Where the line of a call inside begins, no finished thread stands, unless the
\* call has finished it.
LEMMA InsideNotEnded ==
  ASSUME TypeOK, NEW c \in Calls, InLine(c), pc[c] \in Inside,
         thread[inp[c].id].next = "end"
  PROVE  unsaved[c] = <<>> /\ snap[c] = thread[inp[c].id]
<1>1. unsaved[c] \in Seq(Thread) /\ Line(thread[inp[c].id], unsaved[c])
      /\ snap[c] = LineEnd(thread[inp[c].id], unsaved[c])
  BY DEF TypeOK, InLine
<1> QED
  BY <1>1, NothingAfterEnd

\* What the writer of a call in line stores takes its place in the thread.
LEMMA WriteInLine ==
  ASSUME TypeOK, NodeInv, NEW c \in Calls, InLine(c), WriteCheckpoint(c)
  PROVE  /\ Follows(thread[inp[c].id], thread'[inp[c].id])
         /\ \A i \in Ids : i # inp[c].id => thread'[i] = thread[i]
         /\ InLine(c)'
<1> DEFINE t == thread[inp[c].id]
<1>1. PICK w \in Thread : Stored(c, w)
  BY WriteCases
<1>2. pc[c] \in Inside /\ inp[c].id \in Ids /\ unsaved[c] # <<>> /\ unsaved[c] \in Seq(Thread)
  BY WriteCases DEF TypeOK
<1>3. Line(t, unsaved[c]) /\ snap[c] = LineEnd(t, unsaved[c])
  BY <1>2 DEF InLine
<1>4. /\ Follows(t, w) /\ Line(w, Tail(unsaved[c]))
      /\ LineEnd(w, Tail(unsaved[c])) = LineEnd(t, unsaved[c])
  BY <1>1, <1>2, <1>3, LineShrinks DEF Stored
<1>5. t.stamp < w.stamp
  BY <1>4 DEF Follows
<1>6. /\ thread'[inp[c].id] = w /\ unsaved'[c] = Tail(unsaved[c])
      /\ \A i \in Ids : i # inp[c].id => thread'[i] = thread[i]
      /\ UNCHANGED <<pc, inp, snap>>
  BY <1>1, <1>2, <1>5 DEF Stored, TypeOK
<1> QED
  BY <1>3, <1>4, <1>6 DEF InLine

LEMMA TurnsStep ==
  ASSUME TypeOK, NodeInv, KnownInv, StampInv, TurnsInv, Sequential, [Next]_vars
  PROVE  TurnsInv'
<1>1. ASSUME NEW c \in Calls, NEW i \in Ids, NEW t \in Tools, NEW a \in ApplyArgs,
             Apply(c, i, t, a)
      PROVE  TurnsInv'
  <2>1. /\ pc[c] = "idle" /\ pc'[c] = "start" /\ UNCHANGED <<thread, executed>>
        /\ \A d \in Calls \ {c} :
             pc[d] \notin Active /\ pc'[d] = pc[d] /\ inp'[d] = inp[d] /\ snap'[d] = snap[d]
    BY <1>1 DEF Apply, MayStart, Goto, TypeOK
  <2>2. Alone(c)
    BY <2>1 DEF Alone
  <2>3. LinedUp(c)
    BY <2>1 DEF LinedUp, InLine, Inside
  <2> QED
    BY <2>2, <2>3, OneTurn
<1>2. ASSUME NEW c \in Calls, NEW i \in Ids, NEW x \in Decisions,
             NEW a \in DecisionArgs, Approve(c, i, x, a)
      PROVE  TurnsInv'
  <2>1. /\ pc[c] = "idle" /\ pc'[c] = ResumeAt(thread[i].next)
        /\ UNCHANGED <<thread, executed, unsaved>> /\ inp'[c].id = i /\ snap'[c] = thread[i]
        /\ \A d \in Calls \ {c} :
             pc[d] \notin Active /\ pc'[d] = pc[d] /\ inp'[d] = inp[d] /\ snap'[d] = snap[d]
    BY <1>2 DEF Approve, MayStart, Goto, TypeOK
  <2>2. Alone(c)
    BY <2>1 DEF Alone
  <2>3. unsaved'[c] = <<>>
    BY <2>1 DEF NodeInv, NodeAt, Inside
  <2>4. InLine(c)'
    BY <2>1, <2>3 DEF InLine, Line, LineEnd
  <2>5. LinedUp(c)
    BY <2>1, <2>4 DEF LinedUp
  <2> QED
    BY <2>2, <2>5, OneTurn
<1>3. ASSUME NEW c \in Calls, Step(c)
      PROVE  TurnsInv'
  <2> DEFINE i == inp[c].id
             t == thread[i]
  <2>1. /\ pc[c] \in Active /\ inp' = inp /\ inp'[c] = inp[c] /\ InLine(c)
        /\ \A d \in Calls \ {c} :
             /\ pc[d] \notin Active /\ pc'[d] = pc[d]
             /\ inp'[d] = inp[d] /\ snap'[d] = snap[d]
    BY <1>3, OthersWait DEF TurnsInv
  <2>2. i \in Ids /\ pc[c] # "lost"
    BY <2>1 DEF Active, NodeInv, NodeAt
  <2>3. thread' = thread => Alone(c)
    BY <2>1, <2>2 DEF Alone
  <2>4. CASE SaveInput(c)
    <3>1. PICK w \in Thread : Stamped(c, snap[c], w)
      BY <2>4, SaveInputCases
    <3>2. /\ pc[c] = "start" /\ snap[c].next = "gate" /\ unsaved[c] = <<>>
          /\ UNCHANGED <<thread, executed>> /\ pc' = [pc EXCEPT ![c] = "gate"]
          /\ inp[c].kind = "apply"
      BY <2>4, SaveInputCases
    <3>3. t.next = "none" /\ t.stamp <= made[i]
      BY <2>2, <3>2, FreshThread DEF StampInv
    <3>4. t.stamp \in Nat /\ made[i] \in Nat /\ w.stamp = made[i] + 1 /\ w.next = "gate"
      BY <2>2, <3>1, <3>2 DEF TypeOK, Thread, Stamped
    <3>5. Follows(t, w)
      BY <3>3, <3>4 DEF Follows
    <3>6. Line(t, unsaved[c]) /\ LineEnd(t, unsaved[c]) = t
      BY <3>2 DEF Line, LineEnd
    <3>7. InLine(c)'
      BY <2>1, <2>2, <3>1, <3>2, <3>5, <3>6, CreateInLine
    <3>8. pc'[c] = "gate"
      BY <3>2 DEF TypeOK
    <3>9. LinedUp(c)
      BY <3>2, <3>7, <3>8 DEF LinedUp
    <3> QED
      BY <2>3, <3>2, <3>9, OneTurn
  <2>5. CASE WriteCheckpoint(c)
    <3>1. UNCHANGED <<pc, inp, snap, executed>> /\ unsaved[c] # <<>> /\ pc[c] \in Inside
      BY <2>5, WriteCases DEF WriteCheckpoint
    <3>2. /\ Follows(t, thread'[i]) /\ InLine(c)'
          /\ \A j \in Ids : j # i => thread'[j] = thread[j]
      BY <2>1, <2>5, WriteInLine
    <3>3. t.next # "end"
      BY <3>2 DEF Follows
    <3>4. Alone(c)
      BY <2>1, <2>2, <3>2, <3>3 DEF Alone
    <3>5. LinedUp(c)
      BY <3>1, <3>2 DEF LinedUp, Inside
    <3> QED
      BY <3>4, <3>5, OneTurn
  <2>6. CASE Gate(c)
    <3>1. pc[c] = "gate" /\ pc[c] \in Inside /\ snap[c].next = "gate"
      BY <2>6, GateCases DEF NodeInv, NodeAt, Inside
    <3>2. CASE Leaves(c, "answered") /\ unsaved[c] = <<>>
      <4>1. pc'[c] = "answered" /\ UNCHANGED <<thread, snap, executed>>
        BY <3>2 DEF Leaves, TypeOK
      <4>2. LinedUp(c)
        BY <3>1, <4>1 DEF LinedUp, InLine, Inside
      <4> QED
        BY <2>3, <4>1, <4>2, OneTurn
    <3>3. ASSUME NEW s \in Thread, NEW w \in Thread, Stamped(c, s, w), Passed(c, w)
          PROVE  TurnsInv'
      <4>1. w.next = "run" /\ pc'[c] = "run" /\ UNCHANGED <<thread, executed>>
        BY <3>3 DEF Passed, TypeOK
      <4>2. snap[c].stamp < w.stamp
        BY <2>2, <3>1, <3>3, CreateIsLater
      <4>3. Follows(snap[c], w)
        BY <3>1, <4>1, <4>2 DEF Follows
      <4>4. InLine(c)'
        BY <2>1, <2>2, <3>1, <3>3, <4>1, <4>3, CreateInLine DEF InLine
      <4>5. LinedUp(c)
        BY <3>1, <4>1, <4>4 DEF LinedUp
      <4> QED
        BY <2>3, <4>1, <4>5, OneTurn
    <3> QED
      BY <2>6, <3>2, <3>3, GateCases
  <2>7. CASE Run(c)
    <3>1. pc[c] = "run" /\ pc[c] \in Inside /\ snap[c].next = "run"
      BY <2>7, RunCases DEF NodeInv, NodeAt, Inside
    <3>2. CASE Leaves(c, "error") /\ unsaved[c] = <<>>
      <4>1. pc'[c] = "error" /\ UNCHANGED <<thread, snap, executed>>
        BY <3>2 DEF Leaves, TypeOK
      <4>2. LinedUp(c)
        BY <3>1, <4>1 DEF LinedUp, InLine, Inside
      <4> QED
        BY <2>3, <4>1, <4>2, OneTurn
    <3>3. ASSUME NEW s \in Thread, NEW w \in Thread, Stamped(c, s, w), Finished(c, w)
          PROVE  TurnsInv'
      <4>1. w.next = "end" /\ pc'[c] = "save" /\ thread' = thread
        BY <3>3 DEF Finished, TypeOK
      <4>2. snap[c].stamp < w.stamp
        BY <2>2, <3>1, <3>3, CreateIsLater
      <4>3. \/ snap[c].result # "" /\ w.result = snap[c].result
            \/ snap[c].result = "" /\ w.result = "ran" /\ Invocable(snap[c].tool, snap[c].args)
        BY <3>3 DEF Finished
      <4>4. Follows(snap[c], w)
        BY <3>1, <4>1, <4>2, <4>3 DEF Follows
      <4>5. InLine(c)' /\ snap'[c] = w
        BY <2>1, <2>2, <3>1, <3>3, <4>1, <4>4, CreateInLine DEF InLine
      <4>6. \A e \in executed' : e \in executed \/ Kept(e)'
        <5>1. CASE executed' = executed
          BY <5>1
        <5>2. CASE w.result = "ran" /\ executed' = executed \cup
                     {[id |-> inp[c].id, args |-> snap[c].args, call |-> c]}
          <6>1. ASSUME NEW e, e.id = inp[c].id, e.call = c
                PROVE  Kept(e)'
            BY <2>1, <4>1, <4>5, <5>2, <6>1 DEF Kept
          <6> QED
            BY <5>2, <6>1
        <5> QED
          BY <3>3, <5>1, <5>2 DEF Finished
      <4>7. LinedUp(c)
        BY <3>1, <4>1, <4>5, <4>6 DEF LinedUp
      <4> QED
        BY <2>3, <4>1, <4>7, OneTurn
    <3> QED
      BY <2>7, <3>2, <3>3, RunCases
  <2>8. CASE Return(c)
    <3>1. /\ pc[c] = "save" /\ pc[c] \in Inside /\ unsaved[c] = <<>> /\ snap[c].next = "end"
          /\ UNCHANGED <<thread, snap, executed>> /\ pc'[c] \in {"audit", "answered"}
      BY <2>8 DEF Return, Settled, Goto, Inside, NodeInv, NodeAt, TypeOK
    <3>2. snap[c] = t
      BY <2>1, <3>1 DEF InLine, LineEnd
    <3>3. InLine(c)'
      BY <3>1 DEF InLine, Inside
    <3>4. LinedUp(c)
      BY <2>1, <3>1, <3>2, <3>3 DEF LinedUp
    <3> QED
      BY <2>3, <3>1, <3>4, OneTurn
  <2>9. CASE Audit(c)
    <3>1. /\ pc[c] = "audit" /\ snap[c].next = "end" /\ pc'[c] = "answered"
          /\ UNCHANGED <<thread, snap, executed>>
      BY <2>9 DEF Audit, Goto, NodeInv, NodeAt, TypeOK
    <3>2. t = snap[c]
      BY <3>1 DEF TurnsInv
    <3>3. LinedUp(c)
      BY <2>1, <3>1, <3>2 DEF LinedUp, InLine, Inside
    <3> QED
      BY <2>3, <3>1, <3>3, OneTurn
  <2>10. QED
    BY <1>3, <2>4, <2>5, <2>6, <2>7, <2>8, <2>9 DEF Step
<1>4. CASE Crash
  <2>1. /\ UNCHANGED <<thread, inp, snap, executed>>
        /\ \A c \in Calls : pc'[c] = IF pc[c] \in Active THEN "lost" ELSE pc[c]
    BY <1>4 DEF Crash
  <2>2. \A c \in Calls : pc'[c] \notin Active /\ pc'[c] \notin Inside
    BY <2>1 DEF Active, Inside
  <2>3. ASSUME NEW e \in executed', pc'[e.call] # "lost" PROVE Kept(e)'
    <3>1. e \in executed /\ e.call \in Calls
      BY <2>1 DEF TypeOK
    <3>2. pc[e.call] \notin Active /\ pc[e.call] # "lost"
      BY <2>1, <2>3, <3>1
    <3>3. Kept(e)
      BY <3>1, <3>2 DEF TurnsInv
    <3> QED
      BY <2>1, <3>2, <3>3 DEF Kept, Active
  <2>4. ASSUME NEW c \in Calls, pc'[c] \in {"audit", "answered"}, snap'[c].next = "end"
        PROVE  thread'[inp'[c].id] = snap'[c]
    <3>1. pc[c] \in {"audit", "answered"}
      BY <2>1, <2>4
    <3> QED
      BY <2>1, <2>4, <3>1 DEF TurnsInv
  <2> QED
    BY <2>2, <2>3, <2>4 DEF TurnsInv, InLine
<1>5. CASE UNCHANGED vars
  <2>1. \A c \in Calls : InLine(c) => InLine(c)'
    BY <1>5 DEF vars, InLine
  <2>2. \A e \in executed : Kept(e) => Kept(e)'
    BY <1>5 DEF vars, Kept
  <2> QED
    BY <1>5, <2>1, <2>2 DEF vars, TurnsInv
<1>6. QED
  BY <1>1, <1>2, <1>3, <1>4, <1>5 DEF Next

-----------------------------------------------------------------------------
(* Theorems                                                                *)

LEMMA InitInv == Init => IInv
<1> SUFFICES ASSUME Init
             PROVE  IInv
  OBVIOUS
<1>1. TypeOK
  BY InitType
<1>2. /\ \A i \in Ids : thread[i] = NoThread /\ made[i] = 0
      /\ \A c \in Calls : pc[c] = "idle" /\ inp[c] = NoInput /\ unsaved[c] = <<>>
      /\ executed = {}
  BY DEF Init
<1>3. NoThread.next = "none" /\ NoThread.stamp = 0 /\ NoInput.kind = "none"
  BY DEF NoThread, NoInput
<1>4. GrantedInv
  BY <1>2, <1>3 DEF GrantedInv, Cleared
<1>5. NodeInv
  BY <1>2, <1>3 DEF NodeInv, NodeAt
<1>6. KnownInv
  BY <1>2, <1>3 DEF KnownInv, OneApplicant, Inside
<1>7. StampInv
  BY <1>2, <1>3 DEF StampInv, Inside
<1>8. TurnsInv
  BY <1>2 DEF TurnsInv, InLine, Inside, Active
<1> QED
  BY <1>1, <1>4, <1>5, <1>6, <1>7, <1>8 DEF IInv

\* The inductive invariant holds in every state, over all interleavings of
\* calls, their writers and crashes.
THEOREM Invariance == Spec => []IInv
<1>1. IInv /\ [Next]_vars => IInv'
  BY TypeStep, GrantedStep, NodeStep, KnownStep, StampStep, TurnsStep DEF IInv
<1>2. QED
  BY InitInv, <1>1, PTL DEF Spec

\* The state of the graph and of its checkpoints stays within its types, for
\* every set of tools, decisions and arguments that clients send.
THEOREM TypeCorrect == Spec => []TypeOK
BY Invariance, PTL DEF IInv

OnceMode == Sequential /\ crashes = 0

\* While approvers take turns, a call at run is on an id that was executed only
\* by calls that died with the process.
LEMMA FirstExecution ==
  ASSUME IInv, Sequential, NEW c \in Calls, pc[c] = "run",
         NEW e \in executed, pc[e.call] # "lost"
  PROVE  e.id # inp[c].id
<1>1. e.call \in Calls /\ e.id \in Ids
  BY DEF IInv, TypeOK
<1>2. Kept(e)
  BY <1>1 DEF IInv, TurnsInv
<1>3. pc[e.call] # "save"
  BY <1>1 DEF IInv, TurnsInv, Active
<1>4. thread[e.id].next = "end"
  BY <1>2, <1>3 DEF Kept
<1>5. snap[c].next = "run" /\ InLine(c) /\ pc[c] \in Inside /\ TypeOK
  BY DEF IInv, NodeInv, NodeAt, Inside, TurnsInv
<1>6. thread[inp[c].id].next # "end"
  BY <1>5, InsideNotEnded
<1> QED
  BY <1>4, <1>6

\* A call that invokes a tool performs work the gate has granted and, in the
\* mode where approvers take turns, performs the first work of its id.
LEMMA RunPerforms ==
  ASSUME IInv, NEW c \in Calls, Run(c), executed' # executed
  PROVE  /\ inp[c].id \in Ids /\ snap[c].args \in ArgMaps
         /\ GrantedPairs' = GrantedPairs
         /\ <<inp[c].id, snap[c].args>> \in GrantedPairs
         /\ PerformedTriples' =
              PerformedTriples \cup {<<inp[c].id, snap[c].args, c>>}
         /\ OnceMode => \A p \in PerformedTriples : p[1] # inp[c].id
<1> DEFINE x == [id |-> inp[c].id, args |-> snap[c].args, call |-> c]
<1>1. /\ pc[c] = "run" /\ snap[c].result = "" /\ granted' = granted
      /\ Invocable(snap[c].tool, snap[c].args)
      /\ executed' = executed \cup {x}
  BY DEF Run
<1>2. inp[c].id \in Ids /\ snap[c] \in Thread /\ snap[c].next = "run"
  BY <1>1 DEF IInv, TypeOK, NodeInv, NodeAt
<1>3. <<inp[c].id, snap[c].args>> \in GrantedPairs
  BY <1>1, <1>2, InvocableNeedsApproval DEF IInv, GrantedInv, Cleared, Held
<1>4. x.id = inp[c].id /\ x.args = snap[c].args /\ x.call = c
  OBVIOUS
<1> HIDE DEF x
<1>5. PerformedTriples' = PerformedTriples \cup {<<inp[c].id, snap[c].args, c>>}
  BY <1>1, <1>4 DEF PerformedTriples
<1>6. OnceMode => \A e \in executed : e.id # inp[c].id
  <2>1. OnceMode => \A e \in executed : pc[e.call] # "lost"
    BY DEF IInv, TypeOK, NodeInv, NodeAt, OnceMode
  <2> QED
    BY <1>1, <2>1, FirstExecution DEF OnceMode
<1>7. OnceMode => \A p \in PerformedTriples : p[1] # inp[c].id
  BY <1>6 DEF PerformedTriples
<1>8. QED
  BY <1>1, <1>2, <1>3, <1>5, <1>7 DEF GrantedPairs, Thread

\* Passing the gate grants at most one piece of work.
LEMMA GateGrants ==
  ASSUME IInv, NEW c \in Calls, Gate(c)
  PROVE  /\ PerformedTriples' = PerformedTriples
         /\ \/ GrantedPairs' = GrantedPairs
            \/ \E i \in Ids, a \in ArgMaps : GrantedPairs' = GrantedPairs \cup {<<i, a>>}
<1>1. PerformedTriples' = PerformedTriples
  BY DEF Gate, PerformedTriples
<1>2. CASE granted' = granted
  BY <1>1, <1>2 DEF GrantedPairs
<1>3. CASE granted' # granted
  <2>1. PICK w \in Thread : Passed(c, w)
    BY <1>3, GateCases DEF IInv, Leaves
  <2>2. PICK d \in Decisions : granted' = granted \cup
          {[id |-> inp[c].id, args |-> w.args, decision |-> d, call |-> c]}
    BY <1>3, <2>1 DEF Passed
  <2>3. inp[c].id \in Ids /\ w.args \in ArgMaps
    BY GateCases DEF IInv, Thread
  <2>4. GrantedPairs' = GrantedPairs \cup {<<inp[c].id, w.args>>}
    <3> DEFINE g == [id |-> inp[c].id, args |-> w.args, decision |-> d, call |-> c]
    <3>1. granted' = granted \cup {g} /\ g.id = inp[c].id /\ g.args = w.args
      BY <2>2
    <3> HIDE DEF g
    <3>2. QED
      BY <3>1 DEF GrantedPairs
  <2>5. QED
    BY <1>1, <2>3, <2>4
<1>4. QED
  BY <1>2, <1>3

\* The gate -> run graph behind the two endpoints implements the human gate:
\* nothing reaches tool.invoke before a decision on that id let exactly those
\* arguments through, and no id is performed twice where approvers take turns,
\* up to the first crash of the process.
THEOREM Refinement == Spec => ImplementsGate
<1> USE DEF Gated!Grant, Gated!Perform, Gated!GateCrash, Gated!HGNext, Gated!hgVars
<1>1. Init => Gated!HGInit
  BY DEF Init, Gated!HGInit
<1>2. ASSUME IInv, [Next]_vars
      PROVE  [Gated!HGNext]_(Gated!hgVars)
  <2>1. ASSUME NEW c \in Calls, Run(c), executed' # executed
        PROVE  Gated!HGNext
    <3>1. UNCHANGED (crashes = 0)
      BY <2>1 DEF Run
    <3>2. Gated!Perform(inp[c].id, snap[c].args, c)
      BY <1>2, <2>1, <3>1, RunPerforms DEF GrantedPairs, PerformedTriples, OnceMode
    <3>3. inp[c].id \in Ids /\ snap[c].args \in ArgMaps
      BY <1>2, <2>1, RunPerforms
    <3>4. QED
      BY <2>1, <3>2, <3>3
  <2>2. ASSUME NEW c \in Calls, Gate(c)
        PROVE  [Gated!HGNext]_(Gated!hgVars)
    <3>1. PerformedTriples' = PerformedTriples /\ UNCHANGED (crashes = 0)
      BY <1>2, <2>2, GateGrants DEF Gate
    <3>2. CASE GrantedPairs' = GrantedPairs
      BY <3>1, <3>2 DEF GrantedPairs, PerformedTriples
    <3>3. ASSUME NEW i \in Ids, NEW a \in ArgMaps,
                 GrantedPairs' = GrantedPairs \cup {<<i, a>>}
          PROVE  Gated!HGNext
      <4>1. Gated!Grant(i, a)
        BY <3>1, <3>3 DEF GrantedPairs, PerformedTriples
      <4>2. QED
        BY <4>1
    <3>4. QED
      BY <1>2, <2>2, <3>2, <3>3, GateGrants
  <2>3. CASE UNCHANGED <<granted, executed, crashes>>
    BY <2>3
  <2>4. CASE Crash
    <3>1. granted' = granted /\ executed' = executed
      BY <2>4 DEF Crash
    <3>2. ~(crashes' = 0)
      BY <1>2, <2>4, ConstantsOK DEF IInv, TypeOK, Crash
    <3>3. Gated!GateCrash
      BY <3>1, <3>2
    <3>4. QED
      BY <3>3
  <2>5. \/ UNCHANGED <<granted, executed, crashes>>
        \/ Crash
        \/ \E c \in Calls : Gate(c)
        \/ \E c \in Calls : Run(c) /\ executed' # executed
    BY <1>2 DEF Next, Step, Apply, Approve, SaveInput, WriteCheckpoint, Run, Return, Audit, vars
  <2>6. QED
    BY <2>1, <2>2, <2>3, <2>4, <2>5
<1>3. QED
  BY <1>1, <1>2, Invariance, PTL DEF Spec, ImplementsGate, Gated!HGSpec
=============================================================================
