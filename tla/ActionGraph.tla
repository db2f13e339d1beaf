---------------------------- MODULE ActionGraph ----------------------------
(***************************************************************************)
(* The HITL graph of src/src/actions.py (gate -> run) behind the endpoints *)
(* POST /actions/apply and POST /approve/{approval_id} of src/src/api.py.  *)
(*                                                                         *)
(* Both endpoints are plain `def` functions: FastAPI runs each call in a   *)
(* worker thread, so any number of them interleave.  They share only the   *)
(* SQLite checkpointer: a call loads the thread's latest checkpoint when   *)
(* it starts, walks the graph on its own copy and creates a checkpoint of  *)
(* it after each node.  Neither endpoint passes a durability to invoke     *)
(* (api.py:216, 231), so that LangGraph's default holds: a writer stores   *)
(* the checkpoints of a call one after the other, in the background, while *)
(* the next node may be running already; invoke returns or raises after    *)
(* the last of them is stored.  The process may die between any two of     *)
(* these steps: the stored checkpoints survive, the calls and what their   *)
(* writers had not stored do not.                                          *)
(*                                                                         *)
(* A definition X_bug just before a definition X is X with a plausible bug *)
(* in it; nothing uses it but the mutation runs that show which property   *)
(* notices the bug.  The other modules follow the same convention.         *)
(***************************************************************************)
EXTENDS Naturals, Sequences, FiniteSets

CONSTANTS
  Ids,           \* approval ids (uuid4), the thread_id of the checkpointer
  Calls,         \* invocations of the two endpoints, each used once
  Tools,         \* the tool names clients send
  Decisions,     \* the decision strings clients send
  Vals,          \* argument values
  ApplyArgs,     \* the args of /actions/apply bodies
  DecisionArgs,  \* the args of /approve bodies
  Sequential,    \* TRUE: a client waits for an answer before the next call
  MaxCrashes     \* bound on process crashes

ArgNames == {"table_name", "index_ddl"}

\* Tool arguments: a dict with some of the names the tools declare.
ArgMaps == UNION {[D -> Vals] : D \in SUBSET ArgNames}

ASSUME ConstantsOK ==
  /\ Sequential \in BOOLEAN
  /\ MaxCrashes \in Nat
  /\ ApplyArgs \subseteq ArgMaps
  /\ DecisionArgs \subseteq ArgMaps

-----------------------------------------------------------------------------
(* guardrails.py and the tool table                                        *)

RISK_LEVELS ==
  [analyze_pasted_plan     |-> "read",
   search_tuning_knowledge |-> "read",
   explain_plan            |-> "read",
   run_sql                 |-> "read",
   gather_stats            |-> "write",
   create_index            |-> "write",
   drop_index              |-> "destructive"]

needs_approval_destructive(tool) ==
  tool \in DOMAIN RISK_LEVELS => RISK_LEVELS[tool] = "destructive"

\* Everything but a known read tool needs a person, unknown tools included.
needs_approval(tool) ==
  tool \in DOMAIN RISK_LEVELS => RISK_LEVELS[tool] # "read"

\* The declared (all required) parameters of the two tools in TOOL_MAP.
TOOL_MAP ==
  [gather_stats |-> {"table_name"},
   create_index |-> {"table_name", "index_ddl"}]

\* TOOL_MAP[tool].invoke(args) returns; otherwise it raises (KeyError for a
\* tool that is not in the table, a validation error for a missing argument).
Invocable(tool, args) ==
  /\ tool \in DOMAIN TOOL_MAP
  /\ TOOL_MAP[tool] \subseteq DOMAIN args

\* {**base, **over}
Merge(base, over) ==
  [k \in DOMAIN base \cup DOMAIN over |->
     IF k \in DOMAIN over THEN over[k] ELSE base[k]]

-----------------------------------------------------------------------------
VARIABLES
  thread,    \* [Ids -> Thread]: the latest stored checkpoint of each thread
  made,      \* [Ids -> Nat]: how many checkpoints of it were created
  pc,        \* [Calls -> PCs]: where each call stands
  inp,       \* [Calls -> Input]: the request body of each call
  snap,      \* [Calls -> Thread]: the call's own copy of the graph state
  unsaved,   \* [Calls -> Seq(Thread)]: checkpoints its writer has still to store
  granted,   \* history: what each gate let through, and on which decision
  executed,  \* history: the tool invocations that took effect
  audit,     \* rows of audit_log, as <<action, call>>
  crashes    \* number of crashes so far

vars == <<thread, made, pc, inp, snap, unsaved, granted, executed, audit, crashes>>

\* A graph state; stamp is the place of its checkpoint among those created for
\* the thread (checkpoint ids grow with time), 0 before there is one.
Results == {"", "rejected", "ran"}
Thread == [stamp : Nat, next : {"none", "gate", "run", "end"},
           tool : Tools \cup {""}, args : ArgMaps, result : Results]
NoArgs == [k \in {} |-> ""]
NoThread == [stamp |-> 0, next |-> "none", tool |-> "", args |-> NoArgs,
             result |-> ""]

Input == [kind : {"none", "apply", "approve"}, id : Ids \cup {""},
          decision : Decisions \cup {""}, args : ArgMaps]
NoInput == [kind |-> "none", id |-> "", decision |-> "", args |-> NoArgs]

Final == {"answered", "error", "lost"}
Active == {"start", "gate", "run", "save", "audit"}
PCs == {"idle"} \cup Active \cup Final

Init ==
  /\ thread = [i \in Ids |-> NoThread]
  /\ made = [i \in Ids |-> 0]
  /\ pc = [c \in Calls |-> "idle"]
  /\ inp = [c \in Calls |-> NoInput]
  /\ snap = [c \in Calls |-> NoThread]
  /\ unsaved = [c \in Calls |-> <<>>]
  /\ granted = {}
  /\ executed = {}
  /\ audit = {}
  /\ crashes = 0

Goto(c, label) == pc' = [pc EXCEPT ![c] = label]

\* A new call may arrive; a sequential client has no other call under way.
MayStart(c) ==
  /\ pc[c] = "idle"
  /\ Sequential => \A d \in Calls : pc[d] \notin Active

\* The checkpoint of state s after a step of c's graph: it is what c goes on
\* with, and c's writer stores it later.
Create(c, s) ==
  LET i == inp[c].id
      w == [s EXCEPT !.stamp = made[i] + 1] IN
    /\ snap' = [snap EXCEPT ![c] = w]
    /\ unsaved' = [unsaved EXCEPT ![c] = Append(@, w)]
    /\ made' = [made EXCEPT ![i] = w.stamp]

\* graph.invoke returns or raises when the writer of the call is done.
Settled(c) == unsaved[c] = <<>>

\* write_audit: the row is inserted, or the failure is swallowed.
WriteAudit(action, c) ==
  \E row \in {{}, {<<action, c>>}} : audit' = audit \cup row

\* apply_action up to graph.invoke: a fresh approval id, the "initiated" row.
Apply(c, i, t, a) ==
  /\ MayStart(c)
  /\ \A d \in Calls : inp[d].kind = "apply" => inp[d].id # i
  /\ inp' = [inp EXCEPT ![c] =
               [kind |-> "apply", id |-> i, decision |-> "", args |-> a]]
  /\ snap' = [snap EXCEPT ![c] =
               [stamp |-> 0, next |-> "gate", tool |-> t, args |-> a,
                result |-> ""]]
  /\ WriteAudit("initiated", c)
  /\ Goto(c, "start")
  /\ UNCHANGED <<thread, made, unsaved, granted, executed, crashes>>

\* graph.invoke(input) creates the input checkpoint; gate runs next.
SaveInput(c) ==
  /\ pc[c] = "start"
  /\ Create(c, snap[c])
  /\ Goto(c, "gate")
  /\ UNCHANGED <<thread, inp, granted, executed, audit, crashes>>

\* The writer of c stores its next checkpoint.  A thread is loaded from the
\* newest stored one: one that was created later, by another call, stays it.
WriteCheckpoint(c) ==
  /\ unsaved[c] # <<>>
  /\ LET i == inp[c].id
         w == Head(unsaved[c]) IN
       thread' = [thread EXCEPT ![i] = IF @.stamp < w.stamp THEN w ELSE @]
  /\ unsaved' = [unsaved EXCEPT ![c] = Tail(@)]
  /\ UNCHANGED <<made, pc, inp, snap, granted, executed, audit, crashes>>

ResumeAt_regates(next) ==
  CASE next = "none" -> "error"
    [] next = "end"  -> "audit"
    [] OTHER         -> "gate"

ResumeAt_reopens(next) == IF next = "none" THEN "error" ELSE "gate"

\* Where graph.invoke(Command(resume=...)) goes on from a loaded checkpoint:
\* an unknown thread raises, a finished one returns what it holds.
ResumeAt(next) ==
  CASE next = "none" -> "error"
    [] next = "end"  -> "audit"
    [] OTHER         -> next

\* approve up to and including the load of the thread's latest checkpoint.
Approve(c, i, d, a) ==
  /\ MayStart(c)
  /\ inp' = [inp EXCEPT ![c] =
               [kind |-> "approve", id |-> i, decision |-> d, args |-> a]]
  /\ snap' = [snap EXCEPT ![c] = thread[i]]
  /\ Goto(c, ResumeAt(thread[i].next))
  /\ UNCHANGED <<thread, made, unsaved, granted, executed, audit, crashes>>

GateUpdate_always_merges(s, decision, args) ==
  IF decision = "reject"
  THEN [s EXCEPT !.next = "run", !.result = "rejected"]
  ELSE [s EXCEPT !.next = "run", !.args = Merge(s.args, args)]

GateUpdate_none(s, decision, args) ==
  [s EXCEPT !.next = "run", !.result = IF decision = "reject" THEN "none" ELSE @]

\* The state update gate_node returns once it has the decision.
GateUpdate(s, decision, args) ==
  CASE decision = "reject" -> [s EXCEPT !.next = "run", !.result = "rejected"]
    [] decision = "modify" -> [s EXCEPT !.next = "run", !.args = Merge(s.args, args)]
    [] OTHER               -> [s EXCEPT !.next = "run"]

Grants(decision) == decision # "reject"

\* gate_node.  Nothing to approve: on to run.  First visit: interrupt, and
\* apply answers awaiting_approval.  Resumed: the decision is applied and the
\* checkpoint after the node is created.
Gate(c) ==
  /\ pc[c] = "gate"
  /\ \/ /\ needs_approval(snap[c].tool)
        /\ inp[c].kind = "apply"
        /\ Settled(c)
        /\ Goto(c, "answered")
        /\ UNCHANGED <<made, snap, unsaved, granted>>
     \/ /\ needs_approval(snap[c].tool)
        /\ inp[c].kind = "approve"
        /\ LET s == GateUpdate(snap[c], inp[c].decision, inp[c].args) IN
             /\ Create(c, s)
             /\ granted' = IF Grants(inp[c].decision)
                           THEN granted \cup {[id |-> inp[c].id, args |-> s.args,
                                               decision |-> inp[c].decision,
                                               call |-> c]}
                           ELSE granted
        /\ Goto(c, "run")
     \/ /\ ~needs_approval(snap[c].tool)
        /\ Create(c, [snap[c] EXCEPT !.next = "run"])
        /\ Goto(c, "run")
        /\ UNCHANGED granted
  /\ UNCHANGED <<thread, inp, executed, audit, crashes>>

Run_swallows(c) ==
  /\ pc[c] = "run"
  /\ Create(c, [snap[c] EXCEPT !.next = "end",
                               !.result = IF @ = "" THEN "ran" ELSE @])
  /\ executed' =
       IF snap[c].result = "" /\ Invocable(snap[c].tool, snap[c].args)
       THEN executed \cup {[id |-> inp[c].id, args |-> snap[c].args, call |-> c]}
       ELSE executed
  /\ Goto(c, "save")
  /\ UNCHANGED <<thread, inp, granted, audit, crashes>>

\* run_node.  A result is there: nothing to do.  Otherwise the tool is invoked;
\* when that raises, the call ends with a 500 and the thread stays before run.
\* The checkpoint after the node finishes the thread.
Run(c) ==
  /\ pc[c] = "run"
  /\ \/ /\ snap[c].result # ""
        /\ Create(c, [snap[c] EXCEPT !.next = "end"])
        /\ Goto(c, "save")
        /\ UNCHANGED executed
     \/ /\ snap[c].result = ""
        /\ Invocable(snap[c].tool, snap[c].args)
        /\ executed' = executed \cup
             {[id |-> inp[c].id, args |-> snap[c].args, call |-> c]}
        /\ Create(c, [snap[c] EXCEPT !.next = "end", !.result = "ran"])
        /\ Goto(c, "save")
     \/ /\ snap[c].result = ""
        /\ ~Invocable(snap[c].tool, snap[c].args)
        /\ Settled(c)
        /\ Goto(c, "error")
        /\ UNCHANGED <<made, snap, unsaved, executed>>
  /\ UNCHANGED <<thread, inp, granted, audit, crashes>>

Return_early(c) ==
  /\ pc[c] = "save"
  /\ Goto(c, IF inp[c].kind = "approve" THEN "audit" ELSE "answered")
  /\ UNCHANGED <<thread, made, inp, snap, unsaved, granted, executed, audit, crashes>>

\* graph.invoke returns the finished state.
Return(c) ==
  /\ pc[c] = "save"
  /\ Settled(c)
  /\ Goto(c, IF inp[c].kind = "approve" THEN "audit" ELSE "answered")
  /\ UNCHANGED <<thread, made, inp, snap, unsaved, granted, executed, audit, crashes>>

\* approve after graph.invoke: the audit row, then the answer.
Audit(c) ==
  /\ pc[c] = "audit"
  /\ WriteAudit("approve", c)
  /\ Goto(c, "answered")
  /\ UNCHANGED <<thread, made, inp, snap, unsaved, granted, executed, crashes>>

\* The process dies and is restarted: the calls under way are gone, and so is
\* what was not stored.
Crash ==
  /\ crashes < MaxCrashes
  /\ \E c \in Calls : pc[c] \in Active
  /\ pc' = [c \in Calls |-> IF pc[c] \in Active THEN "lost" ELSE pc[c]]
  /\ unsaved' = [c \in Calls |-> <<>>]
  /\ crashes' = crashes + 1
  /\ UNCHANGED <<thread, made, inp, snap, granted, executed, audit>>

\* A step of a call that is under way.
Step(c) ==
  SaveInput(c) \/ WriteCheckpoint(c) \/ Gate(c) \/ Run(c) \/ Return(c) \/ Audit(c)

Next ==
  \/ \E c \in Calls, i \in Ids, t \in Tools, a \in ApplyArgs : Apply(c, i, t, a)
  \/ \E c \in Calls, i \in Ids, d \in Decisions, a \in DecisionArgs :
       Approve(c, i, d, a)
  \/ \E c \in Calls : Step(c)
  \/ Crash

Spec == Init /\ [][Next]_vars

-----------------------------------------------------------------------------
(* Properties                                                              *)

\* All state stays within its types.
TypeOK ==
  /\ thread \in [Ids -> Thread]
  /\ made \in [Ids -> Nat]
  /\ pc \in [Calls -> PCs]
  /\ inp \in [Calls -> Input]
  /\ snap \in [Calls -> Thread]
  /\ unsaved \in [Calls -> Seq(Thread)]
  /\ granted \subseteq [id : Ids, args : ArgMaps,
                         decision : Decisions, call : Calls]
  /\ executed \subseteq [id : Ids, args : ArgMaps, call : Calls]
  /\ audit \subseteq {"initiated", "approve"} \X Calls
  /\ crashes \in 0..MaxCrashes

\* The service as a human gate: a tool invocation is work on an approval id,
\* granted by the gate with exactly the arguments it is invoked with.  When
\* approvers take turns, and until the process crashes, every id is used up by
\* its first execution, whatever is sent to it later.
Gated == INSTANCE HumanGate WITH
  Jobs <- Ids, Works <- ArgMaps, Workers <- Calls, Once <- Sequential,
  granted <- {<<g.id, g.args>> : g \in granted},
  performed <- {<<e.id, e.args, e.call>> : e \in executed},
  steady <- crashes = 0

\* gate -> run implements the human gate: nothing reaches run_node's
\* tool.invoke before a decision on that id let those arguments through, over
\* all interleavings of calls and crashes (actions.py gate_node, run_node).
ImplementsGate == Gated!HGSpec

\* What runs on an id is what its applicant asked for, or that with the
\* arguments of `modify` decisions on the same id laid over it: arguments that
\* come with any other decision, or that belong to another id, never reach the
\* tool (actions.py:43-47).
Provenance ==
  \A e \in executed : \E a \in Calls :
    /\ inp[a].kind = "apply" /\ inp[a].id = e.id
    /\ \A k \in DOMAIN e.args :
         \/ k \in DOMAIN inp[a].args /\ e.args[k] = inp[a].args[k]
         \/ \E m \in Calls :
              /\ inp[m].kind = "approve" /\ inp[m].id = e.id
              /\ inp[m].decision = "modify"
              /\ k \in DOMAIN inp[m].args /\ e.args[k] = inp[m].args[k]

\* Neither an answer nor an audit row claims more than what happened: a call
\* that answers with a tool output, or is on record as an approval with that
\* result, comes after an execution on its id with the arguments its checkpoint
\* holds, whoever performed it and however often the process died in between;
\* "rejected" comes after a reject decision on that id (api.py:231-233).
TruthfulAnswer ==
  \A c \in Calls : (pc[c] = "answered" \/ <<"approve", c>> \in audit) =>
    /\ <<"approve", c>> \in audit => inp[c].kind = "approve" /\ snap[c].result # ""
    /\ snap[c].result = "ran" =>
         \E e \in executed : e.id = inp[c].id /\ e.args = snap[c].args
    /\ snap[c].result = "rejected" =>
         \E r \in Calls : inp[r].id = inp[c].id /\ inp[r].decision = "reject"

\* With approvers taking turns, an id answered as rejected was executed by no
\* call that lived to see its own end.  A call that died with the process may
\* have executed it before, when the writer of its gate checkpoint had not
\* caught up: the thread is back at gate, open to the reject (actions.py:30-47).
RejectionIsFinal ==
  \A c \in Calls : pc[c] = "answered" /\ snap[c].result = "rejected" =>
    \A e \in executed : e.id = inp[c].id => pc[e.call] = "lost"

\* With approvers taking turns, of two calls that executed the same id one died
\* with the process before its checkpoint was stored: a repeated approval, a
\* failed call or a slow writer repeats nothing (api.py:226-233).
RepeatNeedsCrash ==
  \A e, f \in executed :
    e.id = f.id /\ e # f => pc[e.call] = "lost" \/ pc[f.call] = "lost"

\* With approvers taking turns, a thread that stopped before run with
\* arguments the tool refuses stays there for good: gate is behind it, so no
\* later `modify` can repair it and every later call ends with a 500.
Stuck(i) ==
  /\ thread[i].next = "run" /\ thread[i].result = ""
  /\ ~Invocable(thread[i].tool, thread[i].args)
StuckForever == [][\A i \in Ids : Stuck(i) => Stuck(i)']_vars

\* A finished thread is never reopened or changed while approvers take turns.
EndIsFinal == [][\A i \in Ids : thread[i].next = "end" => UNCHANGED thread[i]]_vars
=============================================================================
