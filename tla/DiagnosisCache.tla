--------------------------- MODULE DiagnosisCache --------------------------
(***************************************************************************)
(* The diagnosis graph of src/src/plan_execute.py (planner -> execute <->  *)
(* replan -> finalize) and its long-term memory, an InMemoryStore keyed by *)
(* the fingerprint of the SQL text.  Three flows use one compiled graph:   *)
(* run_query, run_candidate_diagnose and the review step of generated SQL. *)
(*                                                                         *)
(* Runs interleave at every node: planner, replan and finalize run in      *)
(* executor threads, execute awaits the supervisor.  Meanwhile the         *)
(* optimizer may choose a new plan for a statement.  The store lives in    *)
(* the process: a crash empties it and ends the runs.                      *)
(***************************************************************************)
EXTENDS Naturals, FiniteSets

CONSTANTS
  Runs,            \* runs of the graph, each used once
  Sqls,            \* statements
  Normal,          \* [Sqls -> text]: the statement lowercased, blanks collapsed
  Asks,            \* [Runs -> SUBSET Sqls]: the statements a run may be about
  Flows,           \* subset of {"query", "candidate", "generated"}
  MaxSteps,        \* bound on the length of the plans the model writes
  RecursionLimit,  \* LangGraph's bound on the nodes one invocation executes
  MaxVersion       \* bound on the changes of plans: none after one reaches it

ASSUME BoundsOK ==
  /\ MaxSteps \in Nat \ {0} /\ MaxVersion \in Nat
  /\ RecursionLimit \in Nat \ {0, 1, 2}
  /\ Flows \subseteq {"query", "candidate", "generated"}
  /\ Asks \in [Runs -> SUBSET Sqls]

\* An analysis is told apart by the run that made it, the statement and the
\* version of the execution plan it was made from.
Analysis == [by : Runs, sql : Sqls, version : 0..MaxVersion]
NoAnalysis == [by |-> "none"]

\* run_query and run_candidate_diagnose wrap the text in [DATA, NOT
\* INSTRUCTION] markers first, _review_plan_node passes it as it is.
Wrapped(flow) == flow \in {"query", "candidate"}

Fingerprint_flow(flow, sql) == <<flow, "">>

\* sql_fingerprint of the text a flow passes to the graph: a hash of the
\* lowercased text with runs of blanks collapsed, markers included.
Fingerprint(flow, sql) == <<IF Wrapped(flow) THEN "data" ELSE "raw", Normal[sql]>>

Keys == {Fingerprint(f, s) : f \in Flows, s \in Sqls}

VARIABLES
  memory,   \* [Keys -> Analysis or NoAnalysis]: the InMemoryStore
  current,  \* [Sqls -> Nat]: the version of the plan the database would give
  pc,       \* [Runs -> ...]: the next node, or how the run ended
  req,      \* [Runs -> ...]: flow, statement and fetched plan version
  recalled, \* [Runs -> BOOLEAN]: from_memory of the graph state
  left,     \* [Runs -> Nat]: number of steps in the state's plan, 0 at the end
  nodes,    \* [Runs -> Nat]: nodes executed so far, 0 at the end
  answer,   \* [Runs -> Analysis or NoAnalysis]
  before    \* history: [Runs -> runs that had ended well when this one began]

vars == <<memory, current, pc, req, recalled, left, nodes, answer, before>>

NoReq == [flow |-> "none"]
Active == {"planner", "execute", "replan", "finalize"}
Ended == {"ok", "error"}
Still == Ended \cup {"stalled"}

Empty == [k \in Keys |-> NoAnalysis]

Init ==
  /\ memory = Empty
  /\ current = [s \in Sqls |-> 0]
  /\ pc = [r \in Runs |-> "idle"]
  /\ req = [r \in Runs |-> NoReq]
  /\ recalled = [r \in Runs |-> FALSE]
  /\ left = [r \in Runs |-> 0]
  /\ nodes = [r \in Runs |-> 0]
  /\ answer = [r \in Runs |-> NoAnalysis]
  /\ before = [r \in Runs |-> {}]

\* Statistics are gathered, data grows: the statement gets a new plan.
NewPlan(s) ==
  /\ \A t \in Sqls : current[t] < MaxVersion
  /\ current' = [current EXCEPT ![s] = @ + 1]
  /\ UNCHANGED <<memory, pc, req, recalled, left, nodes, answer, before>>

\* The flow fetches the execution plan and invokes the graph.
Start(r, f, s) ==
  /\ pc[r] = "idle" /\ s \in Asks[r]
  /\ req' = [req EXCEPT ![r] = [flow |-> f, sql |-> s, version |-> current[s]]]
  /\ before' = [before EXCEPT ![r] = {q \in Runs : pc[q] = "ok"}]
  /\ pc' = [pc EXCEPT ![r] = "planner"]
  /\ UNCHANGED <<memory, current, recalled, left, nodes, answer>>

KeyOf(r) == Fingerprint(req[r].flow, req[r].sql)

WithinLimit_none(r) == TRUE

\* LangGraph lets an invocation execute at most RecursionLimit nodes.
WithinLimit(r) == nodes[r] < RecursionLimit

\* Node n of run r executes.
Node(r, n) == pc[r] = n /\ WithinLimit(r)

\* The run has executed a node and goes on to n, or stands still and drops its
\* counter, which is only compared with the limit.
Goto(r, n) ==
  /\ pc' = [pc EXCEPT ![r] = n]
  /\ nodes' = [nodes EXCEPT ![r] =
       IF n \in Still THEN 0 ELSE IF @ < RecursionLimit THEN @ + 1 ELSE @]

\* GraphRecursionError, or a model or supervisor call of the node raises.
Fail(r) ==
  /\ pc[r] \in Active
  /\ \/ ~WithinLimit(r)
     \/ ~recalled[r] /\ (pc[r] = "planner" => memory[KeyOf(r)] = NoAnalysis)
  /\ Goto(r, "error")
  /\ left' = [left EXCEPT ![r] = 0]
  /\ UNCHANGED <<memory, current, req, recalled, answer, before>>

\* A node does not return: the tools of the agents behind the supervisor wait for
\* their SQLcl server without a timeout, and a planner, replan or finalize may
\* find no free thread.
Stall(r) ==
  /\ pc[r] \in Active
  /\ Goto(r, "stalled")
  /\ left' = [left EXCEPT ![r] = 0]
  /\ UNCHANGED <<memory, current, req, recalled, answer, before>>

\* planner: a known fingerprint is marked from_memory, otherwise the model
\* writes a list of steps, an empty one included.
Planner(r) ==
  /\ Node(r, "planner")
  /\ \/ /\ memory[KeyOf(r)] # NoAnalysis
        /\ recalled' = [recalled EXCEPT ![r] = TRUE]
        /\ UNCHANGED left
     \/ /\ memory[KeyOf(r)] = NoAnalysis
        /\ \E n \in 0..MaxSteps : left' = [left EXCEPT ![r] = n]
        /\ UNCHANGED recalled
  /\ Goto(r, "execute")
  /\ UNCHANGED <<memory, current, req, answer, before>>

NoSteps_never(r) == FALSE

\* There is no first step: state["plan"][0] raises IndexError.
NoSteps(r) == left[r] = 0

\* execute: nothing to do when recalled; otherwise the supervisor performs the
\* first step, and an empty list ends the run.
Execute(r) ==
  /\ Node(r, "execute")
  /\ \/ /\ recalled[r]
        /\ left' = [left EXCEPT ![r] = 0]
        /\ Goto(r, "replan")
     \/ /\ ~recalled[r] /\ NoSteps(r)
        /\ Goto(r, "error")
        /\ UNCHANGED left
     \/ /\ ~recalled[r] /\ ~NoSteps(r)
        /\ left' = [left EXCEPT ![r] = @ - 1]
        /\ Goto(r, "replan")
  /\ UNCHANGED <<memory, current, req, recalled, answer, before>>

\* replan and the route after it: with steps left the model writes the list
\* anew, of any length; an empty list leads to finalize.
Replan(r) ==
  /\ Node(r, "replan")
  /\ \E n \in IF left[r] = 0 THEN {0} ELSE 0..MaxSteps :
       /\ left' = [left EXCEPT ![r] = n]
       /\ Goto(r, IF n = 0 THEN "finalize" ELSE "execute")
  /\ UNCHANGED <<memory, current, req, recalled, answer, before>>

Finalize_no_put(r) ==
  /\ Node(r, "finalize")
  /\ answer' = [answer EXCEPT ![r] =
       IF recalled[r] THEN memory[KeyOf(r)]
       ELSE [by |-> r, sql |-> req[r].sql, version |-> req[r].version]]
  /\ Goto(r, "ok")
  /\ UNCHANGED <<memory, current, req, recalled, left, before>>

\* finalize: the recalled analysis as it is, or a new one that is put in the
\* store and replaces what another run put there meanwhile.
Finalize(r) ==
  /\ Node(r, "finalize")
  /\ \/ /\ recalled[r]
        /\ answer' = [answer EXCEPT ![r] = memory[KeyOf(r)]]
        /\ UNCHANGED memory
     \/ /\ ~recalled[r]
        /\ LET a == [by |-> r, sql |-> req[r].sql, version |-> req[r].version] IN
             /\ answer' = [answer EXCEPT ![r] = a]
             /\ memory' = [memory EXCEPT ![KeyOf(r)] = a]
  /\ Goto(r, "ok")
  /\ UNCHANGED <<current, req, recalled, left, before>>

\* The process dies and is restarted.  Its runs are over, and what they had
\* recalled, answered or stored is of no consequence any more.
Crash ==
  /\ \E r \in Runs : pc[r] \in Active \cup {"stalled"}
  /\ memory' = Empty
  /\ pc' = [r \in Runs |-> IF pc[r] = "idle" THEN "idle" ELSE "gone"]
  /\ req' = [r \in Runs |-> NoReq]
  /\ recalled' = [r \in Runs |-> FALSE]
  /\ left' = [r \in Runs |-> 0]
  /\ nodes' = [r \in Runs |-> 0]
  /\ answer' = [r \in Runs |-> NoAnalysis]
  /\ before' = [r \in Runs |-> {}]
  /\ UNCHANGED current

Step(r) == Planner(r) \/ Execute(r) \/ Replan(r) \/ Finalize(r) \/ Fail(r)

Next ==
  \/ \E s \in Sqls : NewPlan(s)
  \/ \E r \in Runs, f \in Flows, s \in Sqls : Start(r, f, s)
  \/ \E r \in Runs : Step(r) \/ Stall(r)
  \/ Crash

Spec == Init /\ [][Next]_vars

\* A node that does return is followed by the next one; that it returns is not
\* assumed (Stall).
FairSpec == Spec /\ \A r \in Runs : WF_vars(Step(r))

-----------------------------------------------------------------------------
(* Properties                                                              *)

\* All state stays within its types.
TypeOK ==
  /\ memory \in [Keys -> Analysis \cup {NoAnalysis}]
  /\ current \in [Sqls -> 0..MaxVersion]
  /\ pc \in [Runs -> {"idle", "gone"} \cup Active \cup Still]
  /\ req \in [Runs -> [flow : Flows, sql : Sqls, version : 0..MaxVersion] \cup {NoReq}]
  /\ recalled \in [Runs -> BOOLEAN]
  /\ left \in [Runs -> 0..MaxSteps]
  /\ nodes \in [Runs -> 0..RecursionLimit]
  /\ answer \in [Runs -> Analysis \cup {NoAnalysis}]
  /\ before \in [Runs -> SUBSET Runs]

\* A run that ends well answers with an analysis of a statement that is the
\* same as its own up to case and blanks, whichever runs shared the memory with
\* it and overwrote what they found there (plan_execute.py:52-56, 102-118).
AnswersItsStatement ==
  \A r \in Runs : pc[r] = "ok" =>
    /\ answer[r] # NoAnalysis
    /\ Normal[answer[r].sql] = Normal[req[r].sql]

\* A repeated diagnosis is not made again: a run that begins after another run
\* of the same statement has ended well, and passes the text in the same form,
\* recalls what is in memory, unless the process was restarted in between
\* (plan_execute.py:52-56).
RepeatIsRecalled ==
  \A r \in Runs : \A q \in before[r] :
    ( /\ pc[r] \notin {"idle", "planner", "error", "stalled"}
      /\ Wrapped(req[q].flow) = Wrapped(req[r].flow)
      /\ Normal[req[q].sql] = Normal[req[r].sql] )
      => recalled[r]

\* However the model replans, a run none of whose nodes waits for ever does not
\* go round between execute and replan for ever: it ends in an analysis, in an
\* error, or with its process (plan_execute.py:124-141).
EveryDiagnosisEnds == \A r \in Runs : pc[r] \in Active ~> pc[r] \in Still \cup {"gone"}

\* README.md:77-79 says that the plan is fetched anew every time and that the
\* causes are presented on top of it: the analysis would be of that plan.
AnalysisOfFetchedPlan ==
  \A r \in Runs : pc[r] = "ok" /\ answer[r].sql = req[r].sql =>
    answer[r].version = req[r].version
=============================================================================
