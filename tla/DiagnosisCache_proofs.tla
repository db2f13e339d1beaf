------------------------ MODULE DiagnosisCache_proofs -----------------------
(***************************************************************************)
(* Proofs about DiagnosisCache for any number of runs and statements, any  *)
(* form of texts and any limit on nodes, steps and changes of plans: type  *)
(* correctness, AnswersItsStatement and RepeatIsRecalled.                  *)
(*                                                                         *)
(* Neither property is inductive: an answer that is recalled was put in    *)
(* memory by another run (MemoryInv), and is still there when finalize     *)
(* reads it (RecallInv); a repeated run finds what an earlier one left     *)
(* because memory never loses an entry while the process lives             *)
(* (LearntInv).                                                            *)
(***************************************************************************)
EXTENDS DiagnosisCache, TLAPS

-----------------------------------------------------------------------------
(* The inductive invariant                                                 *)

Request == [flow : Flows, sql : Sqls, version : 0..MaxVersion]
Asked(r) == pc[r] \in Active \cup Still

AskedInv ==
  \A r \in Runs :
    /\ Asked(r) => req[r] \in Request
    /\ pc[r] \in {"idle", "planner"} => ~recalled[r]

\* An entry of the memory is about a statement with its key.
MemoryInv ==
  \A k \in Keys : memory[k] # NoAnalysis => Normal[memory[k].sql] = k[2]

\* What a run has recalled is still in memory.
RecallInv ==
  \A r \in Runs : pc[r] \in Active /\ recalled[r] => memory[KeyOf(r)] # NoAnalysis

\* What has ended well has left an analysis, and before is about such runs.
LearntInv ==
  /\ \A q \in Runs : pc[q] = "ok" => memory[KeyOf(q)] # NoAnalysis
  /\ \A r \in Runs : \A q \in before[r] : pc[q] = "ok"

DInv ==
  /\ TypeOK
  /\ AskedInv
  /\ MemoryInv
  /\ RecallInv
  /\ LearntInv
  /\ AnswersItsStatement
  /\ RepeatIsRecalled

-----------------------------------------------------------------------------
(* Lemmas                                                                  *)

\* An analysis is not the mark for a missing one.
LEMMA AnalysisIsSomething == \A a \in Analysis : a # NoAnalysis
<1> SUFFICES ASSUME NEW a \in Analysis, a = NoAnalysis PROVE FALSE
  OBVIOUS
<1>1. DOMAIN a = {"by", "sql", "version"}
  BY DEF Analysis
<1>2. DOMAIN NoAnalysis = {"by"}
  BY DEF NoAnalysis
<1>3. "sql" \notin {"by"}
  OBVIOUS
<1> QED
  BY <1>1, <1>2, <1>3

\* The key of a request is a key of the memory, and ends in its statement.
LEMMA KeyOfRequest ==
  ASSUME NEW r \in Runs, req[r] \in Request
  PROVE  KeyOf(r) \in Keys /\ KeyOf(r)[2] = Normal[req[r].sql]
BY DEF KeyOf, Keys, Fingerprint, Request

\* Two requests whose texts have one form and are the same up to case and blanks
\* have one key.
LEMMA SameKey ==
  ASSUME NEW q \in Runs, NEW r \in Runs,
         Wrapped(req[q].flow) = Wrapped(req[r].flow),
         Normal[req[q].sql] = Normal[req[r].sql]
  PROVE  KeyOf(q) = KeyOf(r)
BY DEF KeyOf, Fingerprint

-----------------------------------------------------------------------------
(* The steps                                                               *)

LEMMA InitStep == Init => DInv
BY BoundsOK DEF Init, DInv, TypeOK, AskedInv, MemoryInv, RecallInv, LearntInv, AnswersItsStatement,
   RepeatIsRecalled, Empty, Asked, Active, Ended, Still

\* The optimizer touches nothing the invariant is about.
LEMMA NewPlanStep ==
  ASSUME NEW s \in Sqls, DInv, NewPlan(s) PROVE DInv'
<1>1. TypeOK'
  <2>1. current' \in [Sqls -> 0..MaxVersion]
    BY BoundsOK DEF DInv, TypeOK, NewPlan
  <2> QED
    BY <2>1 DEF DInv, TypeOK, NewPlan
<1> QED
  BY <1>1 DEF DInv, NewPlan, AskedInv, MemoryInv, RecallInv, LearntInv, AnswersItsStatement,
     RepeatIsRecalled, Asked, KeyOf

\* A run begins: it has recalled nothing, and what it counts as earlier has
\* ended well.
LEMMA StartStep ==
  ASSUME NEW r \in Runs, NEW f \in Flows, NEW s \in Sqls, DInv, Start(r, f, s) PROVE DInv'
<1>1. TypeOK'
  BY DEF DInv, TypeOK, Start, Active
<1>2. AskedInv'
  BY DEF DInv, TypeOK, AskedInv, Start, Asked, Active, Ended, Still, Request
<1>3. \A q \in Runs : pc[q] # "idle" => q # r /\ pc'[q] = pc[q] /\ KeyOf(q)' = KeyOf(q)
  BY DEF DInv, TypeOK, Start, KeyOf
<1>4. MemoryInv' /\ RecallInv' /\ LearntInv'
  BY <1>2, <1>3 DEF DInv, TypeOK, MemoryInv, RecallInv, LearntInv, AskedInv, Start, Active
<1>5. AnswersItsStatement'
  BY <1>3 DEF DInv, TypeOK, AnswersItsStatement, Start
<1>6. RepeatIsRecalled'
  BY <1>3 DEF DInv, TypeOK, RepeatIsRecalled, LearntInv, Start
<1> QED
  BY <1>1, <1>2, <1>4, <1>5, <1>6 DEF DInv

\* A run goes on to a node, or fails.
LEMMA GotoType ==
  ASSUME NEW r \in Runs, TypeOK, NEW n \in Active \cup Still, Goto(r, n)
  PROVE  /\ pc' \in [Runs -> {"idle", "gone"} \cup Active \cup Still]
         /\ nodes' \in [Runs -> 0..RecursionLimit]
         /\ pc'[r] = n /\ \A q \in Runs : q # r => pc'[q] = pc[q]
BY BoundsOK DEF TypeOK, Goto

\* A step of a run that leaves memory and answers alone keeps the invariant if
\* what it marks as recalled is in memory and what it leaves unmarked is not
\* something an earlier run has left.
LEMMA QuietStep ==
  ASSUME NEW r \in Runs, DInv, pc[r] \in Active, pc'[r] \in (Active \ {"planner"}) \cup {"error", "stalled"},
         TypeOK', \A q \in Runs : q # r => pc'[q] = pc[q] /\ recalled'[q] = recalled[q],
         UNCHANGED <<memory, req, answer, before>>,
         recalled'[r] => memory[KeyOf(r)] # NoAnalysis,
         recalled[r] => recalled'[r],
         pc[r] = "planner" /\ pc'[r] \notin {"error", "stalled"} /\ ~recalled'[r] => memory[KeyOf(r)] = NoAnalysis
  PROVE  DInv'
<1>1. \A q \in Runs : KeyOf(q)' = KeyOf(q)
  BY DEF KeyOf
<1>2. AskedInv'
  BY DEF DInv, AskedInv, Asked, Active, Ended, Still
<1>3. MemoryInv' /\ RecallInv' /\ LearntInv'
  <2>1. MemoryInv'
    BY DEF DInv, MemoryInv
  <2>2. RecallInv'
    BY <1>1 DEF DInv, RecallInv
  <2>3. LearntInv'
    BY <1>1 DEF DInv, TypeOK, LearntInv, Active
  <2> QED
    BY <2>1, <2>2, <2>3
<1>4. AnswersItsStatement'
  BY DEF DInv, AnswersItsStatement, Active
<1>5. RepeatIsRecalled'
  <2> SUFFICES ASSUME NEW s \in Runs, NEW q \in before[s],
                      pc'[s] \notin {"idle", "planner", "error", "stalled"},
                      Wrapped(req[q].flow) = Wrapped(req[s].flow),
                      Normal[req[q].sql] = Normal[req[s].sql]
               PROVE  recalled'[s]
    BY DEF RepeatIsRecalled
  <2>1. CASE s # r
    BY <2>1 DEF DInv, RepeatIsRecalled
  <2>2. CASE s = r /\ pc[r] # "planner"
    BY <2>2 DEF DInv, RepeatIsRecalled, Active
  <2>3. CASE s = r /\ pc[r] = "planner"
    <3>1. q \in Runs /\ memory[KeyOf(q)] # NoAnalysis
      BY DEF DInv, TypeOK, LearntInv
    <3>2. KeyOf(q) = KeyOf(r)
      BY <2>3, <3>1, SameKey
    <3> QED
      BY <2>3, <3>1, <3>2
  <2> QED
    BY <2>1, <2>2, <2>3
<1> QED
  BY <1>2, <1>3, <1>4, <1>5 DEF DInv

LEMMA PlannerStep ==
  ASSUME NEW r \in Runs, DInv, Planner(r) PROVE DInv'
<1>1. /\ pc[r] = "planner" /\ Goto(r, "execute") /\ UNCHANGED <<memory, current, req, answer, before>>
      /\ ~recalled[r]
  BY DEF DInv, AskedInv, Planner, Node
<1>2. /\ recalled' \in [Runs -> BOOLEAN] /\ left' \in [Runs -> 0..MaxSteps]
      /\ \A q \in Runs : q # r => recalled'[q] = recalled[q]
      /\ recalled'[r] <=> memory[KeyOf(r)] # NoAnalysis
  <2>1. CASE memory[KeyOf(r)] # NoAnalysis
    BY <1>1, <2>1 DEF DInv, TypeOK, Planner
  <2>2. CASE memory[KeyOf(r)] = NoAnalysis
    BY <1>1, <2>2 DEF DInv, TypeOK, Planner
  <2> QED
    BY <2>1, <2>2
<1>3. /\ pc' \in [Runs -> {"idle", "gone"} \cup Active \cup Still]
      /\ nodes' \in [Runs -> 0..RecursionLimit]
      /\ pc'[r] = "execute" /\ \A q \in Runs : q # r => pc'[q] = pc[q]
  BY <1>1, GotoType DEF DInv, Active
<1>4. TypeOK'
  BY <1>1, <1>2, <1>3 DEF DInv, TypeOK
<1> QED
  BY <1>1, <1>2, <1>3, <1>4, QuietStep DEF Active

LEMMA ExecuteStep ==
  ASSUME NEW r \in Runs, DInv, Execute(r) PROVE DInv'
<1>1. PICK n \in {"replan", "error"} : Goto(r, n)
  BY DEF Execute
<1>2. pc[r] = "execute" /\ UNCHANGED <<memory, current, req, recalled, answer, before>>
  BY DEF Execute, Node
<1>3. left' \in [Runs -> 0..MaxSteps]
  <2>1. left \in [Runs -> 0..MaxSteps] /\ MaxSteps \in Nat
    BY BoundsOK DEF DInv, TypeOK
  <2>2. \/ left' = [left EXCEPT ![r] = 0]
        \/ left' = left
        \/ left[r] # 0 /\ left' = [left EXCEPT ![r] = left[r] - 1]
    BY DEF Execute, NoSteps
  <2>3. left[r] # 0 => left[r] - 1 \in 0..MaxSteps
    BY <2>1
  <2>4. 0 \in 0..MaxSteps
    BY <2>1
  <2> QED
    BY <2>1, <2>2, <2>3, <2>4
<1>4. /\ pc' \in [Runs -> {"idle", "gone"} \cup Active \cup Still]
      /\ nodes' \in [Runs -> 0..RecursionLimit]
      /\ pc'[r] = n /\ \A q \in Runs : q # r => pc'[q] = pc[q]
  BY <1>1, GotoType DEF DInv, Active, Ended, Still
<1>5. TypeOK'
  BY <1>2, <1>3, <1>4 DEF DInv, TypeOK
<1>6. recalled[r] => memory[KeyOf(r)] # NoAnalysis
  BY <1>2 DEF DInv, RecallInv, Active
<1> QED
  BY <1>2, <1>4, <1>5, <1>6, QuietStep DEF Active

LEMMA ReplanStep ==
  ASSUME NEW r \in Runs, DInv, Replan(r) PROVE DInv'
<1>1. PICK n \in {"finalize", "execute"} : Goto(r, n)
  BY DEF Replan
<1>2. pc[r] = "replan" /\ UNCHANGED <<memory, current, req, recalled, answer, before>>
  BY DEF Replan, Node
<1>3. left' \in [Runs -> 0..MaxSteps]
  BY BoundsOK DEF DInv, TypeOK, Replan
<1>4. /\ pc' \in [Runs -> {"idle", "gone"} \cup Active \cup Still]
      /\ nodes' \in [Runs -> 0..RecursionLimit]
      /\ pc'[r] = n /\ \A q \in Runs : q # r => pc'[q] = pc[q]
  BY <1>1, GotoType DEF DInv, Active, Ended, Still
<1>5. TypeOK'
  BY <1>2, <1>3, <1>4 DEF DInv, TypeOK
<1>6. recalled[r] => memory[KeyOf(r)] # NoAnalysis
  BY <1>2 DEF DInv, RecallInv, Active
<1> QED
  BY <1>2, <1>4, <1>5, <1>6, QuietStep DEF Active

LEMMA FailStep ==
  ASSUME NEW r \in Runs, DInv, Fail(r) PROVE DInv'
<1>1. /\ pc[r] \in Active /\ Goto(r, "error")
      /\ UNCHANGED <<memory, current, req, recalled, answer, before>>
  BY DEF Fail
<1>2. left' \in [Runs -> 0..MaxSteps]
  BY BoundsOK DEF DInv, TypeOK, Fail
<1>3. /\ pc' \in [Runs -> {"idle", "gone"} \cup Active \cup Still]
      /\ nodes' \in [Runs -> 0..RecursionLimit]
      /\ pc'[r] = "error" /\ \A q \in Runs : q # r => pc'[q] = pc[q]
  BY <1>1, GotoType DEF DInv, Ended, Still
<1>4. TypeOK'
  BY <1>1, <1>2, <1>3 DEF DInv, TypeOK
<1>5. recalled[r] => memory[KeyOf(r)] # NoAnalysis
  BY <1>1 DEF DInv, RecallInv
<1> QED
  BY <1>1, <1>3, <1>4, <1>5, QuietStep

\* A node that does not return changes nothing but the place of its run.
LEMMA StallStep ==
  ASSUME NEW r \in Runs, DInv, Stall(r) PROVE DInv'
<1>1. /\ pc[r] \in Active /\ Goto(r, "stalled")
      /\ UNCHANGED <<memory, current, req, recalled, answer, before>>
  BY DEF Stall
<1>2. left' \in [Runs -> 0..MaxSteps]
  BY BoundsOK DEF DInv, TypeOK, Stall
<1>3. /\ pc' \in [Runs -> {"idle", "gone"} \cup Active \cup Still]
      /\ nodes' \in [Runs -> 0..RecursionLimit]
      /\ pc'[r] = "stalled" /\ \A q \in Runs : q # r => pc'[q] = pc[q]
  BY <1>1, GotoType DEF DInv, Still
<1>4. TypeOK'
  BY <1>1, <1>2, <1>3 DEF DInv, TypeOK
<1>5. recalled[r] => memory[KeyOf(r)] # NoAnalysis
  BY <1>1 DEF DInv, RecallInv
<1> QED
  BY <1>1, <1>3, <1>4, <1>5, QuietStep

\* finalize: the answer is what is in memory under the run's key afterwards.
LEMMA FinalizeStep ==
  ASSUME NEW r \in Runs, DInv, Finalize(r) PROVE DInv'
<1> DEFINE a == [by |-> r, sql |-> req[r].sql, version |-> req[r].version]
<1>1. /\ pc[r] = "finalize" /\ Goto(r, "ok")
      /\ UNCHANGED <<current, req, recalled, left, before>>
  BY DEF Finalize, Node
<1>2. req[r] \in Request
  BY <1>1 DEF DInv, AskedInv, Asked, Active
<1>3. KeyOf(r) \in Keys /\ KeyOf(r)[2] = Normal[req[r].sql]
  BY <1>2, KeyOfRequest
<1>4. a \in Analysis
  BY <1>2 DEF Analysis, Request
<1>5. /\ pc' \in [Runs -> {"idle", "gone"} \cup Active \cup Still]
      /\ nodes' \in [Runs -> 0..RecursionLimit]
      /\ pc'[r] = "ok" /\ \A q \in Runs : q # r => pc'[q] = pc[q]
  BY <1>1, GotoType DEF DInv, Ended, Still
<1>6. \A q \in Runs : KeyOf(q)' = KeyOf(q)
  BY <1>1 DEF KeyOf
<1>7. /\ memory' \in [Keys -> Analysis \cup {NoAnalysis}]
      /\ answer' \in [Runs -> Analysis \cup {NoAnalysis}]
      /\ memory'[KeyOf(r)] # NoAnalysis
      /\ answer'[r] = memory'[KeyOf(r)]
      /\ \A q \in Runs : q # r => answer'[q] = answer[q]
      /\ \A k \in Keys : memory[k] # NoAnalysis => memory'[k] # NoAnalysis
      /\ MemoryInv'
  <2>1. CASE recalled[r]
    <3>1. answer' = [answer EXCEPT ![r] = memory[KeyOf(r)]] /\ memory' = memory
      BY <2>1 DEF Finalize
    <3>2. memory[KeyOf(r)] # NoAnalysis
      BY <1>1, <2>1 DEF DInv, RecallInv, Active
    <3> QED
      BY <1>3, <3>1, <3>2 DEF DInv, TypeOK, MemoryInv
  <2>2. CASE ~recalled[r]
    <3>1. answer' = [answer EXCEPT ![r] = a] /\ memory' = [memory EXCEPT ![KeyOf(r)] = a]
      BY <2>2 DEF Finalize
    <3>2. a # NoAnalysis
      BY <1>4, AnalysisIsSomething
    <3>3. a.sql = req[r].sql
      OBVIOUS
    <3> HIDE DEF a
    <3>4. memory'[KeyOf(r)] = a /\ \A k \in Keys : k # KeyOf(r) => memory'[k] = memory[k]
      BY <1>3, <3>1 DEF DInv, TypeOK
    <3>5. MemoryInv'
      BY <1>3, <3>3, <3>4 DEF DInv, MemoryInv
    <3> QED
      BY <1>3, <1>4, <3>1, <3>2, <3>4, <3>5 DEF DInv, TypeOK
  <2> QED
    BY <2>1, <2>2
<1>8. TypeOK'
  BY <1>1, <1>5, <1>7 DEF DInv, TypeOK
<1>9. AskedInv'
  BY <1>1, <1>2, <1>5 DEF DInv, AskedInv, Asked, Active, Ended, Still
<1>10. RecallInv' /\ LearntInv'
  <2>1. \A q \in Runs : Asked(q) => KeyOf(q) \in Keys
    BY KeyOfRequest DEF DInv, AskedInv
  <2>2. RecallInv'
    BY <1>1, <1>5, <1>6, <1>7, <2>1 DEF DInv, RecallInv, Asked, Active
  <2>3. LearntInv'
    BY <1>1, <1>5, <1>6, <1>7, <2>1 DEF DInv, TypeOK, LearntInv, Asked, Ended, Still
  <2> QED
    BY <2>2, <2>3
<1>11. AnswersItsStatement'
  <2>1. Normal[answer'[r].sql] = Normal[req[r].sql]
    BY <1>3, <1>6, <1>7 DEF MemoryInv
  <2> QED
    BY <1>1, <1>5, <1>7, <2>1 DEF DInv, AnswersItsStatement
<1>12. RepeatIsRecalled'
  BY <1>1, <1>5 DEF DInv, TypeOK, RepeatIsRecalled
<1> QED
  BY <1>7, <1>8, <1>9, <1>10, <1>11, <1>12 DEF DInv

LEMMA CrashStep == ASSUME DInv, Crash PROVE DInv'
<1>1. \A r \in Runs : pc'[r] \in {"idle", "gone"}
  BY DEF Crash
<1>2. TypeOK'
  BY BoundsOK DEF DInv, TypeOK, Crash, Empty, Active
<1> QED
  BY <1>1, <1>2 DEF DInv, AskedInv, MemoryInv, RecallInv, LearntInv, AnswersItsStatement,
     RepeatIsRecalled, Crash, Empty, Asked, Active, Ended, Still

LEMMA NextStep == DInv /\ [Next]_vars => DInv'
<1> SUFFICES ASSUME DInv, [Next]_vars PROVE DInv'
  OBVIOUS
<1>1. ASSUME NEW s \in Sqls, NewPlan(s) PROVE DInv'
  BY <1>1, NewPlanStep
<1>2. ASSUME NEW r \in Runs, NEW f \in Flows, NEW s \in Sqls, Start(r, f, s) PROVE DInv'
  BY <1>2, StartStep
<1>3. ASSUME NEW r \in Runs, Step(r) PROVE DInv'
  BY <1>3, PlannerStep, ExecuteStep, ReplanStep, FinalizeStep, FailStep DEF Step
<1>4. CASE \E r \in Runs : Stall(r)
  BY <1>4, StallStep
<1>5. CASE Crash
  BY <1>5, CrashStep
<1>6. CASE UNCHANGED vars
  BY <1>6 DEF vars, DInv, TypeOK, AskedInv, MemoryInv, RecallInv, LearntInv,
     AnswersItsStatement, RepeatIsRecalled, Asked, KeyOf
<1> QED
  BY <1>1, <1>2, <1>3, <1>4, <1>5, <1>6 DEF Next

-----------------------------------------------------------------------------
(* The theorems                                                            *)

\* The invariant holds in every reachable state.
THEOREM Invariance == Spec => []DInv
<1>1. DInv /\ [Next]_vars => DInv'
  BY NextStep
<1> QED
  BY InitStep, <1>1, PTL DEF Spec

\* Every variable of the diagnosis graph and its memory keeps its type.
THEOREM TypeCorrect == Spec => []TypeOK
<1>1. DInv => TypeOK
  BY DEF DInv
<1> QED
  BY Invariance, <1>1, PTL

\* An answer is about the statement of its own run, whatever other runs put in
\* the shared memory (plan_execute.py:52-56, 102-118).
THEOREM OwnStatement == Spec => []AnswersItsStatement
<1>1. DInv => AnswersItsStatement
  BY DEF DInv
<1> QED
  BY Invariance, <1>1, PTL

\* A repeated diagnosis is recalled as long as the process lives
\* (plan_execute.py:52-56).
THEOREM Recall == Spec => []RepeatIsRecalled
<1>1. DInv => RepeatIsRecalled
  BY DEF DInv
<1> QED
  BY Invariance, <1>1, PTL
=============================================================================
