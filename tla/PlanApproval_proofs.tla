------------------------ MODULE PlanApproval_proofs ------------------------
(***************************************************************************)
(* Proofs about PlanApproval for any sessions, pages, calls, requirements  *)
(* and plans and any number of crashes.                                    *)
(*                                                                         *)
(* StoreIsCurrent is inductive together with the types.  The other results *)
(* speak of what a run has in hand at a node, so the inductive invariant   *)
(* adds RunInv: a call has a run from its approval on, and a verdict from  *)
(* validate_sql on; and ExplainedInv: a call that explained has left the   *)
(* graph, so nothing gives its run another verdict.                        *)
(*                                                                         *)
(* What is granted is recorded from the decisions that come in, and runs   *)
(* are begun by the branches of resume_business_requirement.  The          *)
(* refinement rests on ApprovedInv, which ties the two: whatever a run     *)
(* works on was pending on its session when an approval came in for it.    *)
(***************************************************************************)
EXTENDS PlanApproval, TLAPS

-----------------------------------------------------------------------------
(* The inductive invariant                                                 *)

\* A call has a run from its approval on, and a verdict at review_plan.
RunInv ==
  \A c \in Calls :
    /\ pc[c] \in Active => run[c] # None
    /\ pc[c] = "idle" => run[c] = None
    /\ pc[c] = "review_plan" => run[c].verdict # "none"

\* What was explained is no longer at a node, and the validator let it pass.
ExplainedInv ==
  \A c \in explained :
    /\ pc[c] \notin {"idle"} \cup Active
    /\ run[c].verdict \in {"accept", "revise"}

IInv == TypeOK /\ StoreIsCurrent /\ RunInv /\ ExplainedInv

-----------------------------------------------------------------------------
(* The steps                                                               *)

LEMMA InitStep == ASSUME Init PROVE IInv
<1>1. TypeOK
  BY BoundsOK DEF Init, TypeOK, Active, Outcomes, Statuses
<1>2. StoreIsCurrent
  BY DEF Init, StoreIsCurrent
<1>3. RunInv /\ ExplainedInv
  BY DEF Init, RunInv, ExplainedInv, Active
<1> QED
  BY <1>1, <1>2, <1>3 DEF IInv

\* Preparing a plan leaves the session's checkpoint current.
LEMMA PrepareStep ==
  ASSUME TypeOK, StoreIsCurrent, NEW s \in Sessions, NEW r \in Requirements,
         NEW p \in Plans, Prepare(s, r, p)
  PROVE  /\ store' \in [Sessions -> Stored \cup {None}]
         /\ prepared' \in [Sessions -> Seq(Requirements)]
         /\ last' \in [Sessions -> Statuses \cup {"none"}]
         /\ StoreIsCurrent'
<1> DEFINE e == [requirement |-> r, plan |-> p, status |-> "awaiting_plan_approval"]
<1>1. e \in Stored /\ e.requirement = r /\ e.status = "awaiting_plan_approval"
  BY DEF Stored, Statuses
<1>2. /\ store' = [store EXCEPT ![s] = e]
      /\ prepared' = [prepared EXCEPT ![s] = Append(@, r)]
      /\ last' = [last EXCEPT ![s] = "awaiting_plan_approval"]
  BY DEF Prepare
<1> HIDE DEF e
<1>3. /\ prepared[s] \in Seq(Requirements)
      /\ Append(prepared[s], r) \in Seq(Requirements)
      /\ Append(prepared[s], r) # <<>>
      /\ Append(prepared[s], r)[Len(Append(prepared[s], r))] = r
  <2>1. prepared[s] \in Seq(Requirements)
    BY DEF TypeOK
  <2>2. Len(Append(prepared[s], r)) = Len(prepared[s]) + 1 /\ Len(prepared[s]) \in Nat
    BY <2>1
  <2>3. Append(prepared[s], r) # <<>>
    BY <2>1
  <2> QED
    BY <2>1, <2>2, <2>3
<1>4. /\ store' \in [Sessions -> Stored \cup {None}]
      /\ prepared' \in [Sessions -> Seq(Requirements)]
      /\ last' \in [Sessions -> Statuses \cup {"none"}]
  BY <1>1, <1>2, <1>3 DEF TypeOK, Statuses
<1>5. ASSUME NEW t \in Sessions
      PROVE  IF prepared'[t] = <<>> THEN store'[t] = None
             ELSE /\ store'[t].requirement = prepared'[t][Len(prepared'[t])]
                  /\ store'[t].status = last'[t]
  <2>1. CASE t = s
    <3>1. /\ prepared'[t] = Append(prepared[s], r)
          /\ store'[t] = e /\ last'[t] = "awaiting_plan_approval"
      BY <1>2, <2>1 DEF TypeOK
    <3> QED
      BY <1>1, <1>3, <3>1
  <2>2. CASE t # s
    <3>1. prepared'[t] = prepared[t] /\ store'[t] = store[t] /\ last'[t] = last[t]
      BY <1>2, <2>2 DEF TypeOK
    <3> QED
      BY <3>1 DEF StoreIsCurrent
  <2> QED
    BY <2>1, <2>2
<1> QED
  BY <1>4, <1>5 DEF StoreIsCurrent

\* A decision that changes the status of a pending plan leaves it current.
LEMMA StatusStep ==
  ASSUME TypeOK, StoreIsCurrent, NEW s \in Sessions, store[s] # None,
         NEW status \in Statuses,
         store' = [store EXCEPT ![s].status = status],
         last' = [last EXCEPT ![s] = status], prepared' = prepared
  PROVE  /\ store' \in [Sessions -> Stored \cup {None}]
         /\ last' \in [Sessions -> Statuses \cup {"none"}]
         /\ StoreIsCurrent'
<1>1. store[s] \in Stored /\ prepared[s] # <<>>
  BY DEF TypeOK, StoreIsCurrent
<1>2. /\ store'[s] = [store[s] EXCEPT !.status = status]
      /\ store'[s] \in Stored
      /\ store'[s].requirement = store[s].requirement
      /\ store'[s].status = status
      /\ last'[s] = status
  BY <1>1 DEF TypeOK, Stored
<1>3. \A t \in Sessions : t # s => store'[t] = store[t] /\ last'[t] = last[t]
  BY DEF TypeOK
<1>4. /\ store' \in [Sessions -> Stored \cup {None}]
      /\ last' \in [Sessions -> Statuses \cup {"none"}]
  BY <1>2, <1>3 DEF TypeOK
<1>5. StoreIsCurrent'
  BY <1>1, <1>2, <1>3 DEF StoreIsCurrent
<1> QED
  BY <1>4, <1>5

\* A call that leaves the graph, or never enters it, without changing its run.
LEMMA EndStep ==
  ASSUME IInv, NEW c \in Calls, pc[c] \in {"idle"} \cup Active, NEW o \in Outcomes,
         pc' = [pc EXCEPT ![c] = o], run' = run,
         explained' = explained \/ (explained' = explained \cup {c}
                                    /\ run[c].verdict \in {"accept", "revise"})
  PROVE  /\ pc' \in [Calls -> {"idle"} \cup Active \cup Outcomes]
         /\ explained' \subseteq Calls
         /\ RunInv' /\ ExplainedInv'
<1>1. o \notin {"idle"} \cup Active
  BY DEF Outcomes, Active
<1>2. pc' \in [Calls -> {"idle"} \cup Active \cup Outcomes] /\ explained' \subseteq Calls
  BY DEF IInv, TypeOK
<1>3. pc'[c] = o /\ \A d \in Calls : d # c => pc'[d] = pc[d]
  BY DEF IInv, TypeOK
<1>4. RunInv'
  BY <1>1, <1>3 DEF IInv, RunInv, Active
<1>5. ExplainedInv'
  BY <1>1, <1>3 DEF IInv, TypeOK, ExplainedInv
<1> QED
  BY <1>2, <1>4, <1>5

\* A call that goes on to a node, with a run of the right type.
LEMMA NodeStep ==
  ASSUME IInv, NEW c \in Calls, pc[c] \in {"idle"} \cup Active, NEW n \in Active,
         pc' = [pc EXCEPT ![c] = n],
         NEW x \in RunState, n = "review_plan" => x.verdict # "none",
         run' = [run EXCEPT ![c] = x], explained' = explained
  PROVE  /\ pc' \in [Calls -> {"idle"} \cup Active \cup Outcomes]
         /\ run' \in [Calls -> RunState \cup {None}]
         /\ RunInv' /\ ExplainedInv'
<1>1. n # "idle" /\ c \notin explained /\ x # None
  BY NoneIsNoRun DEF IInv, ExplainedInv, Active
<1>2. /\ pc' \in [Calls -> {"idle"} \cup Active \cup Outcomes]
      /\ run' \in [Calls -> RunState \cup {None}]
  BY DEF IInv, TypeOK
<1>3. /\ pc'[c] = n /\ run'[c] = x
      /\ \A d \in Calls : d # c => pc'[d] = pc[d] /\ run'[d] = run[d]
  BY DEF IInv, TypeOK
<1>4. RunInv'
  BY <1>1, <1>3 DEF IInv, RunInv
<1>5. ExplainedInv'
  BY <1>1, <1>3 DEF IInv, TypeOK, ExplainedInv
<1> QED
  BY <1>2, <1>4, <1>5

LEMMA QueryStep ==
  ASSUME IInv, NEW t \in Tabs, NEW r \in Requirements, Query(t, r) PROVE IInv'
<1>1. PICK s \in Sessions, p \in Plans :
        /\ Prepare(s, r, p)
        /\ \/ /\ cards' = cards \cup {[session |-> s, requirement |-> r, plan |-> p]}
              /\ tab' = [tab EXCEPT ![t] = s]
           \/ UNCHANGED <<cards, tab>>
  BY DEF Query
<1>2. cards' \subseteq Card /\ tab' \in [Tabs -> Sessions \cup {None}]
  <2>1. [session |-> s, requirement |-> r, plan |-> p] \in Card
    BY DEF Card
  <2>2. cards \subseteq Card /\ tab \in [Tabs -> Sessions \cup {None}]
    BY DEF IInv, TypeOK
  <2> QED
    BY <1>1, <2>1, <2>2
<1>3. /\ store' \in [Sessions -> Stored \cup {None}]
      /\ prepared' \in [Sessions -> Seq(Requirements)]
      /\ last' \in [Sessions -> Statuses \cup {"none"}]
      /\ StoreIsCurrent'
  BY <1>1, PrepareStep DEF IInv
<1>4. UNCHANGED <<pc, run, approved, drafted, explained, crashes>>
  BY DEF Query
<1>5. RunInv' /\ ExplainedInv'
  BY <1>4 DEF IInv, RunInv, ExplainedInv
<1> QED
  BY <1>2, <1>3, <1>4, <1>5 DEF IInv, TypeOK

LEMMA ReloadStep ==
  ASSUME IInv, NEW t \in Tabs, Reload(t) PROVE IInv'
BY DEF Reload, IInv, TypeOK, StoreIsCurrent, RunInv, ExplainedInv

LEMMA ResumeUnknownStep ==
  ASSUME IInv, NEW c \in Calls, pc[c] = "idle", NEW s, NEW d, ResumeUnknown(c, s, d),
         approved' \subseteq Sessions \X Requirements
  PROVE  IInv'
<1>1. /\ pc[c] = "idle" /\ pc' = [pc EXCEPT ![c] = "no_answer"]
      /\ UNCHANGED <<store, tab, cards, prepared, last, run, drafted, explained, crashes>>
  BY DEF ResumeUnknown
<1>2. "no_answer" \in Outcomes
  BY DEF Outcomes
<1>3. /\ pc' \in [Calls -> {"idle"} \cup Active \cup Outcomes]
      /\ RunInv' /\ ExplainedInv'
  BY <1>1, <1>2, EndStep
<1> QED
  BY <1>1, <1>3 DEF IInv, TypeOK, StoreIsCurrent

LEMMA ResumeRejectStep ==
  ASSUME IInv, NEW c \in Calls, pc[c] = "idle", NEW s \in Sessions, NEW d,
         ResumeReject(c, s, d), approved' \subseteq Sessions \X Requirements
  PROVE  IInv'
<1>1. /\ pc[c] = "idle" /\ pc' = [pc EXCEPT ![c] = "rejected"] /\ store[s] # None
      /\ store' = [store EXCEPT ![s].status = "rejected"]
      /\ last' = [last EXCEPT ![s] = "rejected"]
      /\ UNCHANGED <<tab, cards, prepared, run, drafted, explained, crashes>>
  BY DEF ResumeReject
<1>2. "rejected" \in Outcomes /\ "rejected" \in Statuses
  BY DEF Outcomes, Statuses
<1>3. /\ pc' \in [Calls -> {"idle"} \cup Active \cup Outcomes]
      /\ RunInv' /\ ExplainedInv'
  BY <1>1, <1>2, EndStep
<1>4. /\ store' \in [Sessions -> Stored \cup {None}]
      /\ last' \in [Sessions -> Statuses \cup {"none"}]
      /\ StoreIsCurrent'
  BY <1>1, <1>2, StatusStep DEF IInv
<1> QED
  BY <1>1, <1>3, <1>4 DEF IInv, TypeOK

LEMMA ResumeModifyStep ==
  ASSUME IInv, NEW c \in Calls, pc[c] = "idle", NEW s \in Sessions, NEW d,
         NEW new \in Requirements \cup {None, Blank}, ResumeModify(c, s, d, new),
         approved' \subseteq Sessions \X Requirements
  PROVE  IInv'
<1>1. /\ pc[c] = "idle" /\ store[s] # None
      /\ UNCHANGED <<tab, run, drafted, explained, crashes>>
  BY DEF ResumeModify
<1>2. CASE /\ pc' = [pc EXCEPT ![c] = "no_answer"]
           /\ UNCHANGED <<store, cards, prepared, last>>
  <2>1. "no_answer" \in Outcomes
    BY DEF Outcomes
  <2>2. /\ pc' \in [Calls -> {"idle"} \cup Active \cup Outcomes]
        /\ RunInv' /\ ExplainedInv'
    BY <1>1, <1>2, <2>1, EndStep
  <2> QED
    BY <1>1, <1>2, <2>2 DEF IInv, TypeOK, StoreIsCurrent
<1>3. ASSUME NEW r, r = IF new = None THEN store[s].requirement ELSE new, new # Blank,
             NEW p \in Plans, Prepare(s, r, p), pc' = [pc EXCEPT ![c] = "awaiting"],
             cards' = cards \cup {[session |-> s, requirement |-> r, plan |-> p]}
      PROVE  IInv'
  <2>1. r \in Requirements
    BY <1>1, <1>3 DEF IInv, TypeOK, Stored
  <2>2. /\ store' \in [Sessions -> Stored \cup {None}]
        /\ prepared' \in [Sessions -> Seq(Requirements)]
        /\ last' \in [Sessions -> Statuses \cup {"none"}]
        /\ StoreIsCurrent'
    BY <1>3, <2>1, PrepareStep DEF IInv
  <2>3. cards' \subseteq Card
    BY <1>3, <2>1 DEF IInv, TypeOK, Card
  <2>4. "awaiting" \in Outcomes
    BY DEF Outcomes
  <2>5. /\ pc' \in [Calls -> {"idle"} \cup Active \cup Outcomes]
        /\ RunInv' /\ ExplainedInv'
    BY <1>1, <1>3, <2>4, EndStep
  <2> QED
    BY <1>1, <2>2, <2>3, <2>5 DEF IInv, TypeOK
<1> QED
  BY <1>2, <1>3 DEF ResumeModify, IsBlank

LEMMA ResumeApproveStep ==
  ASSUME IInv, NEW c \in Calls, pc[c] = "idle", NEW s \in Sessions,
         NEW card \in cards \cup {None}, NEW d, ResumeApprove(c, s, card, d),
         approved' \subseteq Sessions \X Requirements
  PROVE  IInv'
<1> DEFINE x == [session |-> s, card |-> card, requirement |-> store[s].requirement,
                 at |-> Len(prepared[s]), shown |-> store[s].plan,
                 plan |-> None, verdict |-> "none"]
<1>1. /\ pc[c] = "idle" /\ pc' = [pc EXCEPT ![c] = "plan_requirement"] /\ store[s] # None
      /\ store' = [store EXCEPT ![s].status = "approved"]
      /\ last' = [last EXCEPT ![s] = "approved"]
      /\ run' = [run EXCEPT ![c] = x]
      /\ UNCHANGED <<tab, cards, prepared, drafted, explained, crashes>>
  BY DEF ResumeApprove
<1>2. x \in RunState
  <2>1. store[s] \in Stored /\ card \in Card \cup {None} /\ Len(prepared[s]) \in Nat
    BY <1>1 DEF IInv, TypeOK
  <2> QED
    BY <2>1 DEF RunState, Stored
<1> HIDE DEF x
<1>3. "plan_requirement" \in Active /\ "approved" \in Statuses
  BY DEF Active, Statuses
<1>4. /\ pc' \in [Calls -> {"idle"} \cup Active \cup Outcomes]
      /\ run' \in [Calls -> RunState \cup {None}]
      /\ RunInv' /\ ExplainedInv'
  BY <1>1, <1>2, <1>3, NodeStep
<1>5. /\ store' \in [Sessions -> Stored \cup {None}]
      /\ last' \in [Sessions -> Statuses \cup {"none"}]
      /\ StoreIsCurrent'
  BY <1>1, <1>3, StatusStep DEF IInv
<1> QED
  BY <1>1, <1>4, <1>5 DEF IInv, TypeOK

\* What a decision grants is a requirement of its session.
LEMMA GrantingType ==
  ASSUME TypeOK, NEW s \in Sessions, NEW d
  PROVE  Granting(s, d) \subseteq Sessions \X Requirements
BY DEF TypeOK, Granting, Stored

LEMMA DecideStep ==
  ASSUME IInv, NEW c \in Calls, NEW s \in Sessions, NEW card \in cards \cup {None},
         NEW d \in Decisions, Decide(c, s, card, d)
  PROVE  IInv'
<1>1. pc[c] = "idle" /\ approved' \subseteq Sessions \X Requirements
  BY GrantingType DEF Decide, IInv, TypeOK
<1> QED
  BY <1>1, ResumeUnknownStep, ResumeRejectStep, ResumeModifyStep, ResumeApproveStep DEF Decide

\* The nodes of the graph write nothing of the session.
LEMMA RunStepStep ==
  ASSUME IInv, NEW c \in Calls, RunStep(c) PROVE IInv'
<1>1. UNCHANGED <<store, tab, cards, prepared, last, approved, crashes>> /\ pc[c] \in Active
  BY DEF RunStep, PlanRequirement, LookupSchema, DraftSql, ValidateSql, ReviewPlan, Active
<1>2. run[c] \in RunState /\ run = [run EXCEPT ![c] = run[c]]
  BY <1>1 DEF IInv, TypeOK, RunInv
<1>3. SUFFICES /\ pc' \in [Calls -> {"idle"} \cup Active \cup Outcomes]
               /\ run' \in [Calls -> RunState \cup {None}]
               /\ drafted' \subseteq [call : Calls, session : Sessions, at : Nat,
                                      requirement : Requirements]
               /\ explained' \subseteq Calls
               /\ RunInv' /\ ExplainedInv'
  BY <1>1 DEF IInv, TypeOK, StoreIsCurrent
<1>4. CASE PlanRequirement(c)
  <2>1. PICK p \in Plans : run' = [run EXCEPT ![c] = [run[c] EXCEPT !.plan = p]]
    BY <1>4 DEF PlanRequirement
  <2>2. [run[c] EXCEPT !.plan = p] \in RunState /\ "lookup_schema" \in Active
    BY <1>2 DEF RunState, Active
  <2>3. /\ pc' = [pc EXCEPT ![c] = "lookup_schema"]
        /\ UNCHANGED <<drafted, explained>>
    BY <1>4 DEF PlanRequirement
  <2>4. /\ pc' \in [Calls -> {"idle"} \cup Active \cup Outcomes]
        /\ run' \in [Calls -> RunState \cup {None}]
        /\ RunInv' /\ ExplainedInv'
    <3>1. pc[c] \in {"idle"} \cup Active /\ "lookup_schema" # "review_plan"
      BY <1>1
    <3> DEFINE x == [run[c] EXCEPT !.plan = p]
    <3>2. x \in RunState /\ run' = [run EXCEPT ![c] = x]
      BY <2>1, <2>2
    <3> HIDE DEF x
    <3> QED  BY <2>2, <2>3, <3>1, <3>2, NodeStep
  <2> QED
    BY <2>3, <2>4 DEF IInv, TypeOK
<1>5. CASE LookupSchema(c)
  <2>1. "draft_sql" \in Active
    BY DEF Active
  <2>2. /\ pc[c] = "lookup_schema" /\ pc' = [pc EXCEPT ![c] = "draft_sql"]
        /\ run' = [run EXCEPT ![c] = run[c]]
        /\ UNCHANGED <<drafted, explained>>
    BY <1>2, <1>5 DEF LookupSchema
  <2>3. /\ pc' \in [Calls -> {"idle"} \cup Active \cup Outcomes]
        /\ run' \in [Calls -> RunState \cup {None}]
        /\ RunInv' /\ ExplainedInv'
    BY <1>1, <1>2, <2>1, <2>2, NodeStep
  <2> QED
    BY <2>2, <2>3 DEF IInv, TypeOK
<1>6. CASE DraftSql(c)
  <2>1. "validate_sql" \in Active /\ "error" \in Outcomes
    BY DEF Active, Outcomes
  <2>2. run' = run /\ explained' = explained
    BY <1>6 DEF DraftSql
  <2>3. drafted' \subseteq [call : Calls, session : Sessions, at : Nat, requirement : Requirements]
    BY <1>2, <1>6 DEF DraftSql, DraftedFrom, RunState, IInv, TypeOK
  <2>4. CASE pc' = [pc EXCEPT ![c] = "validate_sql"]
    <3>1. pc[c] \in {"idle"} \cup Active /\ "validate_sql" # "review_plan"
      BY <1>1
    <3>2. run' = [run EXCEPT ![c] = run[c]]
      BY <1>2, <2>2
    <3>3. /\ pc' \in [Calls -> {"idle"} \cup Active \cup Outcomes]
          /\ run' \in [Calls -> RunState \cup {None}]
          /\ RunInv' /\ ExplainedInv'
      BY <1>2, <2>1, <2>2, <2>4, <3>1, <3>2, NodeStep
    <3>4. explained' \subseteq Calls
      BY <2>2 DEF IInv, TypeOK
    <3> QED  BY <2>3, <3>3, <3>4
  <2>5. CASE pc' = [pc EXCEPT ![c] = "error"]
    BY <1>1, <2>1, <2>2, <2>3, <2>5, EndStep DEF IInv, TypeOK
  <2> QED
    BY <1>6, <2>4, <2>5 DEF DraftSql
<1>7. CASE ValidateSql(c)
  <2>1. "review_plan" \in Active /\ "error" \in Outcomes
    BY DEF Active, Outcomes
  <2>2. UNCHANGED <<drafted, explained>>
    BY <1>7 DEF ValidateSql
  <2>3. CASE pc' = [pc EXCEPT ![c] = "error"] /\ UNCHANGED run
    BY <1>1, <2>1, <2>2, <2>3, EndStep DEF IInv, TypeOK
  <2>4. ASSUME NEW v \in {"accept", "revise", "reject"},
               run' = [run EXCEPT ![c] = [run[c] EXCEPT !.verdict = v]],
               pc' = [pc EXCEPT ![c] = "review_plan"]
        PROVE  /\ pc' \in [Calls -> {"idle"} \cup Active \cup Outcomes]
               /\ run' \in [Calls -> RunState \cup {None}]
               /\ RunInv' /\ ExplainedInv'
    <3>1. /\ [run[c] EXCEPT !.verdict = v] \in RunState
          /\ [run[c] EXCEPT !.verdict = v].verdict # "none"
      BY <1>2 DEF RunState
    <3> QED
      BY <1>1, <2>1, <2>2, <2>4, <3>1, NodeStep
  <2> QED
    BY <1>7, <2>2, <2>3, <2>4 DEF ValidateSql, IInv, TypeOK
<1>8. CASE ReviewPlan(c)
  <2>1. "ok" \in Outcomes
    BY DEF Outcomes
  <2>2. /\ pc[c] = "review_plan" /\ pc' = [pc EXCEPT ![c] = "ok"]
        /\ run' = run /\ drafted' = drafted
    BY <1>8 DEF ReviewPlan
  <2>3. run[c].verdict \in {"accept", "revise", "reject"}
    BY <1>2, <2>2 DEF RunState, IInv, RunInv
  <2>4. explained' = explained \/ (explained' = explained \cup {c}
                                   /\ run[c].verdict \in {"accept", "revise"})
    BY <1>8, <2>3 DEF ReviewPlan
  <2> QED
    BY <1>1, <2>1, <2>2, <2>4, EndStep DEF IInv, TypeOK
<1> QED
  BY <1>4, <1>5, <1>6, <1>7, <1>8 DEF RunStep

LEMMA CrashStep == ASSUME IInv, Crash PROVE IInv'
<1>1. /\ pc' = [c \in Calls |-> IF pc[c] \in Active THEN "lost" ELSE pc[c]]
      /\ crashes < MaxCrashes /\ crashes' = crashes + 1
      /\ UNCHANGED <<store, tab, cards, prepared, last, run, approved, drafted, explained>>
  BY DEF Crash
<1>2. /\ pc' \in [Calls -> {"idle"} \cup Active \cup Outcomes]
      /\ crashes' \in 0..MaxCrashes
  BY <1>1, BoundsOK DEF IInv, TypeOK, Outcomes
<1>3. \A c \in Calls : pc'[c] = pc[c] \/ pc'[c] = "lost"
  BY <1>1
<1>4. RunInv' /\ ExplainedInv'
  BY <1>1, <1>3 DEF IInv, TypeOK, RunInv, ExplainedInv, Active
<1> QED
  BY <1>1, <1>2, <1>4 DEF IInv, TypeOK, StoreIsCurrent

LEMMA StutterStep == ASSUME IInv, UNCHANGED vars PROVE IInv'
BY DEF vars, IInv, TypeOK, StoreIsCurrent, RunInv, ExplainedInv

-----------------------------------------------------------------------------
(* The theorems                                                            *)

\* The inductive invariant holds in every state, over all interleavings of
\* handlers and nodes and over all crashes.
THEOREM Invariance == Spec => []IInv
<1>1. ASSUME IInv, [Next]_vars PROVE IInv'
  <2> QED
    BY <1>1, DecideStep, QueryStep, ReloadStep, RunStepStep, CrashStep, StutterStep DEF Next
<1> QED
  BY InitStep, <1>1, PTL DEF Spec

\* All state stays within its types, whatever the pages ask for.
THEOREM TypeCorrect == Spec => []TypeOK
BY Invariance, PTL DEF IInv

\* A session's checkpoint is what its last preparation or decision left there:
\* no run that is under way and no crash puts an older one back
\* (pipeline.py:612, 634, 641), with any number of sessions and of runs.
THEOREM CheckpointCurrent == Spec => []StoreIsCurrent
BY Invariance, PTL DEF IInv

\* No draft the validator rejected is sent to the database, not even as EXPLAIN
\* PLAN (plan_execute.py:278-285).
THEOREM RejectedStaysHome == Spec => []RejectedDraftNotExplained
<1>1. IInv => RejectedDraftNotExplained
  BY DEF IInv, ExplainedInv, RejectedDraftNotExplained
<1> QED
  BY <1>1, Invariance, PTL

-----------------------------------------------------------------------------
(* The refinement                                                          *)

Performed == {<<d.session, d.requirement, d.call>> : d \in drafted}

\* Whatever a run works on was pending on its session when an approval came in.
Covered(x, A) == <<x.session, x.requirement>> \in A
ApprovedInv == \A c \in Calls : run[c] # None => Covered(run[c], approved)

\* What is approved once stays so.
LEMMA ApprovedGrows ==
  ASSUME [Next]_vars PROVE approved \subseteq approved'
BY DEF Next, Query, Reload, Decide, RunStep, PlanRequirement, LookupSchema, DraftSql,
       ValidateSql, ReviewPlan, Crash, vars

\* The run an approval begins is of the requirement that approval met.
LEMMA ApproveCovers ==
  ASSUME IInv, ApprovedInv, NEW c \in Calls, NEW s \in Sessions,
         NEW card \in cards \cup {None}, NEW d \in Decisions, Decide(c, s, card, d)
  PROVE  ApprovedInv'
<1>1. CASE run' = run
  BY <1>1 DEF Decide, ApprovedInv, Covered
<1>2. CASE ResumeApprove(c, s, card, d)
  <2> DEFINE x == [session |-> s, card |-> card, requirement |-> store[s].requirement,
                   at |-> Len(prepared[s]), shown |-> store[s].plan,
                   plan |-> None, verdict |-> "none"]
  <2>1. /\ store[s] # None /\ d = "approve"
        /\ run' = [run EXCEPT ![c] = x] /\ x.session = s /\ x.requirement = store[s].requirement
    BY <1>2 DEF ResumeApprove, Approves
  <2> HIDE DEF x
  <2>2. approved' = approved \cup {<<s, store[s].requirement>>}
    BY <2>1 DEF Decide, Granting
  <2>3. run'[c] = x /\ \A e \in Calls : e # c => run'[e] = run[e]
    BY <2>1 DEF IInv, TypeOK
  <2> QED
    BY <2>1, <2>2, <2>3 DEF ApprovedInv, Covered
<1> QED
  BY <1>1, <1>2 DEF Decide, ResumeUnknown, ResumeReject, ResumeModify

\* A node leaves what its run is of as it is.
LEMMA NodeKeepsRun ==
  ASSUME IInv, NEW c \in Calls, RunStep(c)
  PROVE  /\ run[c] \in RunState
         /\ run'[c].session = run[c].session /\ run'[c].requirement = run[c].requirement
         /\ \A d \in Calls : d # c => run'[d] = run[d]
<1>1. pc[c] \in Active
  BY DEF RunStep, PlanRequirement, LookupSchema, DraftSql, ValidateSql, ReviewPlan, Active
<1>2. run[c] \in RunState
  BY <1>1 DEF IInv, TypeOK, RunInv
<1>3. \/ run' = run
      \/ \E p \in Plans : run' = [run EXCEPT ![c] = [run[c] EXCEPT !.plan = p]]
      \/ \E v \in {"accept", "revise", "reject"} :
            run' = [run EXCEPT ![c] = [run[c] EXCEPT !.verdict = v]]
  BY DEF RunStep, PlanRequirement, LookupSchema, DraftSql, ValidateSql, ReviewPlan
<1>4. ASSUME NEW x, x.session = run[c].session,
             x.requirement = run[c].requirement, run' = [run EXCEPT ![c] = x]
      PROVE  /\ run'[c].session = run[c].session /\ run'[c].requirement = run[c].requirement
             /\ \A d \in Calls : d # c => run'[d] = run[d]
  BY <1>4 DEF IInv, TypeOK
<1>5. ASSUME NEW p \in Plans PROVE
        /\ [run[c] EXCEPT !.plan = p].session = run[c].session
        /\ [run[c] EXCEPT !.plan = p].requirement = run[c].requirement
  BY <1>2 DEF RunState
<1>6. ASSUME NEW v \in {"accept", "revise", "reject"} PROVE
        /\ [run[c] EXCEPT !.verdict = v].session = run[c].session
        /\ [run[c] EXCEPT !.verdict = v].requirement = run[c].requirement
  BY <1>2 DEF RunState
<1> QED
  BY <1>2, <1>3, <1>4, <1>5, <1>6

\* A node grants nothing, and drafts what its run was approved for.
LEMMA NodePerforms ==
  ASSUME IInv, ApprovedInv, NEW c \in Calls, RunStep(c)
  PROVE  /\ approved' = approved
         /\ \/ Performed' = Performed
            \/ \E s \in Sessions, r \in Requirements :
                 <<s, r>> \in approved /\ Performed' = Performed \cup {<<s, r, c>>}
<1>1. approved' = approved
  BY DEF RunStep, PlanRequirement, LookupSchema, DraftSql, ValidateSql, ReviewPlan
<1>2. run[c] \in RunState /\ run[c] # None
  BY NodeKeepsRun, NoneIsNoRun
<1>3. <<run[c].session, run[c].requirement>> \in approved
  BY <1>2 DEF ApprovedInv, Covered
<1>4. run[c].session \in Sessions /\ run[c].requirement \in Requirements
  BY <1>2 DEF RunState
<1>5. CASE drafted' = drafted
  BY <1>1, <1>5 DEF Performed
<1>6. CASE drafted' # drafted
  <2> DEFINE e == [call |-> c, session |-> run[c].session, at |-> run[c].at,
                   requirement |-> run[c].requirement]
  <2>1. drafted' = drafted \cup {e}
    BY <1>6 DEF RunStep, PlanRequirement, LookupSchema, DraftSql, ValidateSql, ReviewPlan,
       DraftedFrom
  <2>2. e.call = c /\ e.session = run[c].session /\ e.requirement = run[c].requirement
    OBVIOUS
  <2> HIDE DEF e
  <2>3. Performed' = Performed \cup {<<run[c].session, run[c].requirement, c>>}
    BY <2>1, <2>2 DEF Performed
  <2> QED
    BY <1>1, <1>3, <1>4, <2>3
<1> QED
  BY <1>5, <1>6

\* Every step keeps the runs approved.
LEMMA ApprovedStep ==
  ASSUME IInv, ApprovedInv, [Next]_vars PROVE ApprovedInv'
<1>1. ASSUME NEW c \in Calls, RunStep(c) PROVE ApprovedInv'
  <2>1. run[c] # None /\ approved \subseteq approved'
    BY <1>1, NodeKeepsRun, NoneIsNoRun, ApprovedGrows
  <2> QED
    BY <1>1, <2>1, NodeKeepsRun DEF ApprovedInv, Covered
<1>2. CASE run' = run
  BY <1>2, ApprovedGrows DEF ApprovedInv, Covered
<1>3. run' = run \/ (\E c \in Calls : RunStep(c))
      \/ (\E c \in Calls, s \in Sessions, card \in cards \cup {None}, d \in Decisions :
            Decide(c, s, card, d))
  BY DEF Next, Query, Reload, Crash, vars
<1> QED
  BY <1>1, <1>2, <1>3, ApproveCovers

\* What a decision grants is what it met as pending, or nothing.
LEMMA DecideGrants ==
  ASSUME IInv, NEW c \in Calls, NEW s \in Sessions, NEW card, NEW d, Decide(c, s, card, d)
  PROVE  /\ drafted' = drafted /\ crashes' = crashes
         /\ \/ approved' = approved
            \/ \E r \in Requirements : approved' = approved \cup {<<s, r>>}
<1>1. drafted' = drafted /\ crashes' = crashes
  BY DEF Decide, ResumeUnknown, ResumeReject, ResumeModify, ResumeApprove
<1>2. store[s] # None => store[s].requirement \in Requirements
  BY DEF IInv, TypeOK, Stored
<1>3. Granting(s, d) = {} \/ \E r \in Requirements : Granting(s, d) = {<<s, r>>}
  BY <1>2 DEF Granting
<1> QED
  BY <1>1, <1>3 DEF Decide

\* The plan approval implements the human gate: no SQL is drafted for a
\* requirement before "approve" came in for its session while it was pending
\* there; other decisions grant nothing and start nothing, and no later decision,
\* preparation or crash gives a run another requirement (pipeline.py:630-642).
THEOREM Refinement == Spec => ImplementsGate
<1> USE DEF Gate!Grant, Gate!Perform, Gate!GateCrash, Gate!HGNext, Gate!hgVars
<1>1. Init => Gate!HGInit /\ ApprovedInv
  BY DEF Init, Gate!HGInit, ApprovedInv
<1>2. IInv /\ ApprovedInv /\ [Next]_vars => ApprovedInv'
  BY ApprovedStep
<1>3. ASSUME IInv, ApprovedInv, [Next]_vars
      PROVE  [Gate!HGNext]_(Gate!hgVars)
  <2>1. ASSUME NEW c \in Calls, RunStep(c)
        PROVE  [Gate!HGNext]_(Gate!hgVars)
    <3>1. approved' = approved /\ UNCHANGED (crashes = 0)
      BY <1>3, <2>1, NodePerforms
         DEF RunStep, PlanRequirement, LookupSchema, DraftSql, ValidateSql, ReviewPlan
    <3>2. CASE Performed' = Performed
      BY <3>1, <3>2 DEF Performed
    <3>3. ASSUME NEW s \in Sessions, NEW r \in Requirements, <<s, r>> \in approved,
                 Performed' = Performed \cup {<<s, r, c>>}
          PROVE  Gate!HGNext
      <4>1. Gate!Perform(s, r, c)
        BY <3>1, <3>3 DEF Performed
      <4> QED
        BY <4>1
    <3> QED
      BY <1>3, <2>1, <3>2, <3>3, NodePerforms
  <2>2. ASSUME NEW c \in Calls, NEW s \in Sessions, NEW card \in cards \cup {None},
               NEW d \in Decisions, Decide(c, s, card, d)
        PROVE  [Gate!HGNext]_(Gate!hgVars)
    <3>1. UNCHANGED <<drafted, crashes>>
      BY <1>3, <2>2, DecideGrants
    <3>2. CASE approved' = approved
      BY <3>1, <3>2
    <3>3. ASSUME NEW r \in Requirements, approved' = approved \cup {<<s, r>>}
          PROVE  Gate!HGNext
      <4>1. Gate!Grant(s, r)
        BY <3>1, <3>3
      <4> QED
        BY <4>1
    <3> QED
      BY <1>3, <2>2, <3>2, <3>3, DecideGrants
  <2>3. CASE UNCHANGED <<approved, drafted, crashes>>
    BY <2>3
  <2>4. CASE Crash
    <3>1. UNCHANGED <<approved, drafted>>
      BY <2>4 DEF Crash
    <3>2. ~(crashes' = 0)
      BY <1>3, <2>4, BoundsOK DEF IInv, TypeOK, Crash
    <3>3. Gate!GateCrash
      BY <3>1, <3>2
    <3> QED
      BY <3>3
  <2>5. ASSUME NEW t \in Tabs, Reload(t) \/ \E r \in Requirements : Query(t, r)
        PROVE  UNCHANGED <<approved, drafted, crashes>>
    BY <2>5 DEF Reload, Query
  <2>6. CASE UNCHANGED vars
    BY <2>3, <2>6 DEF vars
  <2> QED
    BY <1>3, <2>1, <2>2, <2>3, <2>4, <2>5, <2>6 DEF Next
<1> QED
  BY <1>1, <1>2, <1>3, Invariance, PTL DEF Spec, ImplementsGate, Gate!HGSpec
=============================================================================
