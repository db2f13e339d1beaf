---------------------------- MODULE PlanApproval ---------------------------
(***************************************************************************)
(* SQL generation behind a plan a person approves: the tool                *)
(* generate_sql_draft of POST /query stores a pending plan for a session   *)
(* (prepare_business_requirement), POST /plans/{session_id}/approve acts   *)
(* on it (resume_business_requirement) and runs the five-node query        *)
(* planner graph of src/src/plan_execute.py.                               *)
(*                                                                         *)
(* Handlers are coroutines on one event loop.  Up to its first real await  *)
(* a handler is one atomic step: prepare, and resume up to the graph run.  *)
(* The graph's plain nodes run in executor threads and its coroutine node  *)
(* awaits, so two runs, and a run and any handler, interleave node by      *)
(* node.  Sessions are rows of checkpoints.sqlite and survive a crash;     *)
(* runs do not.                                                            *)
(*                                                                         *)
(* The browser (src/static/index.html) keeps one session id per page and   *)
(* shows a card per awaiting plan; its buttons send only the session id.   *)
(***************************************************************************)
EXTENDS Naturals, Sequences, FiniteSets

CONSTANTS
  Sessions,      \* session ids
  Tabs,          \* open pages of the client
  Calls,         \* calls of /plans/{session_id}/approve, each used once
  Requirements,  \* business requirements, stripped and masked
  Plans,         \* lists of plan steps (the model's, or the fallback list)
  None,          \* absence of a value
  Blank,         \* a requirement that is empty once stripped
  MaxPrepared,   \* bound on the plans prepared per session
  MaxCrashes     \* bound on process crashes

ASSUME BoundsOK == MaxPrepared \in Nat /\ MaxCrashes \in Nat
ASSUME NoneIsNew ==
  /\ None \notin Sessions \cup Requirements \cup Plans
  /\ Blank \notin Requirements \cup {None}

Decisions == {"approve", "modify", "reject", "other"}
Statuses == {"awaiting_plan_approval", "approved", "rejected"}
Stored == [requirement : Requirements, plan : Plans, status : Statuses]
Card == [session : Sessions, requirement : Requirements, plan : Plans]
Active == {"plan_requirement", "lookup_schema", "draft_sql", "validate_sql",
           "review_plan"}
Outcomes == {"no_answer", "rejected", "awaiting", "ok", "error", "lost"}

\* A run of the query planner graph: the session, card and requirement it was
\* approved for, which of the session's plans that was, and what it produced.
RunState == [session : Sessions, card : Card \cup {None},
             requirement : Requirements, at : Nat,
             shown : Plans, plan : Plans \cup {None},
             verdict : {"none", "accept", "revise", "reject"}]

ASSUME NoneIsNoRun == None \notin RunState

VARIABLES
  store,     \* [Sessions -> Stored or None]: the plan_approval checkpoints
  tab,       \* [Tabs -> Sessions or None]: the page's global sessionId
  cards,     \* cards shown by any page so far
  prepared,  \* history: the requirements prepared for each session, in order
  last,      \* history: the last decision or preparation on each session
  pc,        \* [Calls -> ...]: the node a call's run is at, or its outcome
  run,       \* [Calls -> RunState or None]
  approved,  \* history: <<session, requirement>>, the requirements that were
             \* pending on a session when "approve" came in for it
  drafted,   \* history: the SQL drafts made
  explained, \* history: the calls that sent EXPLAIN PLAN to the database
  crashes

vars == <<store, tab, cards, prepared, last, pc, run, approved, drafted,
          explained, crashes>>

Init ==
  /\ store = [s \in Sessions |-> None]
  /\ tab = [t \in Tabs |-> None]
  /\ cards = {}
  /\ prepared = [s \in Sessions |-> <<>>]
  /\ last = [s \in Sessions |-> "none"]
  /\ pc = [c \in Calls |-> "idle"]
  /\ run = [c \in Calls |-> None]
  /\ approved = {}
  /\ drafted = {}
  /\ explained = {}
  /\ crashes = 0

-----------------------------------------------------------------------------
(* Preparing a plan                                                        *)

\* prepare_business_requirement for a requirement that is not blank: plan it
\* (the model's steps, or the fallback when the model fails) and overwrite the
\* session's checkpoint.
Prepare(s, r, p) ==
  /\ Len(prepared[s]) < MaxPrepared
  /\ store' = [store EXCEPT ![s] =
       [requirement |-> r, plan |-> p, status |-> "awaiting_plan_approval"]]
  /\ prepared' = [prepared EXCEPT ![s] = Append(@, r)]
  /\ last' = [last EXCEPT ![s] = "awaiting_plan_approval"]

\* POST /query from a page, routed to generate_sql_draft: the page's session or
\* a new one.  The answer shows a card and gives the page its session id, or
\* is lost (a later model call fails, the connection breaks).
Query(t, r) ==
  \E s \in Sessions, p \in Plans :
    /\ IF tab[t] = None THEN store[s] = None ELSE s = tab[t]
    /\ Prepare(s, r, p)
    /\ \/ /\ cards' = cards \cup {[session |-> s, requirement |-> r, plan |-> p]}
          /\ tab' = [tab EXCEPT ![t] = s]
       \/ UNCHANGED <<cards, tab>>
    /\ UNCHANGED <<pc, run, approved, drafted, explained, crashes>>

\* Reloading the page forgets its session id.
Reload(t) ==
  /\ tab[t] # None
  /\ tab' = [tab EXCEPT ![t] = None]
  /\ UNCHANGED <<store, cards, prepared, last, pc, run, approved, drafted,
                 explained, crashes>>

-----------------------------------------------------------------------------
(* resume_business_requirement                                             *)

\* What an approver grants by sending decision d for session s.
Granting(s, d) ==
  IF d = "approve" /\ store[s] # None THEN {<<s, store[s].requirement>>} ELSE {}

\* No checkpoint, or a decision string that is none of the three: no_answer,
\* nothing is written.
ResumeUnknown(c, s, d) ==
  /\ store[s] = None \/ d \notin {"approve", "modify", "reject"}
  /\ pc' = [pc EXCEPT ![c] = "no_answer"]
  /\ UNCHANGED <<store, tab, cards, prepared, last, run, drafted,
                 explained, crashes>>

ResumeReject(c, s, d) ==
  /\ store[s] # None /\ d = "reject"
  /\ store' = [store EXCEPT ![s].status = "rejected"]
  /\ last' = [last EXCEPT ![s] = "rejected"]
  /\ pc' = [pc EXCEPT ![c] = "rejected"]
  /\ UNCHANGED <<tab, cards, prepared, run, drafted, explained, crashes>>

IsBlank_unchecked(new) == FALSE

\* prepare_business_requirement refuses a requirement that is blank.
IsBlank(new) == new = Blank

\* modify plans again, the new requirement or the pending one when none is
\* given, and waits for approval again; a blank requirement is refused before
\* anything is written.
ResumeModify(c, s, d, new) ==
  /\ store[s] # None /\ d = "modify"
  /\ \/ /\ IsBlank(new)
        /\ pc' = [pc EXCEPT ![c] = "no_answer"]
        /\ UNCHANGED <<store, cards, prepared, last>>
     \/ /\ ~IsBlank(new)
        /\ LET r == IF new = None THEN store[s].requirement ELSE new IN
             \E p \in Plans :
               /\ Prepare(s, r, p)
               /\ cards' = cards \cup {[session |-> s, requirement |-> r, plan |-> p]}
        /\ pc' = [pc EXCEPT ![c] = "awaiting"]
  /\ UNCHANGED <<tab, run, drafted, explained, crashes>>

Approves_other(d) == d \notin {"modify", "reject"}

\* The one decision that goes on to the run.
Approves(d) == d = "approve"

\* approve: the status is saved first, then the graph is awaited with the
\* requirement loaded at the start.
ResumeApprove(c, s, card, d) ==
  /\ store[s] # None /\ Approves(d)
  /\ store' = [store EXCEPT ![s].status = "approved"]
  /\ last' = [last EXCEPT ![s] = "approved"]
  /\ run' = [run EXCEPT ![c] =
       [session |-> s, card |-> card, requirement |-> store[s].requirement,
        at |-> Len(prepared[s]), shown |-> store[s].plan,
        plan |-> None, verdict |-> "none"]]
  /\ pc' = [pc EXCEPT ![c] = "plan_requirement"]
  /\ UNCHANGED <<tab, cards, prepared, drafted, explained, crashes>>

\* Decision d arrives for session s: a click on a card of that session, or a
\* call of the API without one.  It is acted on in the same step.
Decide(c, s, card, d) ==
  /\ pc[c] = "idle"
  /\ card # None => card.session = s
  /\ approved' = approved \cup Granting(s, d)
  /\ \/ ResumeUnknown(c, s, d)
     \/ ResumeReject(c, s, d)
     \/ \E new \in Requirements \cup {None, Blank} : ResumeModify(c, s, d, new)
     \/ ResumeApprove(c, s, card, d)

-----------------------------------------------------------------------------
(* The query planner graph, one node per step                              *)

\* plan_requirement: the graph plans once more; a failing model call is
\* replaced by the fallback list.
PlanRequirement(c) ==
  /\ pc[c] = "plan_requirement"
  /\ \E p \in Plans : run' = [run EXCEPT ![c].plan = p]
  /\ pc' = [pc EXCEPT ![c] = "lookup_schema"]
  /\ UNCHANGED <<store, tab, cards, prepared, last, approved, drafted,
                 explained, crashes>>

\* lookup_schema: a failing lookup only changes the text of schema_info.
LookupSchema(c) ==
  /\ pc[c] = "lookup_schema"
  /\ pc' = [pc EXCEPT ![c] = "draft_sql"]
  /\ UNCHANGED <<store, tab, cards, prepared, last, run, approved, drafted,
                 explained, crashes>>

DraftedFrom_store(c) == store[run[c].session].requirement

\* The requirement the draft is made from: the graph's own state.
DraftedFrom(c) == run[c].requirement

\* draft_sql: the model writes a SELECT, or its call raises and the run ends
\* with status error.
DraftSql(c) ==
  /\ pc[c] = "draft_sql"
  /\ \/ /\ drafted' = drafted \cup
              {[call |-> c, session |-> run[c].session, at |-> run[c].at,
                requirement |-> DraftedFrom(c)]}
        /\ pc' = [pc EXCEPT ![c] = "validate_sql"]
     \/ /\ pc' = [pc EXCEPT ![c] = "error"]
        /\ UNCHANGED drafted
  /\ UNCHANGED <<store, tab, cards, prepared, last, run, approved,
                 explained, crashes>>

\* validate_sql: review_sql's verdict, or its model call raises.
ValidateSql(c) ==
  /\ pc[c] = "validate_sql"
  /\ \/ /\ \E v \in {"accept", "revise", "reject"} :
              run' = [run EXCEPT ![c].verdict = v]
        /\ pc' = [pc EXCEPT ![c] = "review_plan"]
     \/ /\ pc' = [pc EXCEPT ![c] = "error"]
        /\ UNCHANGED run
  /\ UNCHANGED <<store, tab, cards, prepared, last, approved, drafted,
                 explained, crashes>>

ReviewPlan_saves(c) ==
  /\ pc[c] = "review_plan"
  /\ store' = [store EXCEPT ![run[c].session] =
       [requirement |-> run[c].requirement, plan |-> run[c].shown,
        status |-> "approved"]]
  /\ pc' = [pc EXCEPT ![c] = "ok"]
  /\ UNCHANGED <<tab, cards, prepared, last, run, approved, drafted,
                 explained, crashes>>

ReviewPlan_always_explains(c) ==
  /\ pc[c] = "review_plan"
  /\ \E sent \in {{}, {c}} : explained' = explained \cup sent
  /\ pc' = [pc EXCEPT ![c] = "ok"]
  /\ UNCHANGED <<store, tab, cards, prepared, last, run, approved, drafted,
                 crashes>>

\* review_plan: a draft the validator rejected is not explained.  Otherwise
\* EXPLAIN PLAN is sent when the database is configured (a failure falls back
\* to the mock plan) and the diagnosis is attached, its failure ignored.
ReviewPlan(c) ==
  /\ pc[c] = "review_plan"
  /\ \/ /\ run[c].verdict = "reject"
        /\ UNCHANGED explained
     \/ /\ run[c].verdict # "reject"
        /\ \E sent \in {{}, {c}} : explained' = explained \cup sent
  /\ pc' = [pc EXCEPT ![c] = "ok"]
  /\ UNCHANGED <<store, tab, cards, prepared, last, run, approved, drafted,
                 crashes>>

\* The process dies and is restarted: runs are gone, sessions are not.
Crash ==
  /\ crashes < MaxCrashes
  /\ \E c \in Calls : pc[c] \in Active
  /\ pc' = [c \in Calls |-> IF pc[c] \in Active THEN "lost" ELSE pc[c]]
  /\ crashes' = crashes + 1
  /\ UNCHANGED <<store, tab, cards, prepared, last, run, approved, drafted,
                 explained>>

RunStep(c) ==
  \/ PlanRequirement(c) \/ LookupSchema(c) \/ DraftSql(c)
  \/ ValidateSql(c) \/ ReviewPlan(c)

Next ==
  \/ \E t \in Tabs : Reload(t) \/ \E r \in Requirements : Query(t, r)
  \/ \E c \in Calls, s \in Sessions, card \in cards \cup {None}, d \in Decisions :
       Decide(c, s, card, d)
  \/ \E c \in Calls : RunStep(c)
  \/ Crash

Spec == Init /\ [][Next]_vars

-----------------------------------------------------------------------------
(* Properties                                                              *)

\* All state stays within its types.
TypeOK ==
  /\ store \in [Sessions -> Stored \cup {None}]
  /\ tab \in [Tabs -> Sessions \cup {None}]
  /\ cards \subseteq Card
  /\ prepared \in [Sessions -> Seq(Requirements)]
  /\ last \in [Sessions -> Statuses \cup {"none"}]
  /\ pc \in [Calls -> {"idle"} \cup Active \cup Outcomes]
  /\ run \in [Calls -> RunState \cup {None}]
  /\ approved \subseteq Sessions \X Requirements
  /\ drafted \subseteq [call : Calls, session : Sessions, at : Nat,
                        requirement : Requirements]
  /\ explained \subseteq Calls
  /\ crashes \in 0..MaxCrashes

\* The plan approval as a human gate: what is granted is known from the
\* decisions alone, whatever was begun on them; a draft is the work.
Gate == INSTANCE HumanGate WITH
  Jobs <- Sessions, Works <- Requirements, Workers <- Calls, Once <- FALSE,
  granted <- approved,
  performed <- {<<d.session, d.requirement, d.call>> : d \in drafted},
  steady <- crashes = 0

\* No SQL is drafted for a requirement before "approve" came in for its session
\* while it was the pending one: a reject, a modify, any other word or a session
\* without a plan starts nothing, and a session that is modified or planned anew
\* meanwhile gives the run no other requirement (pipeline.py:630-642).
ImplementsGate == Gate!HGSpec

\* A session's checkpoint is what the last preparation or decision left there:
\* no run that is under way, and no crash, puts an older requirement or status
\* back over a newer one (pipeline.py:612, 634, 641).
StoreIsCurrent ==
  \A s \in Sessions :
    IF prepared[s] = <<>> THEN store[s] = None
    ELSE /\ store[s].requirement = prepared[s][Len(prepared[s])]
         /\ store[s].status = last[s]

\* A draft the validator rejected never reaches the database, not even as
\* EXPLAIN PLAN (plan_execute.py:278-285).
RejectedDraftNotExplained ==
  \A c \in explained : run[c].verdict \in {"accept", "revise"}

\* pipeline.py:594-595 says that only the approved plan is executed: a run
\* started from a card would be for the requirement the card shows.
OnlyApprovedCardRuns ==
  \A c \in Calls : run[c] # None /\ run[c].card # None =>
    run[c].card.requirement = run[c].requirement
=============================================================================
