----------------------------- MODULE QueryGate -----------------------------
(***************************************************************************)
(* POST /query without a protected tool: the routing of src/src/api.py,    *)
(* the guards of run_query (src/src/pipeline.py), the risk gate of         *)
(* src/src/plan_risk.py on the plan of a statement a user pasted, and the  *)
(* limited execution behind it.                                            *)
(*                                                                         *)
(* The handler runs on the event loop and calls the database and the guard *)
(* model synchronously, so it holds the loop up to its first await (the    *)
(* diagnosis graph or the supervisor, whose conversation is in Agents).    *)
(* The database does not wait: its optimizer may choose another plan       *)
(* between two calls.  A call of SQLcl MCP raises, or answers; a statement *)
(* the database refuses is an answer too, in words (tools.py:356-359).     *)
(***************************************************************************)
EXTENDS Integers, FiniteSets, FiniteSetsExt, Functions, Agents

CONSTANTS
  Requests,    \* calls of the endpoint, each used once
  Process,     \* [Requests -> processes that run the application]
  Questions,   \* a subset of Question
  Plans,       \* the plans of the database: sets of members of PlanLine
  Vast,        \* stands for every quantity of 10,000,000,000 or more
  MaxChanges,  \* bound on how often the optimizer changes its plan
  MaxRounds,   \* bound on the rounds of a conversation with the agents
  Nobody       \* no request holds the event loop

\* A question is told apart by what the guards look at: its length; the word it
\* begins with (SELECT or WITH, another SQL verb, or none); the word UPDATE or
\* DELETE anywhere; a semicolon inside; a pattern of the injection rules; a name
\* of the catalog; and whether the database refuses the statement.
Question == [size : {"empty", "short", "fits", "long"}, lead : {"select", "verb", "none"},
             changes : BOOLEAN, chained : BOOLEAN, injected : BOOLEAN,
             catalog : BOOLEAN, refused : BOOLEAN]

\* One line of an execution plan, with the quantities the optimizer has in mind.
Quantity == {v \in Nat : v \div 1000000 < 10000} \cup {Vast}
PlanLine == [op : {"index", "full", "cartesian"},
             rows : Quantity, bytes : Quantity, cost : Quantity]

ASSUME QueryConstantsOK ==
  /\ Questions \subseteq Question
  /\ Process \in [Requests -> Range(Process)]
  /\ \A p \in Plans : p \subseteq PlanLine /\ IsFiniteSet(p)
  /\ Vast \notin Nat /\ MaxChanges \in Nat /\ MaxRounds \in Nat /\ Nobody \notin Requests

-----------------------------------------------------------------------------
(* Texts of plans and what is read from them                               *)

\* A text of a plan: the table DBMS_XPLAN prints, the statistics of a cursor (no
\* cost column; its columns of memory are left out), the mock (as which the
\* catalog's fallback texts count too), or words without a plan.
Table(p) == [kind |-> "table", lines |-> p]
Stats(p) == [kind |-> "stats", lines |-> p]
MockText == [kind |-> "mock", lines |-> {}]
NoPlanText == [kind |-> "words", lines |-> {}]
Texts == {Table(p) : p \in Plans} \cup {Stats(p) : p \in Plans} \cup {MockText, NoPlanText}

\* DBMS_XPLAN prints five characters: from 100,000 on in thousands, from
\* 10,000,000 on in millions, and a vast quantity with G or a larger unit.
Cell(v) ==
  IF v = Vast THEN [n |-> 0, unit |-> "larger"]
  ELSE IF v < 100000 THEN [n |-> v, unit |-> "plain"]
  ELSE IF v < 10000000 THEN [n |-> v \div 1000, unit |-> "K"]
  ELSE [n |-> v \div 1000000, unit |-> "M"]

CostThreshold == 10000
RowsThreshold == 1000000

MockNumbers_costly == [cost |-> 100000, rows |-> 1000]

\* The mock plan reads TABLE ACCESS FULL, Cost=100, Rows=1000.
MockNumbers == [cost |-> 100, rows |-> 1000]

\* Costs are plain digits followed by the share of CPU in parentheses; a cost
\* with a suffix is not matched.
Costs(t) ==
  IF t.kind = "mock" THEN {MockNumbers.cost}
  ELSE IF t.kind = "table" THEN {l.cost : l \in {k \in t.lines : Cell(k.cost).unit = "plain"}}
  ELSE {}

Scaled_plain(c) == c.n

Scaled(c) == c.n * (IF c.unit = "K" THEN 1000 ELSE 1000000)

\* Every number with a K or M counts as rows, whichever column it stands in; a
\* plain number of the rows column is not matched, nor is one with a larger unit.
Rows(t) ==
  IF t.kind = "mock" THEN {MockNumbers.rows}
  ELSE LET cells == {Cell(l.rows) : l \in t.lines} \cup {Cell(l.bytes) : l \in t.lines} \cup
                    (IF t.kind = "table" THEN {Cell(l.cost) : l \in t.lines} ELSE {})
       IN {Scaled(c) : c \in {d \in cells : d.unit \in {"K", "M"}}}

\* extract_cost_and_rows: the largest of each, 0 without a match.
Extract(t) == [cost |-> Max({0} \cup Costs(t)), rows |-> Max({0} \cup Rows(t))]

Exceeds(x) == x.cost > CostThreshold \/ x.rows > RowsThreshold

Has(t, op) == \E l \in t.lines : l.op = op

RiskLevel_unknown(t) ==
  IF Has(t, "cartesian") \/ Exceeds(Extract(t)) THEN "HIGH"
  ELSE IF t.kind = "mock" \/ Has(t, "full") THEN "MEDIUM"
  ELSE IF Has(t, "index") THEN "LOW" ELSE "UNKNOWN"

\* _rule_based_risk; the callers give assess_risk no model.
RiskLevel(t) ==
  IF Has(t, "cartesian") \/ Exceeds(Extract(t)) THEN "HIGH"
  ELSE IF t.kind = "mock" \/ Has(t, "full") THEN "MEDIUM"
  ELSE "LOW"

AllowExecution(t) == RiskLevel(t) # "HIGH"

-----------------------------------------------------------------------------
(* Guards                                                                  *)

LooksLikeSql(q) == q.lead # "none"

IsSafeSelect_first(q) == q.lead = "select"

\* A single statement that begins with SELECT or WITH.
IsSafeSelect(q) == q.lead = "select" /\ ~q.chained

BlockMutating(q) == q.changes

VARIABLES
  plan,      \* the plan the database would choose for the pasted statement
  changes,   \* number of changes of plan so far
  loop,      \* [processes -> the request that holds the event loop, or Nobody]
  pc,        \* [Requests -> step]
  req,       \* [Requests -> question and token, or NoReq]
  text,      \* [Requests -> text of the plan the handler has, or NoText]
  risk,      \* [Requests -> verdict of the gate, or "none"]
  baseline,  \* [keys of statements -> [cost, rows, text] or NoBaseline]
  sent,      \* history: [Requests -> what the handler sent to the database, and
             \* "agents" if agents with SQLcl tools of their own worked on it]
  ran,       \* history: [Requests -> plans the handler had its statement run with]
  reply      \* [Requests -> response or NoReply]

vars == <<plan, changes, loop, pc, req, text, risk, baseline, sent, ran, reply>>

NoReq == [token |-> "none"]
NoText == [kind |-> "none", lines |-> {}]
NoBaseline == [text |-> NoText]
NoReply == [status |-> "none"]

\* The statement a request is about: its own, or the catalog's.
KeyOf(q) == IF LooksLikeSql(q) THEN <<"user", q>> ELSE <<"catalog">>
Keys == {KeyOf(q) : q \in Questions}

Init ==
  /\ plan \in Plans /\ changes = 0
  /\ loop = [p \in Range(Process) |-> Nobody]
  /\ pc = [r \in Requests |-> "idle"]
  /\ req = [r \in Requests |-> NoReq]
  /\ text = [r \in Requests |-> NoText]
  /\ risk = [r \in Requests |-> "none"]
  /\ baseline = [k \in Keys |-> NoBaseline]
  /\ sent = [r \in Requests |-> {}]
  /\ ran = [r \in Requests |-> {}]
  /\ reply = [r \in Requests |-> NoReply]

\* Statistics are gathered or data grows: the optimizer decides anew.
ChangePlan ==
  /\ changes < MaxChanges
  /\ \E p \in Plans \ {plan} : plan' = p
  /\ changes' = changes + 1
  /\ UNCHANGED <<loop, pc, req, text, risk, baseline, sent, ran, reply>>

Free(r) == loop[Process[r]] = Nobody
HandTo(r, holder) == loop' = [loop EXCEPT ![Process[r]] = holder]

Goto(r, step) == pc' = [pc EXCEPT ![r] = step]

Respond(r, response) ==
  /\ reply' = [reply EXCEPT ![r] = response]
  /\ Goto(r, "done")

ToSupervisor_any_sql(q, token) == token # "missing" /\ q.size = "fits"

\* The endpoint: a request with a token whose question can be judged and is not
\* changing SQL goes to the supervisor at once, every other to run_query.
ToSupervisor(q, token) ==
  /\ token # "missing" /\ q.size = "fits"
  /\ ~(LooksLikeSql(q) /\ ~IsSafeSelect(q))

\* input_guard: the rules, then a model; when the model fails the rules decide.
Guarded(q) == IF q.injected THEN {"blocked"} ELSE {"blocked", "passed"}

Refuse(r, status) == Respond(r, [status |-> status]) /\ UNCHANGED loop

Enter(r, step) == Goto(r, step) /\ HandTo(r, r) /\ UNCHANGED reply

\* run_query up to the first call of the database, which it makes on the loop.
RunQuery(r, q) ==
  \/ q.size # "fits" /\ Refuse(r, "no_answer")
  \/ /\ q.size = "fits" /\ LooksLikeSql(q)
     /\ IF BlockMutating(q) \/ ~IsSafeSelect(q) THEN Refuse(r, "blocked") ELSE Enter(r, "explain")
  \/ /\ q.size = "fits" /\ ~LooksLikeSql(q)
     /\ \E verdict \in Guarded(q) :
          IF verdict = "blocked" THEN Refuse(r, "blocked") ELSE Enter(r, "lookup")

\* The endpoint.
Receive(r, q, token) ==
  /\ pc[r] = "idle" /\ Free(r)
  /\ req' = [req EXCEPT ![r] = [q |-> q, token |-> token]]
  /\ IF ToSupervisor(q, token)
     THEN Goto(r, "supervisor") /\ UNCHANGED <<loop, reply>>
     ELSE RunQuery(r, q)
  /\ UNCHANGED <<plan, changes, text, risk, baseline, sent, ran>>

\* db_tool: no match leads to the supervisor; otherwise the plan of the catalog's
\* statement, or its fallback text when the call raises.  The statement is the
\* catalog's own and is not assessed.
Lookup(r) ==
  /\ pc[r] = "lookup"
  /\ HandTo(r, Nobody)
  /\ \/ /\ ~req[r].q.catalog
        /\ Goto(r, "supervisor")
        /\ UNCHANGED <<text, sent>>
     \/ /\ req[r].q.catalog
        /\ Goto(r, "diagnose")
        /\ \E t \in {Table(plan), MockText} : text' = [text EXCEPT ![r] = t]
        /\ sent' = [sent EXCEPT ![r] = @ \cup {"catalog"}]
  /\ UNCHANGED <<plan, changes, req, risk, baseline, ran, reply>>

\* get_user_sql_explain_plan: the table, the mock when the call raises, or words
\* when the database refuses the statement.
Fetched(q) == {MockText, IF q.refused THEN NoPlanText ELSE Table(plan)}

\* The plan is fetched and assessed; a high risk skips the execution.
Explain(r) ==
  /\ pc[r] = "explain"
  /\ \E t \in Fetched(req[r].q) :
       /\ text' = [text EXCEPT ![r] = t]
       /\ risk' = [risk EXCEPT ![r] = RiskLevel(t)]
       /\ IF AllowExecution(t)
          THEN Goto(r, "run") /\ UNCHANGED loop
          ELSE Goto(r, "diagnose") /\ HandTo(r, Nobody)
  /\ sent' = [sent EXCEPT ![r] = @ \cup {"explain"}]
  /\ UNCHANGED <<plan, changes, req, baseline, ran, reply>>

\* run_user_sql raises: not configured, no SQLcl, a timeout or a lost session.
\* The statement may have been run before that.
RunFails(r) ==
  /\ Respond(r, [status |-> "error"])
  /\ sent' = [sent EXCEPT ![r] = @ \cup {"run"}]
  /\ \/ UNCHANGED ran
     \/ ~req[r].q.refused /\ ran' = [ran EXCEPT ![r] = {plan}]
  /\ UNCHANGED text

\* run_user_sql: the statement is run with the plan of this moment and its
\* statistics are read; a refusal is not noticed.
RunStatement(r) ==
  /\ pc[r] = "run"
  /\ HandTo(r, Nobody)
  /\ \/ RunFails(r)
     \/ /\ text' = [text EXCEPT ![r] = IF req[r].q.refused THEN NoPlanText ELSE Stats(plan)]
        /\ ran' = [ran EXCEPT ![r] = IF req[r].q.refused THEN {} ELSE {plan}]
        /\ sent' = [sent EXCEPT ![r] = @ \cup {"run"}]
        /\ Goto(r, "diagnose")
        /\ UNCHANGED reply
  /\ UNCHANGED <<plan, changes, req, risk, baseline>>

\* execution_mode of the response: which branch of the gate was taken.
ExecutionMode(r) ==
  IF ~LooksLikeSql(req[r].q) THEN "none"
  ELSE IF risk[r] = "HIGH" THEN "explain_only" ELSE "actual_stats"

\* _save_diagnosis_memory: the row of the statement is replaced, or the store
\* fails and the failure is swallowed.
SaveBaseline(r) ==
  \/ UNCHANGED baseline
  \/ baseline' = [baseline EXCEPT ![KeyOf(req[r].q)] =
       [cost |-> Extract(text[r]).cost, rows |-> Extract(text[r]).rows, text |-> text[r]]]

\* The explain agent, of the supervisor and of the one in the diagnosis graph, is
\* given the SQLcl tools as they are: it may send any statement.
WithAgents(r) == sent' = [sent EXCEPT ![r] = @ \cup {"agents"}]

\* The awaited diagnosis graph ends: its analysis becomes the baseline and the
\* answer, its exception an error.
Diagnose(r) ==
  /\ pc[r] = "diagnose" /\ Free(r)
  /\ \/ Respond(r, [status |-> "error"]) /\ UNCHANGED baseline
     \/ /\ SaveBaseline(r)
        /\ Respond(r, [status |-> "ok", mode |-> ExecutionMode(r), risk |-> risk[r],
                       basis |-> text[r]])
  /\ WithAgents(r)
  /\ UNCHANGED <<plan, changes, loop, req, text, risk, ran>>

\* The answer of a run that did no protected work: the last words of its
\* conversation.
Outcome(talk) ==
  LET messages == Messages(talk) IN
  [status |-> "ok", mode |-> "knowledge", answer |-> LastText(messages),
   contexts |-> Contexts(messages), said |-> LastWords(talk)]
Outcomes == {Outcome(talk) : talk \in Talks(MaxRounds)}

\* How the protected tools can end a run (Assist has their work): refused, with
\* a plan to approve, a reviewed statement, or a list of candidates, of which
\* one has an id or none has.
ProtectedReplies ==
  [status : {"refused", "error", "blocked", "no_answer"}]
    \cup [status : {"awaiting_plan_approval"}, mode : {"business_requirement"}]
    \cup [status : {"ok"}, mode : {"sql_validation"}]
    \cup [status : {"ok"}, mode : {"candidate_search"}, named : BOOLEAN]

\* A run without a token has no id to store a result under.
Supervised(r) ==
  {[status |-> "error"]} \cup Outcomes
    \cup (IF req[r].token = "missing" THEN {} ELSE ProtectedReplies)

\* The awaited supervisor ends.
Supervise(r) ==
  /\ pc[r] = "supervisor" /\ Free(r)
  /\ \E response \in Supervised(r) : Respond(r, response)
  /\ WithAgents(r)
  /\ UNCHANGED <<plan, changes, loop, req, text, risk, baseline, ran>>

Handle(r) ==
  Lookup(r) \/ Explain(r) \/ RunStatement(r) \/ Diagnose(r) \/ Supervise(r)

Next ==
  \/ ChangePlan
  \/ \E r \in Requests, q \in Questions, token \in {"missing", "given"} : Receive(r, q, token)
  \/ \E r \in Requests : Handle(r)

Spec == Init /\ [][Next]_vars

-----------------------------------------------------------------------------
(* Properties                                                              *)

Steps == {"idle", "explain", "lookup", "run", "diagnose", "supervisor", "done"}

\* All state stays within its types.
TypeOK ==
  /\ plan \in Plans /\ changes \in 0..MaxChanges
  /\ loop \in [Range(Process) -> Requests \cup {Nobody}]
  /\ pc \in [Requests -> Steps]
  /\ \A r \in Requests :
       /\ req[r] = NoReq <=> pc[r] = "idle"
       /\ req[r] # NoReq => req[r].q \in Questions /\ req[r].token \in {"missing", "given"}
       /\ text[r] \in Texts \cup {NoText}
       /\ risk[r] \in {"none", "LOW", "MEDIUM", "HIGH"}
       /\ sent[r] \subseteq {"catalog", "explain", "run", "agents"}
       /\ ran[r] \subseteq Plans
       /\ reply[r].status \in {"none", "ok", "error", "blocked", "no_answer",
                              "refused", "awaiting_plan_approval"}
  /\ \A k \in Keys : baseline[k] = NoBaseline \/ baseline[k].text \in Texts
  /\ \A r \in Requests : pc[r] \in {"explain", "lookup", "run"} <=> loop[Process[r]] = r

\* Through the two layers of guards the handler itself sends a user's text to the
\* database only if it is one SELECT without a changing word.  A question that has
\* to be refused reaches neither the database nor an agent that could send it, but
\* a token opens two ways: nobody looks for injections then, and a SELECT with the
\* word UPDATE or DELETE goes to the agents (pipeline.py:170-206, api.py:139-151).
OnlySelectsReachTheDatabase ==
  \A r \in Requests :
    LET q == req[r].q
        given == req[r].token # "missing"
    IN /\ sent[r] \cap {"explain", "run"} # {} =>
            q.size = "fits" /\ q.lead = "select" /\ ~q.chained /\ ~q.changes
       /\ sent[r] # {} =>
            /\ q.size = "fits" /\ q.lead # "verb"
            /\ q.lead = "select" => ~q.chained /\ (q.changes => given)
            /\ q.lead = "none" /\ q.injected => given

\* The reference for a plan the gate has to recognise, on the optimizer's own
\* numbers: a Cartesian join, a cost above the threshold that is still printed
\* in plain digits, or a row count above it by more than a printed unit that is
\* not printed in a unit beyond millions.
Recognisable(p) ==
  \E l \in p :
    \/ l.op = "cartesian"
    \/ l.cost # Vast /\ l.cost > CostThreshold /\ l.cost < 100000
    \/ l.rows # Vast /\ l.rows >= RowsThreshold + 1000

\* A statement whose plan was fetched from the database and is recognisably
\* heavy is not run, whether its columns are printed plain, in thousands or in
\* millions (plan_risk.py:42-80).
RecognisedRiskNeverRuns ==
  \A r \in Requests :
    pc[r] = "run" /\ text[r].kind = "table" => ~Recognisable(text[r].lines)

\* The comment at pipeline.py:254 says that there is no mock for a user's own
\* statement: whatever failed on the way, neither an answer about it nor its
\* baseline rests on the mock plan, because the mock is assessed as fit to run.
\* And the answer says what it rests on: "explain_only" on the plan the database
\* gave for a statement that was not run, "actual_stats" never on that plan.
AnswersRestOnDatabase ==
  /\ \A r \in Requests :
       reply[r].status = "ok" /\ "explain" \in sent[r] =>
         \/ reply[r].mode = "explain_only" /\ reply[r].basis.kind = "table" /\ ran[r] = {}
         \/ reply[r].mode = "actual_stats" /\ reply[r].basis.kind \in {"stats", "words"}
  /\ \A k \in Keys : k[1] = "user" => baseline[k].text.kind # "mock"

\* A free answer is the last thing that was said in the conversation, whatever
\* notices and tool calls the library put around it and whoever stayed silent
\* (common.py:128-145); and the words of an agent whose output is checked come
\* without personal data, however many agents spoke (middleware.py:63-79).
AnswerIsTheLastWords ==
  \A r \in Requests :
    reply[r].status = "ok" /\ reply[r].mode = "knowledge" =>
      /\ reply[r].answer = reply[r].said
      /\ reply[r].answer.by \in Checked => "pii" \notin reply[r].answer.marks

\* seed.yaml:72 and 110 say that only a SELECT whose plan passed the assessment
\* is run, and that one above the limits is not: no statement runs with a plan
\* the gate would have called HIGH.
HighRiskNeverRuns ==
  \A r \in Requests : \A p \in ran[r] : RiskLevel(Table(p)) # "HIGH"
=============================================================================
