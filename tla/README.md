# Verification of the Oracle SQL Copilot in TLA+

This directory holds TLA+ models of the service in `src/`, the TLC runs that
check them on small instances, and proofs that TLAPS checks for every instance.
Line numbers refer to the files of the repository; `src/src/` is the Python
package, `src/static/index.html` the web page. `PROJECT.json` maps every
definition to the lines it stands for and lists runs, hazards and theorems.

## 1. The system

A FastAPI server (one uvicorn process) that answers questions about slow Oracle
SQL, drafts SQL behind a plan a person approves, and performs a few maintenance
actions behind a person's decision. Language models and the SQLcl MCP server do
the work outside; this code decides what may happen, in which order, and what is
remembered.

**How it is scheduled.** `async def` endpoints (`/query`,
`/candidates/diagnose`, `/plans/{id}/approve`, `/feedback`) are coroutines on one
event loop. Code between two awaits is atomic, and a synchronous call in it (a
model, MCP) stops the loop. The tools an agent's model asks for at once run as
concurrent tasks, and callbacks run in executor threads. Plain `def` endpoints (`/actions/apply`,
`/approve/{id}`) run in threads of a pool, and plain functions that are graph
nodes run in executor threads, so these interleave with everything else.

**What survives.** `hitl_checkpoints.sqlite`, `checkpoints.sqlite` and
`memory.sqlite` survive a crash; the `InMemoryStore` of analyses, the dict
`_assist_results` and everything under way do not.

### Inventory

| Component | State | Operations | What makes it hard | What makes it correct |
|---|---|---|---|---|
| HITL action graph (`actions.py`, `guardrails.py`, `tools.py` 629-643, `api.py` 208-233) | a checkpoint per approval id; audit rows | apply, approve, `gate_node`, `run_node` | threads that share a checkpoint; checkpoints stored in the background; a crash between the tool and its checkpoint; decisions repeated or late; a tool that raises | nothing runs before it is granted, and only with the granted arguments; without a crash it runs once and a rejection is final; answers tell the truth |
| Approval of a business requirement (`pipeline.py` 591-644, `plan_execute.py` 148-354) | one row per session; the runs under way; the cards of the page | prepare, resume (approve, modify, reject), five graph nodes | decisions during a run; a plan replaced behind a card; a crash | SQL is drafted only for a requirement that was pending at an approval; runs never undo decisions |
| MCP calls (`tools.py` 92-204, 543-623) | a worker thread per call; the event loop; the default executor | dispatch, wait with a timeout, fall back | a timeout that cannot stop its conversation; a silent server; a call that holds the loop; a pool that fills up | conversations do not pile up; every request that does not wait for a silent server is answered |
| Diagnosis graph and analysis memory (`plan_execute.py` 32-138) | `InMemoryStore` keyed by a fingerprint | planner, execute, replan, finalize | two runs of one statement; stale plans; endless replanning; agents that never return; a restart | an answer is about its own statement; a repeat is recalled; a run ends unless a node never returns |
| Supervisor requests (`pipeline.py` 101-152, `agents.py`, `auth.py`, `api.py` 123-168) | `_assist_results`; audit rows | start, model and tool calls, finish, fail | requests share one dict; calls of one run overlap; failure after work was done; calls left behind | results, refusals and rows stay with their own request |
| Agents and their middleware (`agents.py` 166-250, `middleware.py`, `common.py` 120-145) | the messages of a conversation | handoffs, output check, picking the answer | notices and silent turns between the words | the answer is what was said last, checked where the agent has a check |
| Routing, guards and risk gate (`api.py` 123-157, `pipeline.py` 170-311, `guardrails.py` 9-125, `plan_risk.py`) | the plan a request has; the database's own plan; baselines | receive, guard, look up, explain, assess, run, diagnose | two layers of guards; mock plans; suffixes; a plan that changes afterwards; a refusal that is no exception; agents with database tools of their own | the handlers send only single SELECTs to the database, and it is known what reaches an agent that could send more; a plan recognised as heavy does not run; answers say what was done |
| Candidate search and diagnosis (`tools.py` 306-555, `pipeline.py` 375-505) | two checkpoints per session; V$SQL | search, pick, fetch, diagnose | a cursor aged out between two queries; refused writes | checkpoints and baselines belong to the calls they came from |
| SQL review, feedback and long-term memory (`validator.py`, `storage.py` 84-335, `pipeline.py` 314-372, 508-532) | tables of verifications, versions, baselines, feedback | review, save, feed back | two processes on one file; two transactions; a crash between them | versions are numbered, final and accepted; feedback is stored when it is acknowledged |
| Tracing (`tracing.py`) | a list of events per request | record, `api_trace` | calls that overlap or fail | no output is lost or shown twice; a tool that ran alone has its own |
| Model client (`common.py` 22-112) | one client for all threads | ask a model, fall back to the next | which error moves on; a shared object | every call tries the models in order; throttling is an error only after all |
| Evaluation (`run_eval.py`) | results and counts | ask, follow up, grade, score, count | a second process on the same database; scoring that fails after grading | items that code refuses pass; the report adds up |
| Retriever, prompts, schemas, page, deployment | - | - | - | not modelled, the page in part (section 7) |

`/query` either runs the guards and the diagnosis graph directly (no token) or
hands the question to the supervisor, whose protected tools call the pipeline
functions of the other components. All flows that diagnose share one compiled
diagnosis graph and its memory; those that touch the database share the MCP call
path. `run_eval.py` runs the same application in a process of its own, on the same
SQLite files. The action graph is reached only by its two endpoints.

## 2. Modules

| Module | Models | State and actions |
|---|---|---|
| `HumanGate` | abstract specification: work is performed after it was granted for that job and, in mode `Once` and until a crash, once per job | `granted`, `performed`, `steady`; `Grant`, `Perform`, `GateCrash` |
| `ActionGraph` | the HITL graph and its two endpoints | `thread` is the newest stored checkpoint of each id, `snap` the copy a call works on, `unsaved` what its writer has still to store, `pc` where it stands; `Apply`, `SaveInput`, `Approve`, `Gate`, `Run`, `WriteCheckpoint`, `Return`, `Audit`, `Crash` |
| `ActionGraph_proofs`, `ActionGraph_history` | the inductive invariants and the theorems about `ActionGraph`; the second extends the first | - |
| `PlanApproval_proofs`, `McpCall_proofs`, `DiagnosisCache_proofs`, `SessionStores_proofs` | the same for the module each is named after | - |
| `Assist_proofs` | the same for `Assist`, with the lemmas about the traces of `Tracing` | - |
| `Evaluation_proofs` | the same for `QueryGate` and `Evaluation`, with the lemmas about the conversations of `Agents` | - |
| `PlanApproval` | plans, decisions, the query planner graph, the page | `store` is `checkpoints.sqlite`, `tab` and `cards` the page, `run` the state of the graph, `approved` the history of what approve decisions granted; `Query`, `Reload`, `ResumeReject`, `ResumeModify`, `ResumeApprove`, `ResumeUnknown`, one action per node, `Crash` |
| `McpCall` | what a handler waits for: the shared model client with its fallbacks, then the MCP server | `ready` and `loop` are the event loop, `queue` that of the executor, `todo` and `tried` the models of a call, `worker` the thread of an MCP call, `got` what `future.result` gave; `Arrive`, `Dispatch`, `TakeNode`, `AskModel`, `WorkerEnds`, `WorkerHangs`, `Finish`, `Timeout`, `Return` |
| `DiagnosisCache` | the diagnosis graph and its memory | `memory`, the graph state per run, the optimizer's plan as a version; `Start`, `NewPlan`, `Planner`, `Execute`, `Replan`, `Finalize`, `Fail`, `Stall`, `Crash` |
| `Tracing` | `api_trace` as a function of the events of a request | no state; `Advance` is one turn of its loop |
| `Assist` | `/query` through the supervisor | `assist_results`, the calls of each run and how far they are, its events, the work it did, its reply, audit rows; `Start`, `Begin`, `Body`, `End`, `Break`, `Finish`, `Fail`, `Crash` |
| `Agents` | a conversation of the supervisor with its agents, and what the caller reads out of it | no state; `Talks` are the conversations, `Messages` what the library makes of one, `LastText` and `Contexts` what is taken from that |
| `QueryGate` | `/query` up to its answer: routing, guards, risk gate, limited execution, free answers | `plan` is what the optimizer would choose now, `loop` the event loop of each process, `text` and `risk` what a handler has, `sent` which ways to the database a request took (its agents' tools are one), `ran` the plans of what was run; `Receive`, `Lookup`, `Explain`, `RunStatement`, `Diagnose`, `Supervise`, `ChangePlan` |
| `Evaluation` | `run_eval.py`, which asks `QueryGate` from a process of its own | `results` and `counts` beside the variables of `QueryGate`; `Ask`, `Judge`, `Miss` |
| `SessionStores` | the two SQLite stores and the handlers that write them | one variable per table or checkpoint, `pool` is V$SQL, `loop` the event loop of each process; `Look`, `SaveList`, `FetchText`, `FetchPlan`, `SaveSelection`, `EndGraph`, `Review`, `SaveVerification`, `ReadMax`, `InsertVersion`, `SaveFeedback`, `PoolChanges`, `Crash` |
| `VersionLog` | abstract specification: reviews append what they accepted to a log of each statement, one entry each, and nothing in it changes | `accepted`, `log`; `Accept`, `AppendVersion` |
| `MC*` | values of the constants for TLC, symmetry sets | - |

`ActionGraph` and `PlanApproval` each instantiate `HumanGate` with a refinement
mapping (`ImplementsGate`). In the first a job is an approval id and the work is
the arguments of a tool; in the second a job is a session and the work is the
requirement that is drafted. `SessionStores` implements `VersionLog` (`ImplementsVersionLog`); the log is the
table `sql_versions`, an acceptance a committed row of `verification_history`.
`Evaluation` extends `QueryGate` with a client that
uses its actions, `QueryGate` takes the answers of the supervisor from `Agents`,
and `Assist` gives the events of its runs to `Tracing`.

An operator whose name continues that of the next definition (`Popped_never`
before `Popped`) is that definition with a plausible bug in it. No model uses it;
it documents which mistake the property named beside it in `PROJECT.json`
notices.

### Abstractions worth knowing

* In `ActionGraph` a checkpoint is created in the step of its node and stored in a
  later one. Neither endpoint passes a durability to `invoke` (`api.py` 216, 231),
  so that LangGraph's default holds: a writer stores the checkpoints of a call one
  after the other in the background, the next node may run meanwhile, and `invoke`
  returns after the last is stored. What the library stores beside a checkpoint (the
  writes of a node that has ended) has no place of its own: with the checkpoint
  before the node it stands for the one after it. A thread is loaded from its newest
  stored checkpoint, as the library's ids, which grow with time, order them.
* A grant of `PlanApproval` is recorded from the decision and the row it meets
  (`Granting`), before and apart from what the handler begins on it.
* A handler of `PlanApproval` is one step up to its first await: prepare, and
  resume up to the start of the graph. `prepare_business_requirement` makes its
  model call synchronously, on the loop.
* In `Assist` the body of a protected tool is atomic (it has no await): it does the
  work and stores the result. Its start and its end are steps of their own, since
  callbacks run in threads. Which exception an agent turns into a message for its
  model and which ends the run is a choice; a run that ends so leaves the calls it
  made at the same time to themselves, as `asyncio.gather` does. Events recorded
  after the answer are read by nobody and left out. A protected result carries the
  trace of its own flow (an empty one here), so only free answers and errors are
  held to the properties of traces.
* In `Tracing` the input and the output of a step are the call they come from.
* In `Agents` what is said is who says it and whether it holds personal data or a
  forbidden topic. The supervisor library keeps the tool calls of an agent to
  itself and shows its last message and two notices (`agents.py` 75-77).
* In `DiagnosisCache` an analysis is the run that made it, its statement and the
  version of the plan it was made of; this is all the properties tell apart. A
  restart forgets the runs of the old process, because nothing of them is left. A
  node may never return (`Stall`): the agents of the supervisor wait for SQLcl without a
  timeout (`tools.py` 120-130), and the other nodes may find no free thread (`McpCall`).
* In `McpCall` both conversations with SQLcl are one step that ends with a result
  or an exception, or never. A model is asked before the MCP server (the guard, the
  planner) or not at all; embeddings and the warm-up thread are left out.
* In `QueryGate` a question is a record of what the guards look at, and a plan is
  a set of lines with the optimizer's numbers. Printing is modelled by what it
  does: five characters, then thousands (K), then millions (M), and for what is `Vast` a
  larger unit (G, T), which the code does not read. The columns of memory in a
  cursor's statistics are left out. What agents send through their own tools is not
  modelled, only that a request reached them (`WithAgents`). A statement
  the database refuses is answered in words, as `sql_run` does
  (`tools.py` 356-359). The fallback texts of the catalog count as mocks.
* In `Evaluation` scores are left out except whether an item has any. A metric that
  fails has no value (`ragas_eval.py` 149-176); only setting the metrics up raises.
  The diagnosis that follows up a list of candidates is a choice of its results. A call
  that raises because a row is refused is `Miss`.
* In `SessionStores` a row carries the call that wrote it. Every write may be
  refused. The order and the length of a candidate list are left out; a search
  that raises is no case of its own, because every failure inside it falls back
  to the catalog. V$SQL changes only while a call is about to read it; a change at
  any other time can be moved there.

## 3. Runs

| Run | Asks | Result |
|---|---|---|
| `ActionGraph_concurrent` | three concurrent calls on one id, one crash | `TypeOK`, `Provenance`, `TruthfulAnswer` hold, and `ImplementsGate` without its at-most-once part |
| `ActionGraph_turns` | four calls in turn, two ids, one crash | `IInv`, `RejectionIsFinal`, `RepeatNeedsCrash`, `ImplementsGate` with its at-most-once part, `StuckForever`, `EndIsFinal` hold |
| `PlanApproval_safety` | two sessions, a page, two decisions, one crash | `TypeOK`, `StoreIsCurrent`, `RejectedDraftNotExplained`, `ImplementsGate` hold |
| `PlanApproval_card` | does a click run what its card shows | no: `OnlyApprovedCardRuns` is violated |
| `McpCall_requests` | a request on the loop and three in a pool of two threads, two of them with a model call, three models | `TypeOK`, `FallbackInOrder`, `ConversationsAreBounded` hold, and `EveryRequestAnswered` as long as no conversation goes silent on the loop and a thread of the pool is left |
| `McpCall_hang` | does the timeout bound the wait | no: `TimeoutBoundsTheWait` is violated by a silent server |
| `DiagnosisCache_runs` | three runs over three statements, two equal up to case, one change of plan, nodes that never return, a restart | `TypeOK`, `AnswersItsStatement`, `RepeatIsRecalled`, `EveryDiagnosisEnds` (up to nodes that never return) hold |
| `DiagnosisCache_stale` | is an answer about the plan that was fetched | no: `AnalysisOfFetchedPlan` is violated |
| `Assist_safety` | an approver's run of three overlapping calls, a request with any header and one call beside it, one crash | `TypeOK`, `NoLeak`, `AnswerIsOwn`, `AuditIsTrue`, `LoneToolKeepsItsOutput`, `OutputsShownOnce` hold |
| `Evaluation_safety` | a request of ten kinds beside an evaluation of five items, seven plans, one change of plan, conversations of two rounds | `TypeOK`, `OnlySelectsReachTheDatabase`, `RecognisedRiskNeverRuns`, `AnswersRestOnDatabase`, `AnswerIsTheLastWords`, `FixedItemsPass`, `VerdictsAddUp` hold |
| `QueryGate_high` | does a heavy statement never run | no: `HighRiskNeverRuns` is violated, even by a plan that never changes |
| `SessionStores_safety` | two calls of the server, for two sessions, and one of the evaluation, four texts, one crash | `TypeOK`, `VersionsAreNumbered`, `ImplementsVersionLog`, `CheckpointsAreTheSessions`, `BaselineIsOfADiagnosis` hold |

Deadlock is not checked: in every model the calls, requests or runs are used once
and the system may stop when they are used up.

### Where the code and its texts part

The four violated properties state what a document or a comment says:

1. `PlanApproval_card`: approving sends only the session id
   (`index.html` 452, 511), and resume runs whatever plan is stored
   (`pipeline.py` 630), so a card whose plan was replaced runs the newer one.
   `pipeline.py` 594-595 says that only the approved plan runs.
2. `McpCall_hang`: the timeout (`tools.py` 140) is raised inside the `with` block
   of the executor (139), which joins the worker. With a silent server the
   request waits on, and with it the event loop. The comment at 136-137 says
   that the request path does not wait without end.
3. `DiagnosisCache_stale`: the memory is keyed by the statement
   (`plan_execute.py` 53-56), so an analysis of an older plan is shown for the
   plan just fetched. `README.md` 77-79 says that the diagnosis is made on it.
4. `QueryGate_high`: when EXPLAIN PLAN raises, the mock text (Cost=100) is assessed
   (`plan_risk.py` 35-39), passes as MEDIUM, and the statement is run if the next
   call succeeds. `seed.yaml` 72 and 110 say that only a plan that passed is run.
   With `MaxChanges` above 0 the run finds a second way: a plan that changed
   between the assessment and the execution.

More follow from single lines and need no run. The models contain them, unless it is
said otherwise:

* two approvals of one id may run at once, find the thread in the same checkpoint and
  both call the tool (`actions.py` 54), in `ActionGraph_concurrent`, whose
  `ImplementsGate` is without the at-most-once part;
* after a crash the same happens to calls that take turns, when the tool had acted and
  its checkpoint was not stored; `RepeatNeedsCrash` says that only a call that died
  leads to it. The thread may even be back at the gate, because no durability is asked
  for (`api.py` 216, 231): a reject is then answered as "rejected" although the tool
  acted. `RejectionIsFinal` allows for that one case;
* a thread that stands before `run` is past its gate: whatever is decided on it next,
  a reject too, performs the granted action (`actions.py` 52-54), in `ResumeAt`;
* any decision word but `reject` is carried out as a grant (`actions.py` 41-47,
  against `api.py` 106), in `GateUpdate`;
* an approval whose tool raises has no audit row (`api.py` 231), in `Audit`, and
  neither has a protected tool that has done its work when the model call after it
  fails (`pipeline.py` 146, against `SERVICE.md` 30), in `Assist!Row`;
* the graph that an approval starts plans again and does not use the steps that
  were shown (`plan_execute.py` 347), in `PlanRequirement`;
* a rejection that follows an approval answers that no SQL was generated while the
  approved run goes on (`pipeline.py` 635), in `ResumeReject`;
* the review of generated SQL hashes the raw text (`plan_execute.py` 305), the
  other flows the wrapped one (`pipeline.py` 228), so they share no analyses,
  against the comment at `plan_execute.py` 292-293, in `Fingerprint`;
* a cost from 100,000 up to 1,000,000 is printed with a K, is read as a number of
  rows and passes both limits (`plan_risk.py` 57), in `Costs` and `Rows`. The
  reference of `RecognisedRiskNeverRuns` leaves that range out;
* of two reviews that read the same highest version one row is dropped
  (`storage.py` 198), and a write that fails is dropped as well
  (`pipeline.py` 350); the caller is told `accept` all the same, in `InsertRow`
  and `InsertVersion`;
* a protected tool that was called beside one that raised stores its result after
  the entry was popped, where it stays until the process ends (`agents.py` 115,
  `pipeline.py` 152), in `Assist!Body`;
* the outputs of two tools that overlap may be swapped in the trace, a tool that
  failed takes the output of a later one, and a model call during which another
  began is shown as two steps, one of which stays open (`tracing.py` 72, 79), in
  `Advance`;
* one failure of the MCP server while the supervisor is built leaves the explain
  agent without tools until a restart, because the empty list is cached
  (`agents.py` 42, 62); what an agent does without tools is its model's affair, so
  no model has it;
* as many silent conversations as the executor has threads stop all graph nodes
  (`tools.py` 139), in `TakeNode`;
* rows printed with a G or a larger unit are not read either (`plan_risk.py` 57), so
  a plan of ten thousand million rows passes if its cost is printed with a K or more; in `Cell`.
  The reference leaves it out as well;
* the rules against injection are not asked about a question that comes with a
  token (`api.py` 139-151; `InputGuardMiddleware` is in no agent's list), against
  `SERVICE.md` 97, nor about a text that begins like SQL (`pipeline.py` 197, before the guard at 259), in
  `ToSupervisor` and `RunQuery`;
* with a token a SELECT that holds the word UPDATE or DELETE is handed to the agents
  (`api.py` 150 asks `is_safe_select` only), while `run_query` refuses it without one;
  `api.py` 132-134, `SERVICE.md` 29 and 98 and `seed.yaml` 71 and 104 say that no such
  text gets that far. The explain agent has the SQLcl tools as they are (`agents.py` 62,
  166-173) and may send any statement. `OnlySelectsReachTheDatabase` states both: what the
  handlers send, and what reaches an agent;
* nothing bounds the wait of an agent for its SQLcl tools (`agents.py` 62, `tools.py`
  120-130), so a diagnosis may never end, in `Stall`;
* a reviewed text that does not look like SQL (prose, `LOCK`, a statement behind a
  comment) is refused by no code: the model alone judges it, and it may become a
  version (`validator.py` 62), in `RefusedByCode`;
* a cursor that is aged out between the two queries leaves words in place of its plan,
  which then replace the plan of an earlier baseline (`tools.py` 537), in `FetchPlan`;
* the words of the supervisor and of the explain agent are not checked for personal
  data (`agents.py` 171), and a text with personal data is not checked for its topic
  once masked (`middleware.py` 72-74), in `OutputCheck`;
* the contexts of a free answer are the notices of handoffs, and not what the
  agents' tools returned (`pipeline.py` 57-61, against `agents.py` 75-77), in
  `Contexts`;
* a guardrail item of the evaluation passes with any status (`run_eval.py`
  113-117), and an item that was graded becomes an error when the metrics cannot
  be set up (169-171), in `Passes` and `Judge`.

## 4. Bounds

| Bound | Value | Why it is enough |
|---|---|---|
| calls in `ActionGraph` | 3 concurrent, 4 in turn | one call applies; two others cover every pair of racing decisions. In turn, three decisions cover reject-modify-approve in any order |
| `Ids` | 1, 2 | ids meet only in the tables; two show that they stay apart |
| `Tools`, `Decisions` | one that writes and one that reads; four words | the gate and the tool table tell apart the two risk classes and known from unknown; `AllTools` of `MCActionGraph` has the others for wider instances |
| `ApplyArgs`, `DecisionArgs` | complete and incomplete; empty and one that replaces | an incomplete request can be repaired by `modify` |
| `MaxCrashes` | 1 (both approval models, `Assist`, `SessionStores`; `DiagnosisCache` may crash whenever a run is under way) | a second crash only repeats the loss of what is under way |
| `MaxPrepared` (`PlanApproval`) | 2 per session | one replacement of a plan is all that a card, a run or a decision can miss |
| `Sessions`, `Calls` in `PlanApproval` | 2, 2 | two runs, or a run and a decision, on the same session or on two |
| `Requests`, `PoolSize` in `McpCall` | 4, 2 | one holds the loop; three share two threads, so that one waits for a thread and a silent one leaves room for the others |
| `Fallbacks` | 2 | a model in the middle of the chain and one at its end; the service has five |
| `MaxSteps`, `RecursionLimit` | 2; 5 | the limit must allow a run that needs no replanning (4 nodes) and cut one that replans; the service has LangGraph's default of 25 |
| `MaxVersion` | 1 | an analysis is of the current plan or an older one |
| `MaxCalls`, `Operations` (`Assist`) | 3 and 1; one protected tool | of three calls two may overlap before, after or around a third; the other request has one, which is all that can meet them in the dict; the tools differ only in name |
| `Runs` in `DiagnosisCache` | 3 (safety and liveness), 2 (`stale`) | two that miss together and a third that recalls what the later one left; `Asks` has the first run about `x`, since another statement would only rename it |
| `Requests`, `MaxChanges` in `QueryGate` | 2, 1 | requests meet in the plan and the baselines; one change is all that can fall between two calls |
| `Questions`, `Plans` in `QueryGate` | 10, 7 | one question per path through the guards; plans at and one step above each limit, in each printed unit, and one in a unit the code does not read |
| `Staff`, `MaxRounds` | 2 agents, 2 rounds | one agent with the output check and one without, in either order, and either silent |
| `Items` | 5 | three that code refuses in three ways, one with forbidden content and one graded by its id |
| `Calls`, `Sessions` in `SessionStores` | 2 of the server, for either of two sessions; 1 review or feedback of the evaluation | two writers can race for a number, and one more call reads what they left; each session has a list or a selection that the other's calls could touch |
| `Statements`, `Cacheable` | 4, 1 | two with one fingerprint, one that is not a single SELECT, one that does not look like SQL; V$SQL holds one of the first two, the catalog the other |

Symmetry is declared only where the properties of the run are safety properties
and the permuted values are interchangeable: calls (`ActionGraph_concurrent`),
calls and ids (`ActionGraph_turns`), calls, sessions, requirements and plans
(`PlanApproval_safety`), the two server calls and the sessions of `SessionStores`.

## 5. Fairness

* `McpCall`: weak fairness of dispatch (the loop serves its queue), of the
  executor, of an attempt with a model (the client has a timeout of 30 seconds,
  `common.py` 111), of the conversation's end, of the wait (the result or the
  clock) and of the return. A worker that has gone silent owes nothing.
  `EveryRequestAnswered` asks only of behaviours in which no silent worker holds the
  loop and one thread of the pool is left.
* `DiagnosisCache`: weak fairness of the nodes of each run, up to one that never
  returns: `Stall` may happen at any node, and nothing is asked of a run it has
  happened to. Which list a model writes is free, so that the recursion limit alone
  ends a run that always replans.

`ActionGraph`, `PlanApproval`, `Assist`, `QueryGate`, `Evaluation` and `SessionStores` have safety
properties only.

## 6. Proofs

Every safety invariant that a run of section 3 expects to hold, the action
properties of `ActionGraph` and the three refinements are theorems, for every value
of the constants that the assumptions allow. Each rests on an inductive invariant
that is proved action by action, one lemma per action; the run `ActionGraph_turns`
also checks the one of `ActionGraph_proofs`.

**Assumptions.** Most say of what form the constants are: `ConstantsOK`, `BoundsOK`,
`AssistConstants`, `RequestsOK`, `StoresConstantsOK`, `QueryConstantsOK`. The others:

* `NoneIsNew` and `NoneIsNoRun` (`PlanApproval`): the value that stands for "nothing"
  is none of the values it is compared with;
* `FallbacksOK` (`McpCall`): no fallback model is listed twice, as in `common.py`
  34-40; the primary may be among them;
* plans are finite sets of lines (`QueryConstantsOK`), so that the largest number
  printed in one exists;
* `ItemsOK` (`Evaluation`): items that code refuses are in the categories that
  expect a refusal and have no id that is graded otherwise, as in
  `test_queries.csv`; only `RefusedItemsPass` needs it;
* `RejectedForGood`, `RepeatedAfterCrash`, `FinishedForGood` and `StuckForGood` are
  about instances in which calls take turns (`ASSUME Sequential`, a constant of
  `ActionGraph`). With racing decisions they are false: two calls that copied the same
  checkpoint may reject and run it.

### `ActionGraph_proofs`

`Invariance` (`IInv`), `TypeCorrect` and `Refinement`: nothing reaches `tool.invoke`
before a decision on that id let exactly those arguments through and, where
approvers take turns, no id is performed twice before a crash.

"What a call is about to invoke was granted" is not inductive: a call takes its copy
from a checkpoint that another call made and its writer stored later. `GrantedInv`
therefore says it of every state before `run` that is held anywhere: in a checkpoint,
in a copy, or waiting for a writer; `NodeInv` ties a call's place to its copy. Every
tool in `TOOL_MAP` needs an approval (`InvocableNeedsApproval`), which closes the gap
that tools which need none would leave.

"At most once" is about stored checkpoints that lag behind. `TurnsInv` says, where
approvers take turns, that what is stored, what waits for the writer and what the one
call under way goes on with are in line (`InLine`): each is what one node makes of the
one before (`Follows`). A step can then store only what follows on the checkpoint that
is there, and nothing follows on the end of a thread. An execution is kept (`Kept`):
its thread has ended, or its call is still to return, unless the call died.
`StampInv` orders the checkpoints of a thread, without turns too. A fresh application
could overwrite a checkpoint, and `KnownInv` rules that out: an id has one applicant,
and nothing knows the id before that call has left its first step.

### `ActionGraph_history`

With calls that take turns and without: `AskedFor` (`Provenance`) and `Truthful`
(`TruthfulAnswer`). Both are about the end of a path that a graph state takes through
checkpoints and copies of several calls. `SoundInv` says of every graph state,
wherever it is kept, that its arguments come from requests and its result from an
event. Requests never change and executions are never forgotten (`Grows`), so a sound
state stays sound while it lies in a checkpoint (`SoundStays`); the steps that make
new states are the gate's (`GateKeepsSound`, where `modify` lays its own arguments
over sound ones) and `run` (`RunHistory`). That a call's copy has not changed since
its answer, and that an audit row belongs to an answered call, is `PlaceInv`.

With calls that take turns, and across crashes: `RejectedForGood`
(`RejectionIsFinal`), `RepeatedAfterCrash` (`RepeatNeedsCrash`), `FinishedForGood`
(`EndIsFinal`), `StuckForGood` (`StuckForever`). All four rest on `TurnsInv`: a step
leaves a thread as it is or stores what follows on it (`ThreadStep`); nothing follows on
an end (`EndStays`) or on arguments that the tool refuses (`StuckStays`); and an
execution whose call did not die is the end of its thread, which an answer about the
thread cannot contradict (`TurnsTell`). What died stays dead (`LostStays`), so that
the exception for such calls never spreads.

### `PlanApproval_proofs`

`TypeCorrect`, `CheckpointCurrent` (`StoreIsCurrent`), `RejectedStaysHome`
(`RejectedDraftNotExplained`) and `Refinement`: no SQL is drafted for a requirement
before an approval of its session met it as the pending one.

`RunInv` ties a call's place to its run, down to the verdict that `review_plan` reads;
`ExplainedInv` says that what was explained has left the graph, so that its verdict is
final. For the refinement a grant is an approve decision that met a pending row
(`approved`), recorded apart from what the handler does with it. `ApprovedInv` says that
every run carries the session and the requirement of such a grant; the step that begins
a run on the row it has loaded is the one place where that could go wrong, and the nodes
draft what their run carries. That the session may have been modified or planned anew
meanwhile does not matter, because the run carries its own copy.

### `Assist_proofs`

`TypeCorrect`, `EntriesArePopped` (`NoLeak`), `OwnAnswer` (`AnswerIsOwn`), `TrueAudit`
(`AuditIsTrue`), for any number of requests, calls and crashes. `FairTo(r)` collects
what has to agree within one request: its entry tells of the last work it did
(`Tells`), for as long as it has no answer; an entry that outlives the run belongs to
a call that was left behind; a request without a valid token did nothing. Only one
request moves in a step (`OneMoves`), which is the whole point of keying the dict by
request. Against it stands that calls of one run overlap; `Body` is atomic, so the
entry is of whichever came last.

`OutputsShown` (`OutputsShownOnce`) and `LoneToolShown` (`LoneToolKeepsItsOutput`) are
about `api_trace`, for event lists of any length. `InOrder` proves what a tracer can
record: each call ends at most once and a tool only after its one start (`RecInv`).
From that, `TraceHolds` shows by induction over the events that the steps built from
the first n of them show the outputs of the calls that ended among these, each once
(`Shows`), and that a tool that is alone is the last one without an output until its
end comes (`Pairs`); `OneEvent` says what an event does to the steps, `ShowsOneMore`
and `PairsOneMore` are the induction steps.

### `SessionStores_proofs`

`TypeCorrect`, `Numbered` (`VersionsAreNumbered`), `OwnCheckpoints`
(`CheckpointsAreTheSessions`), `OwnBaselines` (`BaselineIsOfADiagnosis`) and
`Refinement` of `VersionLog`.

The number a review has read may be stale when it inserts, but versions are never
removed: `ReviewInv` says that it is not above the number of versions by then. So the
new row has the next number or one that exists, and in that case `INSERT OR IGNORE`
drops it (`InsertNumbers`, with `MaxIsCount`: the largest of n gapless numbers is n).
For the refinement `ReviewInv` also says that who is about to read or insert was
accepted, and that the review behind a version is over, so that none enters twice.
`KnowsInv` says what a call has in hand at each step. Every action is a move of one
call (`Moved`); `MoveTypes`, `MoveSources` and `MoveReviews` prove once what all moves
preserve, so that each action only has to show what it adds to a store.

### `Evaluation_proofs`

About `QueryGate` alone and with the evaluation beside it (`Spec` and `EvalSpec`):
`TypeCorrect`, `OnlySelects` (`OnlySelectsReachTheDatabase`), `HeavyPlansStop`
(`RecognisedRiskNeverRuns`), `RestsOnDatabase` (`AnswersRestOnDatabase`),
`LastWordsAnswered` (`AnswerIsTheLastWords`); about the evaluation, `RefusedItemsPass`
(`FixedItemsPass`) and `ReportAddsUp` (`VerdictsAddUp`).

`Served` says for each step of a handler which tests its question has passed, what was
sent and run, and what is known of the plan in its hand; `LoopInv` says that the loop
of a process is held by the one request between two database calls. That no heavy plan
passes the gate is `RecognisableIsHigh`: the largest number that is read from a printed
plan exists, because a plan is finite (`ReadingsAreFinite`, `ExtractIsLargest`), and is
no less than that of a line whose printed form keeps it at or above a limit
(`CellIsNumber`; what is printed in a unit beyond millions is no number to the code,
`VastIsNotRead`, and the theorem does not speak of it). The evaluation adds `DueInv` (while its request is under way it is about the one item that
has no result yet) and that each entry is counted once (`OneMoreOf`, `EntryKeeps`), whether the item was graded
or its call raised.

`LastWordsAnswered` is about conversations of any number of rounds. `AnswerInv` says
that a free answer was read from one; `LastTextIsLastWords` says that reading its
messages from the end finds the last words that were spoken. The messages of a round
end with two notices and may hold a silent turn (`RoundSays`), and those of all rounds
are put together by a recursive function (`FlattenIsBuilt`, `FlattenEnds`).

### `McpCall_proofs`

For all requests, every fallback list and every size of the executor: `TypeCorrect`,
`BoundedConversations` (`ConversationsAreBounded`), `TriesInOrder` (`FallbackInOrder`). `QueueInv` says
that each queue holds requests that wait in it, each once, so that no request is
started a second time; `StageInv` that a request has a worker while it waits for one
and not before, and that a worker which is still at work has a request that waits for it,
also after the timeout. `ThreadInv` says that such requests have a thread of the
executor, of which there are `PoolSize`, or the loop, of which there is one. `OnChain` says that what a call has asked and what it has still to ask
are together the chain of models, and `ChainListsModels` that the chain lists every
model once with the primary first, by induction over the configured list.

### `DiagnosisCache_proofs`

For every set of runs and statements, every form of texts, and every limit on nodes,
steps and changes of plans: `TypeCorrect`, `OwnStatement` (`AnswersItsStatement`),
`Recall` (`RepeatIsRecalled`). A recalled answer was made by another run, so the first
property needs `MemoryInv`: under each key the memory holds analyses of statements with
that key. It also has to be there when `finalize` reads it, some steps after `planner`
found it: `RecallInv`, kept because entries are only replaced. The second needs
`LearntInv`: what an earlier run has ended with is in memory when `planner` looks. A
crash empties the memory and ends the runs that all three speak of.

### How lists are reasoned about

Traces, conversations and chains of models are of any length. The library's induction
theorems take an operator as a parameter, which the provers cannot instantiate, so
that these modules derive induction over a set of numbers from its least counterexample
(`NatSets`, by `WFMin`). What is defined as a recursive function is used through a
lemma that builds it up to any length (`TraceIsBuilt`, `FlattenIsBuilt`, `Buildable`).
`Others` of `McpCall` is such a function for that reason.

### Only model-checked

Liveness: `EveryRequestAnswered` and `EveryDiagnosisEnds`, because
TLAPS cannot reason about `ENABLED` under fairness. The four violated properties have
counterexamples and no proof.

## 7. Not modelled

* The masking of texts (on their way out, and of the questions agents see), the log
  files, and the table of business terms, which no flow reads or writes: they change
  no decision of the code.
* The retriever: loading, searching and ranking are those of the vector store and
  the embedding model; the project's own part is a loop that drops duplicates.
  Prompts and schemas are text and data classes.
* The values of the metrics (`ragas_eval.py`), the files of the report and
  `llm_judge.py`: arithmetic on what external models return. The page is modelled
  as far as it decides which session a click names.
* Deployment: build and start scripts.
* The "double confirmation" for destructive actions (`guardrails.py` 147, 156):
  the graph has one interrupt for every level, so there is nothing to model.
* The warm-up (`tools.py`), which runs once before any request, and what the explain
  agent sends through its own SQLcl tools: its model decides that. The models record
  that it may (`WithAgents`) and that it may wait for ever (`Stall`).

## 8. Plan

Done, in this order, from the component with the most to lose: `HumanGate`,
`ActionGraph` and its proofs, `PlanApproval`, `McpCall`, `DiagnosisCache`,
`Assist`, `QueryGate`, `SessionStores`; then `Tracing`, the overlapping calls of
`Assist`, the model client and the executor in `McpCall`, the restart in
`DiagnosisCache`, `Agents`, `Evaluation` and `VersionLog`; the proofs of section 6,
which state every safety invariant and every refinement that a run checks.

Next:

1. an abstract gate ("a statement is run after a verdict on it") that `QueryGate`
   implements, and the proof that it does;
2. the safety part of `EveryDiagnosisEnds`: that a run can only fail to end by
   standing still, as a bound on the nodes it has left.
