----------------------------- MODULE Evaluation ----------------------------
(***************************************************************************)
(* run_eval.py: the application in a process of its own, asked one item    *)
(* after the other with an approver's token while the server works on the  *)
(* same database and stores; how an item is graded, scored and counted.    *)
(*                                                                         *)
(* A score is left out except whether an item has scores: a metric that    *)
(* fails is one without a value, and only the setup of the metrics raises. *)
(***************************************************************************)
EXTENDS QueryGate

CONSTANTS
  Evaluator,  \* the member of Requests that the evaluation uses, item by item
  Items       \* Seq(Item): the rows of evaluation/test_queries.csv

\* An item: its question, its category, the marks of forbidden content, and
\* whether it is one of the two that are graded by their id.
Item == [question : Questions, category : {"positive", "edge", "negative", "guardrail"},
         forbidden : SUBSET Marks, id : {"n01", "p08", "other"}]

\* The items that code alone refuses: too short or long, or changing SQL.
Fixed(item) ==
  item.question.size # "fits" \/ item.question.lead = "verb"

\* In the file such an item is a negative or a guardrail item; changing SQL is
\* the latter, and has neither of the two ids.
ASSUME ItemsOK ==
  /\ Evaluator \in Requests /\ Items \in Seq(Item)
  /\ \A n \in DOMAIN Items : Fixed(Items[n]) =>
       /\ Items[n].category \in {"negative", "guardrail"} /\ Items[n].id # "p08"
       /\ Items[n].question.size = "fits" => Items[n].category = "guardrail" /\ Items[n].id = "other"

VARIABLES
  results,  \* Seq([verdict, status, scored]): the entry of each item
  counts    \* [verdicts -> Nat]

evaluation == <<results, counts>>
evalVars == <<vars, evaluation>>

Verdicts == {"PASS", "FAIL", "ERROR"}

EvalInit ==
  /\ Init
  /\ results = <<>>
  /\ counts = [v \in Verdicts |-> 0]

\* _call_query: the question with the token.
Ask ==
  /\ Len(results) < Len(Items)
  /\ Receive(Evaluator, Items[Len(results) + 1].question, "given")
  /\ UNCHANGED evaluation

\* What is graded: the status, the marks of the text and the contexts.
Result(status, marks, contexts) == [status |-> status, marks |-> marks, contexts |-> contexts]

\* The diagnosis of the best candidate, in place of the list (its run is in
\* SessionStores).
Diagnosed == [status : {"ok"}, marks : SUBSET Marks, contexts : {{"plan"}}]
               \cup {Result("no_answer", {}, {}), Result("error", {}, {})}

\* _call_query: a list of candidates one of which has an id is followed up.
Followed(response) ==
  IF response.status # "ok" THEN {Result(response.status, {}, {})}
  ELSE IF response.mode = "knowledge"
       THEN {Result("ok", response.answer.marks, response.contexts)}
  ELSE IF response.mode = "candidate_search" /\ response.named THEN Diagnosed
  ELSE {Result("ok", {}, {})}

\* grade_item; told: the text has enough of the expected words.  A guardrail
\* item passes with any status, if only nothing forbidden is told.
Passes(item, result, told) ==
  /\ item.forbidden \cap result.marks = {}
  /\ CASE item.id = "n01" -> result.status = "no_answer"
       [] item.id = "p08" -> result.status = "awaiting_plan_approval"
       [] item.id = "other" /\ item.category = "guardrail" -> TRUE
       [] item.id = "other" /\ item.category = "negative" -> result.status = "no_answer" \/ told
       [] OTHER -> result.status = "ok" /\ told

\* run: only answers to positive and edge items that come with contexts are
\* scored.
Scored(item, result) ==
  item.category \in {"positive", "edge"} /\ result.status = "ok" /\ result.contexts # {}

Counted_at_once(graded, verdict) ==
  [v \in Verdicts |-> counts[v] + (IF v \in {graded, verdict} THEN 1 ELSE 0)]

\* An item is counted once, after it was scored: an exception of the scoring
\* turns the grade into ERROR.
Counted(graded, verdict) == [counts EXCEPT ![verdict] = @ + 1]

\* The evaluation goes on to the next item and forgets the answer.
Forget(e) ==
  /\ pc' = [pc EXCEPT ![e] = "idle"]
  /\ req' = [req EXCEPT ![e] = NoReq]
  /\ text' = [text EXCEPT ![e] = NoText]
  /\ risk' = [risk EXCEPT ![e] = "none"]
  /\ sent' = [sent EXCEPT ![e] = {}]
  /\ ran' = [ran EXCEPT ![e] = {}]
  /\ reply' = [reply EXCEPT ![e] = NoReply]
  /\ UNCHANGED <<plan, changes, loop, baseline>>

\* The answer is graded, scored and counted.
Judge ==
  /\ pc[Evaluator] = "done"
  /\ \E result \in Followed(reply[Evaluator]), told, raises \in BOOLEAN :
       LET item == Items[Len(results) + 1]
           graded == IF Passes(item, result, told) THEN "PASS" ELSE "FAIL"
           verdict == IF raises THEN "ERROR" ELSE graded
       IN /\ raises => Scored(item, result)
          /\ results' = Append(results,
               [verdict |-> verdict, status |-> result.status,
                scored |-> Scored(item, result) /\ ~raises])
          /\ counts' = Counted(graded, verdict)
  /\ Forget(Evaluator)

\* The call itself raises: the audit row of a protected run, or of the diagnosis
\* that follows it, is refused by the store.  Nothing is graded.
Miss ==
  /\ pc[Evaluator] = "done"
  /\ ToSupervisor(req[Evaluator].q, req[Evaluator].token)
  /\ results' = Append(results, [verdict |-> "ERROR", status |-> "none", scored |-> FALSE])
  /\ counts' = Counted("ERROR", "ERROR")
  /\ Forget(Evaluator)

EvalNext ==
  \/ ChangePlan /\ UNCHANGED evaluation
  \/ \E r \in Requests : Handle(r) /\ UNCHANGED evaluation
  \/ \E r \in Requests \ {Evaluator}, q \in Questions, token \in {"missing", "given"} :
       Receive(r, q, token) /\ UNCHANGED evaluation
  \/ Ask
  \/ Judge
  \/ Miss

EvalSpec == EvalInit /\ [][EvalNext]_evalVars

-----------------------------------------------------------------------------
(* Properties                                                              *)

\* api.py:132-134 says that the block of changing SQL must not depend on how a
\* model classifies it: an item that code refuses is refused, and passes as the
\* negative or guardrail item it is in the file, with an approver's token too,
\* whatever the models, the database and the server do at the same time.
FixedItemsPass ==
  \A n \in DOMAIN results : Fixed(Items[n]) =>
    results[n].status \in {"no_answer", "blocked"} /\ results[n].verdict = "PASS"

\* The report adds up although grading, scoring and counting fail apart: every
\* item is counted once and under its final verdict, and an item has scores only
\* if it was answered and did not end as an error (run_eval.py:158-187).
VerdictsAddUp ==
  /\ \A v \in Verdicts : counts[v] = Cardinality({n \in DOMAIN results : results[n].verdict = v})
  /\ \A n \in DOMAIN results : results[n].scored =>
       results[n].status = "ok" /\ results[n].verdict # "ERROR"
=============================================================================
