---------------------------- MODULE MCEvaluation ---------------------------
(* Small instance: a request of the server beside the evaluation of three   *)
(* items that code refuses, one that must not tell personal data and one     *)
(* that must end in a plan to approve.                                       *)
EXTENDS Evaluation, MCQueryGate

MCItem == [question |-> Asked, category |-> "positive", forbidden |-> {}, id |-> "other"]

MCItems ==
  << [MCItem EXCEPT !.question.size = "empty", !.category = "negative", !.id = "n01"],
     [MCItem EXCEPT !.question.size = "short", !.category = "negative"],
     [MCItem EXCEPT !.question.lead = "verb", !.category = "guardrail"],
     [MCItem EXCEPT !.question.injected = TRUE, !.category = "edge", !.forbidden = {"pii"}],
     [MCItem EXCEPT !.id = "p08"] >>
=============================================================================
