---------------------------- MODULE MCQueryGate ----------------------------
(* Small instances: one question per path through the guards, plans on both *)
(* sides of the thresholds.                                                 *)
EXTENDS QueryGate

CONSTANTS q1, q2, nobody, vast

\* An ordinary SELECT, and what differs from it.
Pasted == [size |-> "fits", lead |-> "select", changes |-> FALSE, chained |-> FALSE,
           injected |-> FALSE, catalog |-> FALSE, refused |-> FALSE]
Asked == [Pasted EXCEPT !.lead = "none"]

MCQuestions ==
  { Pasted, [Pasted EXCEPT !.refused = TRUE], [Pasted EXCEPT !.chained = TRUE],
    [Pasted EXCEPT !.changes = TRUE], [Pasted EXCEPT !.lead = "verb"],
    Asked, [Asked EXCEPT !.catalog = TRUE], [Asked EXCEPT !.injected = TRUE],
    [Asked EXCEPT !.size = "short"], [Asked EXCEPT !.size = "empty"] }

Light == [op |-> "index", rows |-> 1000000, bytes |-> 99999, cost |-> 10000]

\* At the limits; cost and rows one step above; a Cartesian join of few rows; a
\* cost printed in thousands; many bytes in few rows; and rows printed with a G.
MCPlans ==
  { {Light}, {Light, [Light EXCEPT !.cost = 10001]}, {[Light EXCEPT !.rows = 1001000]},
    {[Light EXCEPT !.op = "cartesian", !.rows = 10]},
    {[Light EXCEPT !.op = "full", !.cost = 100000]},
    {[Light EXCEPT !.op = "full", !.rows = 10, !.bytes = 20000000]},
    {[Light EXCEPT !.rows = vast]} }

\* The evaluation asks as q2, from a process of its own.
MCProcess == [r \in Requests |-> IF r = q2 THEN "eval" ELSE "server"]
=============================================================================
