----------------------------- MODULE MCAssist -----------------------------
(* Small instances of Assist: an approver's run of several calls, and one  *)
(* call of a request with any header beside it.                            *)
EXTENDS Assist

CONSTANTS q1, q2

MCTokens == [r \in Requests |-> IF r = q1 THEN {"ok"} ELSE Headers]
MCMaxCalls == [r \in Requests |-> IF r = q1 THEN 3 ELSE 1]
=============================================================================
