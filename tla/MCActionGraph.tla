--------------------------- MODULE MCActionGraph ---------------------------
(* Small instances of ActionGraph: the tools, arguments and decisions.  The *)
(* proofs are extended for the inductive invariant, which a run checks.    *)
EXTENDS ActionGraph_proofs, TLC

CONSTANTS i1, i2, c1, c2, c3, c4, v1, v2

NoneGiven == [k \in {} |-> v1]
TableOnly == [table_name |-> v1]
Index1 == [table_name |-> v1, index_ddl |-> v1]
Index2 == [index_ddl |-> v2]

\* A complete index request, and one that lacks its DDL.
MCApplyArgs == {TableOnly, Index1}
\* An empty body and one that supplies (or replaces) the DDL.
MCDecisionArgs == {NoneGiven, Index2}
MCTools == {"create_index", "explain_plan"}
MCDecisions == {"approve", "modify", "reject", "ok"}
\* An unknown word is the same as "approve" to the code; one of them is enough
\* where the calls are many.
TurnDecisions == MCDecisions \ {"ok"}

CallSymmetry == Permutations(Calls)
IdSymmetry == CallSymmetry \cup Permutations(Ids)
=============================================================================
