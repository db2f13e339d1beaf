-------------------------- MODULE MCPlanApproval --------------------------
(* Small instances of PlanApproval.                                        *)
EXTENDS PlanApproval, TLC

CONSTANTS s1, s2, t1, t2, c1, c2, c3, r1, r2, p1, p2

CallSymmetry == Permutations(Calls)
Symmetric == CallSymmetry \cup Permutations(Sessions)
               \cup Permutations(Requirements) \cup Permutations(Plans)
=============================================================================
