-------------------------- MODULE MCSessionStores --------------------------
(* Small instances: x and X differ in case only, y is two statements in one,*)
(* z is a text that does not look like SQL.                                 *)
EXTENDS SessionStores, TLC

CONSTANTS c1, c2, c3, s1, s2, nobody

MCNormal == [s \in Statements |-> IF s = "X" THEN "x" ELSE s]
MCCatalogSql == [k |-> "x"]
MCMentions == [k |-> {"x", "X"} \cap Statements]

\* The server answers c1 and c2; run_eval.py has c3.  V$SQL holds X, the catalog x.
MCProcess == [c \in Calls |-> IF c = c3 THEN "eval" ELSE "server"]
MCOps == [c \in Calls |->
  IF c = c3 THEN {"review", "feedback"} ELSE {"search", "diagnose", "review"}]

\* The server's two calls may do the same things, for either session.
ServerSymmetry == Permutations({c1, c2}) \cup Permutations({s1, s2})
=============================================================================
