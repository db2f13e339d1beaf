------------------------- MODULE MCDiagnosisCache -------------------------
(* Small instances: x and X differ in case only, y is another statement.   *)
EXTENDS DiagnosisCache

CONSTANTS g1, g2, g3

MCNormal == [x |-> "x", X |-> "x", y |-> "y"]

\* The first run is about x, since another statement would only rename it; the
\* others are about the same statement, or about y.
MCAsks == [r \in Runs |-> IF r = g1 THEN {"x"} ELSE IF r = g2 THEN {"X", "y"} ELSE {"x", "y"}]
AnyAsks == [r \in Runs |-> Sqls]
=============================================================================
