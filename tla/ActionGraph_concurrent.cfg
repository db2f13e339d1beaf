SPECIFICATION Spec
CONSTANTS
  i1 = i1  i2 = i2
  c1 = c1  c2 = c2  c3 = c3  c4 = c4
  v1 = v1  v2 = v2
  Ids = {i1}
  Calls = {c1, c2, c3}
  Vals = {v1, v2}
  Tools <- MCTools
  Decisions <- MCDecisions
  ApplyArgs <- MCApplyArgs
  DecisionArgs <- MCDecisionArgs
  Sequential = FALSE
  MaxCrashes = 1
SYMMETRY CallSymmetry
INVARIANTS TypeOK Provenance TruthfulAnswer
PROPERTIES ImplementsGate
CHECK_DEADLOCK FALSE
