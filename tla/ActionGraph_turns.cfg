SPECIFICATION Spec
CONSTANTS
  i1 = i1  i2 = i2
  c1 = c1  c2 = c2  c3 = c3  c4 = c4
  v1 = v1  v2 = v2
  Ids = {i1, i2}
  Calls = {c1, c2, c3, c4}
  Vals = {v1, v2}
  Tools <- MCTools
  Decisions <- TurnDecisions
  ApplyArgs <- MCApplyArgs
  DecisionArgs <- MCDecisionArgs
  Sequential = TRUE
  MaxCrashes = 1
SYMMETRY IdSymmetry
INVARIANTS IInv RejectionIsFinal RepeatNeedsCrash
PROPERTIES ImplementsGate StuckForever EndIsFinal
CHECK_DEADLOCK FALSE
