SPECIFICATION FairSpec
CONSTANTS
  g1 = g1  g2 = g2  g3 = g3
  Runs = {g1, g2, g3}
  Sqls = {"x", "X", "y"}
  Normal <- MCNormal
  Asks <- MCAsks
  Flows = {"query"}
  MaxSteps = 2
  RecursionLimit = 5
  MaxVersion = 1
INVARIANTS TypeOK AnswersItsStatement RepeatIsRecalled
PROPERTIES EveryDiagnosisEnds
CHECK_DEADLOCK FALSE
