SPECIFICATION Spec
CONSTANTS
  g1 = g1  g2 = g2  g3 = g3
  Runs = {g1, g2}
  Sqls = {"x"}
  Normal <- MCNormal
  Asks <- AnyAsks
  Flows = {"candidate", "generated"}
  MaxSteps = 1
  RecursionLimit = 5
  MaxVersion = 1
INVARIANTS AnalysisOfFetchedPlan
CHECK_DEADLOCK FALSE
