SPECIFICATION Spec
CONSTANTS
  c1 = c1  c2 = c2  c3 = c3  s1 = s1  s2 = s2  nobody = nobody
  Calls = {c1, c2, c3}
  Process <- MCProcess
  Statements = {"x", "X", "y", "z"}
  Normal <- MCNormal
  LooksLikeSql = {"x", "X", "y"}
  SafeSelects = {"x", "X"}
  Changing = {}
  Cacheable = {"X"}
  CatalogSql <- MCCatalogSql
  Mentions <- MCMentions
  Sessions = {s1, s2}
  Ops <- MCOps
  MaxCrashes = 1
  Nobody = nobody
SYMMETRY ServerSymmetry
INVARIANTS TypeOK VersionsAreNumbered CheckpointsAreTheSessions BaselineIsOfADiagnosis
PROPERTIES ImplementsVersionLog
CHECK_DEADLOCK FALSE
