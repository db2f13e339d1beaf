SPECIFICATION Spec
CONSTANTS
  q1 = q1  q2 = q2
  Requests = {q1, q2}
  Operations = {"draft"}
  Tokens <- MCTokens
  AuditFails = TRUE
  MaxCalls <- MCMaxCalls
  MaxCrashes = 1
INVARIANTS TypeOK NoLeak AnswerIsOwn AuditIsTrue LoneToolKeepsItsOutput OutputsShownOnce
CHECK_DEADLOCK FALSE
