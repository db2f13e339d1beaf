SPECIFICATION Spec
CONSTANTS
  q1 = q1  q2 = q2  nobody = nobody  vast = vast
  Requests = {q1, q2}
  Questions <- MCQuestions
  Process <- MCProcess
  Plans <- MCPlans
  MaxChanges = 0
  MaxRounds = 1
  Nobody = nobody
  Vast = vast
  Staff = {"explain", "knowledge"}
INVARIANTS HighRiskNeverRuns
CHECK_DEADLOCK FALSE
