SPECIFICATION EvalSpec
CONSTANTS
  q1 = q1  q2 = q2  nobody = nobody  vast = vast
  Requests = {q1, q2}
  Process <- MCProcess
  Questions <- MCQuestions
  Plans <- MCPlans
  MaxChanges = 1
  MaxRounds = 2
  Nobody = nobody
  Vast = vast
  Staff = {"explain", "knowledge"}
  Evaluator = q2
  Items <- MCItems
INVARIANTS TypeOK OnlySelectsReachTheDatabase RecognisedRiskNeverRuns AnswersRestOnDatabase AnswerIsTheLastWords FixedItemsPass VerdictsAddUp
CHECK_DEADLOCK FALSE
