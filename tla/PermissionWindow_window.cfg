SPECIFICATION WindowSpec
CONSTANTS
  c1 = c1  a1 = a1  s1 = s1
  Cards = {c1}
  Agents = {a1}
  Sessions = {s1}
  AgentOf <- SessionAgent
  NoSession = NoSession
  Calls <- TwoCalls
  MaxDrops = 2
  MaxFailures = 2
  MaxAnswers = 2
CHECK_DEADLOCK FALSE
INVARIANTS NoCardIsMissed NoOtherGhostCards OneAnswerUnderWay
PROPERTIES AnswersAreNotLost
