SPECIFICATION Spec
CONSTANTS
  c1 = c1  c2 = c2  c3 = c3  a1 = a1  a2 = a2  s1 = s1  s2 = s2  s3 = s3
  Cards = {c1, c2, c3}
  Agents = {a1, a2}
  Sessions = {s1, s2, s3}
  AgentOf <- SessionAgent
  NoSession = NoSession
  Calls <- SixCalls
CHECK_DEADLOCK FALSE
INVARIANTS TypeOK ClosedCardsLeaveNothing StoppedCallsAreNotAllowed BlockedAgentsHaveAnOpenCard
PROPERTIES KeepsItsPromise AskedIsAnswered
