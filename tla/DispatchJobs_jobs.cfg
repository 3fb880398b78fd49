SPECIFICATION Spec
CONSTANTS
  Jobs = {j1, j2}
  Calls = {c1, c2}
  a = a
  e = e
  Agents <- MCAgents
  Sessions = {s}
  Edges = {e}
  Keys = {k}
  Texts = {t}
  AgentOf <- MCAgentOf
  Source <- MCSource
  Returning <- MCReturning
  Timed <- MCTimed
  NoJob = NoJob
  NoKey = NoKey
  NoSession = NoSession
  MaxFinished = 1
  MaxTaken = 1
INVARIANTS
  TypeOK
  NobodyWaitsOnAFinishedJob
  OneRunPerKey
  NoDuplicateWork
PROPERTIES
  UndeliveredResultsGoLast
  CompletedTurnsHaveTheirResults
  HeldCallsAreAnswered
CHECK_DEADLOCK FALSE
