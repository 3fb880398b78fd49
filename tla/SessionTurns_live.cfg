SPECIFICATION FairSpec
CONSTANTS
  c1 = c1  c2 = c2  c3 = c3
  Commands = {c1, c2}
  OwnTurn = {}
  None = None
  MaxLines = 1
  MaxInputs = 2
  MaxTasks = 1
  MaxExits = 1
  MaxRestarts = 1
  EngineDrops = FALSE
  ClosesInGrace = FALSE
  Deletable = {"queued"}
INVARIANTS
  NothingIsGivenTwice
PROPERTIES
  UnknownStaysUnknown
  InputsSettle
  CommandsMoveOn
CHECK_DEADLOCK FALSE
