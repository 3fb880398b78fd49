SPECIFICATION Spec
CONSTANTS
  c1 = c1  c2 = c2  c3 = c3
  Commands = {c1, c2, c3}
  OwnTurn = {}
  None = None
  MaxLines = 1
  MaxInputs = 2
  MaxTasks = 1
  MaxExits = 1
  MaxRestarts = 0
  EngineDrops = TRUE
  ClosesInGrace = FALSE
  Deletable = {"queued"}
SYMMETRY AnyOrder
INVARIANTS
  EveryCommandHasItsPlace
  OneTurnAtATime
PROPERTIES
  TurnsEndWithTheirInputs
CHECK_DEADLOCK FALSE
