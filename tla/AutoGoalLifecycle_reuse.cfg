SPECIFICATION Spec
CONSTANTS
  chosen = chosen  spare = spare  src = src  out = out
  Procedures = {chosen, spare}
  InUse = {chosen}
  Files = {src, out}
  Changed = Changed
  Contents = {Changed, Blank}
  Blank = Blank
  Missing = Missing
  Bodies = {"first", "other"}
  FirstBody = "first"
  Tasks = {"task"}
  EvidenceSets <- Sources
  InputSets <- Sources
  OutputSets <- Outputs
  MaxCompletions = 1
  MaxReviews = 2
  MaxAssessments = 2
  MaxEdits = 2
  ByHand = {"active", "retired"}
  None = None
INVARIANTS StoppedStaysStopped
PROPERTIES SkipsAreProven OutcomesBelongToTheirReview
