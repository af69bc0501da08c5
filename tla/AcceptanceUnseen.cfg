SPECIFICATION Spec
CONSTANTS
  ac1 = ac1
  ac2 = ac2
  AC <- TwoCriteria
  ClearsReport = TRUE
  MaxEdits = 3
INVARIANTS
  RedMeansFailed
CHECK_DEADLOCK FALSE
