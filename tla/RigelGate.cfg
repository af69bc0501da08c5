SPECIFICATION LearningSpec
CONSTANTS
  lint = lint
  regression = regression
  g1 = g1
  g2 = g2
  Chain <- ShortChain
  Regression = regression
  Gate <- TwoGates
  Tested <- Lint
  ClearsLog = TRUE
  MaxCommits = 2
  MaxPlans = 2
  s1 = s1
  s2 = s2
  Lesson = {1, 2}
  Signature = {s1, s2}
  StaleAfter = 2
  LastPlan = 3
  MaxLines = 2
  MaxOccasions = 3
  MaxClaims = 2
  Planless = Planless
  NoLesson = NoLesson
  Commented = Commented
INVARIANTS
  TypeOK
  GateInv
  FirstFailureOwesNothing
  PromotionIsEarned
  StaleIsQuiet
PROPERTIES
  GatePinsRecurring
SYMMETRY Symmetry
CHECK_DEADLOCK FALSE
