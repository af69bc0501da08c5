SPECIFICATION Spec
CONSTANTS
  p1 = p1
  p2 = p2
  s1 = s1
  v1 = v1
  v2 = v2
  mine = mine
  Absent = Absent
  Path <- TwoManaged
  Managed <- TwoManaged
  Content <- AllContent
  RigelContent <- Shipped
  Core <- NoPaths
  Harness <- OneManaged
  Layers <- NoLayer
  Modes <- BothModes
  EditsWhileRunning = FALSE
  MaxReleases = 2
  MaxEdits = 2
  MaxCrashes = 1
INVARIANTS
  DeletedNeverOwned
  ProvenanceInv
PROPERTIES
  NeverRevived
  EditsSinceRecordSurvive
  DivergenceSurfaced
  KeepsLedger
SYMMETRY VersionSymmetry
CHECK_DEADLOCK FALSE
