SPECIFICATION Spec
CONSTANTS
  p1 = p1
  p2 = p2
  s1 = s1
  v1 = v1
  v2 = v2
  mine = mine
  Absent = Absent
  Path <- TwoManaged
  Managed <- TwoManaged
  Content <- AllContent
  RigelContent <- Shipped
  Core <- NoPaths
  Harness <- NoPaths
  Layers <- NoLayer
  Modes <- OneMode
  EditsWhileRunning = FALSE
  MaxReleases = 2
  MaxEdits = 2
  MaxCrashes = 0
PROPERTY NeverClobbersEdit
CHECK_DEADLOCK FALSE
