SPECIFICATION FairSpec
CONSTANTS
  p1 = p1
  p2 = p2
  s1 = s1
  v1 = v1
  v2 = v2
  mine = mine
  Absent = Absent
  Path <- OneManaged
  Managed <- OneManaged
  Content <- AllContent
  RigelContent <- Shipped
  Core <- NoPaths
  Harness <- NoPaths
  Layers <- NoLayer
  Modes <- OneMode
  EditsWhileRunning = FALSE
  MaxReleases = 1
  MaxEdits = 0
  MaxCrashes = 1
PROPERTY RecordCatchesUp
CHECK_DEADLOCK FALSE
