SPECIFICATION FairSpec
CONSTANTS
  p1 = p1
  p2 = p2
  s1 = s1
  v1 = v1
  v2 = v2
  mine = mine
  Absent = Absent
  Path <- ManagedAndSeed
  Managed <- OneManaged
  Content <- AllContent
  RigelContent <- Shipped
  Core <- OneManaged
  Harness <- OneManaged
  Layers <- SomeLayers
  Modes <- OneMode
  EditsWhileRunning = TRUE
  MaxReleases = 2
  MaxEdits = 2
  MaxCrashes = 1
INVARIANTS
  TypeOK
  OwnsOnlyWhatItPlaced
  PlacedIsOwned
PROPERTIES
  UntouchedFilesCatchUp
CHECK_DEADLOCK FALSE
