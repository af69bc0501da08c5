SPECIFICATION FairSpec
CONSTANTS
  c1 = c1
  h1 = h1
  s1 = s1
  v1 = v1
  v2 = v2
  mine = mine
  cut = cut
  Absent = Absent
  Torn = cut
  Path <- ThreePaths
  Managed <- CoreAndHarness
  Content <- OneVersionContent
  RigelContent <- OneVersion
  Core <- CoreOnly
  Harness <- CoreAndHarness
  MaxReleases = 1
  MaxEdits = 1
  MaxCrashes = 2
INVARIANTS
  AdoptInv
  RecordIsHonest
  AdoptConverges
PROPERTIES
  NothingOverwritten
  AdoptGetsThrough
CHECK_DEADLOCK FALSE
