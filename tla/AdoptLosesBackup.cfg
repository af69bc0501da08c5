SPECIFICATION Spec
CONSTANTS
  c1 = c1
  h1 = h1
  s1 = s1
  v1 = v1
  v2 = v2
  mine = mine
  cut = cut
  Absent = Absent
  Torn = cut
  Path <- CoreAndSeed
  Managed <- CoreOnly
  Content <- TwoVersionContent
  RigelContent <- TwoVersions
  Core <- CoreOnly
  Harness <- CoreOnly
  MaxReleases = 1
  MaxEdits = 0
  MaxCrashes = 1
INVARIANTS
  TakenOverIsKept
CHECK_DEADLOCK FALSE
