SPECIFICATION FairSpec
CONSTANTS
  ac1 = ac1
  ac2 = ac2
  AC <- TwoCriteria
  ClearsReport = FALSE
  MaxEdits = 3
INVARIANTS
  TypeOK
  AcceptanceInv
  AcceptedIsBuilt
PROPERTIES
  ProofsAreKept
  ProvenWorkIsAccepted
CHECK_DEADLOCK FALSE
