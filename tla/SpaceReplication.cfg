CONSTANTS
  ann = ann
  bob = bob
  cal = cal
  People = {ann, bob, cal}
  Creator = ann
  Ids = {}
  MaxMembers = 3
  Situations <- MCSituations
SPECIFICATION FairSpec
INVARIANTS
  NothingOfASpaceNotJoined
PROPERTIES
  NothingCircles
  Agreement
CHECK_DEADLOCK FALSE
