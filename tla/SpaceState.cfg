CONSTANTS
  ann = ann
  bob = bob
  cal = cal
  dan = dan
  i1 = i1
  People = {ann, bob, cal, dan}
  Ids = {i1}
  Creator = ann
  MaxMembers = 3
SPECIFICATION StateSpec
SYMMETRY Symmetric
INVARIANTS
  OneOwner
  NothingDangles
  LosingAccessBeginsAnEpoch
  NobodyActsUpwards
  NobodyPromotesThemselves
PROPERTIES
  DeletedIdsStayDeleted
CHECK_DEADLOCK FALSE
