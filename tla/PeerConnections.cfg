CONSTANTS
  Peers = {1, 2}
  MaxEnds = 2
  MaxSessions = 3
  Costs <- Costing
  MaxCost = 3
SPECIFICATION FairSpec
INVARIANTS
  NobodyIsForgotten
  ConnectionsAreKnown
  WhoIsOnlineIsFound
PROPERTIES
  BothWantMeet
  LetsGo
CHECK_DEADLOCK FALSE
