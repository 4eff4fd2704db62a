CONSTANTS
  Identities = {1, 2, 3, 4, 5, 6, 9}
  Machines <- Homes
  Conns = {"a", "b", "c", "d"}
  PerAddress = 2
  Subscriptions = 12
  Announcements = 2
  Largest = 9
  Burst = 8
  FirstBlock = 1
  LongestBlock = 3
  Forgiven = 4
  Friends = {{5, 6}}
  Members = {1, 2, 3, 4}
  Place <- Order
  Draw <- Drawn
  Situations <- Occurring
SPECIFICATION FairSpec
INVARIANTS
  LimitsAreKept
PROPERTIES
  WhoIsWantedIsFound
  MembersHoldTogether
CHECK_DEADLOCK FALSE
