CONSTANTS
  ann = ann
  bob = bob
  cal = cal
  People = {ann, bob, cal}
  Creator = ann
  Ids = {1, 2}
  MaxMembers = 3
  Occasions <- MCOccasions
  Pieces = 3
  Span = 2
SPECIFICATION FairSpec
INVARIANTS
  ShutOutReadNothing
  RemovedLearnNothing
PROPERTIES
  ReadersAgree
  SecretsSettle
  WantedFilesArrive
CHECK_DEADLOCK FALSE
