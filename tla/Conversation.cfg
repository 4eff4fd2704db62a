CONSTANTS
  ann = ann
  bob = bob
  Occasions <- MCOccasions
  Pieces = 3
  Span = 2
SPECIFICATION FilesSpec
INVARIANTS
  WipingHidesNothing
  OwnEntriesInOrder
  UnreadIsNews
PROPERTIES
  FilesArrive
CHECK_DEADLOCK FALSE
