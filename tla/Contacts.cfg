CONSTANTS
  ann = ann
  bob = bob
  Askers <- Both
  Deeds <- AllDeeds
  MaxAsks = 1
  MaxParts = 3
  MaxBreaks = 2
SPECIFICATION FairSpec
INVARIANTS
  NoContactWithoutConsent
  OneRequestOneSecret
PROPERTIES
  AcceptanceArrives
CHECK_DEADLOCK FALSE
