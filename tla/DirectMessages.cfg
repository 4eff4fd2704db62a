CONSTANTS
  ann = ann
  bob = bob
  Writers = {ann}
  MaxWritten = 2
  MaxTroubles = 1
SPECIFICATION MeetingSpec
PROPERTIES
  KeepsItsPromise
  EveryEntryIsDelivered
  LetsGo
CHECK_DEADLOCK FALSE
