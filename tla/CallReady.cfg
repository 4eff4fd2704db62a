CONSTANTS
  Jobs = {"call", "ready"}
  Capacity = 4
  MaxJobs = 2
SPECIFICATION FairGoroutines
PROPERTIES
  EveryCallReturns
CHECK_DEADLOCK FALSE
