CONSTANTS
  Jobs <- Everything
  Capacity = 3
  MaxJobs = 5
SPECIFICATION FairGoroutines
INVARIANTS
  WantedWhileThereIsACall
PROPERTIES
  OnlyTheManagerStrandsAnybody
CHECK_DEADLOCK FALSE
