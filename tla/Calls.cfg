CONSTANTS
  ana = ana
  bia = bia
  cid = cid
  People <- Two
  Streams = {"screen"}
  Joiners = {bia}
  MaxCalls = 2
  MaxBreaks = 2
  MaxShares = 1
SPECIFICATION FairSpec
INVARIANTS
  CallersAreToldTheTruth
  BothSeeWhatIsShared
PROPERTIES
  CallersAreNotLeft
CHECK_DEADLOCK FALSE
