CONSTANTS
  ana = ana
  bia = bia
  cid = cid
  hall = hall
  den = den
  Everybody <- Three
  Channels <- TwoChannels
  Seers <- EverybodySees
  Links <- Triangle
  Seen = 1
  Heard = 2
  Cameras = {ana}
  MaxSaid <- Sayings
  MaxBreaks = 1
  MaxDeeds = 4
SYMMETRY Either
SPECIFICATION SpecHistory
INVARIANTS
  LatestOfTheSteady
  SeatsOfTheSteady
CHECK_DEADLOCK FALSE
