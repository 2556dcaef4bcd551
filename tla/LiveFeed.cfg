SPECIFICATION LiveFeedSpec
CONSTANTS
  Bus = {b1, b2, b3}
  Mapped = {b1, b3}
  Late = {b3}
  LiveMaxAge = 0
  EstimatedMaxAge = 1
  EtaGrace = 1
  Slot = {s1}
  Watcher = {w1}
  Lag = 1
  MaxTime = 3
  LastReport = 1
  MaxReport = 2
  MaxLog = 1
CHECK_DEADLOCK FALSE
INVARIANT LiveFeedTypeOK TimestampsAreReal
PROPERTY ShowsHonestly QuietBusGoesStale
