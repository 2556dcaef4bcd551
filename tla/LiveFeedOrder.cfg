SPECIFICATION LiveFeedSpec
CONSTANTS
  Bus = {b1}
  Mapped = {b1}
  LiveMaxAge = 1
  EstimatedMaxAge = 2
  EtaGrace = 1
  Slot = {s1}
  Watcher = {w1}
  Late = {}
  Lag = 1
  MaxTime = 4
  LastReport = 1
  MaxReport = 2
  MaxLog = 2
CHECK_DEADLOCK FALSE
INVARIANT UpdatesStayOrdered

