SPECIFICATION LifecycleSafe
CONSTANTS
  Bus = {b1}
  Dir = {d1}
  KnownDir = {d1}
  Req = {r1}
  Task = {k1, k2}
  NoBus = NoBus
  NoDir = NoDir
  NoReq = NoReq
  MaxTrip = 2
  Faulty = FALSE
  MaxSnapshot = 0
  MaxOutbox = 1
  MaxPing = 1
  MaxDup = 0
  MaxReset = 0
  MaxChannel = 1
  MaxFinal = 1
CHECK_DEADLOCK FALSE
PROPERTY DriverTripKeepsPings
