SPECIFICATION LifecycleSafe
CONSTANTS
  Bus = {b1}
  Dir = {d1, d2}
  KnownDir = {d1, d2}
  Req = {r1}
  Task = {k1, k2}
  NoBus = NoBus
  NoDir = NoDir
  NoReq = NoReq
  MaxTrip = 2
  Faulty = TRUE
  MaxSnapshot = 0
  MaxOutbox = 1
  MaxPing = 1
  MaxDup = 0
  MaxReset = 1
  MaxChannel = 1
  MaxFinal = 0
CHECK_DEADLOCK FALSE
SYMMETRY Perms
INVARIANT LifecycleTypeOK MessagesTruthful TripStateMatchesTable
PROPERTY ClosedForAnother
