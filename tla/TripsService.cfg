SPECIFICATION Spec
CONSTANTS
  Bus = {b1}
  Dir = {d1}
  Req = {r1, r2}
  NoBus = NoBus
  NoDir = NoDir
  NoReq = NoReq
  MaxTrip = 2
  Faulty = TRUE
  MaxSnapshot = 1
  MaxOutbox = 1
CHECK_DEADLOCK FALSE
INVARIANT StatusTruthful StartClosesVisible
PROPERTY AbandonIsAtomic RequestsAnswered
