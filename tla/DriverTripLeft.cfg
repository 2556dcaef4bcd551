SPECIFICATION DriverTripSpec
CONSTANTS
    MaxTx = 2
    MaxFlush = 1
    MaxRows = 1
    MaxFix = 0
    MaxDrop = 0
    MaxKill = 1
    MaxReq = 4
    MaxShift = 2
INVARIANTS
    LeftTripIsClosed
CHECK_DEADLOCK FALSE
