SPECIFICATION ShiftSpec
CONSTANTS
    MaxTx = 2
    MaxFlush = 1
    MaxRows = 1
    MaxFix = 0
    MaxDrop = 0
    MaxKill = 1
    MaxReq = 4
    MaxShift = 2
    Id = {i1, i2}
    MaxAttempts = 1
    MaxCode = 2
    MaxCall = 3
SYMMETRY IdPerms
INVARIANTS
    ShiftTypeOK
    ShownTripRuns
    LeavingCloses
    OneTripPerShift
    CodeGrantsOnce
    SignedInWasVerified
    RevealIsLatest
CHECK_DEADLOCK FALSE
