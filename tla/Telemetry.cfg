SPECIFICATION TelemetrySpec
CONSTANTS
    MaxTx = 2
    MaxFlush = 2
    MaxRows = 1
    MaxFix = 2
    MaxDrop = 1
    MaxKill = 1
INVARIANTS
    FixesAccounted
    FlushedOldestFirst
PROPERTIES
    BacklogDrains
CHECK_DEADLOCK FALSE
