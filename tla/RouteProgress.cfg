CONSTANTS
    JoinTolerance = 1
    SnapTolerance = 8
    StopBuffer = 4
    StopSpacing = 6
    Relations <- MCRelations
    Candidates <- MCCandidates
    AvgSpeeds <- MCAvgSpeeds
    Fixes <- MCFixes
    Speeds = {0, 24}
    LiveMax = 1
    EstimatedMax = 3
    Ramp = 4
    EtaTtl = 4
    Upcoming = 2
    Task = {t1, t2}
    MaxReports = 1
    MaxQueue = 1
    MaxAge = 4
    Own <- MCOwn
    Others <- MCOthers
    StopNames <- MCStopNames
    Null = Null
    Texts <- MCTexts
    Here <- MCHere
    Radii = {9, 13}
    Limits = {1, 2, 9}
SPECIFICATION QueriesSpec
INVARIANTS ProgressTypeOK IngestedRoute MatchIsNearest NextStopAgrees JourneysExact NearbyComplete SearchFinds
CHECK_DEADLOCK FALSE
PROPERTY ExtrapolationAdvances
SYMMETRY Tasks
