SPECIFICATION StopEventsSpec
CONSTANTS
  LastStop = 3
  KnownStop = {1, 3}
  Positions <- MCPositions
  Sustained = 1
  Task = {k1, k2}
  MaxOcc = 2
  MaxObj = 2
  MaxTime = 4
  MaxMessages = 4
CHECK_DEADLOCK FALSE
INVARIANT StopEventsTypeOK OneAlertPerEpisode StopsInOrder OccupancyBalances
SYMMETRY Handlers
