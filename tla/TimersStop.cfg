SPECIFICATION FairSpec
CONSTANTS
  Tasks = {t1}
  Timer = timer
  Stopper = stopper
  MaxRounds = 1
  Scans = 2
  Workers = {1, 2}
  Stops = TRUE
  StopRaces = TRUE
PROPERTY
  StopReturns
CHECK_DEADLOCK FALSE
