SPECIFICATION FairSpec
CONSTANTS
  d1 = d1
  d2 = d2
  N = 1
  Capacity <- MCCapacity
  Writers <- MCWriters
  Lanes <- MCLanes
  Permits <- MCPermits
  Dumps <- Staged2
  Est <- StagedEst
  Size <- StagedSize
  Route <- StagedRoute
INVARIANTS PermitsConserved StagedOutlivesDrains CleanRunIsComplete
PROPERTIES RunEnds ImplementsStagedArchives ImplementsPool
CHECK_DEADLOCK FALSE
