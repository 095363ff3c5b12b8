SPECIFICATION SideSpec
CONSTANTS
  p1 = p1
  p2 = p2
  p3 = p3
  p4 = p4
  p5 = p5
  N = 2
  Capacity <- MCCapacity
  Writers <- MCWriters
  Dumps <- MCDumps
  Est <- MCEst
  Size <- MCSize
  Lanes <- MCLanes
  Permits <- MCPermits
  Route <- MCRoute
INVARIANTS Ledger BudgetedBytesFit NoLostWakeup
PROPERTIES EveryDumpServed RunEnds
CHECK_DEADLOCK FALSE
