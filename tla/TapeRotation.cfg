SPECIFICATION Spec
CONSTANTS
  Tapes = {1, 2, 3}
  Drives = {1, 2}
  DLEs = {"a", "b"}
  Cap = 3
  Size = 3
  MaxRuns = 3
  MaxFaults = 1
INVARIANTS TypeOK LatestWhole FilesAreNamed
CHECK_DEADLOCK FALSE
