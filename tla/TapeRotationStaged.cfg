SPECIFICATION Spec
CONSTANTS
  Tapes = {1, 2, 3}
  Drives = {1}
  DLEs = {"a"}
  Cap = 3
  Size = 3
  MaxRuns = 4
  MaxFaults = 2
PROPERTY StagedUntilWhole
CHECK_DEADLOCK FALSE
