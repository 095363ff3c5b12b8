SPECIFICATION CycleSpec
CONSTANTS
  Media = {"disk", "cloud"}
  MaxLevel = 2
  MaxRuns = 5
  MaxLosses = 0
INVARIANT RestoreIsWhole
CHECK_DEADLOCK FALSE
