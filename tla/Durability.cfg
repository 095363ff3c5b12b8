SPECIFICATION DurableSpec
CONSTANTS
  Dumps <- MCDumps
  Lanes = {"disk", "tape"}
  RouteSet <- MCRoute
  MaxFaults = 3
  Media = {"disk"}
  MaxLevel = 3
  MaxRuns = 5
  MaxLosses = 1
  Subtrees = {"home"}
  TopLevel = 2
  MaxTars = 3
  MaxEdits = 3
INVARIANTS NeverLost RestoreIsWhole RestoresAreCurrent
PROPERTIES ImplementsStagedArchives StagedFilesMoveOn ReclaimsKeepChains
