SPECIFICATION BookSpec
CONSTANTS
  Kinds = {"robot", "emulated"}
  Reels = {1, 2}
  Slots = {1, 2, 3}
  Drives = {1, 2}
  MaxFiles = 3
  MaxFaults = 2
INVARIANTS ReadsAreExact PlansAreKept MetersAreTrue
INVARIANTS ConfigurationIsSound ReelsAreKept
PROPERTY LastFullStays
CHECK_DEADLOCK FALSE
