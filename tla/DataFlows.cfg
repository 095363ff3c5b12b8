SPECIFICATION FlowSpec
CONSTANTS
  Shapes = {"stream", "filtered", "framed", "atomic"}
  Raws = {0, 1, 2, 3, 4, 5, 6, 7}
  PartCap = 2
  FrameSize = 2
  PipeCap = 2
  MaxFaults = 2
  Preference <- MCPreference
  Chain <- MCChain
  NParts <- MCNParts
  Route <- MCRoute
  Stations <- MCStations
  Placements <- MCPlacements
  Sealings <- MCSealings
  Requests <- MCRequests
  NightlyTiers = {"sample", "checksum", "structural", "chain", "stock"}
  MaxDamage = 1
  Window = 2
  Sample = 0
  Rotation = 2
  DiskMedium = disk
  TapeMedium = tape
  a1 = a1
  a2 = a2
  b1 = b1
INVARIANTS TransferIsTrue RestoreIsWhole
PROPERTIES DrillsAreHonest TransferEnds DrillsComeRound
CHECK_DEADLOCK FALSE
