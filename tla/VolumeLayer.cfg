SPECIFICATION LayerSpec
CONSTANTS
  a1 = a1
  a2 = a2
  Archives <- MCArchives
  RunOf <- MCRunOf
  Kinds <- MCKinds
  MaxPos = 4
  MaxStarts = 3
  MaxFaults = 2
  MaxCuts = 1
  DLEs = {1, 2}
  Landings = {1, 2}
  Arrays <- MCArrays
  TypeOf <- MCTypeOf
  Unusable = {1, 2}
  Stageable = {1, 2}
  ArchiveSize = 2
  Backups <- MCBackups
  Reels = {1, 2}
  Names = {"A", "B"}
  Tape = "lto"
  Disk = "disk"
  Landing = "lto"
  Layouts <- MCLayouts
  MaxWrites = 3
  MaxLabels = 3
  MaxScans = 1
  MaxLosses = 1
INVARIANTS StoreIsWhole CatalogIsTrue 
PROPERTIES RemovalsSpareCommitted DumpsStayEnded
CHECK_DEADLOCK FALSE
SYMMETRY MCSymmetry
