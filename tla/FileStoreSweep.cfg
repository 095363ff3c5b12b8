SPECIFICATION Spec
CONSTANTS
  a1 = a1
  Archives <- OneArchive
  RunOf <- OneRun
  Kinds <- PartAndFooter
  MaxPos = 3
  MaxStarts = 2
  MaxFaults = 3
  MaxCuts = 0
INVARIANT FooterFirst
CHECK_DEADLOCK FALSE
