SPECIFICATION Spec
CONSTANTS
  DLEs = {1, 2}
  Media = {"disk", "nas", "vault"}
  Landing = "disk"
  MediaOrder <- MCOrder
  Routes <- MCRoutes
  Rules <- MCRules
  Capacity <- MCCapacity
  MinAge <- MCMinAge
  MaxRuns = 3
  MaxFails = 1
  MaxCopies = 1
INVARIANTS AdvertisedIsHeld CoverageIsTold
PROPERTIES CopiesKeepTheirPlan PruneSparesOwed
CHECK_DEADLOCK FALSE
