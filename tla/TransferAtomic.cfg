SPECIFICATION Spec
CONSTANTS
  Shapes = {"atomic"}
  Raws = {0, 1, 2, 3, 4, 5, 6}
  PartCap = 2
  FrameSize = 2
  PipeCap = 2
  MaxFaults = 1
PROPERTY SinkFaultsAreReported
CHECK_DEADLOCK FALSE
