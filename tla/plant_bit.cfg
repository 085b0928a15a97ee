SPECIFICATION PlantSpec
CONSTANTS
  Messages <- MCPlantMessages
  FrameCount = 1
  FaultKinds = {"none"}
  FlipBytes = {}
  ReadSizes = {7, 16}
CHECK_DEADLOCK FALSE
INVARIANT PlantFramesRead
