SPECIFICATION Spec
CONSTANTS
  Messages <- MCMessages
  FrameCount = 3
  FaultKinds = {"none", "flip", "drop", "duplicate"}
  FlipBytes = {3, 43, 45}
  ReadSizes = {7, 16}
CHECK_DEADLOCK FALSE
INVARIANT TypeOK OnlySentFrames PromptDelivery FlipCostsOneFrame
