SPECIFICATION Spec
CONSTANTS
  Messages <- MCMessages
  FrameCount = 2
  FaultKinds = {"flip"}
  FlipBytes = {3}
  ReadSizes = {7, 16}
CHECK_DEADLOCK FALSE
INVARIANT ParserNeverPanics
