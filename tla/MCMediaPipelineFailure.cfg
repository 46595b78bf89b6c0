CONSTANTS
  MaxGeneration = 1
  FrameCapacity = 1
  SinkCapacity = 1
SPECIFICATION Spec
PROPERTY FailureEndsOperation
CHECK_DEADLOCK FALSE
