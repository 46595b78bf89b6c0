SPECIFICATION Spec
CONSTANTS
  Capacity = 4
  Preroll = 2
  MaxGeneration = 1
  MaxFrames = 5
  MaxRequest = 1
PROPERTIES SubmitReturns DrainIsReported
CHECK_DEADLOCK FALSE
