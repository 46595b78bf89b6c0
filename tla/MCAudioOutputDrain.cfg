SPECIFICATION Spec
CONSTANTS
  Capacity = 3
  Preroll = 1
  MaxGeneration = 1
  MaxFrames = 3
  MaxRequest = 2
INVARIANT DrainedAfterLastFrame
CHECK_DEADLOCK FALSE
