SPECIFICATION Spec
CONSTANTS
  Capacity = 3
  Preroll = 1
  MaxGeneration = 2
  MaxFrames = 4
  MaxRequest = 2
INVARIANTS HeardInOrder SilenceIsKept
PROPERTY DrainIsGenuine
CHECK_DEADLOCK FALSE
