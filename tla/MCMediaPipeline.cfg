CONSTANTS
  MaxGeneration = 2
  FrameCapacity = 1
  SinkCapacity = 1
SPECIFICATION Spec
INVARIANTS ResultsAreCurrent AudioIsCurrent FramesAreCurrent SinkFollowsIntent
PROPERTIES OnlyNewestStarts StopEndsOperation RequestIsTaken ShutdownJoins
CHECK_DEADLOCK FALSE
