CONSTANTS
  Duration = 2
  Sources = {"remote"}
  TracksInRecovery = FALSE
SPECIFICATION Spec
INVARIANTS ShownIsCurrent FallbackSticks PlaybackNeverStalls SeekNeverStalls
PROPERTIES StoppedStays ClockNeverRewinds
CHECK_DEADLOCK FALSE
