CONSTANTS
  Duration = 1
  Sources = {"local"}
  TracksInRecovery = TRUE
SPECIFICATION Spec
INVARIANTS RecoveryHoldsPosition
CHECK_DEADLOCK FALSE
