CONSTANTS
  Platforms <- SomePlatforms
  MaxAttempts = 1
  MaxTroubles = 2
  MaxChanges = 3
SPECIFICATION Spec
INVARIANTS FrameIsFaithful SwapchainDiesWithSurface FailureReachesTheUser
PROPERTIES EveryChangeIsShown
CHECK_DEADLOCK FALSE
