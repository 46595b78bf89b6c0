SPECIFICATION Spec
CONSTANTS
  Media <- SomeMedia
  PacketLimit = 2
  ByteLimit = 2
  FrameRoom = 1
  BlockRoom = 1
  EventLimit = 1
  MaxTroubles = 2
INVARIANTS BudgetHeld
PROPERTIES OperationEnds KeepsContract
CHECK_DEADLOCK FALSE
