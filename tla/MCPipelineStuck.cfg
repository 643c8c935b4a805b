SPECIFICATION WindowStuckSpec
CONSTANTS
  kMaxSources = 1
  Replay <- OneFrame
  RingSlots = 1
  QueueSlots = 1
  Scenarios <- Stalling
PROPERTY FaultEndsCompute
