SPECIFICATION Spec
CONSTANTS
  kMaxSources = 1
  Replay <- NoFrames
  RingSlots = 1
  QueueSlots = 1
  Scenarios <- Held
PROPERTY SignalRaisesFlag
