SPECIFICATION SafetySpec
CONSTANTS
  kMaxSources = 1
  Replay <- OneFrame
  RingSlots = 1
  QueueSlots = 1
  Scenarios <- Clean
INVARIANT ExitZeroDelivers
