SPECIFICATION SafetySpec
CONSTANTS
  kMaxSources = 1
  Replay <- TwoFrames
  RingSlots = 1
  QueueSlots = 1
  Scenarios <- Disturbed
INVARIANTS
  RestartsCounted
  ExitZeroMeansFinished
PROPERTY
  GenerationMarksRestart
