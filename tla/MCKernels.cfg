SPECIFICATION KernelsSpec
CONSTANTS
  kMaxSources = 2
  Senders <- MCSenders
  Damages <- MCDamages
  INT32_MAX = 7
  INT64_MAX = 127
  Second = 4
  Samples <- MCSamples
  Steps <- MCSteps
  MaxSteps = 2
  Period = 1
  FloorNs = 3
  Wrap = 64
  MaxClock = 7
  kParts = 2
  MaxPublish = 4
  MaxDeaths = 2
INVARIANTS
  KernelsTypeOK
  OnlyWholeFrames
  NoOverflow
  PositionIsPath
  FaultJustified
  CyclesPaced
  TypeOK
  Ownership
  WholeCopy
PROPERTIES
  SilenceNoticed
  IsLatestValue
CHECK_DEADLOCK FALSE
