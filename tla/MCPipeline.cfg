SPECIFICATION Spec
CONSTANTS
  kMaxSources = 2
  Replay <- FourFrames
  RingSlots = 1
  QueueSlots = 1
  Scenarios <- Clean
INVARIANTS
  TypeOK
  ExactlyOnce
  SnapshotComplete
  OutputComplete
PROPERTY
  Terminates
