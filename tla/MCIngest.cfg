SPECIFICATION Spec
CONSTANTS
  kMaxSources = 1
  Replay <- MCReplay
  RingSlots = 1
  QueueSlots = 2
INVARIANTS
  TypeOK
  NothingLost
  NoLostWakeup
PROPERTY
  IngestFinishes
