SPECIFICATION RingSpec
CONSTANTS
  v1 = v1
  v2 = v2
  Values <- MCValues
  Blank = v1
  Capacity = 4
  MaxPush = 5
INVARIANTS
  RingTypeOK
  NoDataRace
  OccupiedExact
PROPERTY
  IsFifo
