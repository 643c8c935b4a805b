SPECIFICATION Spec
CONSTANTS
  kWords = 2
  kAttempts = 2
  SeqModulus = 4
  MaxPublish = 3
  MaxDeaths = 1
INVARIANT
  NeverMixed
