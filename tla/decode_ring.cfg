SPECIFICATION RingSpec
CONSTANTS
  BlockSize = 5
  Window = 6
  Margin = 0
  Slop = 4
  MaxBytes = 36
INVARIANTS
  NearMatchesResolve
CHECK_DEADLOCK FALSE
