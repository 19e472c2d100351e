SPECIFICATION RingSpec
CONSTANTS
  BlockSize = 4
  Window = 5
  Margin = 1
  Slop = 4
  MaxBytes = 40
INVARIANTS
  MatchesResolve
CHECK_DEADLOCK FALSE
