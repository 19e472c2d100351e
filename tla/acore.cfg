SPECIFICATION Spec
CONSTANTS
  BlockSize = 3
  MaxFile = 5
  MaxThreads = 2
  CmdlineLen = 2
  MaxRepeat = 4
  Targets <- MCTargets
INVARIANTS
  RoundTrip
  Integrity
