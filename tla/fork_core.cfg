CONSTANTS
  q = q
  MaxTid = 2
  StartTids = 2
  Ordinary = {q, "chld"}
  JobControl = {}
  MaxSleeps = 0
  MayKill = TRUE
  MaxRounds = 2
  Core = {q}
  Foreign = {}
SPECIFICATION ForkFairSpec
INVARIANTS TargetRestored SnapshotUnpolluted NoChildLeft
PROPERTIES InterceptedRelayed Terminates
\* Arthur exits and the target may be gone: the system really stops.
CHECK_DEADLOCK FALSE
