CONSTANTS
  q = q
  MaxTid = 1
  StartTids = 1
  Ordinary = {q, "chld"}
  JobControl = {}
  MaxSleeps = 0
  MayKill = FALSE
  MaxRounds = 2
  Core = {q}
  Foreign = {q}
SPECIFICATION ForkSpec
PROPERTIES InterceptedRelayed
\* Arthur exits and the target may be gone: the system really stops.
CHECK_DEADLOCK FALSE
