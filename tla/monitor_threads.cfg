CONSTANTS
  f1 = f1
  f2 = f2
  MaxTid = 3
  StartTids = 2
  Procs = {}
  Ordinary = {}
  Fatal = {f1, f2}
  Caught = {}
  JobControl = {}
  MaxExits = 1
  MaxSleeps = 1
  MaxExecs = 1
  MayKill = FALSE
  MaxRounds = 4
  MaxDumps = 0
  DiskFull = TRUE
SPECIFICATION Spec
INVARIANTS EveryThreadWatched LeaderExitKnown CrashIsFatal
\* Arthur returns and the target may be gone: the system really stops.
CHECK_DEADLOCK FALSE
