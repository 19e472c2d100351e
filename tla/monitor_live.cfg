CONSTANTS
  f1 = f1
  MaxTid = 2
  StartTids = 2
  Procs = {}
  Ordinary = {}
  Fatal = {f1}
  Caught = {}
  JobControl = {}
  MaxExits = 1
  MaxSleeps = 1
  MaxExecs = 1
  MayKill = FALSE
  MaxRounds = 4
  MaxDumps = 1
  DiskFull = TRUE
SPECIFICATION FairSpec
INVARIANTS SnapshotForgetsNobody
PROPERTIES StopsAreRead CrashEnds TermObeyed
\* Arthur returns and the target may be gone: the system really stops.
CHECK_DEADLOCK FALSE
