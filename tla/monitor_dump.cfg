CONSTANTS
  s1 = s1
  f1 = f1
  MaxTid = 2
  StartTids = 1
  Procs = {}
  Ordinary = {s1}
  Fatal = {f1}
  Caught = {s1}
  JobControl = {"STOP"}
  MaxExits = 1
  MaxSleeps = 1
  MaxExecs = 0
  MayKill = TRUE
  MaxRounds = 4
  MaxDumps = 1
  DiskFull = FALSE
SPECIFICATION Spec
INVARIANTS SnapshotIsStill PublishedAfterRelease
PROPERTIES ReadSignalsRelayed ReadGroupStopKept
\* Arthur returns and the target may be gone: the system really stops.
CHECK_DEADLOCK FALSE
