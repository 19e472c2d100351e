CONSTANTS
  f1 = f1
  MaxTid = 3
  StartTids = 2
  Procs = {3}
  Ordinary = {}
  Fatal = {f1}
  Caught = {}
  JobControl = {"STOP", "CONT"}
  MaxExits = 1
  MaxSleeps = 0
  MaxExecs = 0
  MayKill = TRUE
  MaxRounds = 4
  MaxDumps = 0
  DiskFull = FALSE
SPECIFICATION Spec
INVARIANTS TypeOK NobodyForgotten NothingLeftTraced JobControlKnown
PROPERTIES SignalsRelayed
\* Arthur returns and the target may be gone: the system really stops.
CHECK_DEADLOCK FALSE
