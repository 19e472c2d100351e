CONSTANTS
  s1 = s1
  MaxTid = 3
  StartTids = 2
  Ordinary = {s1}
  JobControl = {"STOP"}
  MaxSleeps = 1
  MayKill = TRUE
  MaxRounds = 3
SPECIFICATION Spec
INVARIANTS TypeOK SnapshotIsStill NothingLeftTraced PublishedMeansReleased StopsAreOurs
PROPERTIES SignalsRelayed
\* Arthur exits and the target may be gone: the system really stops.
CHECK_DEADLOCK FALSE
