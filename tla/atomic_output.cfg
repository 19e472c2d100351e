CONSTANTS
  i1 = i1
  i2 = i2
  i3 = i3
  i4 = i4
  Inodes = {i1, i2, i3, i4}
  NoInode = NoInode
  MaxPeerSteps = 2
  ReuseInodes = FALSE
SPECIFICATION Spec
SYMMETRY Symmetry
INVARIANTS TypeOK FinalNeverTorn SuccessIsDurable NoTempLeft
PROPERTIES LossOnlyInRollback Publishes
\* Arthur returns and the machine may crash: the system really stops.
CHECK_DEADLOCK FALSE
