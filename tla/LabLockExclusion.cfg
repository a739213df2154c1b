SPECIFICATION LockSpec
CONSTANTS
  p1 = p1
  p2 = p2
  p3 = p3
  none = none
  Procs <- MCProcs
  NoProc <- none
INVARIANT
  MutualExclusion
CHECK_DEADLOCK FALSE
