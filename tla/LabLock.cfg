SPECIFICATION FairLockSpec
CONSTANTS
  p1 = p1
  p2 = p2
  p3 = p3
  none = none
  Procs <- MCProcs
  NoProc <- none
INVARIANTS
  LockTypeOK
  ExclusiveUnlessStolen
  NoLockLeak
PROPERTIES
  AcquireDecides
  CrashNeverWedgesLock
CHECK_DEADLOCK FALSE
