SPECIFICATION Spec
CONSTANTS
  o1 = o1
  o2 = o2
  o3 = o3
  Procs = {p1, p2}
  Missing = Missing
  Torn = Torn
  NoFile = NoFile
  Old <- MCOld
  Initials <- MCInitials
  Values <- MCValues
  HistoryMax = 2
  MaxOps = 2
  MaxTrouble = 2
SYMMETRY MCSymmetry
INVARIANTS TypeOK NoTempAfterWrite PublishedIsWhole HistoryIsNewest TransitionLinesAreTrue AuditOrder AuditAccountsForChanges
PROPERTY ImplementsRegister
CHECK_DEADLOCK FALSE
