SPECIFICATION Spec
CONSTANTS
  p1 = p1
  p2 = p2
  p3 = p3
  none = none
  f004 = f004
  f008 = f008
  null = null
  unreadable = unreadable
  stateDirMode = stateDirMode
  chaosEnv = chaosEnv
  binaryMode = binaryMode
  portTaken = portTaken
  f010 = f010
  logUnlinked = logUnlinked
  Procs <- MCProcs
  NoProc <- none
  Faults <- MCSmallFaults
  NoFault <- null
  Unreadable <- unreadable
  Residues <- MCSmallResidues
  Leaves <- MCSmallLeaves
  Undoes <- MCSmallLeaves
  Reversible <- MCSmallFaults
  Confirm = {}
  PreBlocked <- MCSmallPreBlocked
  TierOf <- MCSmallTierOf
  Clears <- MCSmallClears
  SuiteBreaking <- MCSmallBreaking
  LightBreaking <- MCSmallBreaking
  Commands <- MCSmallCommands
  Initials <- MCSmallInitials
  MaxTrouble = 1
PROPERTY
  RevalidatedFromEvidence
CHECK_DEADLOCK FALSE
