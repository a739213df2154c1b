SPECIFICATION Spec
CONSTANTS
  p1 = p1
  p2 = p2
  p3 = p3
  none = none
  f004 = f004
  f008 = f008
  null = null
  unreadable = unreadable
  stateDirMode = stateDirMode
  chaosEnv = chaosEnv
  binaryMode = binaryMode
  portTaken = portTaken
  f010 = f010
  logUnlinked = logUnlinked
  Procs <- MCProcs
  NoProc <- none
  Faults <- MCFaults
  NoFault <- null
  Unreadable <- unreadable
  Residues <- MCResidues
  Leaves <- MCLeaves
  Undoes <- MCUndoes
  Reversible <- MCReversible
  Confirm <- MCConfirm
  PreBlocked <- MCPreBlocked
  TierOf <- MCTierOf
  Clears <- MCClears
  SuiteBreaking <- MCSuiteBreaking
  LightBreaking <- MCLightBreaking
  Commands <- MCCommands
  Initials <- MCInitials
  MaxTrouble = 0
PROPERTY
  ValidateKeepsClassification
CHECK_DEADLOCK FALSE
