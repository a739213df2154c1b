SPECIFICATION FairSpec
CONSTANTS
  MaxRuns = 2
  Requests = {r1}
  ModeSets <- MCModeSets
INVARIANTS
  TypeOK
  HealthyIsIdentified
  NoFalseCrashSignal
  FailureIsReported
  ErrorsAreRequests
  GracefulExitIsClean
PROPERTIES
  SnapshotsAdvance
  ImplementsSignals
  ShutdownCompletes
\* The last of the MaxRuns processes may be gone: a service nobody starts again.
CHECK_DEADLOCK FALSE
