SPECIFICATION Spec
CONSTANTS
  MaxRuns = 2
  Requests = {r1}
  ModeSets <- MCModeSets
PROPERTIES
  BoundBeforeHealthy
\* The last of the MaxRuns processes may be gone: a service nobody starts again.
CHECK_DEADLOCK FALSE
