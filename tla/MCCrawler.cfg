CONSTANTS
  h1 = h1
  h2 = h2
  N = 2
  Ids <- MCIds
  Settings <- MCSettings
SPECIFICATION Spec
INVARIANTS
  StopComplete
  StartedAll
  CancelledByStop
  NoReusePanic
PROPERTIES
  StopTerminates
  LateReloaderEnds
CHECK_DEADLOCK FALSE
