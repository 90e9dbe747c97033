SPECIFICATION Spec
CONSTANTS
  Workers = {w1}
  MaxTurns = 1
  RemovalMayFail = FALSE
  MayRestart = FALSE
PROPERTIES
  LaunchedOnlyInPrepared
CHECK_DEADLOCK FALSE
