SPECIFICATION Spec
CONSTANTS
  None = None
  MaxRuns = 2
  MaxTurns = 2
  MaxQueue = 3
  MaxTime = 2
  StallTimeout = 1
INVARIANTS
  TypeOK
  OneWorkerPerIssue
  NoTokenShownTwice
  UsageCounted
  ShownBeforeCounted
  RowsMixOnlyAfterLetGo
  NoTimeAddedTwice
  StallJudgedFairly
