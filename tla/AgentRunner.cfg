SPECIFICATION FairSpec
CONSTANTS
  Workers = {w1, w2}
  MaxTurns = 2
  RemovalMayFail = TRUE
  MayRestart = TRUE
INVARIANTS
  TypeOK
  SetUpOnce
  HooksBracketTurns
  TurnsOnlyWhileActive
PROPERTIES
  AttemptEnds
  ImplementsIssueRuns
