SPECIFICATION FairSpec
CONSTANTS
  None = None
  i1 = i1
  i2 = i2
  Issues = {i1}
  Workers = {w1, w2}
  Timers = {t1}
  States <- MCStates
  ActiveStates <- MCActive
  TerminalStates <- MCTerminal
  Todo = "todo"
  Views <- Free
  Moves <- FreeMoves
  Roots = {"r1", "r2"}
  Configs <- LiveConfigs
  Rank <- MCRank
  MayStop = TRUE
  Faults = {"reload", "fetch", "removal", "timer"}
  AttemptCap = 1
PROPERTIES
  TicksRecur
  StopHonoured
  ClosedIssueLetGo
  SlotReclaimed
  ImplementsIssueRuns
