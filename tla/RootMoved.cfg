SPECIFICATION Spec
CONSTANTS
  None = None
  i1 = i1
  i2 = i2
  Issues = {i1, i2}
  Workers = {w1, w2}
  Timers = {t1, t2}
  States <- MCStates
  ActiveStates <- MCActive
  TerminalStates <- MCTerminal
  Todo = "todo"
  Views <- Restless
  Moves <- RestlessMoves
  Roots = {"r1", "r2"}
  Configs <- RootConfigs
  Rank <- MCRank
  MayStop = FALSE
  Faults = {}
  AttemptCap = 1
INVARIANTS
  TickNeverFails
