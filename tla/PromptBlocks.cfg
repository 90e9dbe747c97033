SPECIFICATION FairSpec
CONSTANTS
  None = None
  PromptSize = 3
  StdinRoom = 2
  StdoutRoom = 1
  StderrRoom = 1
  MaxLines = 2
  MaxComplaints = 2
PROPERTIES
  TurnEnds
CHECK_DEADLOCK FALSE
