SPECIFICATION FairSpec
CONSTANTS
  None = None
  PromptSize = 2
  StdinRoom = 2
  StdoutRoom = 1
  StderrRoom = 1
  MaxLines = 2
  MaxComplaints = 2
INVARIANTS
  TypeOK
  SuccessIsReal
  EventsForwardedInOrder
  TameTurnJudgedByResult
  NoAgentLeftBehind
PROPERTIES
  TurnEnds
