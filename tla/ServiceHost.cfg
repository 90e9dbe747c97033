SPECIFICATION FairHostSpec
CONSTANTS
  None = None
  MaxEdits = 2
  FlakyReads = TRUE
  Kinds = {"valid", "broken", "garbled"}
  Clients = {c1}
  MaxSignals = 2
INVARIANTS
  HostTypeOK
  RereadOnlyAfterEdit
  NothingMissed
  StopWaitsForOneTick
  ServiceUpToDate
PROPERTIES
  SnapshotAnswered
  SignalEndsHost
  ServiceFollowsFile
