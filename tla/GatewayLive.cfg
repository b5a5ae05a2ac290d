CONSTANTS
  Handlers = {h1}
  Msgs = {m1, m2, m3}
  Nothing = nothing
  Probe = probe
  Refused = {m3}
  QueueCap = 1
  ChanCap = 1
  ClientCap = 1
  MaxOutages = 1
  FailThreshold = 1
  RecoverThreshold = 1
  ReplayAttempts = 2
  SegRecords = 1
  WalCap = 2
  MaxTimeouts = 1
  MaxWalErrors = 0
  MaxRestarts = 0
SPECIFICATION FairSpec
PROPERTY ImplementsLog
PROPERTY NothingAfterStop
PROPERTY AcceptedIsTaken
PROPERTY DegradedEnds
PROPERTY ShutdownCompletes
