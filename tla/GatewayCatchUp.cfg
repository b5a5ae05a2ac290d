CONSTANTS
  Handlers = {h1}
  Msgs = {m1, m2, m3}
  Nothing = nothing
  Probe = probe
  Refused = {}
  QueueCap = 1
  ChanCap = 1
  ClientCap = 1
  MaxOutages = 1
  FailThreshold = 1
  RecoverThreshold = 1
  ReplayAttempts = 2
  SegRecords = 1
  WalCap = 2
  MaxTimeouts = 0
  MaxWalErrors = 0
  MaxRestarts = 0
SPECIFICATION FairSpec
PROPERTY CatchesUp
