CONSTANTS
  Handlers = {h1, h2}
  Msgs = {m1, m2, m3, m4}
  Nothing = nothing
  Probe = probe
  Refused = {m4}
  QueueCap = 2
  ChanCap = 1
  ClientCap = 1
  MaxOutages = 1
  FailThreshold = 1
  RecoverThreshold = 2
  ReplayAttempts = 2
  SegRecords = 2
  WalCap = 3
  MaxTimeouts = 1
  MaxWalErrors = 1
  MaxRestarts = 1
SPECIFICATION Spec
SYMMETRY Symmetry
INVARIANT TypeOK
INVARIANT QueueIsSuffix
INVARIANT Conservation
INVARIANT SinkOutlivesPipeline
INVARIANT ShutdownLeavesNothing
INVARIANT NoLossWhileHealthy
