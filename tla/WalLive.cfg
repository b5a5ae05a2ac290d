CONSTANTS
  Writers = {w1, w2}
  Second = w2
  Records = {r1, r2, r3}
  Large = {r3}
  Size <- MCSize
  FooterSize = 1
  SegmentBytes = 3
  MaxBytes = 2
  MaxReplayFailures = 1
  MaxSegment = 4
  MaxRestarts = 1
  MaxFaults = 1
  Faults = {"sync", "rename", "open", "handler"}
  Closer = closer
  Junk = junk
  None = none
SPECIFICATION LiveSpec
INVARIANT AckedDurable
PROPERTY ImplementsLog
PROPERTY ReplayReturns
PROPERTY BoundedOvershoot
PROPERTY OperationsReturn
