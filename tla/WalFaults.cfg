CONSTANTS
  Writers = {w1, w2}
  Records = {r1, r2, r3}
  Large = {r3}
  Second = w2
  Size <- MCSize
  FooterSize = 1
  SegmentBytes = 3
  MaxBytes = 4
  MaxReplayFailures = 2
  MaxSegment = 5
  MaxRestarts = 1
  MaxFaults = 1
  Faults = {"write", "sync", "footer", "rename", "open", "handler", "recover"}
  Closer = closer
  Junk = junk
  None = none
SPECIFICATION Spec
SYMMETRY Symmetry
INVARIANT TypeOK
INVARIANT DoneWasDelivered
INVARIANT OneActiveFile
INVARIANT ReplayInOrder
INVARIANT BytesNotAbove
PROPERTY SealedImmutable
