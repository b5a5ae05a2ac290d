CONSTANTS
  x = x
  y = y
  one = one
  two = two
  bad = bad
  empty = empty
  Names <- MCNames
  Default <- MCDefault
  Kinds <- MCKinds
  Requests = {q1}
  Nobody = nobody
  Sources <- SourcesBoth
  Snapshots <- MCSnapshots
  Content <- MCContent
  NoConfig = empty
  Broken = broken
  MD5 <- MCSums
  TooBig <- MCTooBig
  Capacity = 2
  MaxVersion = 3
  QueueLen = 1
  MaxChanges = 1
  Admins = {a1}
  Puts <- MCPuts
  MaxAdmin = 1
SPECIFICATION Spec
INVARIANT TypeOK
INVARIANT HistoryIndexed
INVARIANT MatchedUnlessSwapped
INVARIANT RejectedStaysOut
INVARIANT OneSourceConverges
