CONSTANTS
  x = x
  y = y
  one = one
  two = two
  bad = bad
  empty = empty
  Names <- MCNames
  Default <- MCDefault
  Kinds <- MCKinds
  Requests = {}
  Nobody = nobody
  Sources <- SourcesNacos
  Snapshots <- MCMoreSnapshots
  Content <- MCContent
  NoConfig = empty
  Broken = broken
  MD5 <- MCSums
  TooBig = {}
  Capacity = 3
  MaxVersion = 3
  QueueLen = 1
  MaxChanges = 1
  Admins = {a1}
  Puts <- MCPuts
  MaxAdmin = 0
SPECIFICATION Spec
INVARIANT FollowsNacos
