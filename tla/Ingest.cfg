CONSTANTS
  Handlers = {h1, h2}
  Businesses = {"a", "b"}
  Files <- MCFiles
  FirstFile <- MCFirstFile
  Tokens = {1, 2, 3}
  DefaultRate = 1
  Batches <- MCBatches
  Sender <- MCSender
  MaxRequests = 4
  MaxReloads = 2
  Nobody = nobody
  Series = {1, 2, 3, 4}
  NaN = nan
  Second = 1000
  Window = 2000
  LruCap = 2
  DeadScope = {1, 2, 3}
  Interval = 2
  MaxSeries = 2
  PCap = 1
  Aggs <- MCAggs
  Generations = 2
  Unnamed = unnamed
  Scope = {1, 2}
  StageLists <- MCStageLists
SPECIFICATION MCSpec
SYMMETRY Symmetry
INVARIANT TypeOK
INVARIANT LimiterCurrent
INVARIANT LastLetThrough
 
INVARIANT IntervalOnce
INVARIANT OnlyRefusedMissing
