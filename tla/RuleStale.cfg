CONSTANTS
  BatchSize = 2
  MaxStages = 2
  MaxAggs = 2
SPECIFICATION Spec
INVARIANT StagesCompose
