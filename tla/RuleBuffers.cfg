CONSTANTS
  BatchSize = 3
  MaxStages = 3
  MaxAggs = 2
SPECIFICATION Spec
INVARIANT TypeOK
INVARIANT NothingLost
INVARIANT ExactUnlessShortened
