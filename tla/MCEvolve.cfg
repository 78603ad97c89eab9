SPECIFICATION EvolveSpec
CONSTANTS
  Topics = {1, 2}
  EvolveBatch = 2
  SummaryBatch = 1
  RefreshCap = 1
  MaxMemories = 2
  MaxRetires = 1
  MaxMishaps = 1
INVARIANTS NothingUnread NoFactLeftOut
PROPERTIES EventuallyHealed
