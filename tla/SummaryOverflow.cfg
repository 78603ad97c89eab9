SPECIFICATION TickingSpec
CONSTANTS
  Topics = {1, 2}
  EvolveBatch = 2
  SummaryBatch = 1
  RefreshCap = 1
  MaxMemories = 2
  MaxRetires = 0
  MaxMishaps = 0
PROPERTIES EventuallySummarized
