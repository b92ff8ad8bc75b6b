SPECIFICATION FairSpec
CONSTANTS
  Blocks = {b1}
  NoBlock = NoBlock
  Capacity = 1
  MaxBatch = 1
  MaxWorkers = 2
  MaxEntries = 1
  MaxFetches = 1
  MaxReads = 1
PROPERTIES ReadReturns
CHECK_DEADLOCK FALSE
