SPECIFICATION Spec
CONSTANTS
  Blocks = {b1, b2, b3}
  NoBlock = NoBlock
  Capacity = 2
  MaxBatch = 2
  MaxWorkers = 2
  MaxEntries = 4
  MaxFetches = 2
  MaxReads = 2
SYMMETRY Symmetry
INVARIANTS FetchesDeliver CallerHitsFilled
CHECK_DEADLOCK FALSE
