SPECIFICATION FairSpec
CONSTANTS
  Layers = {0}
  BlockIds = {b1, b2}
  Capacity = 1
  MaxBatch = 2
  MaxWorkers = 1
  Futures = {f1, f2}
  NoFuture = NoFuture
  NoData = NoData
  MayFail = TRUE
  Writable <- OneKey
  MaxVersion = 1
  MaxStaged = 2
  MaxDemand = 2
INVARIANTS TypeOK FutureCoversEntry HitsFilled Balance
PROPERTIES ReadReturns FetchSettles
CHECK_DEADLOCK FALSE
