SPECIFICATION Spec
CONSTANTS
  Layers = {0}
  BlockIds = {b1, b2}
  Capacity = 2
  MaxBatch = 2
  MaxWorkers = 2
  Futures = {f1, f2}
  NoFuture = NoFuture
  NoData = NoData
  MayFail = FALSE
  Writable <- Key
  MaxVersion = 2
  MaxStaged = 4
  MaxDemand = 2
PROPERTIES ReadsMatchStorage
CHECK_DEADLOCK FALSE
