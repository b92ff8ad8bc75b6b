SPECIFICATION SessionSpec
CONSTANTS
  Layers = {0, 1}
  BlockIds = {0, 1, 2}
  Capacity = 2
  MaxBatch = 2
  MaxWorkers = 2
  Futures = {f1, f2}
  NoFuture = NoFuture
  NoData = NoData
  MayFail = FALSE
  Writable <- Key
  MaxVersion = 2
  MaxStaged = 4
  MaxDemand = 8
  Winners <- HalfOf
  Modes <- AllModes
INVARIANTS StagingBound StagingFresh
PROPERTIES ImplementsBlockStore StagedStable
CHECK_DEADLOCK FALSE
