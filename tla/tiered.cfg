SPECIFICATION Spec
CONSTANTS
  Channels = 3
  Dies = 1
  Planes = 1
  Blocks = 1
  Pages = 1
  DramCapacity = 3
  IdBits = 4
  BufferCapacity = 2
  TotalLayers = 3
  Layers = {0, 1}
  TokensPerBlock = 2
  SinkTokens = 1
  WindowTokens = 2
  PromptLengths = {3, 7}
  MaxTokens = 8
  MaxCalls = 3
  Pipeline = TRUE
INVARIANTS TypeOK EveryTokenHeld AttentionPossible ReadsCharged PagesOwned
PROPERTIES ImplementsMockSSD RamIsBounded NoPrefetchCascade
CHECK_DEADLOCK FALSE
