SPECIFICATION Spec
CONSTANTS
  Channels = 3
  Dies = 2
  Planes = 2
  BlocksPerPlane = 2
  PagesPerBlock = 2
  BlocksPerHead = 5
  TokensPerBlock = 2
  MapperHeads = 2
  MapperBlocks = 4
  Layers = 2
  Heads = 2
  SinkTokens = 1
  WindowTokens = 1
  TopkPercent = 40
  ConfigLayers = 3
  ConfigHeads = 2
  Synth <- MCSynth
  Capacity = 2
  Prompts = {2, 5, 10}
  Steps = 1
  Experiments <- MCExperiments
  QueueDepth = 3
  StudyChannels = {1, 2, 4}
  StudyDepths = {1, 2, 4}
INVARIANTS TypeOK ValidTrace TiersAgree PlacementAgrees StudyIsFair NoFreeReads StagedBound
