SPECIFICATION Spec
CONSTANTS
  Hub <- MCHub
  Vendor <- MCVendor
  Onboarded <- MCOnboarded
  Layers = {0, 1}
  AttentionLayers = {1}
  Names = {"qwen3-8b", "qwen2.5-0.5b", "tiny-mistral", "jamba", "Qwen/Qwen3.5-9B", "gemma-2-2b", "google/gemma-2-2b", "mamba", "Qwen2-1.5B", "qwen3.5"}
  Prompts = {3, 6, 8}
  Steps = 3
  Percents = {40, 100}
  MaxRuns = 2
  SinkTokens = 1
  RecentTokens = 2
  TokensPerBlock = 2
  SlidingWindow = 6
INVARIANT KeysNormalised
CHECK_DEADLOCK FALSE
