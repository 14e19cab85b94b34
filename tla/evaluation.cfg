SPECIFICATION FairSpec
INVARIANTS BenchmarksTrue HarnessTrue FrontierTrue ModelsTrue TextScoresTrue TrainingSetTrue FeaturesTrue
PROPERTY RunsEnd
CONSTANTS
  \* Traces around the size at which the test set gets its second record.
  NameLists = {{"f0"}, {"recency"}}
  ScriptNames = {"recency"}
  MaxModels = 2
  TraceSizes = {0, 13, 14}
  TestShare = 15
  Samples <- SampleCounts
  Concurrency = 2
  Whole = 6
  PolicyNames = {"hybrid"}
  Values = {0, 1, 2}
  MaxResults = 4
  Workloads = {"bursty_arrivals", "repeated_prefix_reuse", "long_chat_session", "memory_spike"}
  BurstSize = 2
  Requests = 4
  GuardConcurrency = 2
  Sessions = 3
  Turns = 3
  Ramp = 2
  Peak = 3
  MaxWaves = 3
  Suite <- TwoExperiments
  Launched = "full_cache"
  Qualities = {0, 1}
  Peaks = {0}
  Tasks <- ThreeTasks
  Base = "hybrid"
  Ablations <- BaseAgain
  TaskQualities = {0, 1}
  BlockIds = {"b1", "b2"}
  Steps = {0, 1, 2, 3}
  Window = 2
  DefaultWindow = 3
  MaxRecords = 4
  Attentions = {0, 3, 12}
  Counts = {0, 4, 20}
  MaxScored = 2
  Grain = 3
  NumLayers = 32
  NumHeadGroups = 8
  SinkTokenBlocks = 4
  RecentWindow = 512
  HeavyOneIn = 2
  Kinds <- TwoKinds
  Tokens = {"a", "b", "c"}
  MaxTokens = 3
  MaxPieces = 5
  Excerpt = 2
  RouterWords = 1
  ClassifierWords = 0
  MaxPhrases = 3
  ValPercent = 15
  TestPercent = 15
CHECK_DEADLOCK FALSE
