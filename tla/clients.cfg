SPECIFICATION ClientsSpec
CONSTANTS
  TotalBlocks = 5
  MaxRequests = 4
  KvBlockSize = 2
  MaxBatch = 2
  PrefillChunk = 2
  MaxSeqLen = 11
  AdmissionPolicy = "watermark"
  FloorNum = 0
  FloorDen = 10
  MaxThrows = 1
  Graphs = TRUE
  MaxWaiting = 1
  PadEagerToBucket = 0
  Workload <- MCWorkload
  WarmupGen = 2
  CliOptions <- MCCliOptions
  Batches <- MCBatches
  MaxCalls = 2
  MAX_IDLE_STEPS = 1
INVARIANTS BenchVerdict GenerateSound GivesUpOnLongPrompt
PROPERTIES BenchEnds
