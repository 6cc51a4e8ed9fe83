SPECIFICATION EngineSpec
CONSTANTS
  TotalBlocks = 4
  MaxRequests = 3
  KvBlockSize = 2
  MaxBatch = 3
  PrefillChunk = 2
  MaxSeqLen = 9
  AdmissionPolicy = "watermark"
  FloorNum = 0
  FloorDen = 10
  MaxThrows = 1
  Graphs = FALSE
  MaxWaiting = 1
  PadEagerToBucket = 1
  Workload <- GrowingWorkload
INVARIANTS LiveMapExact
