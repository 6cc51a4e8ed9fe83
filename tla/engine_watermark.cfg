SPECIFICATION EngineFairSpec
CONSTANTS
  TotalBlocks = 4
  MaxRequests = 3
  KvBlockSize = 2
  MaxBatch = 2
  PrefillChunk = 2
  MaxSeqLen = 9
  AdmissionPolicy = "watermark"
  FloorNum = 0
  FloorDen = 10
  MaxThrows = 0
  Graphs = FALSE
  MaxWaiting = 1
  PadEagerToBucket = 1
  Workload <- GrowingWorkload
INVARIANTS LiveMapExact NoExhaustion
PROPERTIES EveryoneServed
