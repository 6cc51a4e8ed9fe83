SPECIFICATION EngineFairSpec
CONSTANTS
  TotalBlocks = 6
  MaxRequests = 3
  KvBlockSize = 2
  MaxBatch = 3
  PrefillChunk = 2
  MaxSeqLen = 8
  AdmissionPolicy = "reserve_full"
  FloorNum = 1
  FloorDen = 10
  MaxThrows = 1
  Graphs = TRUE
  MaxWaiting = 1
  PadEagerToBucket = 0
  Workload <- ForcedWorkload
INVARIANTS StatsExact
PROPERTIES ImplementsService EveryoneServed
