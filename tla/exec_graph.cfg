SPECIFICATION ExecSpec
CONSTANTS
  TotalBlocks = 7
  MaxRequests = 3
  KvBlockSize = 2
  MaxBatch = 4
  PrefillChunk = 2
  MaxSeqLen = 6
  AdmissionPolicy = "reserve_full"
  FloorNum = 0
  FloorDen = 10
  MaxThrows = 1
  Graphs = TRUE
  PadEagerToBucket = 0
  FailAfter = {0}
  Workload <- CacheWorkload
INVARIANTS ReservationsExact NoExhaustion NoOverAllocation ContextIntact SampledFromOwnContext
