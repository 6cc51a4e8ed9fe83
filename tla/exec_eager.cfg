SPECIFICATION ExecSpec
CONSTANTS
  TotalBlocks = 5
  MaxRequests = 3
  KvBlockSize = 2
  MaxBatch = 4
  PrefillChunk = 2
  MaxSeqLen = 10
  AdmissionPolicy = "watermark"
  FloorNum = 1
  FloorDen = 10
  MaxThrows = 1
  Graphs = FALSE
  PadEagerToBucket = 3
  FailAfter = {0}
  Workload <- GrowingWorkload
INVARIANTS SchedInv BlockOwnership ExecutorAccepts IdlePoolAdmits SampledFromOwnContext
PROPERTIES AbortsYoungest
