SPECIFICATION StartSpec
CONSTANTS
  HeadsPerGroup = 2
  MaxUnsupported = 2
  MaxBatch = 4
  PrefillChunk = 2
  MaxSeqLen = 3
  MaxFaults = 1
  MaxSteps = 2
INVARIANTS NothingLeaks GraphsAllOrNothing WarmBeforeCapture CaptureSucceedsUnlessFaulted ResolvedFormRuns
