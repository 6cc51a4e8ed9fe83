SPECIFICATION LoadingSpec
CONSTANTS
  U64Max = 15
  I64Max = 7
  SingleFile = 0
  Directories = {}
  Bf16Patterns = {}
  Fp32Patterns = {}
  Hidden = 2
  KvRows = 1
  Inter = 3
  Vocab = 3
  NumLayers = 1
  Align = 4
  ChunkElements = 2
  MaxFaults = 1
  RecordFails = TRUE
  Checkpoints <- SoundCheckpoints
INVARIANT DrainedBeforeFree
