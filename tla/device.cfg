SPECIFICATION DeviceSpec
CONSTANTS
  NumQHeads = 4
  NumKvHeads = 2
  HeadDim = 2
  Inter = 2
  Vocab = 2
  NumLayers = 2
  MaxBatch = 2
  PrefillChunk = 2
  MaxSeqLen = 4
  KvBlockSize = 2
  SlabAlign = 8
  VecAlign = 4
  NumBlocks = 5
  PromptLen <- MCPromptLen
  TableOf <- MCTableOf
  NumWarps = 4
  GroupSize = 4
  BlockSize = 4
  HeadStride = 2
  HeadsPerWarp = 2
  TableRow <- MCTableRow
  PoolBlocks = 5
  kBlockThreadsSm80 = 8
  kBlockThreads = 4
  WarpSize = 4
  VecWidth = 2
  Logits = {0}
  MaxVocab = 10
INVARIANTS ForwardExact DumpExact OperandsFit AttendsExactly FirstMaximum
