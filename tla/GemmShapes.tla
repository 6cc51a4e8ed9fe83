------------------------------ MODULE GemmShapes ------------------------------
(***************************************************************************)
(* Where the products of a forward pass find their operands: the slab of   *)
(* activations (ComputeScratchLayout), the GemmConfig of each product and  *)
(* the addresses its matrices span, and the calls of the prefill attention *)
(* in both of its forms.  Pointers are byte addresses in the slab; strides *)
(* and leading dimensions count elements, as in the code.                  *)
(***************************************************************************)
EXTENDS Integers, SequencesExt, FiniteSetsExt

CONSTANTS
  NumQHeads, NumKvHeads, HeadDim, Inter, Vocab, NumLayers,     \* ModelConfig
  MaxBatch, PrefillChunk, MaxSeqLen, KvBlockSize,              \* ExecutorOptions
  SlabAlign,                  \* kSlabAlign
  VecAlign                    \* the 16 bytes promised for vectorized operands

\* ValidateGeometry; hidden_size = num_q_heads * head_dim is the definition below.
ASSUME GeometryAssumption ==
  /\ {NumQHeads, NumKvHeads, HeadDim, Inter, Vocab, NumLayers, MaxBatch, PrefillChunk,
      MaxSeqLen, KvBlockSize, SlabAlign, VecAlign} \subseteq Nat \ {0}
  /\ NumQHeads % NumKvHeads = 0

-----------------------------------------------------------------------------
hidden == NumQHeads * HeadDim
qkv_width == (NumQHeads + 2 * NumKvHeads) * HeadDim
k_view_offset == NumQHeads * HeadDim
v_view_offset == k_view_offset + NumKvHeads * HeadDim
gateup_width == 2 * Inter
heads_per_group == NumQHeads \div NumKvHeads
gather_plane_stride == MaxSeqLen * HeadDim
max_step_rows == Max({PrefillChunk, MaxBatch})
max_blocks_per_seq == (MaxSeqLen + KvBlockSize - 1) \div KvBlockSize

AlignUp(bytes) == ((bytes + SlabAlign - 1) \div SlabAlign) * SlabAlign

half == 2                     \* element sizes, in bytes
float == 4

\* The Take calls of ComputeScratchLayout, in their order: region and bytes.
ScratchRegions ==
  LET rows         == max_step_rows
      score_elems  == NumQHeads * PrefillChunk * MaxSeqLen
      gather_elems == NumKvHeads * MaxSeqLen * HeadDim
  IN <<<<"x", rows * hidden * half>>, <<"normed", rows * hidden * half>>,
       <<"qkv", rows * qkv_width * half>>, <<"attn_out", rows * hidden * half>>,
       <<"gateup", rows * gateup_width * half>>, <<"mlp_out", rows * hidden * half>>,
       <<"logits", MaxBatch * Vocab * half>>,
       <<"scores", score_elems * float>>, <<"probs", score_elems * half>>,
       <<"khat", gather_elems * half>>, <<"vhat", gather_elems * half>>,
       <<"input_ids", rows * 4>>, <<"positions", rows * 4>>, <<"seq_lens", MaxBatch * 4>>,
       <<"block_tables", MaxBatch * max_blocks_per_seq * 4>>, <<"argmax", MaxBatch * 4>>>>

RegionNames == {ScratchRegions[i][1] : i \in DOMAIN ScratchRegions}

BytesOf(region) ==
  ScratchRegions[CHOOSE i \in DOMAIN ScratchRegions : ScratchRegions[i][1] = region][2]

\* SlabPlanner: the aligned sizes of what was taken before.
TakenBefore(n) ==
  FoldFunction(+, 0, [i \in 1 .. n - 1 |-> AlignUp(ScratchRegions[i][2])])

ComputeScratchLayout ==
  [region \in RegionNames |->
    TakenBefore(CHOOSE i \in DOMAIN ScratchRegions : ScratchRegions[i][1] = region)]

total_bytes == TakenBefore(Len(ScratchRegions) + 1)

-----------------------------------------------------------------------------
(***************************************************************************)
(* GemmConfig: D (m x n, column-major) = op(A) * op(B), k contracted.      *)
(***************************************************************************)
Linear(rows, out_features, in_features, act_row_stride, out_row_stride) ==
  [m |-> out_features, n |-> rows, k |-> in_features, op_a |-> "T", op_b |-> "N",
   lda |-> in_features, ldb |-> act_row_stride, ldd |-> out_row_stride, size_d |-> half,
   batch |-> 1, stride_a |-> 0, stride_b |-> 0, stride_d |-> 0,
   align_a |-> VecAlign, align_b |-> VecAlign, align_d |-> VecAlign]

PrefillScores(rows, ctx, heads) ==
  [m |-> ctx, n |-> rows, k |-> HeadDim, op_a |-> "T", op_b |-> "N",
   lda |-> HeadDim, ldb |-> qkv_width, ldd |-> ctx, size_d |-> float,
   batch |-> heads, stride_a |-> 0,
   stride_b |-> IF heads > 1 THEN HeadDim ELSE 0,
   stride_d |-> IF heads > 1 THEN rows * ctx ELSE 0,
   align_a |-> VecAlign, align_b |-> VecAlign, align_d |-> 4]

\* Mutant: the probability planes promise the alignment of the other operands.
PrefillPvAligned(rows, ctx, heads) ==
  [m |-> HeadDim, n |-> rows, k |-> ctx, op_a |-> "N", op_b |-> "N",
   lda |-> HeadDim, ldb |-> ctx, ldd |-> hidden, size_d |-> half,
   batch |-> heads, stride_a |-> 0,
   stride_b |-> IF heads > 1 THEN rows * ctx ELSE 0,
   stride_d |-> IF heads > 1 THEN HeadDim ELSE 0,
   align_a |-> VecAlign, align_b |-> VecAlign, align_d |-> VecAlign]

PrefillPv(rows, ctx, heads) ==
  [m |-> HeadDim, n |-> rows, k |-> ctx, op_a |-> "N", op_b |-> "N",
   lda |-> HeadDim, ldb |-> ctx, ldd |-> hidden, size_d |-> half,
   batch |-> heads, stride_a |-> 0,
   stride_b |-> IF heads > 1 THEN rows * ctx ELSE 0,
   stride_d |-> IF heads > 1 THEN HeadDim ELSE 0,
   align_a |-> VecAlign, align_b |-> 2, align_d |-> VecAlign]

\* ValidateConfig, the part that does not hold by the types used here.
ValidateConfig(c) ==
  /\ {c.m, c.n, c.k, c.batch} \subseteq Nat \ {0}
  /\ c.lda >= (IF c.op_a = "N" THEN c.m ELSE c.k)
  /\ c.ldb >= (IF c.op_b = "N" THEN c.k ELSE c.n)
  /\ c.ldd >= c.m
  /\ c.batch > 1 => {c.stride_a, c.stride_b} \subseteq Nat /\ c.stride_d > 0

\* Element offsets of op(A)(i, l), op(B)(l, j) and D(i, j) of batch element b.
OffsetA(c, b, i, l) == b * c.stride_a + (IF c.op_a = "N" THEN l * c.lda + i ELSE i * c.lda + l)
OffsetB(c, b, l, j) == b * c.stride_b + (IF c.op_b = "N" THEN j * c.ldb + l ELSE l * c.ldb + j)
OffsetD(c, b, i, j) == b * c.stride_d + j * c.ldd + i

-----------------------------------------------------------------------------
(***************************************************************************)
(* A call: the configuration and the byte addresses of D, A and B.         *)
(***************************************************************************)
ptr(region, elem, size) == ComputeScratchLayout[region] + elem * size

Call(c, d, a, b) == [config |-> c, d |-> d, a |-> a, b |-> b]

\* The products of EnqueuePrefillAttention before the softmax.
ScoreCalls(rows, ctx, mode) ==
  IF mode = "strided_batched"
  THEN [g \in 1 .. NumKvHeads |->
         LET h0 == (g - 1) * heads_per_group IN
         Call(PrefillScores(rows, ctx, heads_per_group),
              ptr("scores", h0 * rows * ctx, float),
              ptr("khat", (g - 1) * gather_plane_stride, half),
              ptr("qkv", h0 * HeadDim, half))]
  ELSE [h1 \in 1 .. NumQHeads |->
         LET h == h1 - 1 IN
         Call(PrefillScores(rows, ctx, 1),
              ptr("scores", h * rows * ctx, float),
              ptr("khat", (h \div heads_per_group) * gather_plane_stride, half),
              ptr("qkv", h * HeadDim, half))]

\* And after it.
PvCalls(rows, ctx, mode) ==
  IF mode = "strided_batched"
  THEN [g \in 1 .. NumKvHeads |->
         LET h0 == (g - 1) * heads_per_group IN
         Call(PrefillPv(rows, ctx, heads_per_group),
              ptr("attn_out", h0 * HeadDim, half),
              ptr("vhat", (g - 1) * gather_plane_stride, half),
              ptr("probs", h0 * rows * ctx, half))]
  ELSE [h1 \in 1 .. NumQHeads |->
         LET h == h1 - 1 IN
         Call(PrefillPv(rows, ctx, 1),
              ptr("attn_out", h * HeadDim, half),
              ptr("vhat", (h \div heads_per_group) * gather_plane_stride, half),
              ptr("probs", h * rows * ctx, half))]
===============================================================================
