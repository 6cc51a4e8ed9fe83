----------------------------- MODULE ForwardPass ------------------------------
(***************************************************************************)
(* The kernel sequences of core/model_executor.cpp: EnqueueDecodeForward   *)
(* with EnqueueArgmax, EnqueuePrefillForward with EnqueuePrefillAttention  *)
(* in both GEMM forms, and DumpLayer0Activations, run launch by launch     *)
(* over calls that leave their activations behind in the same slab.        *)
(***************************************************************************)
EXTENDS Kernels

CONSTANTS
  PromptLen,                  \* sequence -> prompt length
  TableOf                     \* sequence -> its block ids, max_blocks_per_seq of them

ASSUME ForwardAssumption ==
  \A s \in DOMAIN PromptLen :
    PromptLen[s] \in 1 .. MaxSeqLen /\ TableOf[s] \in [1 .. max_blocks_per_seq -> 1 .. NumBlocks - 1]

VARIABLES
  program,                    \* the launches of the running call still to be done
  step,                       \* what the running call was given
  cached,                     \* sequence -> positions scattered by finished calls
  dump_pending,               \* debug_dump_pending_
  files                       \* file -> what the layer-0 dump wrote to it

callVars == <<step, cached, dump_pending>>
forwardVars == <<mem, kv_pool, program, files, callVars>>

Sequences == DOMAIN PromptLen
Idle == [kind |-> "idle", rows |-> 0, toks |-> <<>>, sampled |-> <<>>]

-----------------------------------------------------------------------------
(***************************************************************************)
(* The launches, in the order the code enqueues them.                      *)
(***************************************************************************)
Norm(kernel, weight, rows, first) ==
  [kernel |-> kernel, weight |-> weight, rows |-> rows, first |-> first]

Gemm(out, out_stride, act, act_stride, weight, bias, rows, features, width) ==
  [kernel |-> "linear", config |-> Linear(rows, features, width, act_stride, out_stride),
   out |-> out, act |-> act, weight |-> weight, bias |-> bias]

none == <<"none", 0>>
buf(region) == ptr(region, 0, half)

\* Embedding to the scatter of K and V; stride 0 shares one table row.
BeforeAttention(l, rows, table_row_stride) ==
  <<IF l = 0 THEN Norm("rmsnorm", <<"input_norm", 0>>, rows, 0)
    ELSE Norm("rmsnorm_residual", <<"input_norm", l>>, rows, 0),
    Gemm(buf("qkv"), qkv_width, buf("normed"), hidden, <<"w_qkv", l>>, <<"b_qkv", l>>, rows,
         qkv_width, hidden),
    [kernel |-> "rope", rows |-> rows],
    [kernel |-> "kv_scatter", layer |-> l, stride |-> table_row_stride, rows |-> rows]>>

OutputProjection(l, rows) ==
  Gemm(buf("mlp_out"), hidden, buf("attn_out"), hidden, <<"w_o", l>>, none, rows, hidden, hidden)

Mlp(l, rows) ==
  <<Norm("rmsnorm_residual", <<"post_attn_norm", l>>, rows, 0),
    Gemm(buf("gateup"), gateup_width, buf("normed"), hidden, <<"w_gateup", l>>, none, rows,
         gateup_width, hidden),
    [kernel |-> "silu_mul", rows |-> rows],
    Gemm(buf("mlp_out"), hidden, buf("gateup"), gateup_width, <<"w_down", l>>, none, rows,
         hidden, Inter)>>

\* Final norm and lm_head over `rows` rows from row `first`; logits from row 0.
LmHead(rows, first) ==
  <<Norm("rmsnorm_residual", <<"final_norm", 0>>, rows, first),
    Gemm(buf("logits"), Vocab, ptr("normed", first * hidden, half), hidden, <<"lm_head", 0>>,
         none, rows, Vocab, hidden)>>

Embed(rows) == <<[kernel |-> "embed_gather", rows |-> rows]>>
Argmax(rows) == <<[kernel |-> "argmax", rows |-> rows]>>

EnqueueDecodeForward(rows) ==
  LET layer(l) == BeforeAttention(l, rows, max_blocks_per_seq)
                    \o <<[kernel |-> "paged_attention", layer |-> l, rows |-> rows],
                         OutputProjection(l, rows)>>
                    \o Mlp(l, rows)
  IN Embed(rows) \o FlattenSeq([i \in 1 .. NumLayers |-> layer(i - 1)]) \o LmHead(rows, 0)

EnqueuePrefillAttention(l, rows, chunk_start, ctx, mode) ==
  LET products(kernel, calls) == [i \in DOMAIN calls |-> [kernel |-> kernel, call |-> calls[i]]] IN
  <<[kernel |-> "kv_gather", layer |-> l, ctx |-> ctx]>>
    \o products("scores", ScoreCalls(rows, ctx, mode))
    \o <<[kernel |-> "prefill_softmax", rows |-> rows, ctx |-> ctx, chunk_start |-> chunk_start]>>
    \o products("pv", PvCalls(rows, ctx, mode))

PrefillLayer(l, rows, chunk_start, ctx, mode) ==
  BeforeAttention(l, rows, 0) \o EnqueuePrefillAttention(l, rows, chunk_start, ctx, mode)
    \o <<OutputProjection(l, rows)>> \o Mlp(l, rows)

\* Only a final chunk computes logits, of its last row.
EnqueuePrefillForward(rows, chunk_start, ctx, final_chunk, mode) ==
  Embed(rows)
    \o FlattenSeq([i \in 1 .. NumLayers |-> PrefillLayer(i - 1, rows, chunk_start, ctx, mode)])
    \o (IF final_chunk THEN LmHead(1, rows - 1) ELSE <<>>)

Capture(file, region, elems) ==
  <<[kernel |-> "capture", file |-> file, region |-> region, elems |-> elems]>>

\* Mutant: the projection is captured once RoPE has rotated it.
DumpLayer0Rotated(rows, chunk_start, ctx, mode) ==
  LET layer == PrefillLayer(0, rows, chunk_start, ctx, mode)
      n == Len(layer)
  IN Embed(rows) \o SubSeq(layer, 1, 1) \o Capture("normed", "normed", rows * hidden)
       \o SubSeq(layer, 2, 3) \o Capture("qkv", "qkv", rows * qkv_width)
       \o SubSeq(layer, 4, n - 4) \o Capture("attn_out", "mlp_out", rows * hidden)
       \o SubSeq(layer, n - 3, n) \o Capture("mlp_out", "mlp_out", rows * hidden)

\* Layer 0 once more over the chunk's inputs, each stage captured when drained.
DumpLayer0Activations(rows, chunk_start, ctx, mode) ==
  LET layer == PrefillLayer(0, rows, chunk_start, ctx, mode)
      n == Len(layer)
  IN Embed(rows) \o SubSeq(layer, 1, 1) \o Capture("normed", "normed", rows * hidden)
       \o SubSeq(layer, 2, 2) \o Capture("qkv", "qkv", rows * qkv_width)
       \o SubSeq(layer, 3, n - 4) \o Capture("attn_out", "mlp_out", rows * hidden)
       \o SubSeq(layer, n - 3, n) \o Capture("mlp_out", "mlp_out", rows * hidden)

-----------------------------------------------------------------------------
(***************************************************************************)
(* The calls.                                                              *)
(***************************************************************************)
ForwardInit ==
  /\ mem = [w \in 0 .. (total_bytes \div 2) - 1 |-> Junk]
  /\ kv_pool = [o \in 0 .. NumLayers * NumBlocks * 2 * NumKvHeads * KvBlockSize * HeadDim - 1 |-> Junk]
  /\ program = <<>> /\ step = Idle /\ files = <<>>
  /\ cached = [s \in Sequences |-> 0]
  /\ dump_pending \in BOOLEAN

MayCall == step = Idle

\* The inputs of the first rows, copied over what the slab held.
Upload(slab, region, f) == Put(slab, ptr(region, 0, 4), 4, f)

Tokens(toks, rows) ==
  LET tok(i) == IF i < Len(toks) THEN toks[i + 1] ELSE NoToken IN
  Upload(Upload(mem, "input_ids", [i \in Rows(rows) |-> Elem("id", 0, tok(i), 0, 0)]),
         "positions", [i \in Rows(rows) |-> Word("position", tok(i)[2])])

\* PrefillChunk: the next chunk of a prompt, in the form resolved for its shape.
PrefillChunkCall(s, mode) ==
  LET begin == cached[s]
      end   == Min({begin + PrefillChunk, PromptLen[s]})
      rows  == end - begin
      toks  == [i \in 1 .. rows |-> <<s, begin + i - 1>>]
      final_chunk == end = PromptLen[s]
  IN /\ MayCall /\ begin < PromptLen[s]
     /\ mem' = Upload(Tokens(toks, rows), "block_tables",
                 [b \in Rows(max_blocks_per_seq) |-> Word("block", TableOf[s][b + 1])])
     /\ program' = EnqueuePrefillForward(rows, begin, end, final_chunk, mode)
          \o (IF final_chunk THEN Argmax(1) ELSE <<>>)
          \o (IF dump_pending THEN DumpLayer0Activations(rows, begin, end, mode) ELSE <<>>)
     /\ dump_pending' = FALSE
     /\ step' = [kind |-> "prefill", rows |-> rows, toks |-> toks,
                 sampled |-> IF final_chunk THEN <<<<s, end - 1>>>> ELSE <<>>]
     /\ UNCHANGED <<kv_pool, cached, files>>

\* DecodeEager or DecodeGraph: the running sequences in plan order, padded to rows.
DecodeCall(batch, rows) ==
  LET toks == [i \in DOMAIN batch |-> <<batch[i], cached[batch[i]]>>]
      live == Len(batch)
      block(i, b) == IF i < live THEN TableOf[batch[i + 1]][b + 1] ELSE 0
  IN /\ MayCall
     /\ \A i \in DOMAIN batch : cached[batch[i]] \in PromptLen[batch[i]] .. MaxSeqLen - 1
     /\ mem' = Upload(Upload(Tokens(toks, rows), "seq_lens",
                  [i \in Rows(rows) |->
                    Word("seq_len", IF i < live THEN cached[batch[i + 1]] + 1 ELSE 0)]),
                  "block_tables", [o \in Rows(rows * max_blocks_per_seq) |->
                    Word("block", block(o \div max_blocks_per_seq, o % max_blocks_per_seq))])
     /\ program' = EnqueueDecodeForward(rows) \o Argmax(rows)
     /\ step' = [kind |-> "decode", rows |-> rows, toks |-> toks, sampled |-> toks]
     /\ UNCHANGED <<kv_pool, cached, dump_pending, files>>

Launches(kernel) ==
  /\ program # <<>> /\ Head(program).kernel = kernel /\ program' = Tail(program)
  /\ UNCHANGED callVars

OnSlab(after) == mem' = after /\ UNCHANGED <<kv_pool, files>>

DoEmbed == Launches("embed_gather") /\ OnSlab(EmbedGather(buf("x"), hidden, Head(program).rows))

DoRmsNorm ==
  LET op == Head(program) IN
  Launches("rmsnorm") /\ OnSlab(RmsNorm(buf("normed"), buf("x"), op.weight, op.rows))

DoRmsNormResidual ==
  LET op == Head(program)
      at(region) == ptr(region, op.first * hidden, half)
  IN /\ Launches("rmsnorm_residual")
     /\ OnSlab(RmsNormResidual(at("normed"), at("x"), at("mlp_out"), op.weight, op.rows))

DoLinear ==
  LET op == Head(program) IN
  Launches("linear") /\ OnSlab(GemmLinear(op.config, op.out, op.act, op.weight, op.bias))

DoRope ==
  /\ Launches("rope")
  /\ OnSlab(RopeInplace(buf("qkv"), ptr("qkv", k_view_offset, half), qkv_width, Head(program).rows))

DoScatter ==
  LET op == Head(program) IN
  /\ Launches("kv_scatter")
  /\ kv_pool' = KvScatter(op.layer, ptr("qkv", k_view_offset, half),
                          ptr("qkv", v_view_offset, half), qkv_width, op.stride, op.rows)
  /\ UNCHANGED <<mem, files>>

DoPagedAttention ==
  LET op == Head(program) IN
  Launches("paged_attention") /\ OnSlab(PagedAttentionDecode(op.layer, op.rows))

DoGather ==
  LET op == Head(program) IN Launches("kv_gather") /\ OnSlab(KvGather(op.layer, op.ctx))

DoScores == Launches("scores") /\ OnSlab(GemmScores(Head(program).call))

DoSoftmax ==
  LET op == Head(program) IN
  Launches("prefill_softmax") /\ OnSlab(PrefillSoftmax(op.rows, op.ctx, op.chunk_start))

DoPv == Launches("pv") /\ OnSlab(GemmPv(Head(program).call))

DoSiluMul == Launches("silu_mul") /\ OnSlab(SiluMul(Head(program).rows))

DoArgmax == Launches("argmax") /\ OnSlab(GreedyArgmax(Head(program).rows))

DoCapture ==
  LET op == Head(program) IN
  /\ Launches("capture")
  /\ files' = (op.file :> [i \in 0 .. op.elems - 1 |-> Load(ptr(op.region, i, half), half)]) @@ files
  /\ UNCHANGED <<mem, kv_pool>>

\* The stream is drained and the call returns; its positions are cached now.
Returns ==
  /\ program = <<>> /\ step # Idle /\ step' = Idle
  /\ cached' = [s \in Sequences |->
       cached[s] + Cardinality({i \in DOMAIN step.toks : step.toks[i][1] = s})]
  /\ UNCHANGED <<mem, kv_pool, program, files, dump_pending>>

\* Every sequence is as long as it can get.
AllFull == step = Idle /\ (\A s \in Sequences : cached[s] = MaxSeqLen) /\ UNCHANGED forwardVars

Batches == {b \in SeqOf(Sequences, MaxBatch) : b # <<>> /\ IsInjective(b)}

Kernel ==
  \/ DoEmbed \/ DoRmsNorm \/ DoRmsNormResidual \/ DoLinear \/ DoRope \/ DoScatter
  \/ DoPagedAttention \/ DoGather \/ DoScores \/ DoSoftmax \/ DoPv \/ DoSiluMul
  \/ DoArgmax \/ DoCapture

ForwardNext ==
  \/ \E s \in Sequences, mode \in {"strided_batched", "per_head"} : PrefillChunkCall(s, mode)
  \/ \E b \in Batches, rows \in 1 .. MaxBatch : rows >= Len(b) /\ DecodeCall(b, rows)
  \/ Kernel
  \/ Returns \/ AllFull

ForwardSpec == ForwardInit /\ [][ForwardNext]_forwardVars

-----------------------------------------------------------------------------
(***************************************************************************)
(* Properties, at the end of each call.                                    *)
(***************************************************************************)
Ended == program = <<>> /\ step # Idle

CachedAfter(s) == cached[s] + Cardinality({i \in DOMAIN step.toks : step.toks[i][1] = s})

(***************************************************************************)
(* When a call has drained, every token it sampled is the successor of its *)
(* own row's token under the whole network over its own context, and the   *)
(* pool holds the rotated K and the V of every position of every sequence, *)
(* in every layer: whatever earlier calls of other shapes and forms left   *)
(* in the slab, padded rows and the dump's second pass over layer 0        *)
(* included (EnqueueDecodeForward, EnqueuePrefillForward).                 *)
(***************************************************************************)
ForwardExact ==
  Ended =>
    /\ \A i \in DOMAIN step.sampled :
         Load(ptr("argmax", i - 1, 4), 4) = Elem("next", 0, step.sampled[i], 0, 0)
    /\ \A s \in Sequences, l \in Rows(NumLayers), g \in Rows(NumKvHeads), d \in Rows(HeadDim) :
         \A p \in Rows(CachedAfter(s)) :
           LET at(kv) == Pool(PoolOffset(l, TableOf[s][(p \div KvBlockSize) + 1], kv, g,
                                         p % KvBlockSize, d))
           IN /\ at(0) = Elem("rot", l, <<s, p>>, KColumn(g, d), 0)
              /\ at(1) = Elem("qkv", l, <<s, p>>, VColumn(g, d), 0)

(***************************************************************************)
(* The layer-0 dump holds, for the first chunk, the normed rows, the QKV   *)
(* projection before RoPE, and the two block outputs, although all of them *)
(* pass through buffers that the layer reuses (DumpLayer0Activations).     *)
(***************************************************************************)
DumpExact ==
  "mlp_out" \in DOMAIN files =>
    \A f \in {<<"normed", "normed", 0, hidden>>, <<"qkv", "qkv", 0, qkv_width>>,
              <<"attn_out", "delta", 0, hidden>>, <<"mlp_out", "delta", 1, hidden>>} :
      \A o \in DOMAIN files[f[1]] :
        files[f[1]][o] = Elem(f[2], f[3], <<TokenOf(files["normed"][0])[1], o \div f[4]>>,
                              o % f[4], 0)

-----------------------------------------------------------------------------
\* The first and the last byte of each batch member of an operand.
Extent(base, size, stride, last, batch) ==
  {<<base + b * stride * size, base + (b * stride + last + 1) * size>> : b \in 0 .. batch - 1}

Inside(extent, region) ==
  /\ extent[1] >= ComputeScratchLayout[region]
  /\ extent[2] <= ComputeScratchLayout[region] + BytesOf(region)

OperandFits(base, size, stride, last, batch, align, regions) ==
  \A e \in Extent(base, size, stride, last, batch) :
    e[1] % align = 0 /\ \E region \in regions : Inside(e, region)

FitsA(c, base, regions) ==
  OperandFits(base, half, c.stride_a, OffsetA(c, 0, c.m - 1, c.k - 1), c.batch, c.align_a, regions)
FitsB(c, base, regions) ==
  OperandFits(base, half, c.stride_b, OffsetB(c, 0, c.k - 1, c.n - 1), c.batch, c.align_b, regions)
FitsD(c, base, regions) ==
  OperandFits(base, c.size_d, c.stride_d, OffsetD(c, 0, c.m - 1, c.n - 1), c.batch, c.align_d,
              regions)

(***************************************************************************)
(* Each matrix of a product that is about to run lies inside one region of *)
(* the slab, its own for the products of the prefill attention, and starts *)
(* at the alignment its GemmConfig lets the heuristic assume: the planes   *)
(* of scores and probabilities are packed at the current context, so their *)
(* offsets change with every chunk (ComputeScratchLayout, GemmConfig).     *)
(***************************************************************************)
OperandsFit ==
  program # <<>> =>
    LET op == Head(program) IN
    CASE op.kernel = "linear" ->
           /\ ValidateConfig(op.config)
           /\ FitsB(op.config, op.act, RegionNames) /\ FitsD(op.config, op.out, RegionNames)
      [] op.kernel = "scores" ->
           /\ ValidateConfig(op.call.config) /\ FitsA(op.call.config, op.call.a, {"khat"})
           /\ FitsB(op.call.config, op.call.b, {"qkv"})
           /\ FitsD(op.call.config, op.call.d, {"scores"})
      [] op.kernel = "pv" ->
           /\ ValidateConfig(op.call.config) /\ FitsA(op.call.config, op.call.a, {"vhat"})
           /\ FitsB(op.call.config, op.call.b, {"probs"})
           /\ FitsD(op.call.config, op.call.d, {"attn_out"})
      [] OTHER -> TRUE
===============================================================================
