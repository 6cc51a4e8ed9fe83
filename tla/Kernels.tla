------------------------------- MODULE Kernels --------------------------------
(***************************************************************************)
(* kernels/*.cu and the GEMMs, as what they read and write: the activation *)
(* slab and the paged KV pool after each launch.                           *)
(*                                                                         *)
(* Arithmetic is abstracted to provenance: an element holds the name of    *)
(* the element of the reference network it is, <<tensor, stage, token, i,  *)
(* j, part>>, or Junk.  A kernel writes the named result exactly where all *)
(* the elements it reads are the ones the reference network combines.      *)
(* Tokens are <<sequence, position>>; padded rows carry <<0, 0>>.  An FP32 *)
(* or int32 element takes two half words, part 0 and part 1.               *)
(***************************************************************************)
EXTENDS GemmShapes, TLC

CONSTANT NumBlocks            \* num_kv_blocks_

VARIABLES
  mem,                        \* scratch_slab_, by half word
  kv_pool                     \* kv_pool_, by element

NoToken == <<0, 0>>
Junk == <<"junk", 0, NoToken, 0, 0, 0>>
Elem(tensor, stage, tok, i, j) == <<tensor, stage, tok, i, j, 0>>
Word(kind, n) == Elem(kind, 0, NoToken, n, 0)      \* an int32 input
TokenOf(v) == v[3]
Pos(v) == v[3][2]

-----------------------------------------------------------------------------
(***************************************************************************)
(* Memory.  Stores of one launch that meet are a race: one of them stays.  *)
(***************************************************************************)
Upper(v) == [v EXCEPT ![6] = 1]

Load(addr, size) ==
  LET w == addr \div 2 IN
  IF w \notin DOMAIN mem \/ (size = 4 /\ mem[w + 1] # Upper(mem[w])) THEN Junk ELSE mem[w]

\* A slab after element o of the array at `base` became f[o].
Put(slab, base, size, f) ==
  [w \in DOMAIN slab |->
    LET o == (2 * w - base) \div size IN
    IF o \notin DOMAIN f THEN slab[w]
    ELSE IF (2 * w - base) % size = 0 THEN f[o] ELSE Upper(f[o])]

Stored(base, size, f) == Put(mem, base, size, f)

\* A function on offsets from values indexed otherwise.
Placed(indices, Offset(_), Value(_)) ==
  [o \in {Offset(x) : x \in indices} |-> Value(CHOOSE x \in indices : Offset(x) = o)]

in(region, i) == Load(ptr(region, i, 4), 4)
input_ids(i) == in("input_ids", i)
positions(i) == in("positions", i)[4]
seq_lens(i) == in("seq_lens", i)[4]
block_tables(i) == in("block_tables", i)[4]

\* PoolLayerSlice and PoolRowBase: element of (layer, block, K or V, head, slot, d).
PoolOffset(layer, block, kv, head, slot, d) ==
  layer * (NumBlocks * 2 * NumKvHeads * KvBlockSize * HeadDim)
    + (((block * 2 + kv) * NumKvHeads + head) * KvBlockSize + slot) * HeadDim + d

Pool(o) == IF o \in DOMAIN kv_pool THEN kv_pool[o] ELSE Junk

-----------------------------------------------------------------------------
(***************************************************************************)
(* The reference network: which tensor a weight turns into which.  Stage s *)
(* of the residual has s block outputs folded in.                          *)
(***************************************************************************)
NormStage(weight) ==
  CASE weight[1] = "input_norm" -> 2 * weight[2]
    [] weight[1] = "post_attn_norm" -> 2 * weight[2] + 1
    [] weight[1] = "final_norm" -> 2 * NumLayers

\* weight -> <<input tensor, its stage, output tensor, its stage, bias>>
Projection(weight) ==
  LET l == weight[2] IN
  CASE weight[1] = "w_qkv"    -> <<"normed", 2 * l, "qkv", l, <<"b_qkv", l>>>>
    [] weight[1] = "w_o"      -> <<"attn", l, "delta", 2 * l, <<"none", 0>>>>
    [] weight[1] = "w_gateup" -> <<"normed", 2 * l + 1, "gateup", l, <<"none", 0>>>>
    [] weight[1] = "w_down"   -> <<"act", l, "delta", 2 * l + 1, <<"none", 0>>>>
    [] weight[1] = "lm_head"  -> <<"normed", 2 * NumLayers, "logit", 0, <<"none", 0>>>>

KvHeadOf(h) == h \div heads_per_group
KColumn(g, d) == k_view_offset + g * HeadDim + d
VColumn(g, d) == v_view_offset + g * HeadDim + d

-----------------------------------------------------------------------------
(***************************************************************************)
(* The kernels: the slab (or the pool) after the launch.                   *)
(***************************************************************************)
Rows(n) == 0 .. n - 1
Cells(rows, cols) == Rows(rows) \X Rows(cols)

EmbedGather(out, out_row_stride, rows) ==
  Stored(out, half, Placed(Cells(rows, hidden), LAMBDA c : c[1] * out_row_stride + c[2],
    LAMBDA c : IF input_ids(c[1])[1] = "id" THEN Elem("x", 0, TokenOf(input_ids(c[1])), c[2], 0)
               ELSE Junk))

\* The row at `addr` when its n elements are one row of a tensor at a stage.
RowIs(addr, tensor, stage, n) ==
  LET tok == TokenOf(Load(addr, half)) IN
  \A c \in Rows(n) : Load(addr + c * half, half) = Elem(tensor, stage, tok, c, 0)

RmsNorm(out, input, weight, rows) ==
  LET from(r) == input + r * hidden * half
      s       == NormStage(weight)
      good    == [r \in Rows(rows) |-> RowIs(from(r), "x", s, hidden)]
  IN Stored(out, half, Placed(Cells(rows, hidden), LAMBDA c : c[1] * hidden + c[2],
       LAMBDA c : IF good[c[1]] THEN Elem("normed", s, TokenOf(Load(from(c[1]), half)), c[2], 0)
                  ELSE Junk))

\* Folds the block output into the residual, then normalizes: two buffers change.
RmsNormResidual(out, residual, input, weight, rows) ==
  LET at(base, r) == base + r * hidden * half
      s    == NormStage(weight)
      tok  == [r \in Rows(rows) |-> TokenOf(Load(at(residual, r), half))]
      good == [r \in Rows(rows) |->
        /\ RowIs(at(residual, r), "x", s - 1, hidden)
        /\ RowIs(at(input, r), "delta", s - 1, hidden)
        /\ TokenOf(Load(at(input, r), half)) = tok[r]]
      row(base, tensor) ==
        Placed(Cells(rows, hidden), LAMBDA c : (base \div half) + c[1] * hidden + c[2],
          LAMBDA c : IF good[c[1]] THEN Elem(tensor, s, tok[c[1]], c[2], 0) ELSE Junk)
  IN Stored(0, half, row(out, "normed") @@ row(residual, "x"))

\* GemmFp16 and GemmBiasFp16: every output feature of row j reads all of row j.
GemmLinear(c, out, act, weight, bias) ==
  LET law == Projection(weight)
      addr(j) == act + OffsetB(c, 0, 0, j) * half
      good == [j \in Rows(c.n) |-> RowIs(addr(j), law[1], law[2], c.k) /\ bias = law[5]]
  IN Stored(out, c.size_d, Placed(Cells(c.m, c.n), LAMBDA x : OffsetD(c, 0, x[1], x[2]),
       LAMBDA x : IF good[x[2]] THEN Elem(law[3], law[4], TokenOf(Load(addr(x[2]), half)), x[1], 0)
                  ELSE Junk))

\* Rotates the element pairs (d, d + HeadDim/2) of every Q and K head in place,
\* by the row's position.
RopeInplace(q, k, row_stride, rows) ==
  LET base(r, h) == IF h < NumQHeads THEN q + (r * row_stride + h * HeadDim) * half
                    ELSE k + (r * row_stride + (h - NumQHeads) * HeadDim) * half
      other(d) == IF d < HeadDim \div 2 THEN d + HeadDim \div 2 ELSE d - HeadDim \div 2
      turned(r, h, d) ==
        LET own    == Load(base(r, h) + d * half, half)
            paired == Load(base(r, h) + other(d) * half, half)
        IN IF /\ own[1] = "qkv" /\ paired = [own EXCEPT ![4] = @ + other(d) - d]
              /\ positions(r) = Pos(own)
           THEN [own EXCEPT ![1] = "rot"] ELSE Junk
      cells == Rows(rows) \X Rows(NumQHeads + NumKvHeads) \X Rows(HeadDim)
  IN Stored(0, half, Placed(cells, LAMBDA c : (base(c[1], c[2]) \div half) + c[3],
                            LAMBDA c : turned(c[1], c[2], c[3])))

\* The pool after row t stored its K and V at positions[t], through its table row.
KvScatter(layer, k, v, row_stride, table_row_stride, rows) ==
  LET block(t) == block_tables(t * table_row_stride + positions(t) \div KvBlockSize)
      cells == Rows(rows) \X {0, 1} \X Rows(NumKvHeads) \X Rows(HeadDim)
      f == Placed(cells,
             LAMBDA c : PoolOffset(layer, block(c[1]), c[2], c[3], positions(c[1]) % KvBlockSize, c[4]),
             LAMBDA c : Load((IF c[2] = 0 THEN k ELSE v)
                               + (c[1] * row_stride + c[3] * HeadDim + c[4]) * half, half))
  IN [o \in DOMAIN kv_pool |-> IF o \in DOMAIN f THEN f[o] ELSE kv_pool[o]]

\* Positions 0 .. ctx-1 of the table in row 0, dense per head.
KvGather(layer, ctx) ==
  LET cells == Rows(ctx) \X Rows(NumKvHeads) \X Rows(HeadDim)
      plane(base, kv) == Placed(cells,
        LAMBDA c : (base \div half) + c[2] * gather_plane_stride + c[1] * HeadDim + c[3],
        LAMBDA c : Pool(PoolOffset(layer, block_tables(c[1] \div KvBlockSize), kv, c[2],
                                   c[1] % KvBlockSize, c[3])))
  IN Stored(0, half, plane(ptr("khat", 0, half), 0) @@ plane(ptr("vhat", 0, half), 1))

\* The K and V of position p that query head h of a token's sequence needs, in a layer.
KeyFor(q, l, h, p, d) == Elem("rot", l, <<q[3][1], p>>, KColumn(KvHeadOf(h), d), 0)
ValueFor(q, l, h, p, d) == Elem("qkv", l, <<q[3][1], p>>, VColumn(KvHeadOf(h), d), 0)

\* LaunchPagedAttentionDecode: rows with seq_len 0 write nothing.
PagedAttentionDecode(layer, rows) ==
  LET n(r) == Min({seq_lens(r), max_blocks_per_seq * KvBlockSize})
      q(r, h, d) == Load(ptr("qkv", r * qkv_width + h * HeadDim + d, half), half)
      cached_at(r, kv, h, p, d) ==
        Pool(PoolOffset(layer, block_tables(r * max_blocks_per_seq + p \div KvBlockSize), kv,
                        KvHeadOf(h), p % KvBlockSize, d))
      good == [c \in Rows(rows) \X Rows(NumQHeads) |->
        LET first == q(c[1], c[2], 0) IN
        /\ n(c[1]) = Pos(first) + 1
        /\ \A d \in Rows(HeadDim) :
             /\ q(c[1], c[2], d) = Elem("rot", layer, first[3], c[2] * HeadDim + d, 0)
             /\ \A p \in Rows(n(c[1])) :
                  /\ cached_at(c[1], 0, c[2], p, d) = KeyFor(first, layer, c[2], p, d)
                  /\ cached_at(c[1], 1, c[2], p, d) = ValueFor(first, layer, c[2], p, d)]
      cells == {r \in Rows(rows) : n(r) > 0} \X Rows(hidden)
  IN Stored(ptr("attn_out", 0, half), half, Placed(cells, LAMBDA c : c[1] * hidden + c[2],
       LAMBDA c : IF good[<<c[1], c[2] \div HeadDim>>]
                  THEN Elem("attn", layer, q(c[1], 0, 0)[3], c[2], 0) ELSE Junk))

\* Scores of one call: D(i, j) is query row j against gathered position i.
GemmScores(call) ==
  LET c == call.config
      a(b, i, l) == Load(call.a + OffsetA(c, b, i, l) * half, half)
      q(b, j, l) == Load(call.b + OffsetB(c, b, l, j) * half, half)
      value(b, i, j) ==
        LET first == q(b, j, 0)
            h     == first[4] \div HeadDim
        IN IF \A l \in Rows(c.k) : /\ q(b, j, l) = Elem("rot", first[2], first[3], h * HeadDim + l, 0)
                                   /\ a(b, i, l) = KeyFor(first, first[2], h, i, l)
           THEN Elem("score", first[2], first[3], h, i) ELSE Junk
  IN Stored(call.d, c.size_d, Placed(Rows(c.batch) \X Rows(c.m) \X Rows(c.n),
       LAMBDA x : OffsetD(c, x[1], x[2], x[3]), LAMBDA x : value(x[1], x[2], x[3])))

\* Mutant: the diagonal is masked too.
StrictlyBelow(i, ctx, chunk_start) == Min({chunk_start + i, ctx})

\* How many positions row i of a chunk attends to.
LiveColumns(i, ctx, chunk_start) == Min({chunk_start + i + 1, ctx})

\* Row i of each head is normalized over its own prefix; the rest becomes zero.
PrefillSoftmax(rows, ctx, chunk_start) ==
  LET score(x, j) == Load(ptr("scores", (x[1] * rows + x[2]) * ctx + j, float), float)
      live(i) == LiveColumns(i, ctx, chunk_start)
      good == [x \in Rows(NumQHeads) \X Rows(rows) |->
        LET s == score(x, 0) IN
        /\ s[1] = "score" /\ Pos(s) + 1 = live(x[2])
        /\ \A j \in Rows(live(x[2])) : score(x, j) = [s EXCEPT ![5] = j]]
      value(x, j) == IF j >= live(x[2]) THEN Elem("zero", 0, NoToken, 0, 0)
                     ELSE IF good[x] THEN [score(x, j) EXCEPT ![1] = "prob"] ELSE Junk
  IN Stored(ptr("probs", 0, half), half,
       Placed(Rows(NumQHeads) \X Rows(rows) \X Rows(ctx),
              LAMBDA x : (x[1] * rows + x[2]) * ctx + x[3], LAMBDA x : value(<<x[1], x[2]>>, x[3])))

\* PV of one call: D(i, j) is column i of the head's output for query row j.
GemmPv(call) ==
  LET c == call.config
      v(b, i, l) == Load(call.a + OffsetA(c, b, i, l) * half, half)
      prob(b, l, j) == Load(call.b + OffsetB(c, b, l, j) * half, half)
      value(b, i, j) ==
        LET p == prob(b, 0, j) IN
        IF /\ p[1] = "prob"
           /\ \A l \in Rows(c.k) :
                IF l <= Pos(p)
                THEN /\ prob(b, l, j) = [p EXCEPT ![5] = l]
                     /\ v(b, i, l) = ValueFor(p, p[2], p[4], l, i)
                ELSE prob(b, l, j)[1] = "zero"
        THEN Elem("attn", p[2], p[3], p[4] * HeadDim + i, 0) ELSE Junk
  IN Stored(call.d, c.size_d, Placed(Rows(c.batch) \X Rows(c.m) \X Rows(c.n),
       LAMBDA x : OffsetD(c, x[1], x[2], x[3]), LAMBDA x : value(x[1], x[2], x[3])))

\* In place over the gate half of each row; the up half stays.
SiluMul(rows) ==
  LET gate(r, c) == Load(ptr("gateup", r * gateup_width + c, half), half)
      value(r, c) == LET g == gate(r, c) IN
        IF g[1] = "gateup" /\ g[4] = c /\ gate(r, c + Inter) = [g EXCEPT ![4] = @ + Inter]
        THEN [g EXCEPT ![1] = "act"] ELSE Junk
  IN Stored(ptr("gateup", 0, half), half, Placed(Cells(rows, Inter),
       LAMBDA c : c[1] * gateup_width + c[2], LAMBDA c : value(c[1], c[2])))

\* The token a row of logits selects: the one after the row's token.
GreedyArgmax(rows) ==
  LET good == [r \in Rows(rows) |-> RowIs(ptr("logits", r * Vocab, half), "logit", 0, Vocab)] IN
  Stored(ptr("argmax", 0, 4), 4, [r \in Rows(rows) |->
    IF good[r] THEN Elem("next", 0, TokenOf(Load(ptr("logits", r * Vocab, half), half)), 0, 0) ELSE Junk])
===============================================================================
