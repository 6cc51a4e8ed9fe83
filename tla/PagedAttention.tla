---------------------------- MODULE PagedAttention ----------------------------
(***************************************************************************)
(* One CTA of PagedAttentionDecodeKernel (kernels/paged_attention.cu): its *)
(* warps run between the __syncthreads() barriers at their own pace, over  *)
(* shared tiles staged synchronously into one buffer (before sm_80) or by  *)
(* cp.async groups into two.                                               *)
(*                                                                         *)
(* Arithmetic is symbolic.  A staged row holds the position whose K and V  *)
(* it is; a score its position; a running maximum the set of positions it  *)
(* is the maximum of; a sum of weights, [ref, terms], the positions        *)
(* weighted relative to the maximum ref.  Mixed is never-written memory, a *)
(* NaN or a sum of weights relative to different maxima.                   *)
(***************************************************************************)
EXTENDS Integers, FiniteSets, FiniteSetsExt

CONSTANTS
  NumWarps,                   \* kWarps
  GroupSize,                  \* kGroupSize: query heads of the CTA
  BlockSize,                  \* kKvBlockSize
  HeadStride,                 \* kHeadStride: heads whose columns a row of threads covers
  HeadsPerWarp,               \* heads of a warp in the probability phase
  TableRow,                   \* tile -> physical block
  PoolBlocks                   \* blocks of the pool

MaxBlocks == Cardinality(DOMAIN TableRow)          \* max_blocks_per_seq
Warps == 0 .. NumWarps - 1
Heads == 0 .. GroupSize - 1
Slots == 0 .. BlockSize - 1

ASSUME AttentionAssumption ==
  /\ {NumWarps, GroupSize, BlockSize, HeadStride, HeadsPerWarp, PoolBlocks} \subseteq Nat \ {0}
  /\ MaxBlocks \in Nat
  /\ DOMAIN TableRow = 0 .. MaxBlocks - 1
  /\ \A t, u \in DOMAIN TableRow : TableRow[t] = TableRow[u] => t = u
  /\ \A t \in DOMAIN TableRow : TableRow[t] \in 1 .. PoolBlocks - 1
  /\ NumWarps % HeadStride = 0 /\ GroupSize % HeadStride = 0
  /\ GroupSize <= NumWarps * HeadsPerWarp

VARIABLES
  cp_async,                   \* REDLINE_PA_CPASYNC of the build
  launched_len,               \* seq_lens[seq]
  pool,                       \* block -> slot -> the position stored there
  pc, tile,                   \* warp -> where it is, and the tile it is on
  in_flight,                  \* warp -> tiles of its commit groups not yet complete
  kv_tile,                    \* k_tile, v_tile: buffer -> slot -> staged position
  scores, m, l, alpha,        \* the shared softmax state
  acc,                        \* warp -> head -> its register accumulator
  stored                      \* warp -> head -> what its epilogue stored

launchVars == <<cp_async, launched_len, pool>>
softmaxVars == <<scores, m, l, alpha>>
attentionVars == <<launchVars, pc, tile, in_flight, kv_tile, softmaxVars, acc, stored>>

Mixed == [ref |-> {-1}, terms |-> {-1}]
Zero == [ref |-> {}, terms |-> {}]
Garbage == -2                 \* a staged row of no position
Raw(p) == <<p, {}>>           \* a score, not yet a weight
Masked == Raw(-1)             \* a masked score, or a weight of zero

seq_len == Min({launched_len, MaxBlocks * BlockSize})
num_tiles == (seq_len + BlockSize - 1) \div BlockSize
tile_valid(i) == Min({BlockSize, seq_len - i * BlockSize})
Buffer(i) == IF cp_async THEN i % 2 ELSE 0

\* A warp's rows of a staged tile, its (head, slot) scores, its heads in the
\* probability phase, and the heads of its accumulators.
StagedBy(w) == {t \in Slots : t % NumWarps = w}
ScoredBy(w) == {p \in Heads \X Slots : (p[1] * BlockSize + p[2]) % NumWarps = w}
HeadsOf(w) == {h \in Heads : h \div HeadsPerWarp = w}
Owned(w) == {h \in Heads : h % HeadStride = w \div (NumWarps \div HeadStride)}

-----------------------------------------------------------------------------
(***************************************************************************)
(* Weights.  Rescaling by alpha = exp(old - new) is exact when the sum was *)
(* relative to old.                                                        *)
(***************************************************************************)
Rescaled(sum, a) ==
  IF sum = Zero THEN [ref |-> a.new, terms |-> {}]
  ELSE IF sum.ref = a.old THEN [sum EXCEPT !.ref = a.new] ELSE Mixed

\* The sum with the weights of the given (position, reference) pairs added.
Plus(sum, weights) ==
  LET added == {x[1] : x \in weights} IN
  IF /\ \A x \in weights : x[2] = sum.ref
     /\ Cardinality(added) = Cardinality(weights) /\ added \cap sum.terms = {}
  THEN [sum EXCEPT !.terms = @ \cup added] ELSE Mixed

-----------------------------------------------------------------------------
AttentionInit ==
  /\ cp_async \in BOOLEAN
  /\ launched_len \in 0 .. MaxBlocks * BlockSize + 1
  /\ pool = [b \in 0 .. PoolBlocks - 1 |-> [t \in Slots |->
       LET at == {i \in DOMAIN TableRow : TableRow[i] = b /\ i * BlockSize + t < seq_len}
       IN IF at = {} THEN Garbage ELSE (CHOOSE i \in at : TRUE) * BlockSize + t]]
  /\ pc = [w \in Warps |-> IF seq_len <= 0 THEN "exit" ELSE "setup"]
  /\ tile = [w \in Warps |-> 0]
  /\ in_flight = [w \in Warps |-> {}]
  /\ kv_tile = [b \in {0, 1} |-> [t \in Slots |-> Garbage]]
  /\ scores = [h \in Heads |-> [t \in Slots |-> Raw(Garbage)]]
  /\ m = [h \in Heads |-> {-1}] /\ l = [h \in Heads |-> Mixed]
  /\ alpha = [h \in Heads |-> [old |-> {-1}, new |-> {-1}]]
  /\ acc = [w \in Warps |-> [h \in Owned(w) |-> Zero]]
  /\ stored = [w \in Warps |-> [h \in Owned(w) |-> Zero]]

At(w, from, to) == pc[w] = from /\ pc' = [pc EXCEPT ![w] = to]

\* Before the loop: warp 0 clears the softmax state, every warp starts tile 0.
Setup(w) ==
  /\ At(w, "setup", "top")
  /\ m' = IF w = 0 THEN [h \in Heads |-> {}] ELSE m
  /\ l' = IF w = 0 THEN [h \in Heads |-> Zero] ELSE l
  /\ in_flight' = IF cp_async THEN [in_flight EXCEPT ![w] = {0}] ELSE in_flight
  /\ UNCHANGED <<launchVars, tile, kv_tile, scores, alpha, acc, stored>>

\* stage_tile: the warp's rows of a tile, each through the tile's own table entry.
Copied(w, i) ==
  [kv_tile EXCEPT ![Buffer(i)] = [t \in Slots |->
    IF t \in StagedBy(w) THEN pool[TableRow[i]][t] ELSE @[t]]]

\* (a) of the loop: prefetch the next tile, or copy this one in.
Stage(w) ==
  LET next == tile[w] + 1 IN
  /\ tile[w] < num_tiles
  /\ At(w, "top", IF cp_async THEN "wait" ELSE "sync_staged")
  /\ IF cp_async
     THEN /\ in_flight' = IF next < num_tiles THEN [in_flight EXCEPT ![w] = @ \cup {next}]
                          ELSE in_flight
          /\ UNCHANGED kv_tile
     ELSE kv_tile' = Copied(w, tile[w]) /\ UNCHANGED in_flight
  /\ UNCHANGED <<launchVars, tile, softmaxVars, acc, stored>>

\* The copies of a commit group complete, at any time after they were issued.
Land(w, i) ==
  /\ i \in in_flight[w]
  /\ in_flight' = [in_flight EXCEPT ![w] = @ \ {i}]
  /\ kv_tile' = Copied(w, i)
  /\ UNCHANGED <<launchVars, pc, tile, softmaxVars, acc, stored>>

\* __pipeline_wait_prior: only the group of the next tile may still be in flight.
WaitPrior(w) ==
  /\ At(w, "wait", "sync_staged")
  /\ \A i \in in_flight[w] : i > tile[w]
  /\ UNCHANGED <<launchVars, tile, in_flight, kv_tile, softmaxVars, acc, stored>>

Syncthreads(from, to) ==
  /\ \A w \in Warps : pc[w] = from
  /\ pc' = [w \in Warps |-> to]
  /\ UNCHANGED <<launchVars, tile, in_flight, kv_tile, softmaxVars, acc, stored>>

\* (b): scores of the warp's pairs; a slot past the sequence is masked by selection.
Score(w) ==
  /\ At(w, "score", "sync_scored")
  /\ scores' = [h \in Heads |-> [t \in Slots |->
       IF <<h, t>> \notin ScoredBy(w) THEN scores[h][t]
       ELSE IF tile[w] * BlockSize + t < seq_len THEN Raw(kv_tile[Buffer(tile[w])][t]) ELSE Masked]]
  /\ UNCHANGED <<launchVars, tile, in_flight, kv_tile, m, l, alpha, acc, stored>>

\* (c): the heads of the warp turn scores into weights relative to the new maximum.
Probabilities(w) ==
  LET m_new(h) == m[h] \cup {s[1] : s \in {scores[h][t] : t \in Slots} \ {Masked}}
      weight(h, t) == <<scores[h][t][1], m_new(h)>>
      live == {t \in Slots : t < tile_valid(tile[w])}
      a(h) == [old |-> m[h], new |-> m_new(h)]
      sum(h) == Plus(Rescaled(l[h], a(h)), {weight(h, t) : t \in live})
      mine(h) == h \in HeadsOf(w)
  IN /\ At(w, "prob", "sync_prob")
     /\ scores' = [h \in Heads |-> IF mine(h)
          THEN [t \in Slots |-> IF t \in live THEN weight(h, t) ELSE Masked] ELSE scores[h]]
     /\ alpha' = [h \in Heads |-> IF mine(h) THEN a(h) ELSE alpha[h]]
     /\ m' = [h \in Heads |-> IF mine(h) THEN m_new(h) ELSE m[h]]
     /\ l' = [h \in Heads |-> IF mine(h) THEN sum(h) ELSE l[h]]
     /\ UNCHANGED <<launchVars, tile, in_flight, kv_tile, acc, stored>>

\* Mutant: the iteration does not end with a barrier.
AfterFoldAtOnce == "top"

\* The barrier that ends an iteration.
AfterFold == "sync_folded"

\* (e): the warp's accumulators, rescaled, take in the tile's valid rows of V.
Fold(w) ==
  LET v(t) == kv_tile[Buffer(tile[w])][t]
      live == {t \in Slots : t < tile_valid(tile[w])}
      folded(h) == IF \A t \in live : scores[h][t] = <<v(t), alpha[h].new>>
                   THEN Plus(Rescaled(acc[w][h], alpha[h]), {scores[h][t] : t \in live})
                   ELSE Mixed
  IN /\ At(w, "fold", AfterFold)
     /\ acc' = [acc EXCEPT ![w] = [h \in Owned(w) |-> folded(h)]]
     /\ tile' = [tile EXCEPT ![w] = @ + 1]
     /\ UNCHANGED <<launchVars, in_flight, kv_tile, softmaxVars, stored>>

\* out = acc / l: weights relative to the same maximum, over the same positions.
Epilogue(w) ==
  /\ tile[w] = num_tiles /\ At(w, "top", "exit")
  /\ stored' = [stored EXCEPT ![w] = [h \in Owned(w) |-> IF acc[w][h] = l[h] THEN l[h] ELSE Mixed]]
  /\ UNCHANGED <<launchVars, tile, in_flight, kv_tile, softmaxVars, acc>>

Exited == (\A w \in Warps : pc[w] = "exit") /\ UNCHANGED attentionVars

AttentionNext ==
  \/ \E w \in Warps : Setup(w) \/ Stage(w) \/ WaitPrior(w) \/ Score(w) \/ Probabilities(w)
                        \/ Fold(w) \/ Epilogue(w) \/ (\E i \in in_flight[w] : Land(w, i))
  \/ Syncthreads("sync_staged", "score")
  \/ Syncthreads("sync_scored", "prob")
  \/ Syncthreads("sync_prob", "fold")
  \/ Syncthreads("sync_folded", "top")
  \/ Exited

AttentionSpec == AttentionInit /\ [][AttentionNext]_attentionVars

-----------------------------------------------------------------------------
(***************************************************************************)
(* Every accumulator a warp stores holds each position 0 .. seq_len - 1    *)
(* exactly once, weighted relative to the maximum over all of them, as the *)
(* denominator does: no warp, however far ahead, overwrites a tile, a      *)
(* score or a maximum another warp still reads, in either staging, and no  *)
(* masked slot contributes.  A padded row stores nothing                   *)
(* (PagedAttentionDecodeKernel).                                           *)
(***************************************************************************)
AttendsExactly ==
  \A w \in Warps : pc[w] = "exit" => \A h \in Owned(w) :
    stored[w][h] = [ref |-> 0 .. seq_len - 1, terms |-> 0 .. seq_len - 1]

-----------------------------------------------------------------------------
(***************************************************************************)
(* Why it holds.  Between two barriers all warps work on the same tile i.  *)
(* Each part below says what one section may rely on.                      *)
(***************************************************************************)
\* The positions of the tiles before i, and the sum of their weights.
Before(i) == 0 .. Min({i * BlockSize, seq_len}) - 1
SumTo(i) == [ref |-> Before(i), terms |-> Before(i)]

\* What the pool holds at slot t of tile i.
RowAt(i, t) == pool[TableRow[i]][t]

PoolExact ==
  \A i \in DOMAIN TableRow, t \in Slots :
    i * BlockSize + t < seq_len => RowAt(i, t) = i * BlockSize + t

\* The warp's rows of tile i are in their buffer, or a group of its own is on
\* its way there.
Fetched(w, i) == \A t \in StagedBy(w) : kv_tile[Buffer(i)][t] = RowAt(i, t)
Requested(w, i) == i < num_tiles => i \in in_flight[w] \/ Fetched(w, i)

\* The warp has its rows of tile i, and at most the next tile is on its way.
Holds(w, i) ==
  /\ Fetched(w, i)
  /\ in_flight[w] \subseteq (IF cp_async THEN {i + 1} \cap 0 .. num_tiles - 1 ELSE {})
  /\ cp_async => Requested(w, i + 1)

\* The softmax state and the accumulators are those of the tiles before i.
MaxAndSum(h, i) == m[h] = Before(i) /\ l[h] = SumTo(i)
Accumulated(w, i) == \A h \in Owned(w) : acc[w][h] = SumTo(i)

ScoreOf(i, t) == IF i * BlockSize + t < seq_len THEN Raw(i * BlockSize + t) ELSE Masked
WeightOf(i, t) ==
  IF i * BlockSize + t < seq_len THEN <<i * BlockSize + t, Before(i + 1)>> ELSE Masked

\* The head's tile i has been scored; it has been weighed.
Scored(h, i) == MaxAndSum(h, i) /\ \A t \in Slots : scores[h][t] = ScoreOf(i, t)
Weighed(h, i) ==
  /\ MaxAndSum(h, i + 1) /\ alpha[h] = [old |-> Before(i), new |-> Before(i + 1)]
  /\ \A t \in Slots : scores[h][t] = WeightOf(i, t)

\* The section that ends with the tile staged; the kernel leaves from it.
StagingWarp(w, i) ==
  /\ tile[w] = i /\ pc[w] \in {"setup", "top", "wait", "sync_staged", "exit"}
  /\ Accumulated(w, i)
  /\ in_flight[w] \subseteq (IF cp_async THEN 0 .. num_tiles - 1 ELSE {})
  /\ pc[w] = "setup" => i = 0 /\ i < num_tiles /\ in_flight[w] = {}
  /\ pc[w] = "top" => num_tiles > 0 /\ in_flight[w] \subseteq {i} /\ (cp_async => Requested(w, i))
  /\ pc[w] = "wait" => /\ cp_async /\ i < num_tiles /\ in_flight[w] \subseteq {i, i + 1}
                       /\ Requested(w, i) /\ Requested(w, i + 1)
  /\ pc[w] = "sync_staged" => i < num_tiles /\ Holds(w, i)
  /\ pc[w] = "exit" =>
       /\ i = num_tiles /\ in_flight[w] = {} /\ \A h \in Owned(w) : stored[w][h] = SumTo(i)

Staging(i) ==
  /\ \A w \in Warps : StagingWarp(w, i)
  /\ num_tiles > 0 /\ pc[0] # "setup" => \A h \in Heads : MaxAndSum(h, i)

ScoringWarp(w, i) ==
  /\ tile[w] = i /\ pc[w] \in {"score", "sync_scored"} /\ Accumulated(w, i) /\ Holds(w, i)
  /\ pc[w] = "sync_scored" => \A p \in ScoredBy(w) : scores[p[1]][p[2]] = ScoreOf(i, p[2])

Scoring(i) ==
  /\ \A w \in Warps : ScoringWarp(w, i)
  /\ \A h \in Heads : MaxAndSum(h, i)

WeighingWarp(w, i) ==
  /\ tile[w] = i /\ pc[w] \in {"prob", "sync_prob"} /\ Accumulated(w, i) /\ Holds(w, i)
  /\ \A h \in HeadsOf(w) : IF pc[w] = "prob" THEN Scored(h, i) ELSE Weighed(h, i)

Weighing(i) == \A w \in Warps : WeighingWarp(w, i)

FoldingWarp(w, i) ==
  /\ pc[w] \in {"fold", "sync_folded"} /\ Holds(w, i)
  /\ pc[w] = "fold" => tile[w] = i /\ Accumulated(w, i)
  /\ pc[w] = "sync_folded" => tile[w] = i + 1 /\ Accumulated(w, i + 1)

Folding(i) ==
  /\ \A w \in Warps : FoldingWarp(w, i)
  /\ \A h \in Heads : Weighed(h, i)

AttentionTypeOK ==
  /\ cp_async \in BOOLEAN /\ launched_len \in Nat
  /\ DOMAIN pc = Warps /\ tile \in [Warps -> Nat]
  /\ DOMAIN in_flight = Warps /\ \A w \in Warps : in_flight[w] \subseteq Nat
  /\ kv_tile = [b \in {0, 1} |-> [t \in Slots |-> kv_tile[b][t]]]
  /\ DOMAIN acc = Warps /\ DOMAIN stored = Warps

\* All warps are in one section of one tile.
Section(i) ==
  \/ Staging(i)
  \/ i < num_tiles /\ (Scoring(i) \/ Weighing(i) \/ Folding(i))

AttentionInv == AttentionTypeOK /\ PoolExact /\ \E i \in 0 .. num_tiles : Section(i)
===============================================================================
