---------------------------- MODULE WeightsLayout -----------------------------
(***************************************************************************)
(* loader/weights.{hpp,cpp}, the pure part: which checkpoint tensor goes   *)
(* to which rows of which fused device tensor (BuildWeightMap), and where  *)
(* the fused tensors lie in the one device slab (ComputeWeightsLayout).    *)
(* Offsets count FP16 elements.  The model's dimensions are constants, so  *)
(* that the layout can be checked at sizes that do not divide evenly.      *)
(***************************************************************************)
EXTENDS Integers, SequencesExt, FiniteSetsExt

CONSTANTS
  Hidden, KvRows, Inter, Vocab,
  NumLayers,
  Align                       \* kAlign, in elements

ASSUME WeightsAssumption ==
  {Hidden, KvRows, Inter, Vocab, NumLayers, Align} \subseteq Nat \ {0}

-----------------------------------------------------------------------------
NoLayer == -1

kQRowBegin == 0
kKRowBegin == Hidden          \* num_q_heads * head_dim = hidden_size
kVRowBegin == Hidden + KvRows
kQkvRows == Hidden + 2 * KvRows
kGateRowBegin == 0
kUpRowBegin == Inter
kGateUpRows == 2 * Inter

\* Elements per row of a fused tensor; 1 for the vectors.
DestRowWidth(kind) ==
  CASE kind \in {"embed", "lm_head", "w_qkv", "w_o", "w_gateup"} -> Hidden
    [] kind = "w_down" -> Inter
    [] kind \in {"b_qkv", "input_norm", "post_attn_norm", "final_norm"} -> 1

Entry(name, dest, layer, row, rows) ==
  [name |-> name, dest |-> dest, layer |-> layer, row |-> row, rows |-> rows]

LayerEntries(l) ==
  <<Entry("input_layernorm", "input_norm", l, 0, Hidden),
    Entry("q_proj.weight", "w_qkv", l, kQRowBegin, Hidden),
    Entry("q_proj.bias", "b_qkv", l, kQRowBegin, Hidden),
    Entry("k_proj.weight", "w_qkv", l, kKRowBegin, KvRows),
    Entry("k_proj.bias", "b_qkv", l, kKRowBegin, KvRows),
    Entry("v_proj.weight", "w_qkv", l, kVRowBegin, KvRows),
    Entry("v_proj.bias", "b_qkv", l, kVRowBegin, KvRows),
    Entry("o_proj", "w_o", l, 0, Hidden),
    Entry("post_attention_layernorm", "post_attn_norm", l, 0, Hidden),
    Entry("gate_proj", "w_gateup", l, kGateRowBegin, Inter),
    Entry("up_proj", "w_gateup", l, kUpRowBegin, Inter),
    Entry("down_proj", "w_down", l, 0, Hidden)>>

\* A loop over the layers that appends the n elements of `of` for each.
PerLayer(n, of(_)) ==
  [i \in 1 .. n * NumLayers |-> of((i - 1) \div n + 1)[((i - 1) % n) + 1]]

\* The table the upload loop runs through, in its order.
BuildWeightMap(has_lm_head) ==
  <<Entry("embed_tokens", "embed", NoLayer, 0, Vocab)>>
    \o PerLayer(12, LayerEntries)
    \o <<Entry("norm", "final_norm", NoLayer, 0, Hidden)>>
    \o (IF has_lm_head THEN <<Entry("lm_head", "lm_head", NoLayer, 0, Vocab)>> ELSE <<>>)

num_elements(e) == e.rows * DestRowWidth(e.dest)

\* The fused tensors in the order they are placed, with their element counts.
LayerRegions(l) ==
  <<<<"w_qkv", l, kQkvRows * Hidden>>, <<"b_qkv", l, kQkvRows>>, <<"w_o", l, Hidden * Hidden>>,
    <<"w_gateup", l, kGateUpRows * Hidden>>, <<"w_down", l, Hidden * Inter>>,
    <<"input_norm", l, Hidden>>, <<"post_attn_norm", l, Hidden>>>>

Regions(has_lm_head) ==
  <<<<"embed", NoLayer, Vocab * Hidden>>>>
    \o PerLayer(7, LayerRegions)
    \o <<<<"final_norm", NoLayer, Hidden>>>>
    \o (IF has_lm_head THEN <<<<"lm_head", NoLayer, Vocab * Hidden>>>> ELSE <<>>)

AlignUp(n) == ((n + Align - 1) \div Align) * Align

\* Offset of the i-th region; one past the last region is total_bytes.
ComputeWeightsLayout(has_lm_head) ==
  LET regions == Regions(has_lm_head)
      place[i \in 1 .. Len(regions) + 1] ==
        IF i = 1 THEN 0 ELSE AlignUp(place[i - 1] + regions[i - 1][3])
  IN place

TotalElements(has_lm_head) ==
  ComputeWeightsLayout(has_lm_head)[Len(Regions(has_lm_head)) + 1]

\* Without a tensor of its own, lm_head is the embedding table.
OffsetFor(kind, layer, has_lm_head) ==
  LET wanted == IF kind = "lm_head" /\ ~has_lm_head THEN "embed" ELSE kind
      index  == CHOOSE i \in DOMAIN Regions(has_lm_head) :
                  LET r == Regions(has_lm_head)[i] IN r[1] = wanted /\ r[2] = layer
  IN ComputeWeightsLayout(has_lm_head)[index]

\* Where the payload of an entry starts (EntryByteOffset, in elements).
EntryOffset(e, has_lm_head) ==
  OffsetFor(e.dest, e.layer, has_lm_head) + e.row * DestRowWidth(e.dest)
===============================================================================
