------------------------------ MODULE MCLoading -------------------------------
(***************************************************************************)
(* The three parts of the loader side by side: the reader opens a model    *)
(* directory, the conversion takes one element, the upload streams one     *)
(* checkpoint.  They share no state, so a behaviour exercises one `unit`   *)
(* and the other two rest.                                                 *)
(***************************************************************************)
EXTENDS Safetensors, Convert, WeightLoad

VARIABLE unit

Tensor(name, dtype, shape, begin, end) ==
  [name |-> name, dtype |-> dtype, shape |-> shape, begin |-> begin, end |-> end]
File(size, header_size, json, entries) ==
  [size |-> size, header_size |-> header_size, json |-> json, entries |-> entries]
Single(f) == [files |-> [n \in {SingleFile} |-> f], has_index |-> "no", index |-> <<>>]

\* One file: dimensions around the limits 7 and 15, and broken headers.
Shapes == SeqOf({0, 1, 2, 4, 7, 8, 15}, 3)
Headers == {Single(File(18, 2, TRUE, <<Tensor("a", d, s, b, e)>>)) :
              d \in {"U8", "BF16", "I64", "BOOL"}, s \in Shapes, b \in {0, 1}, e \in {0, 1, 2, 8, 9}}
Broken == {Single(File(size, h, j, <<Tensor(metadata, "", <<>>, 0, 0), Tensor("a", "U8", <<2>>, 0, 2),
                                     Tensor(n, "U8", <<2>>, 2, 4)>>)) :
             size \in {7, 8, 12, 16}, h \in {0, 4, 15}, j \in BOOLEAN, n \in {"a", "b"}}

\* Two shards with some of two tensors each, and an index over them.
Shard(tensors) == File(12, 0, TRUE, [i \in DOMAIN tensors |-> Tensor(tensors[i], "BF16", <<2>>, 0, 4)])
Sharded == {[files |-> fs, has_index |-> b, index |-> ix] :
              fs \in UNION {[ns -> {Shard(<<>>), Shard(<<"a">>), Shard(<<"b">>), Shard(<<"a", "b">>)}] :
                              ns \in {{1}, {1, 2}, {1, 2, 3}}},
              b \in {"yes", "no", "malformed"}, ix \in UNION {[ts -> {1, 2, 3}] : ts \in {{}, {"a"}, {"a", "b"}}}}

MCDirectories == Headers \cup Broken \cup Sharded

\* Every BF16 value, and binary32 values around the ties: mantissas at every
\* spacing, in the binades FP16 covers.
AllBf16 == 0 .. 32767
TieMantissas == UNION {{(Pow2(s) + d) % Pow2(23), (3 * Pow2(s) + d) % Pow2(23), (Pow2(23) - Pow2(s) + d) % Pow2(23)}
                         : s \in 0 .. 23, d \in {-1, 0, 1}}
AroundTies == {e * Pow2(23) + m : e \in 100 .. 143, m \in TieMantissas \cap Nat}

\* Sound checkpoints, and one defect at a time, at the start, the middle and the
\* end of tensors of several chunks.
Ckpt(lm_head, tied, defect, at) == [lm_head |-> lm_head, tied |-> tied, defect |-> defect, at |-> at]
SoundCheckpoints == {Ckpt(b, TRUE, "none", NoElement) : b \in BOOLEAN}
OverflowSpots == {<<"embed_tokens", NoLayer, 0>>, <<"embed_tokens", NoLayer, 5>>,
                  <<"k_proj.weight", 1, 1>>, <<"up_proj", 1, 5>>, <<"norm", NoLayer, 1>>}
MCCheckpoints ==
  SoundCheckpoints
    \cup {Ckpt(b, TRUE, "overflow", at) : b \in BOOLEAN, at \in OverflowSpots}
    \cup {Ckpt(FALSE, TRUE, d, <<"v_proj.bias", 1, 0>>) : d \in {"missing", "shape", "dtype"}}
    \cup {Ckpt(FALSE, FALSE, "missing", <<"lm_head", NoLayer, 0>>)}

-----------------------------------------------------------------------------
\* A part at rest: a closed reader, a finished upload, no element to convert.
ReaderRests ==
  /\ dir = Single(File(7, 0, TRUE, <<>>)) /\ phase = "closed"
  /\ pending = <<>> /\ shards = <<>> /\ merged = <<>> /\ mapped = {}
ConvertRests == input = [kind |-> "fp32", abs |-> 0] /\ output = -1
LoadRests ==
  /\ checkpoint = Ckpt(TRUE, TRUE, "none", NoElement)
  /\ stage = "end" /\ entry = 1 /\ offset = 0 /\ next_slot = 0
  /\ slot_pending = [s \in 0 .. 1 |-> FALSE] /\ staging = <<"freed">> /\ stream = <<>>
  /\ slab = NoSlab /\ error = NoElement /\ faults = 0

LoadingInit ==
  \/ unit = "reader" /\ ReaderInit /\ ConvertRests /\ LoadRests
  \/ unit = "convert" /\ ConvertInit /\ ReaderRests /\ LoadRests
  \/ unit = "upload" /\ LoadInit /\ ReaderRests /\ ConvertRests

LoadingNext ==
  \/ unit = "reader" /\ ReaderNext /\ UNCHANGED <<convertVars, loadVars, unit>>
  \/ unit = "convert" /\ ConvertNext /\ UNCHANGED <<readerVars, loadVars, unit>>
  \/ unit = "upload" /\ LoadNext /\ UNCHANGED <<readerVars, convertVars, unit>>

LoadingSpec == LoadingInit /\ [][LoadingNext]_<<readerVars, convertVars, loadVars, unit>>
===============================================================================
