---------------------------- MODULE DecodeDispatch ----------------------------
(***************************************************************************)
(* Which captured shape, or eager row count, a decode batch runs at: the   *)
(* dispatch of Engine::Step over the ladder of DecodeBuckets.              *)
(***************************************************************************)
EXTENDS Scheduler, DecodeBuckets

CONSTANTS
  Graphs,                     \* has_decode_graphs(): captured, and not degraded to eager
  PadEagerToBucket            \* options_.pad_eager_to_bucket, 0 = off

ASSUME DispatchAssumption == Graphs \in BOOLEAN /\ PadEagerToBucket \in Nat

-----------------------------------------------------------------------------
decode_buckets == MakeDecodeBuckets(MaxBatch)

\* The rows FillDecodeMirrors sizes an eager step of `live` sequences at.
EagerRows(live) == PaddedRows(live, PadEagerToBucket, decode_buckets)

BucketForRows(rows) == IF rows \in Range(decode_buckets) THEN rows ELSE -1

\* Engine::Step's dispatch: replay the covering bucket's graph if there is one.
ReplaysGraph(live) == SelectBucket(live, decode_buckets) >= 0 /\ Graphs

ExecutedBucket(live) ==
  IF ReplaysGraph(live) THEN SelectBucket(live, decode_buckets)
  ELSE BucketForRows(EagerRows(live))
===============================================================================
