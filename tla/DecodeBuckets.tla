---------------------------- MODULE DecodeBuckets -----------------------------
(***************************************************************************)
(* The ladder of decode batch shapes: MakeDecodeBuckets and SelectBucket   *)
(* of core/scheduler.cpp, and the eager row count FillDecodeMirrors uses.  *)
(***************************************************************************)
EXTENDS Integers, SequencesExt, FiniteSetsExt

kLadder == <<1, 2, 4, 8, 16, 32, 48, 64>>

\* The buckets up to max_batch: the ladder ascends, so they are a prefix of it.
MakeDecodeBuckets(max_batch) ==
  Restrict(kLadder, {i \in DOMAIN kLadder : kLadder[i] <= max_batch})

\* The first bucket of the ascending list that fits, -1 when none does.
SelectBucket(batch_size, buckets) ==
  LET fits == {i \in DOMAIN buckets : buckets[i] >= batch_size} IN
  IF batch_size <= 0 \/ fits = {} THEN -1 ELSE buckets[Min(fits)]

\* The rows of an eager step of `live` sequences; pad = 0 is "no padding".
PaddedRows(live, pad, buckets) ==
  IF pad = 0 \/ buckets = <<>> THEN live
  ELSE LET want   == Max({live, Min({pad, Last(buckets)})})
           bucket == SelectBucket(want, buckets)
       IN IF bucket > 0 THEN bucket ELSE live
===============================================================================
