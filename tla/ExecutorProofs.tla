----------------------------- MODULE ExecutorProofs -----------------------------
(***************************************************************************)
(* The KV cache and the sampled tokens are right for every pool, batch,    *)
(* bucket ladder and chunk size: ExecInv is inductive relative to SchedInv *)
(* and PlanInv, which the executor's steps preserve because each of them   *)
(* is a step of the scheduler or leaves the scheduler alone.               *)
(***************************************************************************)
EXTENDS Executor, SchedulerProofs, SequenceTheorems

-----------------------------------------------------------------------------
(***************************************************************************)
(* Rows: every bucket is at most MaxBatch, so a step's rows fit.           *)
(***************************************************************************)
LEMMA Ladder ==
  ASSUME NEW m \in Nat
  PROVE  \E n \in 0 .. 8 : /\ DOMAIN MakeDecodeBuckets(m) = 1 .. n
                           /\ MakeDecodeBuckets(m) \in Seq(1 .. m)
<1> DEFINE D == {i \in 1 .. 8 : kLadder[i] <= m}
<1>1. /\ kLadder[1] = 1 /\ kLadder[2] = 2 /\ kLadder[3] = 4 /\ kLadder[4] = 8
      /\ kLadder[5] = 16 /\ kLadder[6] = 32 /\ kLadder[7] = 48 /\ kLadder[8] = 64
      /\ DOMAIN kLadder = 1 .. 8
  BY DEF kLadder
<1>2. \A i \in 1 .. 8 : \A j \in 1 .. i : kLadder[j] <= kLadder[i] /\ kLadder[i] \in Nat \ {0}
  BY <1>1
<1>3. PICK n \in 0 .. 8 : D = 1 .. n
  <2>1. CASE m < 1   <3>1. D = 1 .. 0 BY <2>1, <1>1 <3> QED BY <3>1
  <2>2. CASE m >= 1 /\ m < 2   <3>1. D = 1 .. 1 BY <2>2, <1>1 <3> QED BY <3>1
  <2>3. CASE m >= 2 /\ m < 4   <3>1. D = 1 .. 2 BY <2>3, <1>1 <3> QED BY <3>1
  <2>4. CASE m >= 4 /\ m < 8   <3>1. D = 1 .. 3 BY <2>4, <1>1 <3> QED BY <3>1
  <2>5. CASE m >= 8 /\ m < 16  <3>1. D = 1 .. 4 BY <2>5, <1>1 <3> QED BY <3>1
  <2>6. CASE m >= 16 /\ m < 32 <3>1. D = 1 .. 5 BY <2>6, <1>1 <3> QED BY <3>1
  <2>7. CASE m >= 32 /\ m < 48 <3>1. D = 1 .. 6 BY <2>7, <1>1 <3> QED BY <3>1
  <2>8. CASE m >= 48 /\ m < 64 <3>1. D = 1 .. 7 BY <2>8, <1>1 <3> QED BY <3>1
  <2>9. CASE m >= 64           <3>1. D = 1 .. 8 BY <2>9, <1>1 <3> QED BY <3>1
  <2> HIDE DEF D
  <2> QED BY <2>1, <2>2, <2>3, <2>4, <2>5, <2>6, <2>7, <2>8, <2>9
<1>4. MakeDecodeBuckets(m) = [i \in D |-> kLadder[i]]
  BY <1>1 DEF MakeDecodeBuckets, Restrict
<1>5. \A i \in D : kLadder[i] \in 1 .. m
  BY <1>2
<1> HIDE DEF D
<1>6. MakeDecodeBuckets(m) \in [1 .. n -> 1 .. m]
  BY <1>3, <1>4, <1>5
<1>7. DOMAIN MakeDecodeBuckets(m) = 1 .. n /\ MakeDecodeBuckets(m) \in Seq(1 .. m)
  BY <1>6
<1> QED BY <1>7

\* The smallest index of a nonempty set of ladder positions.
LEMMA MinIndex ==
  ASSUME NEW S, S \subseteq 1 .. 8, S # {}
  PROVE  Min(S) \in S
<1>1. \E x \in S : \A y \in S : x <= y
  <2>1. CASE 1 \in S BY <2>1
  <2>2. CASE 1 \notin S /\ 2 \in S BY <2>2
  <2>3. CASE 1 \notin S /\ 2 \notin S /\ 3 \in S BY <2>3
  <2>4. CASE S \subseteq 4 .. 8 /\ 4 \in S BY <2>4
  <2>5. CASE S \subseteq 5 .. 8 /\ 5 \in S BY <2>5
  <2>6. CASE S \subseteq 6 .. 8 /\ 6 \in S BY <2>6
  <2>7. CASE S \subseteq 7 .. 8 /\ 7 \in S BY <2>7
  <2>8. CASE S \subseteq {8} <3>1. S = {8} BY <2>8 <3> QED BY <3>1
  <2> QED BY <2>1, <2>2, <2>3, <2>4, <2>5, <2>6, <2>7, <2>8
<1> QED BY <1>1 DEF Min

LEMMA BucketBounds ==
  ASSUME NEW m \in Nat, NEW want \in Int
  PROVE  LET b == SelectBucket(want, MakeDecodeBuckets(m)) IN
         b = -1 \/ (b \in 1 .. m /\ b >= want)
<1> DEFINE buckets == MakeDecodeBuckets(m)
           fits == {i \in DOMAIN buckets : buckets[i] >= want}
<1>1. PICK n \in 0 .. 8 : DOMAIN buckets = 1 .. n /\ buckets \in Seq(1 .. m)
  BY Ladder
<1>2. fits \subseteq 1 .. 8
  <2>1. 1 .. n \subseteq 1 .. 8 OBVIOUS
  <2> QED BY <1>1, <2>1
<1>3. fits # {} => Min(fits) \in fits
  BY <1>2, MinIndex
<1>4. SelectBucket(want, buckets) = IF want <= 0 \/ fits = {} THEN -1 ELSE buckets[Min(fits)]
  BY DEF SelectBucket
<1>5. \A i \in fits : buckets[i] \in 1 .. m /\ buckets[i] >= want
  BY <1>1
<1> HIDE DEF buckets, fits
<1>6. \/ SelectBucket(want, buckets) = -1
      \/ SelectBucket(want, buckets) \in 1 .. m /\ SelectBucket(want, buckets) >= want
  BY <1>3, <1>4, <1>5
<1> QED BY <1>6 DEF buckets

LEMMA MaxOfTwo ==
  ASSUME NEW a \in Int, NEW b \in Int
  PROVE  /\ Max({a, b}) \in Int /\ Max({a, b}) >= a /\ Max({a, b}) >= b
         /\ Min({a, b}) \in Int
<1>1. \E x \in {a, b} : \A y \in {a, b} : x >= y
  OBVIOUS
<1>2. \E x \in {a, b} : \A y \in {a, b} : x <= y
  OBVIOUS
<1> QED BY <1>1, <1>2 DEF Max, Min

\* A decode step has a row for every sequence and never more than MaxBatch.
LEMMA DecodeRowsFit ==
  ASSUME NEW live \in 1 .. MaxBatch
  PROVE  DecodeRows(live) \in live .. MaxBatch
<1>1. MaxBatch \in Nat /\ PadEagerToBucket \in Nat
  BY SchedulerAssumption, DispatchAssumption
<1>2. SelectBucket(live, decode_buckets) = -1 \/ SelectBucket(live, decode_buckets) \in live .. MaxBatch
  BY <1>1, BucketBounds DEF decode_buckets
<1>3. CASE ReplaysGraph(live)
  BY <1>1, <1>2, <1>3 DEF DecodeRows, ReplaysGraph, ExecutedBucket
<1>4. CASE ~ReplaysGraph(live)
  <2>1. DecodeRows(live) = PaddedRows(live, PadEagerToBucket, decode_buckets)
    BY <1>4 DEF DecodeRows, EagerRows
  <2>2. CASE PadEagerToBucket = 0 \/ decode_buckets = <<>>
    BY <1>1, <2>1, <2>2 DEF PaddedRows
  <2>3. CASE ~(PadEagerToBucket = 0 \/ decode_buckets = <<>>)
    <3> DEFINE want == Max({live, Min({PadEagerToBucket, Last(decode_buckets)})})
               bucket == SelectBucket(want, decode_buckets)
    <3>1. decode_buckets \in Seq(1 .. MaxBatch)
      BY <1>1, Ladder DEF decode_buckets
    <3>2. Last(decode_buckets) \in Int
      <4>1. Len(decode_buckets) \in 1 .. Len(decode_buckets)
        BY <3>1, <2>3
      <4> QED BY <3>1, <4>1, <1>1 DEF Last
    <3>3. want \in Int /\ want >= live
      BY <3>2, <1>1, MaxOfTwo
    <3>4. bucket = -1 \/ (bucket \in 1 .. MaxBatch /\ bucket >= want)
      <4> HIDE DEF want
      <4> QED BY <1>1, <3>3, BucketBounds DEF decode_buckets
    <3>5. DecodeRows(live) = IF bucket > 0 THEN bucket ELSE live
      BY <2>1, <2>3 DEF PaddedRows
    <3> HIDE DEF bucket, want
    <3> QED BY <1>1, <3>3, <3>4, <3>5
  <2> QED BY <2>2, <2>3
<1> QED BY <1>3, <1>4

-----------------------------------------------------------------------------
(***************************************************************************)
(* Places in the pool: a position of a sequence has one, and it is nobody  *)
(* else's.                                                                 *)
(***************************************************************************)

\* r's table has the block position p is in.
Holds(r, p) == p \in Nat /\ (p \div KvBlockSize) + 1 \in 1 .. Len(block_table[r])

LEMMA PositionParts ==
  ASSUME NEW p \in Nat
  PROVE  /\ p \div KvBlockSize \in Nat
         /\ OffsetOf(p) \in Nat /\ OffsetOf(p) \in 0 .. KvBlockSize - 1
         /\ p = (p \div KvBlockSize) * KvBlockSize + OffsetOf(p)
<1>1. KvBlockSize \in Nat \ {0}
  BY SchedulerAssumption
<1> QED BY <1>1 DEF OffsetOf

LEMMA HeldBelow ==
  ASSUME SchedInv, NEW r \in Ids, NEW n \in Nat, Len(block_table[r]) >= BlocksForTokens(n)
  PROVE  \A p \in 0 .. n - 1 : Holds(r, p)
<1> SUFFICES ASSUME NEW p \in 0 .. n - 1 PROVE Holds(r, p)
  OBVIOUS
<1> DEFINE d == p \div KvBlockSize
<1>1. p \in Nat /\ p < n
  OBVIOUS
<1>2. KvBlockSize \in Nat
  BY SchedulerAssumption
<1>3. d \in Nat /\ OffsetOf(p) \in Nat /\ p = d * KvBlockSize + OffsetOf(p)
  BY <1>1, <1>2, PositionParts
<1>4. Len(block_table[r]) \in Nat /\ BlocksForTokens(n) \in Nat
  BY Quantities, BlocksBounds
<1> HIDE DEF d
<1>5. d * KvBlockSize \in Nat
  BY <1>2, <1>3
<1>6. d * KvBlockSize < n
  BY <1>1, <1>3, <1>5
<1>7. d < BlocksForTokens(n)
  BY <1>3, <1>6, CapacityShort
<1>8. d + 1 \in 1 .. Len(block_table[r])
  BY <1>3, <1>4, <1>7
<1> QED BY <1>1, <1>8 DEF Holds, d

LEMMA SameLocation ==
  ASSUME SchedInv, NEW r \in Ids, NEW s \in Ids, NEW p, NEW q, Holds(r, p), Holds(s, q),
         BlockOf(block_table[r], p) = BlockOf(block_table[s], q), OffsetOf(p) = OffsetOf(q)
  PROVE  r = s /\ p = q
<1> DEFINE i == (p \div KvBlockSize) + 1
           j == (q \div KvBlockSize) + 1
<1>1. /\ block_table[r] \in Seq(PoolBlocks) /\ block_table[s] \in Seq(PoolBlocks)
      /\ IsInjective(block_table[r])
      /\ r # s => Range(block_table[r]) \intersect Range(block_table[s]) = {}
  BY DEF SchedInv, SchedTypeOK, BlockOwnership
<1>2. i \in 1 .. Len(block_table[r]) /\ j \in 1 .. Len(block_table[s])
  BY DEF Holds
<1>3. block_table[r][i] = block_table[s][j]
  BY DEF BlockOf
<1> HIDE DEF i, j
<1>4. r = s
  BY <1>1, <1>2, <1>3 DEF Range
<1>5. i = j
  BY <1>1, <1>2, <1>3, <1>4 DEF IsInjective
<1>6. /\ p \in Nat /\ p \div KvBlockSize \in Nat /\ p = (p \div KvBlockSize) * KvBlockSize + OffsetOf(p)
      /\ q \in Nat /\ q \div KvBlockSize \in Nat /\ q = (q \div KvBlockSize) * KvBlockSize + OffsetOf(q)
  BY PositionParts DEF Holds
<1>7. p \div KvBlockSize = q \div KvBlockSize
  BY <1>5, <1>6 DEF i, j
<1>8. p = q
  BY <1>6, <1>7
<1> QED BY <1>4, <1>8

\* A device row shows the same place as the table, and it is not the dummy block.
LEMMA RowBlock ==
  ASSUME SchedInv, PlanInv, NEW r \in Ids, NEW p, Holds(r, p)
  PROVE  /\ BlockOf(TableRow(r), p) = BlockOf(block_table[r], p)
         /\ BlockOf(block_table[r], p) \in PoolBlocks
         /\ OffsetOf(p) \in 0 .. KvBlockSize - 1
<1> DEFINE i == (p \div KvBlockSize) + 1
<1>1. i \in 1 .. Len(block_table[r]) /\ Len(block_table[r]) \in Nat
  BY Quantities DEF Holds
<1>2. Len(block_table[r]) <= max_blocks_per_seq /\ max_blocks_per_seq \in Nat
  BY TableBounded, BlocksBounds, SchedulerAssumption DEF max_blocks_per_seq
<1>3. block_table[r] \in Seq(PoolBlocks)
  BY DEF SchedInv, SchedTypeOK
<1> HIDE DEF i
<1>4. i \in 1 .. max_blocks_per_seq /\ i <= Len(block_table[r])
  BY <1>1, <1>2
<1>5. TableRow(r)[i] = block_table[r][i]
  BY <1>4 DEF TableRow
<1>6. block_table[r][i] \in PoolBlocks
  BY <1>1, <1>3
<1> QED BY <1>5, <1>6, PositionParts DEF i, BlockOf, Holds

\* What an earlier step has written lies inside the table.
LEMMA WrittenHeld ==
  ASSUME SchedInv, PlanInv, NEW r \in Admitted, NEW p \in Written(r)
  PROVE  r \in Ids /\ Holds(r, p)
<1>1. r \in Ids /\ state[r] \in {"prefill", "running"}
  BY DEF Admitted
<1>2. seq_len(r) \in Nat \ {0} /\ prefill_progress[r] \in Nat /\ TableFits(r)
  BY <1>1, Quantities DEF PlanInv
<1>3. CASE state[r] = "running"
  <2>1. seq_len(r) - 1 \in Nat
    BY <1>2
  <2>2. p \in 0 .. (seq_len(r) - 1) - 1
    BY <1>2, <1>3 DEF Written
  <2>3. Len(block_table[r]) >= BlocksForTokens(seq_len(r) - 1)
    BY <1>2, <1>3 DEF TableFits
  <2> QED BY <1>1, <2>1, <2>2, <2>3, HeldBelow
<1>4. CASE state[r] = "prefill"
  <2>1. p \in 0 .. prefill_progress[r] - 1
    BY <1>4 DEF Written
  <2>2. Len(block_table[r]) >= BlocksForTokens(prefill_progress[r])
    BY <1>2, <1>4 DEF TableFits
  <2> QED BY <1>1, <1>2, <2>1, <2>2, HeldBelow
<1> QED BY <1>1, <1>3, <1>4

-----------------------------------------------------------------------------
(***************************************************************************)
(* What the scheduler promises of the plan the executor is called with.    *)
(***************************************************************************)
LEMMA PlannedPrefill ==
  ASSUME SchedInv, PlanInv, pc = "planned", is_prefill
  PROVE  /\ plan.prefill \in Ids /\ state[plan.prefill] = "prefill"
         /\ plan.begin = prefill_progress[plan.prefill]
         /\ plan.begin \in Nat /\ plan.end \in Nat /\ plan.begin < plan.end
         /\ StepRows = plan.end - plan.begin /\ StepRows \in 1 .. PrefillChunk
         /\ \A p \in 0 .. plan.end - 1 : Holds(plan.prefill, p)
<1>1. /\ state[plan.prefill] = "prefill" /\ plan.begin = prefill_progress[plan.prefill]
      /\ plan.begin < plan.end /\ plan.end - plan.begin <= PrefillChunk
      /\ Len(block_table[plan.prefill]) >= BlocksForTokens(plan.end)
  BY AcceptedPlan DEF ExecutorAccepts
<1>2. plan.prefill \in Ids /\ plan.begin \in Nat /\ plan.end \in Nat
  BY InvSplit DEF StepType, is_prefill
<1>3. PrefillChunk \in Nat
  BY SchedulerAssumption
<1>4. StepRows = plan.end - plan.begin
  BY DEF StepRows
<1>5. StepRows \in 1 .. PrefillChunk
  BY <1>1, <1>2, <1>3, <1>4
<1>6. \A p \in 0 .. plan.end - 1 : Holds(plan.prefill, p)
  BY <1>1, <1>2, HeldBelow
<1> QED BY <1>1, <1>2, <1>4, <1>5, <1>6

LEMMA PlannedDecode ==
  ASSUME SchedInv, PlanInv, pc = "planned", ~is_prefill, plan.decode # <<>>
  PROVE  /\ plan.decode \in Seq(Ids) /\ Len(plan.decode) \in 1 .. MaxBatch
         /\ StepRows \in Len(plan.decode) .. MaxBatch
         /\ \A k \in 1 .. Len(plan.decode) :
              /\ plan.decode[k] \in Ids /\ state[plan.decode[k]] = "running"
              /\ seq_len(plan.decode[k]) \in Nat \ {0}
              /\ \A p \in 0 .. seq_len(plan.decode[k]) - 1 : Holds(plan.decode[k], p)
         /\ \A j, k \in 1 .. Len(plan.decode) : plan.decode[j] = plan.decode[k] => j = k
<1>1. plan.decode \in Seq(Ids)
  BY InvSplit DEF StepType
<1>2. /\ Len(plan.decode) <= MaxBatch /\ IsInjective(plan.decode)
      /\ \A r \in Range(plan.decode) :
           state[r] = "running" /\ Len(block_table[r]) >= BlocksForTokens(seq_len(r))
  BY AcceptedPlan DEF ExecutorAccepts
<1>3. MaxBatch \in Nat
  BY SchedulerAssumption
<1>4. Len(plan.decode) \in 1 .. MaxBatch
  BY <1>1, <1>2, <1>3
<1>5. StepRows \in Len(plan.decode) .. MaxBatch
  BY <1>4, DecodeRowsFit DEF StepRows
<1>6. ASSUME NEW k \in 1 .. Len(plan.decode)
      PROVE  /\ plan.decode[k] \in Ids /\ state[plan.decode[k]] = "running"
             /\ seq_len(plan.decode[k]) \in Nat \ {0}
             /\ \A p \in 0 .. seq_len(plan.decode[k]) - 1 : Holds(plan.decode[k], p)
  <2>1. PICK r \in Ids : r = plan.decode[k]
    BY <1>1
  <2>2. state[r] = "running" /\ Len(block_table[r]) >= BlocksForTokens(seq_len(r))
    BY <1>1, <1>2, <2>1 DEF Range
  <2>3. seq_len(r) \in Nat \ {0}
    BY <2>2, Quantities
  <2>4. \A p \in 0 .. seq_len(r) - 1 : Holds(r, p)
    BY <2>2, <2>3, HeldBelow
  <2> QED BY <2>1, <2>2, <2>3, <2>4
<1>7. \A j, k \in 1 .. Len(plan.decode) : plan.decode[j] = plan.decode[k] => j = k
  BY <1>1, <1>2 DEF IsInjective
<1> QED BY <1>1, <1>4, <1>5, <1>6, <1>7

-----------------------------------------------------------------------------
(***************************************************************************)
(* The scheduler's steps leave the pool alone; what they do to tables and  *)
(* requests leaves every context where it is.                              *)
(***************************************************************************)

\* r's progress is as it was, and its table as it was or longer.
Kept(r) ==
  /\ state'[r] = state[r] /\ param'[r] = param[r]
  /\ output_tokens'[r] = output_tokens[r] /\ prefill_progress'[r] = prefill_progress[r]
  /\ \A i \in 1 .. Len(block_table[r]) : block_table'[r][i] = block_table[r][i]

LEMMA CachedFrame ==
  ASSUME NEW r \in Ids, NEW p, Holds(r, p), Cached(r, p), kv_pool' = kv_pool,
         \A i \in 1 .. Len(block_table[r]) : block_table'[r][i] = block_table[r][i]
  PROVE  Cached(r, p)'
<1>1. block_table'[r][(p \div KvBlockSize) + 1] = block_table[r][(p \div KvBlockSize) + 1]
  BY DEF Holds
<1> QED BY <1>1 DEF Cached, BlockOf, OffsetOf

LEMMA WrittenFrame ==
  ASSUME NEW r \in Ids, Kept(r)
  PROVE  Written(r)' = Written(r)
BY DEF Kept, Written, seq_len, num_prompt_tokens

LEMMA ContextFrame ==
  ASSUME SchedInv, PlanInv, ContextIntact, kv_pool' = kv_pool,
         \A r \in Admitted' : Kept(r) \/ Written(r)' = {}
  PROVE  ContextIntact'
<1> SUFFICES ASSUME NEW r \in Admitted', NEW p \in Written(r)' PROVE Cached(r, p)'
  BY DEF ContextIntact
<1>1. r \in Ids /\ state'[r] \in {"prefill", "running"} /\ Kept(r)
  BY DEF Admitted
<1>2. r \in Admitted /\ p \in Written(r)
  BY <1>1, WrittenFrame DEF Admitted, Kept
<1>3. Holds(r, p) /\ Cached(r, p)
  BY <1>2, WrittenHeld DEF ContextIntact
<1> QED BY <1>1, <1>3, CachedFrame DEF Kept

LEMMA ContextQuiet ==
  ASSUME SchedInv, PlanInv, ContextIntact, kv_pool' = kv_pool, UNCHANGED requestVars
  PROVE  ContextIntact'
<1>1. \A r \in Ids : Kept(r)
  BY DEF requestVars, Kept
<1> QED BY <1>1, ContextFrame DEF Admitted

\* A table grows at its end.
LEMMA KeptAppend ==
  ASSUME SchedInv, NEW c \in Ids, NEW b,
         block_table' = [block_table EXCEPT ![c] = Append(@, b)],
         UNCHANGED <<param, state, output_tokens, prefill_progress>>
  PROVE  \A r \in Ids : Kept(r)
<1> SUFFICES ASSUME NEW r \in Ids PROVE Kept(r)
  OBVIOUS
<1>1. block_table \in [Ids -> Seq(PoolBlocks)]
  BY DEF SchedInv, SchedTypeOK
<1>2. \A i \in 1 .. Len(block_table[r]) : block_table'[r][i] = block_table[r][i]
  <2>1. CASE r = c
    <3>1. block_table[r] \in Seq(PoolBlocks)
      BY <1>1
    <3>2. block_table'[r] = Append(block_table[r], b)
      BY <1>1, <2>1
    <3> QED BY <3>1, <3>2
  <2>2. CASE r # c
    BY <1>1, <2>2
  <2> QED BY <2>1, <2>2
<1> QED BY <1>2 DEF Kept

LEMMA ContextAddRequest ==
  ASSUME SchedInv, PlanInv, ContextIntact, kv_pool' = kv_pool, NEW q \in Workload, AddRequest(q)
  PROVE  ContextIntact'
<1>1. param \in [Ids -> RequestParams] /\ state \in [Ids -> States]
  BY InvSplit DEF Core, CoreType
<1>2. ASSUME NEW r \in Admitted' PROVE Kept(r)
  <2>1. r \in Ids /\ state'[r] \in {"prefill", "running"}
    BY DEF Admitted
  <2>2. r # next_request_id
    BY <1>1, <2>1 DEF AddRequest, Enqueue
  <2> QED BY <1>1, <2>1, <2>2 DEF AddRequest, Enqueue, Kept
<1> QED BY <1>2, ContextFrame

LEMMA ContextAdmit ==
  ASSUME SchedInv, PlanInv, ContextIntact, kv_pool' = kv_pool, Admit
  PROVE  ContextIntact'
<1>1. Core
  BY InvSplit
<1>2. state \in [Ids -> States] /\ waiting \in Seq(Ids) /\ waiting # <<>>
  BY <1>1 DEF Core, CoreType, Admit, CanAdmitHead
<1>3. PICK h \in Ids : h = Head(waiting) /\ state[h] = "waiting"
  <2>1. Head(waiting) \in Ids /\ Head(waiting) \in Range(waiting)
    BY <1>2 DEF Range
  <2> QED BY <1>1, <2>1 DEF Core, AdmissionOrder
<1>4. prefill_progress'[h] = 0 /\ state'[h] = "prefill"
  BY <1>1, <1>2, <1>3 DEF Core, ProgressMatchesState, Admit
<1>5. Written(h)' = {}
  BY <1>4 DEF Written
<1>6. \A r \in Ids \ {h} : Kept(r)
  BY <1>2, <1>3 DEF Admit, Kept
<1> QED BY <1>5, <1>6, ContextFrame DEF Admitted

\* A request that leaves takes only its own table with it.
LEMMA ContextLeaves ==
  ASSUME SchedInv, PlanInv, ContextIntact, kv_pool' = kv_pool, NEW c \in Ids,
         state' = [state EXCEPT ![c] = "finished"], ReleaseTable(c),
         \A r \in Ids \ {c} : /\ param'[r] = param[r] /\ output_tokens'[r] = output_tokens[r]
                              /\ prefill_progress'[r] = prefill_progress[r]
  PROVE  ContextIntact'
<1>1. state \in [Ids -> States] /\ block_table \in [Ids -> Seq(PoolBlocks)]
  BY InvSplit DEF Core, CoreType, Resources
<1>2. c \notin Admitted'
  BY <1>1 DEF Admitted
<1>3. \A r \in Ids \ {c} : Kept(r)
  BY <1>1 DEF ReleaseTable, Kept
<1> QED BY <1>2, <1>3, ContextFrame DEF Admitted

LEMMA ContextPlanStep ==
  ASSUME SchedInv, PlanInv, ContextIntact, kv_pool' = kv_pool, PlanStep
  PROVE  ContextIntact'
<1>1. CASE Admit
  BY <1>1, ContextAdmit
<1>2. CASE PlanPrefill \/ PrefillPlanned \/ PlanDecode \/ DecodeRow \/ DecodePlanned
  BY <1>2, ContextQuiet DEF PlanPrefill, PrefillPlanned, PlanDecode, DecodeRow, DecodePlanned
<1>3. CASE MaterializePrefillBlock
  <2>1. plan.prefill \in Ids
    BY <1>3, PrefillReserved DEF MaterializePrefillBlock
  <2>2. \A r \in Ids : Kept(r)
    BY <1>3, <2>1, KeptAppend DEF MaterializePrefillBlock, TakeReservedBlock
  <2> QED BY <2>2, ContextFrame DEF Admitted
<1>4. CASE DecodeRowReserved
  <2>1. Candidate \in Ids
    BY <1>4, CandidateRuns DEF DecodeRowReserved
  <2>2. \A r \in Ids : Kept(r)
    BY <1>4, <2>1, KeptAppend DEF DecodeRowReserved, TakeReservedBlock
  <2> QED BY <2>2, ContextFrame DEF Admitted
<1>5. CASE DecodeRowClaimed
  <2>1. Candidate \in Ids
    BY <1>5, CandidateRuns DEF DecodeRowClaimed
  <2>2. \A r \in Ids : Kept(r)
    BY <1>5, <2>1, KeptAppend DEF DecodeRowClaimed
  <2> QED BY <2>2, ContextFrame DEF Admitted
<1>6. CASE AbortYoungestRunning
  <2>1. running \in Seq(Ids) /\ running # <<>>
    BY <1>6, CandidateRuns, InvSplit DEF AbortYoungestRunning, Core, CoreType
  <2>2. PICK c \in Ids : c = Victim
    BY <2>1 DEF Victim, Last
  <2> QED BY <1>6, <2>2, ContextLeaves DEF AbortYoungestRunning, ReleaseResources
<1> QED BY <1>1, <1>2, <1>3, <1>4, <1>5, <1>6 DEF PlanStep

-----------------------------------------------------------------------------
(***************************************************************************)
(* CompleteStep moves what the step has scattered into the context.        *)
(***************************************************************************)
LEMMA ContextAdvances ==
  ASSUME SchedInv, PlanInv, ContextIntact, kv_pool' = kv_pool, NEW c \in Admitted, NEW new,
         \A r \in Ids \ {c} : Kept(r),
         block_table'[c] = block_table[c],
         \A p \in Written(c)' : p \in Written(c) \/ p \in new,
         \A p \in new : Cached(c, p)
  PROVE  ContextIntact'
<1> SUFFICES ASSUME NEW r \in Admitted', NEW p \in Written(r)' PROVE Cached(r, p)'
  BY DEF ContextIntact
<1>1. r \in Ids /\ state'[r] \in {"prefill", "running"}
  BY DEF Admitted
<1>2. CASE r = c
  <2>1. Cached(c, p)
    BY <1>2 DEF ContextIntact
  <2> QED BY <1>2, <2>1 DEF Cached, BlockOf, OffsetOf
<1>3. CASE r # c
  <2>1. Kept(r)
    BY <1>1, <1>3
  <2>2. r \in Admitted /\ p \in Written(r)
    BY <1>1, <2>1, WrittenFrame DEF Admitted, Kept
  <2>3. Holds(r, p) /\ Cached(r, p)
    BY <2>2, WrittenHeld DEF ContextIntact
  <2> QED BY <1>1, <2>1, <2>3, CachedFrame DEF Kept
<1> QED BY <1>2, <1>3

LEMMA ContextCompletePrefillChunk ==
  ASSUME SchedInv, PlanInv, ContextIntact, kv_pool' = kv_pool, Scattered(RowsDone + 1),
         CompletePrefillChunk
  PROVE  ContextIntact'
<1>1. pc = "commit" /\ is_prefill
  BY DEF CompletePrefillChunk
<1>2. PICK c \in Ids : c = plan.prefill /\ state[c] = "prefill" /\ plan.end \in Nat
  BY <1>1, CommittedPrefill
<1>3. /\ prefill_progress \in [Ids -> Nat] /\ plan.begin \in Nat
      /\ plan.begin = prefill_progress[c] /\ plan.begin < plan.end
  BY <1>1, <1>2, InvSplit DEF Core, CoreType, StepType, PlanMatchesQueues
<1>4. /\ prefill_progress' = [prefill_progress EXCEPT ![c] = plan.end]
      /\ UNCHANGED <<param, state, output_tokens, block_table>>
  BY <1>2 DEF CompletePrefillChunk
<1>5. \A r \in Ids \ {c} : Kept(r)
  BY <1>3, <1>4 DEF Kept
<1>6. Written(c)' = 0 .. plan.end - 1 /\ Written(c) = 0 .. plan.begin - 1
  BY <1>2, <1>3, <1>4 DEF Written
<1>7. \A p \in Written(c)' : p \in Written(c) \/ p \in plan.begin .. plan.end - 1
  BY <1>2, <1>3, <1>6
<1>8. \A p \in plan.begin .. plan.end - 1 : Cached(c, p)
  BY <1>1, <1>2 DEF Scattered
<1>9. c \in Admitted
  BY <1>2 DEF Admitted
<1>10. block_table'[c] = block_table[c]
  BY <1>4
<1> QED BY <1>5, <1>7, <1>8, <1>9, <1>10, ContextAdvances

LEMMA ContextCompletePrefillFinal ==
  ASSUME SchedInv, PlanInv, ContextIntact, kv_pool' = kv_pool, Scattered(RowsDone + 1),
         NEW sampled \in Tokens, CompletePrefillFinal(sampled)
  PROVE  ContextIntact'
<1>1. pc = "commit" /\ is_prefill
  BY DEF CompletePrefillFinal
<1>2. PICK c \in Ids : c = plan.prefill /\ state[c] = "prefill" /\ plan.end \in Nat
  BY <1>1, CommittedPrefill
<1>3. /\ prefill_progress \in [Ids -> Nat] /\ plan.begin \in Nat
      /\ plan.begin = prefill_progress[c] /\ plan.begin < plan.end
      /\ plan.end <= num_prompt_tokens(c) /\ plan.end >= num_prompt_tokens(c)
      /\ output_tokens[c] = <<>> /\ Core /\ results \in Seq(Result)
      /\ state \in [Ids -> States]
  BY <1>1, <1>2, InvSplit DEF Core, CoreType, StepType, PlanMatchesQueues, ProgressMatchesState,
     CompletePrefillFinal, Result
<1>4. num_prompt_tokens(c) \in Nat
  BY <1>2, Quantities
<1>5. plan.end = num_prompt_tokens(c)
  BY <1>2, <1>3, <1>4
<1>6. /\ prefill_progress' = [prefill_progress EXCEPT ![c] = plan.end]
      /\ ApplySampledToken(c, sampled) /\ UNCHANGED param
  BY <1>2 DEF CompletePrefillFinal
<1>7. /\ output_tokens' \in [Ids -> Seq(Tokens)] /\ Len(output_tokens'[c]) = Len(output_tokens[c]) + 1
      /\ \A s \in Ids \ {c} : output_tokens'[s] = output_tokens[s]
      /\ \/ state' = [state EXCEPT ![c] = "running"] /\ UNCHANGED block_table
         \/ state' = [state EXCEPT ![c] = "finished"] /\ ReleaseTable(c)
  BY <1>2, <1>3, <1>6, SampledToken DEF ReleaseResources
<1>8. \A s \in Ids \ {c} : /\ param'[s] = param[s] /\ output_tokens'[s] = output_tokens[s]
                           /\ prefill_progress'[s] = prefill_progress[s]
  BY <1>3, <1>6, <1>7
<1>9. CASE state' = [state EXCEPT ![c] = "finished"] /\ ReleaseTable(c)
  BY <1>8, <1>9, ContextLeaves
<1>10. CASE state' = [state EXCEPT ![c] = "running"] /\ UNCHANGED block_table
  <2>1. \A r \in Ids \ {c} : Kept(r)
    BY <1>3, <1>8, <1>10 DEF Kept
  <2>2. Len(output_tokens'[c]) = 1
    BY <1>3, <1>7
  <2>3. seq_len(c)' = plan.end + 1
    BY <1>4, <1>5, <1>6, <2>2 DEF seq_len, num_prompt_tokens
  <2>4. state'[c] = "running"
    BY <1>3, <1>10
  <2>5. Written(c)' = 0 .. (plan.end + 1) - 2 /\ Written(c) = 0 .. plan.begin - 1
    BY <1>2, <1>3, <2>3, <2>4 DEF Written
  <2>6. \A p \in Written(c)' : p \in Written(c) \/ p \in plan.begin .. plan.end - 1
    BY <1>2, <1>3, <2>5
  <2>7. \A p \in plan.begin .. plan.end - 1 : Cached(c, p)
    BY <1>1, <1>2 DEF Scattered
  <2>8. c \in Admitted /\ block_table'[c] = block_table[c]
    BY <1>2, <1>10 DEF Admitted
  <2> QED BY <2>1, <2>6, <2>7, <2>8, ContextAdvances
<1> QED BY <1>7, <1>9, <1>10

\* The row committed joins its context; the rows after it keep their place and token.
LEMMA ExecCompleteDecodeRow ==
  ASSUME SchedInv, PlanInv, ContextIntact, UNCHANGED <<kv_pool, h_argmax>>,
         Scattered(RowsDone + 1), TokensIn(h_argmax, RowsDone + 1),
         NEW sampled \in Tokens, CompleteDecodeRow(sampled)
  PROVE  ContextIntact' /\ Scattered(RowsDone + 1)' /\ TokensIn(h_argmax, RowsDone + 1)'
<1>1. /\ pc = "commit" /\ ~is_prefill /\ RowsDone < Len(plan.decode)
      /\ UNCHANGED <<param, prefill_progress, plan>>
  BY DEF CompleteDecodeRow
<1>2. /\ plan.decode \in Seq(Ids) /\ plan.aborted \in Seq(Ids) /\ IsInjective(plan.decode)
      /\ RowsDone \in 0 .. Len(plan.decode) /\ results \in Seq(Result)
      /\ \A k \in RowsDone + 1 .. Len(plan.decode) : state[plan.decode[k]] = "running"
      /\ Core /\ state \in [Ids -> States]
  BY <1>1, InvSplit DEF StepType, PlanMatchesQueues, Result, Core, CoreType
<1>3. Len(plan.decode) \in Nat /\ Len(plan.aborted) \in Nat /\ Len(results) \in Nat
  BY <1>2
<1>4. PICK n \in Nat : /\ n = RowsDone + 1 /\ n \in 1 .. Len(plan.decode)
                       /\ n \in RowsDone + 1 .. Len(plan.decode)
  BY <1>1, <1>2, <1>3
<1>5. PICK c \in Ids : c = plan.decode[n] /\ state[c] = "running"
  BY <1>2, <1>4
<1>6. ApplySampledToken(c, sampled)
  BY <1>4, <1>5 DEF CompleteDecodeRow
<1>7. /\ output_tokens' \in [Ids -> Seq(Tokens)] /\ Len(output_tokens'[c]) = Len(output_tokens[c]) + 1
      /\ \A s \in Ids \ {c} : output_tokens'[s] = output_tokens[s]
      /\ Len(results') = Len(results) + 1
      /\ \/ state' = [state EXCEPT ![c] = "running"] /\ UNCHANGED block_table
         \/ state' = [state EXCEPT ![c] = "finished"] /\ ReleaseTable(c)
  BY <1>2, <1>5, <1>6, SampledToken DEF ReleaseResources
<1>8. block_table \in [Ids -> Seq(PoolBlocks)]
  BY <1>2 DEF Core, Resources
<1>9. \A s \in Ids \ {c} : Kept(s) /\ block_table'[s] = block_table[s]
  BY <1>1, <1>2, <1>7, <1>8 DEF Kept, ReleaseTable
<1>10. (RowsDone + 1)' = n + 1
  BY <1>1, <1>3, <1>4, <1>7 DEF RowsDone
<1>11. ASSUME NEW k \in n + 1 .. Len(plan.decode)
       PROVE  /\ k \in RowsDone + 1 .. Len(plan.decode)
              /\ plan.decode[k] \in Ids \ {c}
              /\ seq_len(plan.decode[k])' = seq_len(plan.decode[k])
  <2>1. k \in 1 .. Len(plan.decode) /\ k \in RowsDone + 1 .. Len(plan.decode) /\ k # n
    BY <1>3, <1>4
  <2>2. plan.decode[k] # plan.decode[n]
    BY <1>2, <1>4, <2>1 DEF IsInjective
  <2>3. PICK s \in Ids \ {c} : s = plan.decode[k]
    BY <1>2, <1>5, <2>1, <2>2
  <2>4. output_tokens'[s] = output_tokens[s] /\ plan' = plan
    BY <1>1, <1>7
  <2> QED BY <1>1, <2>1, <2>3, <2>4 DEF seq_len, num_prompt_tokens
<1>12. Scattered(RowsDone + 1)'
  <2>1. ~is_prefill'
    BY <1>1 DEF is_prefill
  <2>2. ASSUME NEW k \in n + 1 .. Len(plan.decode)
        PROVE  Cached(plan.decode[k], seq_len(plan.decode[k]) - 1)'
    <3>1. Cached(plan.decode[k], seq_len(plan.decode[k]) - 1)
      BY <1>1, <1>11 DEF Scattered
    <3>2. PICK s \in Ids \ {c} : s = plan.decode[k]
      BY <1>11
    <3>3. block_table'[s] = block_table[s] /\ plan' = plan
      BY <1>1, <1>9
    <3>4. seq_len(plan.decode[k])' = seq_len(plan.decode[k])
      BY <1>11
    <3> QED BY <3>1, <3>2, <3>3, <3>4 DEF Cached, BlockOf, OffsetOf
  <2> QED BY <1>1, <1>10, <2>1, <2>2 DEF Scattered
<1>13. TokensIn(h_argmax, RowsDone + 1)'
  <2>1. ~is_prefill'
    BY <1>1 DEF is_prefill
  <2>2. ASSUME NEW k \in n + 1 .. Len(plan.decode)
        PROVE  h_argmax[k]' = <<plan.decode[k]', seq_len(plan.decode[k])'>>
    <3>1. h_argmax[k] = <<plan.decode[k], seq_len(plan.decode[k])>>
      BY <1>1, <1>11 DEF TokensIn
    <3> QED BY <1>1, <1>11, <3>1
  <2> QED BY <1>1, <1>10, <2>1, <2>2 DEF TokensIn
<1>14. ContextIntact'
  <2>1. CASE state' = [state EXCEPT ![c] = "finished"] /\ ReleaseTable(c)
    BY <1>1, <1>7, <2>1, ContextLeaves
  <2>2. CASE state' = [state EXCEPT ![c] = "running"] /\ UNCHANGED block_table
    <3>1. seq_len(c) \in Nat \ {0} /\ Len(output_tokens[c]) \in Nat /\ num_prompt_tokens(c) \in Nat
      BY <1>5, Quantities
    <3>2. seq_len(c)' = seq_len(c) + 1
      BY <1>1, <1>7, <3>1 DEF seq_len, num_prompt_tokens
    <3>3. state'[c] = "running"
      BY <1>2, <2>2
    <3>4. Written(c)' = 0 .. (seq_len(c) + 1) - 2 /\ Written(c) = 0 .. seq_len(c) - 2
      BY <1>5, <3>2, <3>3 DEF Written
    <3>5. PICK new : new = {seq_len(c) - 1}
      OBVIOUS
    <3>6. /\ \A p \in Written(c)' : p \in Written(c) \/ p \in new
          /\ \A p \in new : Cached(c, p)
      <4>1. \A p \in Written(c)' : p \in Written(c) \/ p \in {seq_len(c) - 1}
        BY <3>1, <3>4
      <4>2. \A p \in {seq_len(c) - 1} : Cached(c, p)
        BY <1>1, <1>4, <1>5 DEF Scattered
      <4> QED BY <3>5, <4>1, <4>2
    <3>7. c \in Admitted /\ block_table'[c] = block_table[c] /\ \A r \in Ids \ {c} : Kept(r)
      BY <1>5, <1>9, <2>2 DEF Admitted
    <3>8. kv_pool' = kv_pool
      OBVIOUS
    <3> QED BY <3>6, <3>7, <3>8, ContextAdvances
  <2> QED BY <1>7, <2>1, <2>2
<1> QED BY <1>12, <1>13, <1>14

-----------------------------------------------------------------------------
(***************************************************************************)
(* The scheduler's steps, with the executor at rest.                       *)
(***************************************************************************)
LEMMA ExecAtRest ==
  ASSUME SchedInv, ExecInv, SchedulerRuns
  PROVE  stage = "none" /\ stream = <<>> /\ UNCHANGED execVars
<1>1. pc # "planned" \/ plan_empty \/ stage = "none"
  BY DEF SchedulerRuns, AddRequest, StepBegin, PlanStep, Admit, PlanPrefill, MaterializePrefillBlock,
     PrefillPlanned, PlanDecode, DecodeRow, DecodeRowReserved, DecodeRowClaimed,
     AbortYoungestRunning, DecodePlanned, StepEmpty, CompleteStep, CompletePrefillChunk,
     CompletePrefillFinal, CompleteDecodeRow, CompleteDecode, StepReturn
<1>2. stage = "none"
  BY <1>1 DEF ExecInv, plan_empty, CallsExecutor
<1> QED BY <1>2 DEF ExecInv, SchedulerRuns

LEMMA ExecSchedulerRuns ==
  ASSUME SchedInv, PlanInv, ExecInv, SchedulerRuns
  PROVE  ExecInv'
<1>1. /\ stage = "none" /\ stream = <<>>
      /\ UNCHANGED <<stage, host, device, h_argmax, d_argmax, stream, kv_pool>>
  BY ExecAtRest DEF execVars
<1>2. ExecTypeOK'
  BY <1>1 DEF ExecInv, ExecTypeOK, Inputs, InputRows, BatchRows, max_blocks_per_seq,
     BlocksForTokens, usable_blocks
<1>3. ContextIntact /\ kv_pool' = kv_pool
  BY <1>1 DEF ExecInv
<1>4. pc = "commit" => Scattered(RowsDone + 1) /\ TokensIn(h_argmax, RowsDone + 1)
  BY DEF ExecInv, SampledFromOwnContext
<1>5. /\ ContextIntact'
      /\ pc' = "commit" => Scattered(RowsDone + 1)' /\ TokensIn(h_argmax, RowsDone + 1)'
  <2>1. ASSUME NEW q \in Workload, AddRequest(q)
        PROVE  ContextIntact' /\ pc' # "commit"
    BY <1>3, <2>1, ContextAddRequest DEF AddRequest, stepVars
  <2>2. CASE StepBegin \/ StepEmpty \/ StepReturn \/ CompleteDecode
    <3>1. pc' # "commit" /\ UNCHANGED requestVars
      BY <2>2 DEF StepBegin, StepEmpty, StepReturn, CompleteDecode
    <3> QED BY <1>3, <3>1, ContextQuiet
  <2>3. CASE PlanStep
    <3>1. pc' # "commit"
      BY <2>3 DEF PlanStep, Admit, PlanPrefill, MaterializePrefillBlock, PrefillPlanned, PlanDecode,
         DecodeRow, DecodeRowReserved, DecodeRowClaimed, AbortYoungestRunning, DecodePlanned, stepVars
    <3> QED BY <1>3, <2>3, <3>1, ContextPlanStep
  <2>4. CASE CompletePrefillChunk
    <3>1. pc = "commit" /\ pc' = "return"
      BY <2>4 DEF CompletePrefillChunk
    <3> QED BY <1>3, <1>4, <2>4, <3>1, ContextCompletePrefillChunk
  <2>5. ASSUME NEW sampled \in Tokens, CompletePrefillFinal(sampled)
        PROVE  ContextIntact' /\ pc' # "commit"
    <3>1. pc = "commit" /\ pc' = "return"
      BY <2>5 DEF CompletePrefillFinal
    <3> QED BY <1>3, <1>4, <2>5, <3>1, ContextCompletePrefillFinal
  <2>6. ASSUME NEW sampled \in Tokens, CompleteDecodeRow(sampled)
        PROVE  ContextIntact' /\ Scattered(RowsDone + 1)' /\ TokensIn(h_argmax, RowsDone + 1)'
    <3>1. pc = "commit"
      BY <2>6 DEF CompleteDecodeRow
    <3> QED BY <1>1, <1>3, <1>4, <2>6, <3>1, ExecCompleteDecodeRow
  <2> QED BY <2>1, <2>2, <2>3, <2>4, <2>5, <2>6 DEF SchedulerRuns, CompleteStep
<1> QED BY <1>1, <1>2, <1>5 DEF ExecInv, SampledFromOwnContext

-----------------------------------------------------------------------------
(***************************************************************************)
(* The host's side of a step.                                              *)
(***************************************************************************)

\* While the scheduler waits, the step is about the same plan.
LEMMA PlanFrame ==
  ASSUME UNCHANGED schedVars
  PROVE  /\ UNCHANGED <<pc, plan, results, param, state, output_tokens, prefill_progress, block_table>>
         /\ is_prefill' = is_prefill /\ CallsExecutor' = CallsExecutor
         /\ StepRows' = StepRows /\ StepWork' = StepWork /\ Uploads' = Uploads
         /\ Admitted' = Admitted
         /\ \A i : /\ RowToken(i)' = RowToken(i) /\ RowPosition(i)' = RowPosition(i)
                   /\ RowLen(i)' = RowLen(i) /\ RowTable(i)' = RowTable(i)
         /\ \A r : Written(r)' = Written(r)
<1>1. UNCHANGED <<pc, plan, results, param, state, output_tokens, prefill_progress, block_table>>
  BY DEF schedVars, stepVars, requestVars
<1>2. is_prefill' = is_prefill /\ CallsExecutor' = CallsExecutor /\ Uploads' = Uploads /\ Admitted' = Admitted
  BY <1>1 DEF is_prefill, CallsExecutor, Uploads, Admitted
<1>3. StepRows' = StepRows
  BY <1>1, <1>2 DEF StepRows
<1>4. StepWork' = StepWork
  BY <1>1, <1>2 DEF StepWork, num_prompt_tokens
<1>5. \A r : seq_len(r)' = seq_len(r) /\ TableRow(r)' = TableRow(r)
  BY <1>1 DEF seq_len, num_prompt_tokens, TableRow
<1>6. \A i : RowToken(i)' = RowToken(i)
  BY <1>1, <1>2, <1>5 DEF RowToken, seq_len, num_prompt_tokens
<1>7. \A i : RowPosition(i)' = RowPosition(i)
  BY <1>6 DEF RowPosition
<1>8. \A i : RowLen(i)' = RowLen(i)
  BY <1>1 DEF RowLen, seq_len, num_prompt_tokens
<1>9. \A i : RowTable(i)' = RowTable(i)
  BY <1>1, <1>2 DEF RowTable, TableRow
<1>10. \A r : Written(r)' = Written(r)
  BY <1>1 DEF Written, seq_len, num_prompt_tokens
<1> QED BY <1>1, <1>2, <1>3, <1>4, <1>6, <1>7, <1>8, <1>9, <1>10

LEMMA RowsIndexed ==
  /\ BatchRows \subseteq InputRows /\ 1 .. PrefillChunk \subseteq InputRows
  /\ 1 \in BatchRows /\ 1 \in InputRows
<1>1. MaxBatch \in Nat \ {0} /\ PrefillChunk \in Nat \ {0}
  BY SchedulerAssumption
<1>2. /\ Max({MaxBatch, PrefillChunk}) \in Int
      /\ Max({MaxBatch, PrefillChunk}) >= MaxBatch /\ Max({MaxBatch, PrefillChunk}) >= PrefillChunk
  BY <1>1, MaxOfTwo
<1> QED BY <1>1, <1>2 DEF BatchRows, InputRows

LEMMA RowTypes ==
  ASSUME SchedInv, NEW r \in Ids
  PROVE  /\ TableRow(r) \in [1 .. max_blocks_per_seq -> 0 .. usable_blocks]
         /\ DummyRow \in [1 .. max_blocks_per_seq -> 0 .. usable_blocks]
         /\ Junk \in Pair
         /\ \A n \in Nat : <<r, n>> \in Pair
<1>1. block_table[r] \in Seq(1 .. usable_blocks) /\ usable_blocks \in Nat
  BY TotalBlocksAssumption DEF SchedInv, SchedTypeOK, PoolBlocks, usable_blocks
<1>2. max_blocks_per_seq \in Nat
  BY BlocksBounds, SchedulerAssumption DEF max_blocks_per_seq
<1>3. DummyRow \in [1 .. max_blocks_per_seq -> 0 .. usable_blocks]
  BY <1>1, <1>2 DEF DummyRow, kDummyBlockId
<1>4. ASSUME NEW i \in 1 .. max_blocks_per_seq
      PROVE  TableRow(r)[i] \in 0 .. usable_blocks
  <2>1. CASE i <= Len(block_table[r])
    <3>1. i \in 1 .. Len(block_table[r])
      BY <1>1, <1>2, <2>1
    <3> QED BY <1>1, <2>1, <3>1 DEF TableRow
  <2>2. CASE ~(i <= Len(block_table[r]))
    BY <1>1, <2>2 DEF TableRow, kDummyBlockId
  <2> QED BY <2>1, <2>2
<1>5. TableRow(r) \in [1 .. max_blocks_per_seq -> 0 .. usable_blocks]
  BY <1>4 DEF TableRow
<1>6. Junk \in Pair /\ \A n \in Nat : <<r, n>> \in Pair
  BY DEF Junk, Pair, Ids
<1> QED BY <1>3, <1>5, <1>6

LEMMA FillsPrefill ==
  ASSUME SchedInv, PlanInv, host \in Inputs, pc = "planned", is_prefill,
         FillPrefillMirrors(plan.prefill, plan.begin, plan.end)
  PROVE  /\ host' \in Inputs
         /\ \A i \in 1 .. StepRows : /\ host'.ids[i] = RowToken(i)
                                     /\ host'.positions[i] = RowPosition(i)
         /\ host'.tables[1] = RowTable(1)
<1> DEFINE r == plan.prefill
           begin == plan.begin
           ids == [i \in InputRows |-> IF i \in 1 .. StepRows THEN <<r, begin + i - 1>> ELSE host.ids[i]]
           positions == [i \in InputRows |-> IF i \in 1 .. StepRows THEN begin + i - 1 ELSE host.positions[i]]
           tables == [host.tables EXCEPT ![1] = TableRow(r)]
<1>1. /\ r \in Ids /\ begin \in Nat /\ StepRows = plan.end - begin /\ StepRows \in 1 .. PrefillChunk
  BY PlannedPrefill
<1>2. PrefillChunk \in Nat /\ 1 .. PrefillChunk \subseteq InputRows /\ 1 \in BatchRows
  BY RowsIndexed, SchedulerAssumption
<1>3. /\ host = [ids |-> host.ids, positions |-> host.positions,
                 seq_lens |-> host.seq_lens, tables |-> host.tables]
      /\ host.ids \in [InputRows -> Pair] /\ host.positions \in [InputRows -> Nat]
      /\ host.seq_lens \in [BatchRows -> Nat]
      /\ host.tables \in [BatchRows -> [1 .. max_blocks_per_seq -> 0 .. usable_blocks]]
  BY DEF Inputs
<1>4. host' = [ids |-> ids, positions |-> positions, seq_lens |-> host.seq_lens, tables |-> tables]
  BY <1>1, <1>3 DEF FillPrefillMirrors
<1>5. \A i \in 1 .. StepRows : i \in InputRows /\ begin + i - 1 \in Nat
  BY <1>1, <1>2
<1>6. ids \in [InputRows -> Pair]
  BY <1>1, <1>3, <1>5, RowTypes
<1>7. positions \in [InputRows -> Nat]
  BY <1>1, <1>3, <1>5
<1>8. tables \in [BatchRows -> [1 .. max_blocks_per_seq -> 0 .. usable_blocks]] /\ tables[1] = TableRow(r)
  BY <1>1, <1>2, <1>3, RowTypes
<1>9. \A i \in 1 .. StepRows : ids[i] = <<r, begin + i - 1>> /\ positions[i] = begin + i - 1
  BY <1>5
<1>10. \A i : RowToken(i) = <<r, begin + i - 1>> /\ RowPosition(i) = begin + i - 1 /\ RowTable(i) = TableRow(r)
  BY DEF RowToken, RowPosition, RowTable
<1> HIDE DEF r, begin, ids, positions, tables
<1>11. host' \in Inputs
  BY <1>3, <1>4, <1>6, <1>7, <1>8 DEF Inputs
<1> QED BY <1>4, <1>8, <1>9, <1>10, <1>11

LEMMA FillsDecode ==
  ASSUME SchedInv, PlanInv, host \in Inputs, pc = "planned", ~is_prefill, plan.decode # <<>>,
         FillDecodeMirrors(plan.decode)
  PROVE  /\ host' \in Inputs
         /\ \A i \in 1 .. StepRows : /\ host'.ids[i] = RowToken(i)
                                     /\ host'.positions[i] = RowPosition(i)
                                     /\ host'.seq_lens[i] = RowLen(i)
                                     /\ host'.tables[i] = RowTable(i)
<1> DEFINE batch == plan.decode
           live == 1 .. Len(batch)
           pad == Len(batch) + 1 .. StepRows
           ids == [i \in InputRows |-> IF i \in live THEN <<batch[i], seq_len(batch[i]) - 1>>
                                       ELSE IF i \in pad THEN Junk ELSE host.ids[i]]
           positions == [i \in InputRows |-> IF i \in live THEN seq_len(batch[i]) - 1
                                             ELSE IF i \in pad THEN 0 ELSE host.positions[i]]
           seq_lens == [i \in BatchRows |-> IF i \in live THEN seq_len(batch[i])
                                            ELSE IF i \in pad THEN 0 ELSE host.seq_lens[i]]
           tables == [i \in BatchRows |-> IF i \in live THEN TableRow(batch[i])
                                          ELSE IF i \in pad THEN DummyRow ELSE host.tables[i]]
<1>1. /\ Len(batch) \in 1 .. MaxBatch /\ StepRows \in Len(batch) .. MaxBatch
      /\ \A k \in live : batch[k] \in Ids /\ seq_len(batch[k]) \in Nat \ {0}
  BY PlannedDecode
<1>2. MaxBatch \in Nat /\ BatchRows \subseteq InputRows
  BY RowsIndexed, SchedulerAssumption
<1>3. /\ host.ids \in [InputRows -> Pair] /\ host.positions \in [InputRows -> Nat]
      /\ host.seq_lens \in [BatchRows -> Nat]
      /\ host.tables \in [BatchRows -> [1 .. max_blocks_per_seq -> 0 .. usable_blocks]]
  BY DEF Inputs
<1>4. host' = [ids |-> ids, positions |-> positions, seq_lens |-> seq_lens, tables |-> tables]
  BY DEF FillDecodeMirrors, StepRows
<1>5. \A i \in 1 .. StepRows : /\ i \in BatchRows /\ i \in InputRows
                               /\ i \in live <=> i <= Len(batch)
                               /\ i \in pad <=> ~(i <= Len(batch))
  BY <1>1, <1>2 DEF BatchRows
<1>6. \A k \in live : /\ <<batch[k], seq_len(batch[k]) - 1>> \in Pair /\ seq_len(batch[k]) - 1 \in Nat
                      /\ seq_len(batch[k]) \in Nat
                      /\ TableRow(batch[k]) \in [1 .. max_blocks_per_seq -> 0 .. usable_blocks]
  BY <1>1, RowTypes
<1>7. Junk \in Pair /\ DummyRow \in [1 .. max_blocks_per_seq -> 0 .. usable_blocks]
  <2>1. PICK k \in live : batch[k] \in Ids
    BY <1>1, <1>2
  <2> QED BY <2>1, RowTypes
<1>8. \A i \in 1 .. StepRows :
        /\ ids[i] = IF i <= Len(batch) THEN <<batch[i], seq_len(batch[i]) - 1>> ELSE Junk
        /\ positions[i] = IF i <= Len(batch) THEN seq_len(batch[i]) - 1 ELSE 0
        /\ seq_lens[i] = IF i <= Len(batch) THEN seq_len(batch[i]) ELSE 0
        /\ tables[i] = IF i <= Len(batch) THEN TableRow(batch[i]) ELSE DummyRow
  BY <1>5
<1>9. \A i : /\ RowToken(i) = IF i <= Len(batch) THEN <<batch[i], seq_len(batch[i]) - 1>> ELSE Junk
             /\ RowPosition(i) = IF i <= Len(batch) THEN seq_len(batch[i]) - 1 ELSE 0
             /\ RowLen(i) = IF i <= Len(batch) THEN seq_len(batch[i]) ELSE 0
             /\ RowTable(i) = IF i <= Len(batch) THEN TableRow(batch[i]) ELSE DummyRow
  BY DEF RowToken, RowPosition, RowLen, RowTable, Junk
<1>10. ids \in [InputRows -> Pair] /\ positions \in [InputRows -> Nat]
  <2> HIDE DEF live, pad, batch
  <2> QED BY <1>3, <1>6, <1>7
<1>11. /\ seq_lens \in [BatchRows -> Nat]
       /\ tables \in [BatchRows -> [1 .. max_blocks_per_seq -> 0 .. usable_blocks]]
  <2> HIDE DEF live, pad, batch
  <2> QED BY <1>3, <1>6, <1>7
<1> HIDE DEF ids, positions, seq_lens, tables
<1>12. host' \in Inputs
  BY <1>4, <1>10, <1>11 DEF Inputs
<1>13. \A i \in 1 .. StepRows : /\ ids[i] = RowToken(i) /\ positions[i] = RowPosition(i)
                                /\ seq_lens[i] = RowLen(i) /\ tables[i] = RowTable(i)
  BY <1>8, <1>9
<1> QED BY <1>4, <1>12, <1>13

LEMMA ContextHostStep ==
  ASSUME ContextIntact, UNCHANGED <<schedVars, kv_pool>>
  PROVE  ContextIntact'
BY PlanFrame DEF ContextIntact, Cached, BlockOf, OffsetOf

LEMMA ExecFillMirrors ==
  ASSUME SchedInv, PlanInv, ExecInv, FillMirrors
  PROVE  ExecInv'
<1>1. /\ pc = "planned" /\ CallsExecutor /\ stage = "none" /\ stage' = "filled"
      /\ UNCHANGED schedVars /\ UNCHANGED <<device, h_argmax, d_argmax, stream, kv_pool>>
  BY DEF FillMirrors
<1>2. ExecTypeOK /\ ContextIntact /\ stream = <<>>
  BY <1>1 DEF ExecInv
<1>3. ContextIntact'
  BY <1>1, <1>2, ContextHostStep
<1>4. /\ host' \in Inputs
      /\ \A i \in 1 .. StepRows : host'.ids[i] = RowToken(i) /\ host'.positions[i] = RowPosition(i)
      /\ ~is_prefill => \A i \in 1 .. StepRows : host'.seq_lens[i] = RowLen(i)
      /\ \A i \in 1 .. (IF is_prefill THEN 1 ELSE StepRows) : host'.tables[i] = RowTable(i)
  <2>1. CASE is_prefill
    <3>1. FillPrefillMirrors(plan.prefill, plan.begin, plan.end)
      BY <2>1 DEF FillMirrors
    <3>2. /\ host' \in Inputs /\ host'.tables[1] = RowTable(1)
          /\ \A i \in 1 .. StepRows : host'.ids[i] = RowToken(i) /\ host'.positions[i] = RowPosition(i)
      BY <1>1, <1>2, <2>1, <3>1, FillsPrefill DEF ExecTypeOK
    <3> QED BY <2>1, <3>2
  <2>2. CASE ~is_prefill
    <3>1. FillDecodeMirrors(plan.decode) /\ plan.decode # <<>>
      BY <1>1, <2>2 DEF FillMirrors, CallsExecutor
    <3> QED BY <1>1, <1>2, <2>2, <3>1, FillsDecode DEF ExecTypeOK
  <2> QED BY <2>1, <2>2
<1>5. IdsIn(host)' /\ PositionsIn(host)' /\ LensIn(host)' /\ TablesIn(host)'
  BY <1>1, <1>4, PlanFrame DEF IdsIn, PositionsIn, LensIn, TablesIn
<1>6. ExecTypeOK'
  BY <1>1, <1>2, <1>4 DEF ExecTypeOK
<1>7. pc' = "planned" /\ CallsExecutor' /\ stream' = <<>>
  BY <1>1, <1>2, PlanFrame
<1> QED BY <1>1, <1>3, <1>5, <1>6, <1>7 DEF ExecInv, SampledFromOwnContext

-----------------------------------------------------------------------------
(***************************************************************************)
(* The stream of a step, task by task.                                     *)
(***************************************************************************)
LEMMA DecodeWork ==
  ASSUME ~is_prefill
  PROVE  /\ \E T : StepWork \in Seq(T)
         /\ Len(StepWork) = 6 /\ Uploads = 4
         /\ StepWork[1] = Copy("ids", StepRows) /\ StepWork[2] = Copy("positions", StepRows)
         /\ StepWork[3] = Copy("seq_lens", StepRows) /\ StepWork[4] = Copy("tables", StepRows)
         /\ StepWork[5] = [op |-> "decode", rows |-> StepRows] /\ StepWork[6] = Download(StepRows)
<1> DEFINE rows == StepRows
           a == Copy("ids", rows)
           b == Copy("positions", rows)
           c == Copy("seq_lens", rows)
           d == Copy("tables", rows)
           e == [op |-> "decode", rows |-> rows]
           f == Download(rows)
           T == {a, b, c, d, e, f}
<1>1. StepWork = <<a, b, c, d>> \o <<e, f>>
  BY DEF StepWork, StepRows, UploadDecodeInputs, EnqueueDecode
<1> HIDE DEF a, b, c, d, e, f
<1>2. <<a, b, c, d>> \in Seq(T) /\ <<e, f>> \in Seq(T)
  OBVIOUS
<1>3. /\ Len(<<a, b, c, d>>) = 4 /\ Len(<<e, f>>) = 2
      /\ <<a, b, c, d>>[1] = a /\ <<a, b, c, d>>[2] = b
      /\ <<a, b, c, d>>[3] = c /\ <<a, b, c, d>>[4] = d
      /\ <<e, f>>[1] = e /\ <<e, f>>[2] = f
  OBVIOUS
<1> HIDE DEF T
<1>4. /\ StepWork \in Seq(T) /\ Len(StepWork) = 6
      /\ \A i \in 1 .. 6 : StepWork[i] = IF i <= 4 THEN <<a, b, c, d>>[i] ELSE <<e, f>>[i - 4]
  BY <1>1, <1>2, <1>3, ConcatProperties
<1>5. /\ StepWork[1] = a /\ StepWork[2] = b /\ StepWork[3] = c
      /\ StepWork[4] = d /\ StepWork[5] = e /\ StepWork[6] = f
  BY <1>3, <1>4
<1>6. Uploads = 4
  BY DEF Uploads
<1> QED BY <1>4, <1>5, <1>6 DEF a, b, c, d, e, f

LEMMA PrefillWork ==
  ASSUME is_prefill
  PROVE  LET final == plan.end = num_prompt_tokens(plan.prefill) IN
         /\ \E T : StepWork \in Seq(T)
         /\ Len(StepWork) = (IF final THEN 5 ELSE 4) /\ Uploads = 3
         /\ StepWork[1] = Copy("ids", StepRows) /\ StepWork[2] = Copy("positions", StepRows)
         /\ StepWork[3] = Copy("tables", 1)
         /\ StepWork[4] = [op |-> "prefill", rows |-> StepRows, ctx |-> plan.end, final_chunk |-> final]
         /\ final => StepWork[5] = Download(1)
<1> DEFINE final == plan.end = num_prompt_tokens(plan.prefill)
           rows == StepRows
           a == Copy("ids", rows)
           b == Copy("positions", rows)
           c == Copy("tables", 1)
           d == [op |-> "prefill", rows |-> rows, ctx |-> plan.end, final_chunk |-> final]
           e == Download(1)
           T == {a, b, c, d, e}
           tail == <<d>> \o (IF final THEN <<e>> ELSE <<>>)
<1>1. StepWork = <<a, b, c>> \o tail
  BY DEF StepWork, StepRows, UploadPrefillInputs, EnqueuePrefill
<1> HIDE DEF a, b, c, d, e, final
<1>2. <<a, b, c>> \in Seq(T) /\ <<d>> \in Seq(T) /\ <<e>> \in Seq(T) /\ <<>> \in Seq(T)
  OBVIOUS
<1>3. /\ Len(<<a, b, c>>) = 3 /\ Len(<<d>>) = 1 /\ Len(<<e>>) = 1 /\ Len(<<>>) = 0
      /\ <<a, b, c>>[1] = a /\ <<a, b, c>>[2] = b /\ <<a, b, c>>[3] = c
      /\ <<d>>[1] = d /\ <<e>>[1] = e
  OBVIOUS
<1> HIDE DEF T
<1>4. /\ tail \in Seq(T) /\ Len(tail) = (IF final THEN 2 ELSE 1) /\ tail[1] = d
      /\ final => tail[2] = e
  BY <1>2, <1>3, ConcatProperties
<1> HIDE DEF tail
<1>5. /\ StepWork \in Seq(T) /\ Len(StepWork) = 3 + Len(tail)
      /\ \A i \in 1 .. 3 + Len(tail) : StepWork[i] = IF i <= 3 THEN <<a, b, c>>[i] ELSE tail[i - 3]
  <2>1. PICK abc \in Seq(T) : abc = <<a, b, c>> /\ Len(abc) = 3
    BY <1>2, <1>3
  <2>2. /\ abc \o tail \in Seq(T) /\ Len(abc \o tail) = Len(abc) + Len(tail)
        /\ \A i \in 1 .. Len(abc) + Len(tail) :
             (abc \o tail)[i] = IF i <= Len(abc) THEN abc[i] ELSE tail[i - Len(abc)]
    BY <1>4, ConcatProperties
  <2>3. StepWork = abc \o tail
    BY <1>1, <2>1
  <2> QED BY <2>1, <2>2, <2>3
<1>6. /\ StepWork[1] = a /\ StepWork[2] = b /\ StepWork[3] = c /\ StepWork[4] = d
      /\ final => StepWork[5] = e
  BY <1>3, <1>4, <1>5
<1>7. Uploads = 3 /\ Len(StepWork) = (IF final THEN 5 ELSE 4)
  BY <1>4, <1>5 DEF Uploads
<1> QED BY <1>5, <1>6, <1>7 DEF a, b, c, d, e, final

LEMMA WorkLength ==
  /\ \E T : StepWork \in Seq(T)
  /\ Len(StepWork) \in Nat /\ Uploads \in 3 .. 4
  /\ Len(StepWork) > Uploads /\ Len(StepWork) <= Uploads + 2
  /\ \/ Len(StepWork) = Uploads + 2
     \/ is_prefill /\ plan.end # num_prompt_tokens(plan.prefill)
<1>1. \E T : StepWork \in Seq(T)
  <2>1. CASE is_prefill BY <2>1, PrefillWork
  <2>2. CASE ~is_prefill BY <2>2, DecodeWork
  <2> QED BY <2>1, <2>2
<1>2. CASE ~is_prefill
  <2>1. Len(StepWork) = 6 /\ Uploads = 4
    BY <1>2, DecodeWork
  <2> QED BY <1>1, <2>1
<1>3. CASE is_prefill /\ plan.end = num_prompt_tokens(plan.prefill)
  <2>1. Len(StepWork) = 5 /\ Uploads = 3
    BY <1>3, PrefillWork
  <2> QED BY <1>1, <2>1
<1>4. CASE is_prefill /\ plan.end # num_prompt_tokens(plan.prefill)
  <2>1. Len(StepWork) = 4 /\ Uploads = 3
    BY <1>4, PrefillWork
  <2> QED BY <1>1, <1>4, <2>1
<1> QED BY <1>2, <1>3, <1>4

LEMMA ExecEnqueueStep ==
  ASSUME ExecInv, EnqueueStep
  PROVE  ExecInv'
<1>1. /\ stage = "filled" /\ stage' = "launched" /\ stream' = stream \o StepWork
      /\ UNCHANGED schedVars /\ UNCHANGED <<host, device, h_argmax, d_argmax, kv_pool>>
  BY DEF EnqueueStep
<1>2. /\ ExecTypeOK /\ ContextIntact /\ stream = <<>> /\ pc = "planned" /\ CallsExecutor
      /\ IdsIn(host) /\ PositionsIn(host) /\ LensIn(host) /\ TablesIn(host)
  BY <1>1 DEF ExecInv
<1>3. ContextIntact' /\ ExecTypeOK'
  BY <1>1, <1>2, ContextHostStep DEF ExecTypeOK
<1>4. IdsIn(host)' /\ PositionsIn(host)' /\ LensIn(host)' /\ TablesIn(host)'
  BY <1>1, <1>2, PlanFrame DEF IdsIn, PositionsIn, LensIn, TablesIn
<1>5. pc' = "planned" /\ CallsExecutor' /\ StepWork' = StepWork /\ Uploads' = Uploads
  BY <1>1, <1>2, PlanFrame
<1>6. DeviceAt(0)' /\ 0 \in 0 .. Len(StepWork)'
  <2>1. stream' = SubSeq(StepWork, 1, Len(StepWork))
    BY <1>1, <1>2, WorkLength, SubSeqFull, ConcatEmptySeq
  <2> QED BY <1>5, <2>1, WorkLength DEF DeviceAt
<1> QED BY <1>1, <1>3, <1>4, <1>5, <1>6 DEF ExecInv, SampledFromOwnContext

LEMMA ExecExecutorReturns ==
  ASSUME SchedInv, PlanInv, ExecInv, ExecutorReturns
  PROVE  ExecInv'
<1>1. /\ Execute /\ stage' = "none"
      /\ UNCHANGED <<host, device, h_argmax, d_argmax, stream, kv_pool>>
  BY DEF ExecutorReturns
<1>2. /\ pc = "planned" /\ pc' = "commit" /\ plan' = plan /\ UNCHANGED requestVars
      /\ results' = [i \in 1 .. Len(plan.aborted) |-> AbortResult(plan.aborted[i])]
      /\ UNCHANGED <<param, output_tokens, block_table>>
  BY <1>1 DEF Execute, requestVars
<1>3. ExecTypeOK /\ ContextIntact
  BY DEF ExecInv
<1>4. ExecTypeOK' /\ ContextIntact'
  BY <1>1, <1>2, <1>3, ContextQuiet DEF ExecTypeOK
<1>5. RowsDone' = 0
  <2>1. Len(plan.aborted) \in Nat
    BY InvSplit DEF StepType
  <2>2. Len(results') = Len(plan.aborted)
    BY <1>2, <2>1
  <2> QED BY <1>2, <2>1, <2>2 DEF RowsDone
<1>6. stream' = <<>> /\ Scattered(1) /\ TokensIn(h_argmax, 1)
  <2>1. CASE CallsExecutor
    <3>1. stage = "launched" /\ stream = <<>>
      BY <2>1 DEF ExecutorReturns, Drained
    <3>2. PICK n \in 0 .. Len(StepWork) : DeviceAt(n)
      BY <3>1 DEF ExecInv
    <3>3. n = Len(StepWork)
      <4>1. PICK T : StepWork \in Seq(T)
        BY WorkLength
      <4>2. Len(StepWork) \in Nat /\ SubSeq(StepWork, n + 1, Len(StepWork)) = <<>>
        BY <3>1, <3>2, WorkLength DEF DeviceAt
      <4>3. n < Len(StepWork) => Len(SubSeq(StepWork, n + 1, Len(StepWork))) = Len(StepWork) - n
        BY <4>1, <4>2, SubSeqProperties
      <4> QED BY <4>2, <4>3
    <3>4. n >= Uploads + 1
      BY <3>3, WorkLength
    <3> QED BY <1>1, <3>1, <3>2, <3>3, <3>4 DEF DeviceAt
  <2>2. CASE ~CallsExecutor
    <3>1. stage = "none" /\ ~is_prefill /\ plan.decode = <<>>
      BY <2>2 DEF ExecutorReturns, CallsExecutor
    <3> QED BY <1>1, <3>1 DEF ExecInv, Scattered, TokensIn
  <2> QED BY <2>1, <2>2
<1>7. Scattered(RowsDone + 1)' /\ TokensIn(h_argmax, RowsDone + 1)'
  <2>1. is_prefill' = is_prefill /\ kv_pool' = kv_pool /\ h_argmax' = h_argmax
    BY <1>1, <1>2 DEF is_prefill
  <2>2. Scattered(RowsDone + 1)'
    <3>1. \A r, p : Cached(r, p)' = Cached(r, p)
      BY <1>2, <2>1 DEF Cached, BlockOf, OffsetOf
    <3>2. \A r : seq_len(r)' = seq_len(r)
      BY <1>2 DEF seq_len, num_prompt_tokens
    <3>3. is_prefill => \A p \in plan.begin .. plan.end - 1 : Cached(plan.prefill, p)'
      BY <1>2, <1>6, <2>1, <3>1 DEF Scattered, Cached
    <3>4. ~is_prefill => \A k \in 1 .. Len(plan.decode) :
                           Cached(plan.decode[k], seq_len(plan.decode[k]) - 1)'
      BY <1>2, <1>6, <2>1, <3>2 DEF Scattered, Cached, BlockOf, OffsetOf
    <3> QED BY <1>2, <1>5, <2>1, <3>3, <3>4 DEF Scattered
  <2>3. TokensIn(h_argmax, RowsDone + 1)'
    BY <1>2, <1>5, <1>6, <2>1 DEF TokensIn, seq_len, num_prompt_tokens
  <2> QED BY <2>2, <2>3
<1> QED BY <1>1, <1>2, <1>4, <1>6, <1>7 DEF ExecInv, SampledFromOwnContext

\* A failed step leaves nothing in flight when it fails before its first enqueued call.
LEMMA ExecFails ==
  ASSUME FailAfter \subseteq {0}, SchedInv, PlanInv, ExecInv, GemmUnresolved \/ CudaFails
  PROVE  ExecInv'
<1>1. /\ ExecutorThrows /\ stage' = "none"
      /\ UNCHANGED <<host, device, h_argmax, d_argmax, kv_pool>>
  BY DEF GemmUnresolved, CudaFails
<1>2. pc' = "idle" /\ UNCHANGED requestVars
  BY <1>1 DEF ExecutorThrows
<1>3. stream' = <<>>
  <2>1. CASE GemmUnresolved
    BY <2>1 DEF GemmUnresolved, ExecInv
  <2>2. CASE CudaFails /\ Drained /\ UNCHANGED stream
    BY <2>2 DEF Drained
  <2>3. CASE stage = "filled" /\ \E k \in FailAfter \intersect 0 .. Len(StepWork) - 1 :
                                   stream' = stream \o SubSeq(StepWork, 1, k)
    <3>1. stream = <<>> /\ stream' = stream \o SubSeq(StepWork, 1, 0)
      BY <2>3 DEF ExecInv
    <3>2. SubSeq(StepWork, 1, 0) = <<>>
      BY WorkLength, SubSeqEmpty
    <3> QED BY <3>1, <3>2
  <2> QED BY <2>1, <2>2, <2>3 DEF CudaFails
<1>4. ExecTypeOK' /\ ContextIntact'
  BY <1>1, <1>2, ContextQuiet DEF ExecInv, ExecTypeOK
<1> QED BY <1>1, <1>2, <1>3, <1>4 DEF ExecInv, SampledFromOwnContext

-----------------------------------------------------------------------------
(***************************************************************************)
(* Where the rows of a step write.                                         *)
(***************************************************************************)
Live(i) == is_prefill \/ i <= Len(plan.decode)

\* Row i is about position p of request r, whose context stops short of p.
LEMMA LiveRow ==
  ASSUME SchedInv, PlanInv, pc = "planned", CallsExecutor, NEW i \in 1 .. StepRows, Live(i)
  PROVE  \E r \in Admitted : \E p \in Nat :
           /\ RowToken(i) = <<r, p>> /\ RowPosition(i) = p /\ RowTable(i) = TableRow(r)
           /\ r \in Ids /\ Holds(r, p) /\ p \notin Written(r)
<1>1. CASE is_prefill
  <2>1. /\ plan.prefill \in Ids /\ state[plan.prefill] = "prefill"
        /\ plan.begin = prefill_progress[plan.prefill]
        /\ plan.begin \in Nat /\ plan.end \in Nat /\ plan.begin < plan.end
        /\ StepRows = plan.end - plan.begin /\ StepRows \in 1 .. PrefillChunk
        /\ \A p \in 0 .. plan.end - 1 : Holds(plan.prefill, p)
    BY <1>1, PlannedPrefill
  <2>2. PICK p \in Nat : p = plan.begin + i - 1 /\ p \in 0 .. plan.end - 1 /\ p >= plan.begin
    BY <2>1
  <2>3. /\ RowToken(i) = <<plan.prefill, p>> /\ RowPosition(i) = p /\ RowTable(i) = TableRow(plan.prefill)
    BY <1>1, <2>2 DEF RowToken, RowPosition, RowTable
  <2>4. p \notin Written(plan.prefill)
    BY <2>1, <2>2 DEF Written
  <2>5. plan.prefill \in Admitted
    BY <2>1 DEF Admitted
  <2> QED BY <2>1, <2>2, <2>3, <2>4, <2>5
<1>2. CASE ~is_prefill
  <2>1. plan.decode # <<>> /\ i <= Len(plan.decode)
    BY <1>2 DEF CallsExecutor, Live
  <2>2. Len(plan.decode) \in 1 .. MaxBatch /\ MaxBatch \in Nat /\ StepRows \in Len(plan.decode) .. MaxBatch
    BY <1>2, <2>1, PlannedDecode, SchedulerAssumption
  <2>3. i \in 1 .. Len(plan.decode)
    BY <2>1, <2>2
  <2>4. PICK r \in Ids : /\ r = plan.decode[i] /\ state[r] = "running" /\ seq_len(r) \in Nat \ {0}
                         /\ \A p \in 0 .. seq_len(r) - 1 : Holds(r, p)
    BY <1>2, <2>1, <2>3, PlannedDecode
  <2>5. PICK p \in Nat : p = seq_len(r) - 1 /\ p \in 0 .. seq_len(r) - 1
    BY <2>4
  <2>6. /\ RowToken(i) = <<r, p>> /\ RowPosition(i) = p /\ RowTable(i) = TableRow(r)
    BY <1>2, <2>1, <2>4, <2>5 DEF RowToken, RowPosition, RowTable
  <2>7. p \notin Written(r)
    BY <2>4, <2>5 DEF Written
  <2>8. r \in Admitted
    BY <2>4 DEF Admitted
  <2> QED BY <2>4, <2>5, <2>6, <2>7, <2>8
<1> QED BY <1>1, <1>2

\* A padded row writes position 0 of the dummy block.
LEMMA PadRow ==
  ASSUME NEW i, ~Live(i)
  PROVE  BlockOf(RowTable(i), RowPosition(i)) = kDummyBlockId
<1>1. RowTable(i) = DummyRow /\ RowPosition(i) = 0
  BY DEF Live, RowTable, RowPosition, RowToken, Junk
<1>2. KvBlockSize \in Nat \ {0} /\ MaxSeqLen \in Nat /\ MaxSeqLen >= 2
  BY SchedulerAssumption
<1>3. 0 \div KvBlockSize = 0
  BY <1>2
<1>4. max_blocks_per_seq \in Nat /\ 0 < max_blocks_per_seq
  <2>1. 0 * KvBlockSize < MaxSeqLen
    BY <1>2
  <2>2. 0 < BlocksForTokens(MaxSeqLen) /\ BlocksForTokens(MaxSeqLen) \in Nat
    BY <1>2, <2>1, CapacityShort, BlocksBounds
  <2> QED BY <2>2 DEF max_blocks_per_seq
<1>5. 1 \in 1 .. max_blocks_per_seq
  BY <1>4
<1>6. DummyRow[1] = kDummyBlockId
  BY <1>5 DEF DummyRow
<1>7. BlockOf(DummyRow, 0) = DummyRow[1]
  BY <1>3 DEF BlockOf
<1> QED BY <1>1, <1>6, <1>7

LEMMA LiveDistinct ==
  ASSUME SchedInv, PlanInv, pc = "planned", CallsExecutor, NEW i \in 1 .. StepRows,
         NEW j \in 1 .. StepRows, Live(i), Live(j), RowToken(i) = RowToken(j)
  PROVE  i = j
<1>1. CASE is_prefill
  <2>1. plan.begin \in Nat
    BY <1>1, PlannedPrefill
  <2>2. plan.begin + i - 1 = plan.begin + j - 1
    BY <1>1 DEF RowToken
  <2>3. i \in Int /\ j \in Int
    BY <1>1, PlannedPrefill, SchedulerAssumption
  <2> QED BY <2>1, <2>2, <2>3
<1>2. CASE ~is_prefill
  <2>1. plan.decode # <<>> /\ i <= Len(plan.decode) /\ j <= Len(plan.decode)
    BY <1>2 DEF CallsExecutor, Live
  <2>2. Len(plan.decode) \in 1 .. MaxBatch /\ MaxBatch \in Nat /\ StepRows \in Len(plan.decode) .. MaxBatch
    BY <1>2, <2>1, PlannedDecode, SchedulerAssumption
  <2>3. i \in 1 .. Len(plan.decode) /\ j \in 1 .. Len(plan.decode)
    BY <2>1, <2>2
  <2>4. plan.decode[i] = plan.decode[j]
    BY <1>2, <2>1 DEF RowToken
  <2> QED BY <1>2, <2>1, <2>3, <2>4, PlannedDecode
<1> QED BY <1>1, <1>2

\* Only the row about position p of r writes where p of r is kept.
LEMMA OnlyOwnRow ==
  ASSUME SchedInv, PlanInv, pc = "planned", CallsExecutor, NEW r \in Ids, NEW p, Holds(r, p),
         NEW i \in 1 .. StepRows,
         BlockOf(RowTable(i), RowPosition(i)) = BlockOf(block_table[r], p),
         OffsetOf(RowPosition(i)) = OffsetOf(p)
  PROVE  Live(i) /\ RowToken(i) = <<r, p>>
<1>1. BlockOf(block_table[r], p) \in PoolBlocks
  BY RowBlock
<1>2. Live(i)
  BY <1>1, PadRow DEF PoolBlocks, kDummyBlockId
<1>3. PICK s \in Admitted, q \in Nat :
        /\ RowToken(i) = <<s, q>> /\ RowPosition(i) = q /\ RowTable(i) = TableRow(s)
        /\ s \in Ids /\ Holds(s, q)
  BY <1>2, LiveRow
<1>4. BlockOf(block_table[s], q) = BlockOf(block_table[r], p) /\ OffsetOf(q) = OffsetOf(p)
  BY <1>3, RowBlock
<1>5. s = r /\ q = p
  BY <1>3, <1>4, SameLocation
<1> QED BY <1>2, <1>3, <1>5

-----------------------------------------------------------------------------
(***************************************************************************)
(* kv_scatter, cell by cell.                                               *)
(***************************************************************************)
Pool == [0 .. usable_blocks -> [0 .. KvBlockSize - 1 -> Pair]]

Writers(rows, table, b, o) ==
  {i \in 1 .. rows : BlockOf(table[i], device.positions[i]) = b /\ OffsetOf(device.positions[i]) = o}

ScatteredCell(rows, table, b, o) ==
  LET writers == Writers(rows, table, b, o)
      i == CHOOSE i \in writers : TRUE
  IN IF writers = {} THEN kv_pool[b][o]
     ELSE IF Cardinality(writers) = 1
     THEN IF device.ids[i][2] = device.positions[i] THEN device.ids[i] ELSE Junk
     ELSE Junk

LEMMA ScatterCells ==
  ASSUME kv_pool \in Pool, NEW rows, NEW table
  PROVE  KvScatter(rows, table) =
           [b \in 0 .. usable_blocks |-> [o \in 0 .. KvBlockSize - 1 |-> ScatteredCell(rows, table, b, o)]]
<1>1. DOMAIN kv_pool = 0 .. usable_blocks
  BY DEF Pool
<1>2. \A b \in 0 .. usable_blocks : DOMAIN kv_pool[b] = 0 .. KvBlockSize - 1
  BY DEF Pool
<1> QED BY <1>1, <1>2 DEF KvScatter, ScatteredCell, Writers

LEMMA ScatterCell ==
  ASSUME kv_pool \in Pool, NEW rows, NEW table,
         NEW b \in 0 .. usable_blocks, NEW o \in 0 .. KvBlockSize - 1
  PROVE  KvScatter(rows, table)[b][o] = ScatteredCell(rows, table, b, o)
<1>1. DOMAIN kv_pool = 0 .. usable_blocks /\ DOMAIN kv_pool[b] = 0 .. KvBlockSize - 1
  BY DEF Pool
<1> QED BY <1>1 DEF KvScatter, ScatteredCell, Writers

LEMMA ScatterType ==
  ASSUME kv_pool \in Pool, device \in Inputs, NEW rows, NEW table, 1 .. rows \subseteq InputRows
  PROVE  KvScatter(rows, table) \in Pool
<1> SUFFICES ASSUME NEW b \in 0 .. usable_blocks, NEW o \in 0 .. KvBlockSize - 1
             PROVE  ScatteredCell(rows, table, b, o) \in Pair
  BY ScatterCells DEF Pool
<1>1. kv_pool[b][o] \in Pair /\ Junk \in Pair
  BY DEF Pool, Junk, Pair
<1> DEFINE W == Writers(rows, table, b, o)
           i == CHOOSE i \in W : TRUE
<1>2. W # {} => device.ids[i] \in Pair
  <2>1. W # {} => i \in W
    OBVIOUS
  <2>2. W \subseteq InputRows
    BY DEF Writers
  <2> QED BY <2>1, <2>2 DEF Inputs
<1> QED BY <1>1, <1>2 DEF ScatteredCell

LEMMA ScatterKeeps ==
  ASSUME kv_pool \in Pool, NEW rows, NEW table,
         NEW b \in 0 .. usable_blocks, NEW o \in 0 .. KvBlockSize - 1,
         Writers(rows, table, b, o) = {}
  PROVE  KvScatter(rows, table)[b][o] = kv_pool[b][o]
BY ScatterCell DEF ScatteredCell

LEMMA ScatterWrites ==
  ASSUME kv_pool \in Pool, NEW rows, NEW table,
         NEW b \in 0 .. usable_blocks, NEW o \in 0 .. KvBlockSize - 1, NEW i,
         Writers(rows, table, b, o) = {i}, device.ids[i][2] = device.positions[i]
  PROVE  KvScatter(rows, table)[b][o] = device.ids[i]
<1>1. Cardinality({i}) = 1
  BY FS_Singleton
<1>2. (CHOOSE j \in {i} : TRUE) = i
  OBVIOUS
<1>3. ScatteredCell(rows, table, b, o) = device.ids[i]
  BY <1>1, <1>2 DEF ScatteredCell
<1> QED BY <1>3, ScatterCell

(***************************************************************************)
(* The scatter of a step keeps every context and adds the step's rows.     *)
(***************************************************************************)
LEMMA StepScatters ==
  ASSUME SchedInv, PlanInv, ContextIntact, kv_pool \in Pool, device \in Inputs,
         pc = "planned", CallsExecutor, 1 .. StepRows \subseteq InputRows,
         IdsIn(device), PositionsIn(device),
         NEW table, \A i \in 1 .. StepRows : table[i] = RowTable(i)
  PROVE  LET pool == KvScatter(StepRows, table) IN
         /\ pool \in Pool
         /\ \A r \in Admitted : \A p \in Written(r) :
              pool[BlockOf(block_table[r], p)][OffsetOf(p)] = <<r, p>>
         /\ \A i \in 1 .. StepRows : Live(i) => \A r \in Ids : \A p \in Nat :
              RowToken(i) = <<r, p>> => pool[BlockOf(block_table[r], p)][OffsetOf(p)] = <<r, p>>
<1> DEFINE pool == KvScatter(StepRows, table)
<1>1. pool \in Pool
  BY ScatterType
<1>2. \A i \in 1 .. StepRows : /\ device.ids[i] = RowToken(i) /\ device.positions[i] = RowPosition(i)
                               /\ table[i] = RowTable(i)
  BY DEF IdsIn, PositionsIn
<1>3. \A r \in Ids : \A p : Holds(r, p) =>
        /\ BlockOf(block_table[r], p) \in 0 .. usable_blocks
        /\ OffsetOf(p) \in 0 .. KvBlockSize - 1
  BY RowBlock, TotalBlocksAssumption DEF PoolBlocks, usable_blocks
<1>4. ASSUME NEW r \in Ids, NEW p, Holds(r, p),
             NEW i \in Writers(StepRows, table, BlockOf(block_table[r], p), OffsetOf(p))
      PROVE  i \in 1 .. StepRows /\ Live(i) /\ RowToken(i) = <<r, p>>
  <2>1. /\ i \in 1 .. StepRows
        /\ BlockOf(RowTable(i), RowPosition(i)) = BlockOf(block_table[r], p)
        /\ OffsetOf(RowPosition(i)) = OffsetOf(p)
    BY <1>2 DEF Writers
  <2> QED BY <1>4, <2>1, OnlyOwnRow
<1>5. ASSUME NEW r \in Admitted, NEW p \in Written(r)
      PROVE  pool[BlockOf(block_table[r], p)][OffsetOf(p)] = <<r, p>>
  <2>1. r \in Ids /\ Holds(r, p)
    BY WrittenHeld
  <2>2. ASSUME NEW i \in Writers(StepRows, table, BlockOf(block_table[r], p), OffsetOf(p))
        PROVE  FALSE
    <3>1. i \in 1 .. StepRows /\ Live(i) /\ RowToken(i) = <<r, p>>
      BY <1>4, <2>1
    <3>2. PICK s \in Admitted, q \in Nat : RowToken(i) = <<s, q>> /\ q \notin Written(s)
      BY <3>1, LiveRow
    <3>3. s = r /\ q = p
      BY <3>1, <3>2
    <3> QED BY <3>2, <3>3
  <2>3. pool[BlockOf(block_table[r], p)][OffsetOf(p)] = kv_pool[BlockOf(block_table[r], p)][OffsetOf(p)]
    BY <1>3, <2>1, <2>2, ScatterKeeps
  <2> QED BY <2>3 DEF ContextIntact, Cached
<1>6. ASSUME NEW i \in 1 .. StepRows, Live(i), NEW r \in Ids, NEW p \in Nat, RowToken(i) = <<r, p>>
      PROVE  pool[BlockOf(block_table[r], p)][OffsetOf(p)] = <<r, p>>
  <2>1. PICK s \in Admitted, q \in Nat :
          /\ RowToken(i) = <<s, q>> /\ RowPosition(i) = q /\ RowTable(i) = TableRow(s)
          /\ s \in Ids /\ Holds(s, q)
    BY <1>6, LiveRow
  <2>2. s = r /\ q = p
    BY <1>6, <2>1
  <2>3. Holds(r, p) /\ RowPosition(i) = p /\ BlockOf(RowTable(i), p) = BlockOf(block_table[r], p)
    BY <2>1, <2>2, RowBlock
  <2>4. i \in Writers(StepRows, table, BlockOf(block_table[r], p), OffsetOf(p))
    BY <1>2, <2>3 DEF Writers
  <2>5. \A j \in Writers(StepRows, table, BlockOf(block_table[r], p), OffsetOf(p)) : j = i
    BY <1>4, <1>6, <2>3, LiveDistinct
  <2>6. Writers(StepRows, table, BlockOf(block_table[r], p), OffsetOf(p)) = {i}
    BY <2>4, <2>5
  <2>7. device.ids[i] = <<r, p>> /\ device.positions[i] = p
    BY <1>2, <1>6, <2>3
  <2>8. <<r, p>>[2] = p
    OBVIOUS
  <2> QED BY <1>3, <2>3, <2>6, <2>7, <2>8, ScatterWrites
<1> HIDE DEF pool
<1> QED BY <1>1, <1>5, <1>6 DEF pool

-----------------------------------------------------------------------------
(***************************************************************************)
(* The copies.                                                             *)
(***************************************************************************)
LEMMA CopiesIds ==
  ASSUME host \in Inputs, device \in Inputs, NEW rows, DoCopy(Copy("ids", rows))
  PROVE  /\ device' \in Inputs
         /\ device'.positions = device.positions /\ device'.seq_lens = device.seq_lens
         /\ device'.tables = device.tables
         /\ \A i \in InputRows : i <= rows => device'.ids[i] = host.ids[i]
<1> DEFINE new == [i \in InputRows |-> IF i <= rows THEN host.ids[i] ELSE device.ids[i]]
<1>1. /\ DOMAIN device.ids = InputRows
      /\ host.ids \in [InputRows -> Pair] /\ device.ids \in [InputRows -> Pair]
  BY DEF Inputs
<1>2. device' = [device EXCEPT !.ids = new]
  BY <1>1 DEF DoCopy, Copy
<1>3. new \in [InputRows -> Pair]
  BY <1>1
<1>4. \A i \in InputRows : i <= rows => new[i] = host.ids[i]
  OBVIOUS
<1> HIDE DEF new
<1> QED BY <1>2, <1>3, <1>4 DEF Inputs

LEMMA CopiesPositions ==
  ASSUME host \in Inputs, device \in Inputs, NEW rows, DoCopy(Copy("positions", rows))
  PROVE  /\ device' \in Inputs
         /\ device'.ids = device.ids /\ device'.seq_lens = device.seq_lens
         /\ device'.tables = device.tables
         /\ \A i \in InputRows : i <= rows => device'.positions[i] = host.positions[i]
<1> DEFINE new == [i \in InputRows |-> IF i <= rows THEN host.positions[i] ELSE device.positions[i]]
<1>1. /\ DOMAIN device.positions = InputRows
      /\ host.positions \in [InputRows -> Nat] /\ device.positions \in [InputRows -> Nat]
  BY DEF Inputs
<1>2. device' = [device EXCEPT !.positions = new]
  BY <1>1 DEF DoCopy, Copy
<1>3. new \in [InputRows -> Nat]
  BY <1>1
<1>4. \A i \in InputRows : i <= rows => new[i] = host.positions[i]
  OBVIOUS
<1> HIDE DEF new
<1> QED BY <1>2, <1>3, <1>4 DEF Inputs

LEMMA CopiesLens ==
  ASSUME host \in Inputs, device \in Inputs, NEW rows, DoCopy(Copy("seq_lens", rows))
  PROVE  /\ device' \in Inputs
         /\ device'.ids = device.ids /\ device'.positions = device.positions
         /\ device'.tables = device.tables
         /\ \A i \in BatchRows : i <= rows => device'.seq_lens[i] = host.seq_lens[i]
<1> DEFINE new == [i \in BatchRows |-> IF i <= rows THEN host.seq_lens[i] ELSE device.seq_lens[i]]
<1>1. /\ DOMAIN device.seq_lens = BatchRows
      /\ host.seq_lens \in [BatchRows -> Nat] /\ device.seq_lens \in [BatchRows -> Nat]
  BY DEF Inputs
<1>2. device' = [device EXCEPT !.seq_lens = new]
  BY <1>1 DEF DoCopy, Copy
<1>3. new \in [BatchRows -> Nat]
  BY <1>1
<1>4. \A i \in BatchRows : i <= rows => new[i] = host.seq_lens[i]
  OBVIOUS
<1> HIDE DEF new
<1> QED BY <1>2, <1>3, <1>4 DEF Inputs

LEMMA CopiesTables ==
  ASSUME host \in Inputs, device \in Inputs, NEW rows, DoCopy(Copy("tables", rows))
  PROVE  /\ device' \in Inputs
         /\ device'.ids = device.ids /\ device'.positions = device.positions
         /\ device'.seq_lens = device.seq_lens
         /\ \A i \in BatchRows : i <= rows => device'.tables[i] = host.tables[i]
<1> DEFINE row == [1 .. max_blocks_per_seq -> 0 .. usable_blocks]
           new == [i \in BatchRows |-> IF i <= rows THEN host.tables[i] ELSE device.tables[i]]
<1>1. /\ DOMAIN device.tables = BatchRows
      /\ host.tables \in [BatchRows -> row] /\ device.tables \in [BatchRows -> row]
  BY DEF Inputs
<1>2. device' = [device EXCEPT !.tables = new]
  BY <1>1 DEF DoCopy, Copy
<1>3. new \in [BatchRows -> row]
  <2> HIDE DEF row
  <2> QED BY <1>1
<1>4. \A i \in BatchRows : i <= rows => new[i] = host.tables[i]
  OBVIOUS
<1> HIDE DEF new
<1> QED BY <1>2, <1>3, <1>4 DEF Inputs

-----------------------------------------------------------------------------
(***************************************************************************)
(* The device's side of a step.                                            *)
(***************************************************************************)
LEMMA NextTask ==
  ASSUME ExecInv, DeviceRuns
  PROVE  /\ stage = "launched" /\ pc = "planned" /\ CallsExecutor
         /\ \E n \in 0 .. Len(StepWork) - 1 :
              /\ DeviceAt(n) /\ Head(stream) = StepWork[n + 1]
              /\ stream' = SubSeq(StepWork, (n + 1) + 1, Len(StepWork))
<1>1. stream # <<>> /\ stream' = Tail(stream)
  BY DEF DeviceRuns
<1>2. stage = "launched" /\ pc = "planned" /\ CallsExecutor
  BY <1>1 DEF ExecInv, ExecTypeOK
<1>3. PICK n \in 0 .. Len(StepWork) : DeviceAt(n)
  BY <1>2 DEF ExecInv
<1>4. stream = SubSeq(StepWork, n + 1, Len(StepWork))
  BY <1>3 DEF DeviceAt
<1>5. PICK T : StepWork \in Seq(T)
  BY WorkLength
<1>6. Len(StepWork) \in Nat
  BY WorkLength
<1>7. n # Len(StepWork)
  <2>1. ASSUME n = Len(StepWork) PROVE FALSE
    <3>1. SubSeq(StepWork, n + 1, Len(StepWork)) = <<>>
      BY <1>5, <1>6, <2>1, SubSeqEmpty
    <3> QED BY <1>1, <1>4, <3>1
  <2> QED BY <2>1
<1>8. n \in 0 .. Len(StepWork) - 1 /\ n + 1 \in 1 .. Len(StepWork)
  BY <1>6, <1>7
<1>9. Head(stream) = StepWork[n + 1] /\ Tail(stream) = SubSeq(StepWork, (n + 1) + 1, Len(StepWork))
  <2>1. Len(StepWork) \in n + 1 .. Len(StepWork)
    BY <1>6, <1>8
  <2> QED BY <1>4, <1>5, <1>8, <2>1, HeadTailOfSubSeq
<1> QED BY <1>1, <1>2, <1>3, <1>8, <1>9

LEMMA DeviceAdvances ==
  ASSUME ExecInv, DeviceRuns, NEW n \in 0 .. Len(StepWork) - 1,
         ExecTypeOK', ContextIntact', DeviceAt(n + 1)'
  PROVE  ExecInv'
<1>1. stage = "launched" /\ pc = "planned" /\ CallsExecutor
  BY NextTask
<1>2. UNCHANGED schedVars /\ UNCHANGED <<stage, host>>
  BY DEF DeviceRuns
<1>3. IdsIn(host)' /\ PositionsIn(host)' /\ LensIn(host)' /\ TablesIn(host)'
  BY <1>1, <1>2, PlanFrame DEF ExecInv, IdsIn, PositionsIn, LensIn, TablesIn
<1>4. pc' = "planned" /\ CallsExecutor' /\ StepWork' = StepWork /\ stage' = "launched"
  BY <1>1, <1>2, PlanFrame
<1>5. n + 1 \in 0 .. Len(StepWork)'
  BY <1>4, WorkLength
<1>6. \E m \in 0 .. Len(StepWork)' : DeviceAt(m)'
  BY <1>5
<1> QED BY <1>3, <1>4, <1>6 DEF ExecInv, SampledFromOwnContext

LEMMA StepRowsIndexed ==
  ASSUME SchedInv, PlanInv, pc = "planned", CallsExecutor
  PROVE  /\ StepRows \in Nat \ {0} /\ 1 .. StepRows \subseteq InputRows
         /\ ~is_prefill => 1 .. StepRows \subseteq BatchRows
<1>1. MaxBatch \in Nat /\ PrefillChunk \in Nat
  BY SchedulerAssumption
<1>2. CASE is_prefill
  <2>1. StepRows \in 1 .. PrefillChunk
    BY <1>2, PlannedPrefill
  <2>2. 1 .. StepRows \subseteq 1 .. PrefillChunk
    BY <1>1, <2>1
  <2> QED BY <1>1, <1>2, <2>1, <2>2, RowsIndexed
<1>3. CASE ~is_prefill
  <2>1. Len(plan.decode) \in 1 .. MaxBatch /\ StepRows \in Len(plan.decode) .. MaxBatch
    BY <1>3, PlannedDecode DEF CallsExecutor
  <2>2. StepRows \in Nat \ {0} /\ 1 .. StepRows \subseteq BatchRows
    BY <1>1, <2>1 DEF BatchRows
  <2> QED BY <2>2, RowsIndexed
<1> QED BY <1>2, <1>3

\* A buffer stays as it was, or is now what the mirror holds.
LEMMA InputsNext ==
  ASSUME UNCHANGED schedVars
  PROVE  /\ IdsIn(device) /\ device'.ids = device.ids => IdsIn(device)'
         /\ PositionsIn(device) /\ device'.positions = device.positions => PositionsIn(device)'
         /\ LensIn(device) /\ device'.seq_lens = device.seq_lens => LensIn(device)'
         /\ TablesIn(device) /\ device'.tables = device.tables => TablesIn(device)'
         /\ IdsIn(host) /\ (\A i \in 1 .. StepRows : device'.ids[i] = host.ids[i]) => IdsIn(device)'
         /\ PositionsIn(host) /\ (\A i \in 1 .. StepRows : device'.positions[i] = host.positions[i])
              => PositionsIn(device)'
         /\ LensIn(host) /\ (\A i \in 1 .. StepRows : device'.seq_lens[i] = host.seq_lens[i])
              => LensIn(device)'
         /\ TablesIn(host)
              /\ (\A i \in 1 .. (IF is_prefill THEN 1 ELSE StepRows) : device'.tables[i] = host.tables[i])
              => TablesIn(device)'
<1>1. IdsIn(device) /\ device'.ids = device.ids => IdsIn(device)'
  BY PlanFrame DEF IdsIn
<1>2. PositionsIn(device) /\ device'.positions = device.positions => PositionsIn(device)'
  BY PlanFrame DEF PositionsIn
<1>3. LensIn(device) /\ device'.seq_lens = device.seq_lens => LensIn(device)'
  BY PlanFrame DEF LensIn
<1>4. TablesIn(device) /\ device'.tables = device.tables => TablesIn(device)'
  BY PlanFrame DEF TablesIn
<1>5. IdsIn(host) /\ (\A i \in 1 .. StepRows : device'.ids[i] = host.ids[i]) => IdsIn(device)'
  BY PlanFrame DEF IdsIn
<1>6. PositionsIn(host) /\ (\A i \in 1 .. StepRows : device'.positions[i] = host.positions[i])
        => PositionsIn(device)'
  BY PlanFrame DEF PositionsIn
<1>7. LensIn(host) /\ (\A i \in 1 .. StepRows : device'.seq_lens[i] = host.seq_lens[i]) => LensIn(device)'
  BY PlanFrame DEF LensIn
<1>8. TablesIn(host)
        /\ (\A i \in 1 .. (IF is_prefill THEN 1 ELSE StepRows) : device'.tables[i] = host.tables[i])
        => TablesIn(device)'
  BY PlanFrame DEF TablesIn
<1> QED BY <1>1, <1>2, <1>3, <1>4, <1>5, <1>6, <1>7, <1>8

LEMMA ExecCopy ==
  ASSUME SchedInv, PlanInv, ExecInv, DeviceRuns, NEW n \in 0 .. Len(StepWork) - 1, n < Uploads,
         DeviceAt(n), Head(stream) = StepWork[n + 1],
         stream' = SubSeq(StepWork, (n + 1) + 1, Len(StepWork))
  PROVE  ExecInv'
<1>1. /\ pc = "planned" /\ CallsExecutor /\ ExecTypeOK /\ ContextIntact
      /\ IdsIn(host) /\ PositionsIn(host) /\ LensIn(host) /\ TablesIn(host)
  BY NextTask DEF ExecInv
<1>2. UNCHANGED schedVars /\ UNCHANGED <<stage, host>>
  BY DEF DeviceRuns
<1>3. host \in Inputs /\ device \in Inputs
  BY <1>1 DEF ExecTypeOK
<1>4. /\ StepRows \in Nat \ {0} /\ 1 .. StepRows \subseteq InputRows
      /\ ~is_prefill => 1 .. StepRows \subseteq BatchRows
      /\ 1 \in BatchRows
  BY <1>1, StepRowsIndexed, RowsIndexed
<1>5. /\ Len(StepWork) \in Nat /\ Uploads \in 3 .. 4 /\ Len(StepWork) > Uploads
      /\ StepWork' = StepWork /\ Uploads' = Uploads /\ n \in Nat
  BY <1>2, WorkLength, PlanFrame
<1>6. SUFFICES /\ \E task \in {"ids", "positions", "seq_lens", "tables"} : \E rows :
                      Head(stream) = Copy(task, rows)
               /\ DoCopy(Head(stream)) =>
                    /\ device' \in Inputs
                    /\ IdsIn(device)'
                    /\ n + 1 >= 2 => PositionsIn(device)'
                    /\ n + 1 >= 3 => LensIn(device)'
                    /\ n + 1 >= Uploads => TablesIn(device)'
  <2>1. DoCopy(Head(stream))
    <3>1. PICK task, rows : Head(stream) = Copy(task, rows)
      BY <1>6
    <3>2. Head(stream).op = "h2d"
      BY <3>1 DEF Copy
    <3> QED BY <3>2 DEF DeviceRuns
  <2>2. UNCHANGED <<d_argmax, h_argmax, kv_pool>>
    BY <2>1 DEF DoCopy
  <2>3. ExecTypeOK'
    BY <1>1, <1>2, <1>6, <2>1, <2>2 DEF ExecTypeOK
  <2>4. ContextIntact'
    BY <1>1, <1>2, <2>2, ContextHostStep
  <2>5. ~(n + 1 >= Uploads + 1) /\ ~(n + 1 >= Uploads + 2) /\ n + 1 # Len(StepWork)
    BY <1>5
  <2>6. DeviceAt(n + 1)'
    BY <1>5, <1>6, <2>1, <2>5 DEF DeviceAt
  <2> QED BY <2>3, <2>4, <2>6, DeviceAdvances
<1>7. \A i \in 1 .. StepRows : i \in InputRows /\ i <= StepRows /\ (~is_prefill => i \in BatchRows)
  BY <1>4
<1>8. CASE n = 0
  <2>1. Head(stream) = Copy("ids", StepRows)
    <3>1. StepWork[1] = Copy("ids", StepRows)
      BY DecodeWork, PrefillWork
    <3> QED BY <1>8, <3>1
  <2>2. ASSUME DoCopy(Head(stream)) PROVE device' \in Inputs /\ IdsIn(device)'
    <3>1. device' \in Inputs /\ \A i \in 1 .. StepRows : device'.ids[i] = host.ids[i]
      BY <1>3, <1>7, <2>1, <2>2, CopiesIds
    <3> QED BY <1>1, <1>2, <3>1, InputsNext
  <2> QED BY <1>5, <1>8, <2>1, <2>2
<1>9. CASE n = 1
  <2>1. Head(stream) = Copy("positions", StepRows)
    <3>1. StepWork[2] = Copy("positions", StepRows)
      BY DecodeWork, PrefillWork
    <3> QED BY <1>9, <3>1
  <2>2. ASSUME DoCopy(Head(stream)) PROVE device' \in Inputs /\ IdsIn(device)' /\ PositionsIn(device)'
    <3>1. /\ device' \in Inputs /\ device'.ids = device.ids
          /\ \A i \in 1 .. StepRows : device'.positions[i] = host.positions[i]
      BY <1>3, <1>7, <2>1, <2>2, CopiesPositions
    <3>2. IdsIn(device)
      BY <1>9 DEF DeviceAt
    <3> QED BY <1>1, <1>2, <3>1, <3>2, InputsNext
  <2> QED BY <1>5, <1>9, <2>1, <2>2
<1>10. CASE n >= 2
  <2>1. IdsIn(device) /\ PositionsIn(device)
    BY <1>5, <1>10 DEF DeviceAt
  <2>2. CASE ~is_prefill /\ n = 2
    <3>1. Head(stream) = Copy("seq_lens", StepRows) /\ Uploads = 4
      BY <2>2, DecodeWork
    <3>2. ASSUME DoCopy(Head(stream))
          PROVE  device' \in Inputs /\ IdsIn(device)' /\ PositionsIn(device)' /\ LensIn(device)'
      <4>1. /\ device' \in Inputs /\ device'.ids = device.ids /\ device'.positions = device.positions
            /\ \A i \in 1 .. StepRows : device'.seq_lens[i] = host.seq_lens[i]
        BY <1>3, <1>7, <2>2, <3>1, <3>2, CopiesLens
      <4> QED BY <1>1, <1>2, <2>1, <4>1, InputsNext
    <3> QED BY <2>2, <3>1, <3>2
  <2>3. CASE is_prefill \/ n # 2
    <3>1. n + 1 = Uploads
      <4>1. is_prefill => Uploads = 3
        BY DEF Uploads
      <4> QED BY <1>5, <1>10, <2>3, <4>1
    <3>2. PICK rows : /\ Head(stream) = Copy("tables", rows)
                      /\ rows = IF is_prefill THEN 1 ELSE StepRows
      <4>1. CASE is_prefill
        BY <3>1, <4>1, PrefillWork
      <4>2. CASE ~is_prefill
        BY <3>1, <4>2, DecodeWork
      <4> QED BY <4>1, <4>2
    <3>3. LensIn(device)
      <4>1. n >= 3 \/ is_prefill
        BY <1>5, <1>10, <2>3
      <4> QED BY <4>1 DEF DeviceAt, LensIn
    <3>4. ASSUME DoCopy(Head(stream))
          PROVE  /\ device' \in Inputs /\ IdsIn(device)' /\ PositionsIn(device)'
                 /\ LensIn(device)' /\ TablesIn(device)'
      <4>1. /\ device' \in Inputs /\ device'.ids = device.ids /\ device'.positions = device.positions
            /\ device'.seq_lens = device.seq_lens
            /\ \A i \in BatchRows : i <= rows => device'.tables[i] = host.tables[i]
        BY <1>3, <3>2, <3>4, CopiesTables
      <4>2. \A i \in 1 .. (IF is_prefill THEN 1 ELSE StepRows) : i \in BatchRows /\ i <= rows
        BY <1>4, <1>7, <3>2
      <4>3. \A i \in 1 .. (IF is_prefill THEN 1 ELSE StepRows) : device'.tables[i] = host.tables[i]
        BY <4>1, <4>2
      <4> QED BY <1>1, <1>2, <2>1, <3>3, <4>1, <4>3, InputsNext
    <3> QED BY <3>2, <3>4
  <2> QED BY <2>2, <2>3
<1> QED BY <1>5, <1>8, <1>9, <1>10

-----------------------------------------------------------------------------
(***************************************************************************)
(* The forward pass and the download.                                      *)
(***************************************************************************)
LEMMA RowAttends ==
  ASSUME SchedInv, PlanInv, NEW pool, NEW r \in Ids, NEW n \in Nat,
         \A p \in 0 .. n - 1 : Holds(r, p) /\ pool[BlockOf(block_table[r], p)][OffsetOf(p)] = <<r, p>>
  PROVE  Attends(pool, TableRow(r), n, r)
<1> SUFFICES ASSUME NEW p \in 0 .. n - 1
             PROVE  pool[BlockOf(TableRow(r), p)][OffsetOf(p)] = <<r, p>>
  BY DEF Attends
<1>1. Holds(r, p) /\ pool[BlockOf(block_table[r], p)][OffsetOf(p)] = <<r, p>>
  OBVIOUS
<1>2. BlockOf(TableRow(r), p) = BlockOf(block_table[r], p)
  BY <1>1, RowBlock
<1> QED BY <1>1, <1>2

LEMMA SampledType ==
  ASSUME device \in Inputs, NEW pool, NEW i \in InputRows, NEW table, NEW n \in Nat
  PROVE  Sampled(pool, i, table, n) \in Pair
<1>1. device.ids[i] \in Nat \X Nat
  BY DEF Inputs, Pair
<1>2. device.ids[i][1] \in Nat
  BY <1>1
<1>3. <<device.ids[i][1], n>> \in Pair /\ Junk \in Pair
  BY <1>2 DEF Pair, Junk
<1> QED BY <1>3 DEF Sampled

LEMMA SampledOwn ==
  ASSUME NEW pool, NEW i, NEW r, NEW n \in Nat \ {0}, NEW table,
         device.ids[i] = <<r, n - 1>>, Attends(pool, table, n, r)
  PROVE  Sampled(pool, i, table, n) = <<r, n>>
<1>1. device.ids[i][1] = r
  OBVIOUS
<1> QED BY <1>1 DEF Sampled

\* What holds after the compute task, in terms of the pool it leaves.
LEMMA ComputeDone ==
  ASSUME SchedInv, PlanInv, UNCHANGED schedVars,
         \A r \in Admitted : \A p \in Written(r) :
           kv_pool'[BlockOf(block_table[r], p)][OffsetOf(p)] = <<r, p>>
  PROVE  ContextIntact'
BY PlanFrame DEF ContextIntact, Cached, BlockOf, OffsetOf

LEMMA ExecDecode ==
  ASSUME SchedInv, PlanInv, ExecInv, DeviceRuns, ~is_prefill,
         NEW n \in 0 .. Len(StepWork) - 1, n = Uploads, DeviceAt(n),
         Head(stream) = StepWork[n + 1],
         stream' = SubSeq(StepWork, (n + 1) + 1, Len(StepWork))
  PROVE  ExecInv'
<1>1. pc = "planned" /\ CallsExecutor /\ ExecTypeOK /\ ContextIntact
  BY NextTask DEF ExecInv
<1>2. UNCHANGED schedVars /\ UNCHANGED <<stage, host>>
  BY DEF DeviceRuns
<1>3. Uploads = 4 /\ n = 4 /\ Len(StepWork) = 6 /\ Head(stream) = [op |-> "decode", rows |-> StepRows]
  BY DecodeWork
<1> DEFINE pool == KvScatter(StepRows, device.tables)
           token(i) == Sampled(pool, i, device.tables[i], device.seq_lens[i])
<1>4. DoDecode(Head(stream))
  <2>1. Head(stream).op = "decode"
    BY <1>3
  <2> QED BY <2>1 DEF DeviceRuns
<1>5. /\ kv_pool' = pool
      /\ d_argmax' = [i \in BatchRows |-> IF i <= StepRows THEN token(i) ELSE d_argmax[i]]
      /\ UNCHANGED <<device, h_argmax>>
  <2>1. Head(stream).rows = StepRows
    BY <1>3
  <2> QED BY <1>4, <2>1 DEF DoDecode
<1>6. IdsIn(device) /\ PositionsIn(device) /\ LensIn(device) /\ TablesIn(device)
  BY <1>3 DEF DeviceAt
<1>7. /\ device \in Inputs /\ kv_pool \in Pool /\ d_argmax \in [BatchRows -> Pair]
  BY <1>1 DEF ExecTypeOK, Pool
<1>8. StepRows \in Nat \ {0} /\ 1 .. StepRows \subseteq InputRows /\ 1 .. StepRows \subseteq BatchRows
  BY <1>1, StepRowsIndexed
<1>9. /\ \A i \in 1 .. StepRows : device.tables[i] = RowTable(i) /\ device.seq_lens[i] = RowLen(i)
      /\ \A i \in 1 .. StepRows : device.ids[i] = RowToken(i)
  BY <1>6 DEF TablesIn, LensIn, IdsIn
<1>10. /\ pool \in Pool
       /\ \A r \in Admitted : \A p \in Written(r) :
            pool[BlockOf(block_table[r], p)][OffsetOf(p)] = <<r, p>>
       /\ \A i \in 1 .. StepRows : Live(i) => \A r \in Ids : \A p \in Nat :
            RowToken(i) = <<r, p>> => pool[BlockOf(block_table[r], p)][OffsetOf(p)] = <<r, p>>
  BY <1>1, <1>6, <1>7, <1>8, <1>9, StepScatters
<1> HIDE DEF pool
<1>11. /\ Len(plan.decode) \in Nat /\ StepRows >= Len(plan.decode)
       /\ \A k \in 1 .. Len(plan.decode) :
            /\ plan.decode[k] \in Ids /\ state[plan.decode[k]] = "running"
            /\ seq_len(plan.decode[k]) \in Nat \ {0}
            /\ \A p \in 0 .. seq_len(plan.decode[k]) - 1 : Holds(plan.decode[k], p)
  <2>1. plan.decode # <<>>
    BY <1>1 DEF CallsExecutor
  <2>2. /\ Len(plan.decode) \in 1 .. MaxBatch
        /\ StepRows \in Len(plan.decode) .. MaxBatch
        /\ \A k \in 1 .. Len(plan.decode) :
             /\ plan.decode[k] \in Ids /\ state[plan.decode[k]] = "running"
             /\ seq_len(plan.decode[k]) \in Nat \ {0}
             /\ \A p \in 0 .. seq_len(plan.decode[k]) - 1 : Holds(plan.decode[k], p)
    BY <1>1, <2>1, PlannedDecode
  <2>3. Len(plan.decode) \in Nat /\ StepRows >= Len(plan.decode)
    BY <2>2, SchedulerAssumption
  <2> QED BY <2>2, <2>3
<1>12. ASSUME NEW k \in 1 .. Len(plan.decode)
       PROVE  LET r == plan.decode[k] IN
              /\ pool[BlockOf(block_table[r], seq_len(r) - 1)][OffsetOf(seq_len(r) - 1)]
                   = <<r, seq_len(r) - 1>>
              /\ token(k) = <<r, seq_len(r)>>
              /\ k \in BatchRows /\ k <= StepRows
  <2>1. PICK r \in Ids : /\ r = plan.decode[k] /\ state[r] = "running" /\ seq_len(r) \in Nat \ {0}
                         /\ \A p \in 0 .. seq_len(r) - 1 : Holds(r, p)
    BY <1>11
  <2>2. k \in 1 .. StepRows /\ k \in BatchRows /\ k <= StepRows /\ k <= Len(plan.decode)
    BY <1>8, <1>11
  <2>3. RowToken(k) = <<r, seq_len(r) - 1>> /\ RowTable(k) = TableRow(r) /\ RowLen(k) = seq_len(r)
    BY <2>1, <2>2 DEF RowToken, RowTable, RowLen
  <2>4. pool[BlockOf(block_table[r], seq_len(r) - 1)][OffsetOf(seq_len(r) - 1)] = <<r, seq_len(r) - 1>>
    <3>1. Live(k) /\ seq_len(r) - 1 \in Nat
      BY <2>1, <2>2 DEF Live
    <3> QED BY <1>10, <2>2, <2>3, <3>1
  <2>5. ASSUME NEW p \in 0 .. seq_len(r) - 1
        PROVE  Holds(r, p) /\ pool[BlockOf(block_table[r], p)][OffsetOf(p)] = <<r, p>>
    <3>1. r \in Admitted
      BY <2>1 DEF Admitted
    <3>2. p = seq_len(r) - 1 \/ p \in 0 .. seq_len(r) - 2
      BY <2>1
    <3>3. Written(r) = 0 .. seq_len(r) - 2
      BY <2>1 DEF Written
    <3> QED BY <1>10, <2>1, <2>4, <3>1, <3>2, <3>3
  <2>6. Attends(pool, TableRow(r), seq_len(r), r)
    BY <2>1, <2>5, RowAttends
  <2>7. device.ids[k] = <<r, seq_len(r) - 1>> /\ device.tables[k] = TableRow(r) /\ device.seq_lens[k] = seq_len(r)
    BY <1>9, <2>2, <2>3
  <2>8. token(k) = <<r, seq_len(r)>>
    BY <2>1, <2>6, <2>7, SampledOwn
  <2> QED BY <2>1, <2>2, <2>4, <2>8
<1>13. ASSUME NEW i \in BatchRows PROVE token(i) \in Pair
  <2>1. i \in InputRows /\ device.seq_lens[i] \in Nat
    BY <1>7, RowsIndexed DEF Inputs
  <2> QED BY <1>7, <2>1, SampledType
<1> HIDE DEF token
<1>14. d_argmax' \in [BatchRows -> Pair]
  BY <1>5, <1>7, <1>13
<1>15. ExecTypeOK'
  BY <1>1, <1>2, <1>5, <1>10, <1>14 DEF ExecTypeOK, Pool
<1>16. ContextIntact'
  BY <1>2, <1>5, <1>10, ComputeDone
<1>17. /\ plan' = plan /\ is_prefill' = is_prefill /\ block_table' = block_table
       /\ \A r : seq_len(r)' = seq_len(r)
       /\ StepWork' = StepWork /\ Uploads' = Uploads
  BY <1>2, PlanFrame DEF seq_len, num_prompt_tokens
<1>18. Scattered(1)'
  <2>1. ASSUME NEW k \in 1 .. Len(plan.decode)
        PROVE  Cached(plan.decode[k], seq_len(plan.decode[k]) - 1)'
    <3>1. LET r == plan.decode[k] IN
            kv_pool'[BlockOf(block_table[r], seq_len(r) - 1)][OffsetOf(seq_len(r) - 1)]
              = <<r, seq_len(r) - 1>>
      BY <1>5, <1>12
    <3> QED BY <1>17, <3>1 DEF Cached, BlockOf, OffsetOf
  <2> QED BY <1>17, <2>1 DEF Scattered
<1>19. TokensIn(d_argmax, 1)'
  <2>1. ASSUME NEW k \in 1 .. Len(plan.decode)
        PROVE  d_argmax'[k] = <<plan.decode[k], seq_len(plan.decode[k])>>
    BY <1>5, <1>12
  <2> QED BY <1>17, <2>1 DEF TokensIn
<1>20. IdsIn(device)' /\ PositionsIn(device)' /\ LensIn(device)' /\ TablesIn(device)'
  BY <1>2, <1>5, <1>6, InputsNext
<1>21. DeviceAt(n + 1)'
  <2>1. /\ n + 1 >= 1 /\ n + 1 >= 2 /\ n + 1 >= 3 /\ n + 1 >= Uploads'
        /\ ~(n + 1 >= Uploads' + 2) /\ n + 1 # Len(StepWork')
    BY <1>3, <1>17
  <2>2. stream' = SubSeq(StepWork', (n + 1) + 1, Len(StepWork'))
    BY <1>17
  <2> QED BY <1>18, <1>19, <1>20, <2>1, <2>2 DEF DeviceAt
<1> QED BY <1>15, <1>16, <1>21, DeviceAdvances

LEMMA ExecPrefill ==
  ASSUME SchedInv, PlanInv, ExecInv, DeviceRuns, is_prefill,
         NEW n \in 0 .. Len(StepWork) - 1, n = Uploads, DeviceAt(n),
         Head(stream) = StepWork[n + 1],
         stream' = SubSeq(StepWork, (n + 1) + 1, Len(StepWork))
  PROVE  ExecInv'
<1> DEFINE final == plan.end = num_prompt_tokens(plan.prefill)
           table == [i \in 1 .. StepRows |-> device.tables[1]]
           pool == KvScatter(StepRows, table)
           token == Sampled(pool, StepRows, device.tables[1], plan.end)
<1>1. pc = "planned" /\ CallsExecutor /\ ExecTypeOK /\ ContextIntact
  BY NextTask DEF ExecInv
<1>2. UNCHANGED schedVars /\ UNCHANGED <<stage, host>>
  BY DEF DeviceRuns
<1>3. /\ Uploads = 3 /\ n = 3 /\ Len(StepWork) = (IF final THEN 5 ELSE 4)
      /\ Head(stream) = [op |-> "prefill", rows |-> StepRows, ctx |-> plan.end, final_chunk |-> final]
  BY PrefillWork
<1>4. DoPrefill(Head(stream))
  <2>1. Head(stream).op = "prefill"
    BY <1>3
  <2> QED BY <2>1 DEF DeviceRuns
<1>5. /\ kv_pool' = pool
      /\ d_argmax' = IF final THEN [d_argmax EXCEPT ![1] = token] ELSE d_argmax
      /\ UNCHANGED <<device, h_argmax>>
  <2>1. /\ Head(stream).rows = StepRows /\ Head(stream).ctx = plan.end
        /\ Head(stream).final_chunk = final
    BY <1>3
  <2> QED BY <1>4, <2>1 DEF DoPrefill
<1>6. IdsIn(device) /\ PositionsIn(device) /\ LensIn(device) /\ TablesIn(device)
  BY <1>3 DEF DeviceAt
<1>7. device \in Inputs /\ kv_pool \in Pool /\ d_argmax \in [BatchRows -> Pair]
  BY <1>1 DEF ExecTypeOK, Pool
<1>8. StepRows \in Nat \ {0} /\ 1 .. StepRows \subseteq InputRows
  BY <1>1, StepRowsIndexed
<1>9. PICK r \in Ids :
        /\ r = plan.prefill /\ state[r] = "prefill" /\ plan.begin = prefill_progress[r]
        /\ plan.begin \in Nat /\ plan.end \in Nat /\ plan.begin < plan.end
        /\ StepRows = plan.end - plan.begin
        /\ \A p \in 0 .. plan.end - 1 : Holds(r, p)
  BY <1>1, PlannedPrefill
<1>10. device.tables[1] = TableRow(r) /\ \A i : RowTable(i) = TableRow(r)
  <2>1. \A i : RowTable(i) = TableRow(r)
    BY <1>9 DEF RowTable
  <2> QED BY <1>6, <2>1 DEF TablesIn
<1>11. \A i \in 1 .. StepRows : table[i] = RowTable(i)
  BY <1>10
<1> HIDE DEF table
<1>12. /\ pool \in Pool
       /\ \A q \in Admitted : \A p \in Written(q) :
            pool[BlockOf(block_table[q], p)][OffsetOf(p)] = <<q, p>>
       /\ \A i \in 1 .. StepRows : Live(i) => \A q \in Ids : \A p \in Nat :
            RowToken(i) = <<q, p>> => pool[BlockOf(block_table[q], p)][OffsetOf(p)] = <<q, p>>
  BY <1>1, <1>6, <1>7, <1>8, <1>11, StepScatters
<1> HIDE DEF pool
<1>13. ASSUME NEW p \in plan.begin .. plan.end - 1
       PROVE  pool[BlockOf(block_table[r], p)][OffsetOf(p)] = <<r, p>>
  <2>1. PICK i \in 1 .. StepRows : plan.begin + i - 1 = p
    <3>1. PICK b \in Nat : b = plan.begin
      BY <1>9
    <3>2. PICK e \in Nat : e = plan.end
      BY <1>9
    <3>3. p \in b .. e - 1 /\ StepRows = e - b
      BY <1>9, <3>1, <3>2
    <3>4. p - b + 1 \in 1 .. StepRows /\ b + (p - b + 1) - 1 = p
      BY <3>3
    <3> QED BY <3>1, <3>4
  <2>2. RowToken(i) = <<r, p>> /\ Live(i) /\ p \in Nat
    BY <1>9, <2>1 DEF RowToken, Live
  <2> QED BY <1>12, <2>1, <2>2
<1>14. ASSUME NEW p \in 0 .. plan.end - 1
       PROVE  Holds(r, p) /\ pool[BlockOf(block_table[r], p)][OffsetOf(p)] = <<r, p>>
  <2>1. r \in Admitted /\ Written(r) = 0 .. plan.begin - 1
    BY <1>9 DEF Admitted, Written
  <2>2. p \in plan.begin .. plan.end - 1 \/ p \in 0 .. plan.begin - 1
    BY <1>9
  <2> QED BY <1>9, <1>12, <1>13, <2>1, <2>2
<1>15. token = <<r, plan.end>> /\ token \in Pair
  <2>1. Attends(pool, TableRow(r), plan.end, r)
    BY <1>9, <1>14, RowAttends
  <2>2. StepRows \in 1 .. StepRows /\ plan.begin + StepRows - 1 = plan.end - 1
    BY <1>8, <1>9
  <2>3. device.ids[StepRows] = <<r, plan.end - 1>>
    BY <1>6, <1>9, <2>2 DEF IdsIn, RowToken
  <2>4. plan.end \in Nat \ {0}
    BY <1>9
  <2>5. token = <<r, plan.end>>
    BY <1>10, <2>1, <2>3, <2>4, SampledOwn
  <2>6. StepRows \in InputRows
    BY <1>8, <2>2
  <2> QED BY <1>7, <2>4, <2>5, <2>6, SampledType
<1> HIDE DEF token
<1>16. 1 \in BatchRows
  BY SchedulerAssumption DEF BatchRows
<1>17. d_argmax' \in [BatchRows -> Pair]
  BY <1>5, <1>7, <1>15, <1>16
<1>18. ExecTypeOK'
  BY <1>1, <1>2, <1>5, <1>12, <1>17 DEF ExecTypeOK, Pool
<1>19. ContextIntact'
  BY <1>2, <1>5, <1>12, ComputeDone
<1>20. /\ plan' = plan /\ is_prefill' = is_prefill /\ block_table' = block_table /\ param' = param
       /\ StepWork' = StepWork /\ Uploads' = Uploads
  BY <1>2, PlanFrame
<1>21. Scattered(1)'
  <2>1. ASSUME NEW p \in plan.begin .. plan.end - 1
        PROVE  Cached(plan.prefill, p)'
    <3>1. kv_pool'[BlockOf(block_table[r], p)][OffsetOf(p)] = <<r, p>>
      BY <1>5, <1>13
    <3> QED BY <1>9, <1>20, <3>1 DEF Cached, BlockOf, OffsetOf
  <2> QED BY <1>20, <2>1 DEF Scattered
<1>22. TokensIn(d_argmax, 1)'
  <2>1. ASSUME final PROVE d_argmax'[1] = <<plan.prefill, plan.end>>
    BY <1>5, <1>7, <1>9, <1>15, <1>16, <2>1
  <2>2. num_prompt_tokens(plan.prefill)' = num_prompt_tokens(plan.prefill)
    BY <1>20 DEF num_prompt_tokens
  <2> QED BY <1>20, <2>1, <2>2 DEF TokensIn
<1>23. IdsIn(device)' /\ PositionsIn(device)' /\ LensIn(device)' /\ TablesIn(device)'
  BY <1>2, <1>5, <1>6, InputsNext
<1>24. DeviceAt(n + 1)'
  <2>1. /\ n + 1 >= 1 /\ n + 1 >= 2 /\ n + 1 >= 3 /\ n + 1 >= Uploads'
        /\ ~(n + 1 >= Uploads' + 2) /\ (n + 1 = Len(StepWork') => ~final)
    BY <1>3, <1>20
  <2>2. stream' = SubSeq(StepWork', (n + 1) + 1, Len(StepWork'))
    BY <1>20
  <2>3. ~final => TokensIn(h_argmax, 1)'
    <3>1. num_prompt_tokens(plan.prefill)' = num_prompt_tokens(plan.prefill)
      BY <1>20 DEF num_prompt_tokens
    <3> QED BY <1>20, <3>1 DEF TokensIn
  <2> QED BY <1>21, <1>22, <1>23, <2>1, <2>2, <2>3 DEF DeviceAt
<1> QED BY <1>18, <1>19, <1>24, DeviceAdvances

LEMMA ExecDownload ==
  ASSUME SchedInv, PlanInv, ExecInv, DeviceRuns,
         NEW n \in 0 .. Len(StepWork) - 1, n = Uploads + 1, DeviceAt(n),
         Head(stream) = StepWork[n + 1],
         stream' = SubSeq(StepWork, (n + 1) + 1, Len(StepWork))
  PROVE  ExecInv'
<1>1. pc = "planned" /\ CallsExecutor /\ ExecTypeOK /\ ContextIntact
  BY NextTask DEF ExecInv
<1>2. UNCHANGED schedVars /\ UNCHANGED <<stage, host>>
  BY DEF DeviceRuns
<1>3. Len(StepWork) \in Nat /\ Uploads \in 3 .. 4 /\ Len(StepWork) = Uploads + 2
  <2>1. Len(StepWork) \in Nat /\ Uploads \in 3 .. 4 /\ Len(StepWork) <= Uploads + 2
    BY WorkLength
  <2> QED BY <2>1
<1>4. PICK rows : /\ Head(stream) = Download(rows)
                  /\ rows = IF is_prefill THEN 1 ELSE StepRows
  <2>1. CASE is_prefill
    <3>1. n + 1 = 5 /\ StepWork[5] = Download(1)
      BY <1>3, <2>1, PrefillWork
    <3> QED BY <2>1, <3>1
  <2>2. CASE ~is_prefill
    <3>1. n + 1 = 6 /\ StepWork[6] = Download(StepRows)
      BY <1>3, <2>2, DecodeWork
    <3> QED BY <2>2, <3>1
  <2> QED BY <2>1, <2>2
<1>5. DoDownload(Head(stream))
  <2>1. Head(stream).op = "d2h"
    BY <1>4 DEF Download
  <2> QED BY <2>1 DEF DeviceRuns
<1>6. /\ h_argmax' = [i \in BatchRows |-> IF i <= rows THEN d_argmax[i] ELSE h_argmax[i]]
      /\ UNCHANGED <<device, d_argmax, kv_pool>>
  <2>1. Head(stream).rows = rows
    BY <1>4 DEF Download
  <2> QED BY <1>5, <2>1 DEF DoDownload
<1>7. /\ IdsIn(device) /\ PositionsIn(device) /\ LensIn(device) /\ TablesIn(device)
      /\ Scattered(1) /\ TokensIn(d_argmax, 1)
  <2>1. n >= 1 /\ n >= 2 /\ n >= 3 /\ n >= Uploads /\ n >= Uploads + 1
    BY <1>3
  <2> QED BY <2>1 DEF DeviceAt
<1>8. ExecTypeOK'
  BY <1>1, <1>2, <1>6 DEF ExecTypeOK
<1>9. ContextIntact'
  BY <1>1, <1>2, <1>6, ContextHostStep
<1>10. /\ plan' = plan /\ is_prefill' = is_prefill /\ block_table' = block_table
       /\ \A r : seq_len(r)' = seq_len(r) /\ num_prompt_tokens(r)' = num_prompt_tokens(r)
       /\ StepWork' = StepWork /\ Uploads' = Uploads
  BY <1>2, PlanFrame DEF seq_len, num_prompt_tokens
<1>11. Scattered(1)' /\ TokensIn(d_argmax, 1)'
  BY <1>6, <1>7, <1>10 DEF Scattered, Cached, TokensIn, BlockOf, OffsetOf
<1>12. TokensIn(h_argmax, 1)'
  <2>1. CASE is_prefill
    <3>1. 1 \in BatchRows
      BY SchedulerAssumption DEF BatchRows
    <3>2. h_argmax'[1] = d_argmax[1]
      BY <1>4, <1>6, <2>1, <3>1
    <3> QED BY <1>7, <1>10, <2>1, <3>2 DEF TokensIn
  <2>2. CASE ~is_prefill
    <3>1. 1 .. StepRows \subseteq BatchRows /\ plan.decode # <<>> /\ rows = StepRows
      BY <1>1, <1>4, <2>2, StepRowsIndexed DEF CallsExecutor
    <3>2. /\ Len(plan.decode) \in Nat /\ StepRows \in Nat /\ Len(plan.decode) <= StepRows
      <4>1. Len(plan.decode) \in 1 .. MaxBatch /\ StepRows \in Len(plan.decode) .. MaxBatch
        BY <1>1, <2>2, <3>1, PlannedDecode
      <4> QED BY <4>1, SchedulerAssumption
    <3>3. \A k \in 1 .. Len(plan.decode) : k \in BatchRows /\ k <= rows
      BY <3>1, <3>2
    <3>4. \A k \in 1 .. Len(plan.decode) : h_argmax'[k] = d_argmax[k]
      BY <1>6, <3>3
    <3> QED BY <1>7, <1>10, <2>2, <3>4 DEF TokensIn
  <2> QED BY <2>1, <2>2
<1>13. IdsIn(device)' /\ PositionsIn(device)' /\ LensIn(device)' /\ TablesIn(device)'
  BY <1>2, <1>6, <1>7, InputsNext
<1>14. DeviceAt(n + 1)'
  <2>1. stream' = SubSeq(StepWork', (n + 1) + 1, Len(StepWork'))
    BY <1>10
  <2> QED BY <1>11, <1>12, <1>13, <2>1 DEF DeviceAt
<1> QED BY <1>8, <1>9, <1>14, DeviceAdvances

LEMMA ExecDeviceRuns ==
  ASSUME SchedInv, PlanInv, ExecInv, DeviceRuns
  PROVE  ExecInv'
<1>1. PICK n \in 0 .. Len(StepWork) - 1 :
        /\ DeviceAt(n) /\ Head(stream) = StepWork[n + 1]
        /\ stream' = SubSeq(StepWork, (n + 1) + 1, Len(StepWork))
  BY NextTask
<1>2. n < Uploads \/ n = Uploads \/ n = Uploads + 1
  BY WorkLength
<1>3. CASE n < Uploads
  BY <1>1, <1>3, ExecCopy
<1>4. CASE n = Uploads
  <2>1. CASE is_prefill
    BY <1>1, <1>4, <2>1, ExecPrefill
  <2>2. CASE ~is_prefill
    BY <1>1, <1>4, <2>2, ExecDecode
  <2> QED BY <2>1, <2>2
<1>5. CASE n = Uploads + 1
  BY <1>1, <1>5, ExecDownload
<1> QED BY <1>2, <1>3, <1>4, <1>5

-----------------------------------------------------------------------------
(***************************************************************************)
(* The theorems.                                                           *)
(***************************************************************************)
LEMMA ExecInitInv == ExecInit => ExecInv
<1> SUFFICES ASSUME ExecInit PROVE ExecInv
  OBVIOUS
<1>1. /\ stage = "none" /\ stream = <<>> /\ pc = "idle" /\ state = [r \in Ids |-> "none"]
      /\ host = InitialInputs /\ device = InitialInputs
      /\ h_argmax = [i \in BatchRows |-> Junk] /\ d_argmax = [i \in BatchRows |-> Junk]
      /\ kv_pool = [b \in 0 .. usable_blocks |-> [o \in 0 .. KvBlockSize - 1 |-> Junk]]
  BY DEF ExecInit, SchedInit
<1>2. Junk \in Pair
  BY DEF Junk, Pair
<1>3. DummyRow \in [1 .. max_blocks_per_seq -> 0 .. usable_blocks]
  <2>1. kDummyBlockId \in 0 .. usable_blocks
    BY TotalBlocksAssumption DEF kDummyBlockId, usable_blocks
  <2> QED BY <2>1 DEF DummyRow
<1>4. InitialInputs \in Inputs
  BY <1>2, <1>3 DEF InitialInputs, Inputs
<1>5. ExecTypeOK
  BY <1>1, <1>2, <1>4 DEF ExecTypeOK
<1>6. Admitted = {}
  BY <1>1 DEF Admitted
<1>7. ContextIntact
  BY <1>6 DEF ContextIntact
<1> QED BY <1>1, <1>5, <1>7 DEF ExecInv, SampledFromOwnContext

\* The executor changes the scheduler's state only through the scheduler's steps.
LEMMA ExecIsSched == [ExecNext]_execSchedVars => [SchedNext]_schedVars
<1> SUFFICES ASSUME [ExecNext]_execSchedVars PROVE [SchedNext]_schedVars
  OBVIOUS
<1>1. CASE UNCHANGED execSchedVars
  BY <1>1 DEF execSchedVars
<1>2. CASE SchedulerRuns
  BY <1>2 DEF SchedulerRuns, SchedNext, StepActions
<1>3. CASE FillMirrors \/ EnqueueStep \/ DeviceRuns
  BY <1>3 DEF FillMirrors, EnqueueStep, DeviceRuns
<1>4. CASE ExecutorReturns \/ GemmUnresolved \/ CudaFails
  BY <1>4 DEF ExecutorReturns, GemmUnresolved, CudaFails, SchedNext, StepActions
<1> QED BY <1>1, <1>2, <1>3, <1>4 DEF ExecNext

LEMMA ExecStutters ==
  ASSUME ExecInv, UNCHANGED execSchedVars
  PROVE  ExecInv'
<1>1. UNCHANGED schedVars /\ UNCHANGED <<stage, host, device, h_argmax, d_argmax, stream, kv_pool>>
  BY DEF execSchedVars, execVars
<1>2. /\ UNCHANGED <<pc, plan, results, param, state, output_tokens, prefill_progress, block_table>>
      /\ is_prefill' = is_prefill /\ CallsExecutor' = CallsExecutor
      /\ StepRows' = StepRows /\ StepWork' = StepWork /\ Uploads' = Uploads
      /\ \A i : /\ RowToken(i)' = RowToken(i) /\ RowPosition(i)' = RowPosition(i)
                /\ RowLen(i)' = RowLen(i) /\ RowTable(i)' = RowTable(i)
      /\ \A r : seq_len(r)' = seq_len(r) /\ num_prompt_tokens(r)' = num_prompt_tokens(r)
      /\ RowsDone' = RowsDone
  BY <1>1, PlanFrame DEF seq_len, num_prompt_tokens, RowsDone
<1>3. ExecTypeOK'
  BY <1>1 DEF ExecInv, ExecTypeOK
<1>4. ContextIntact'
  BY <1>1, ContextHostStep DEF ExecInv
<1>5. /\ IdsIn(host)' = IdsIn(host) /\ PositionsIn(host)' = PositionsIn(host)
      /\ LensIn(host)' = LensIn(host) /\ TablesIn(host)' = TablesIn(host)
      /\ IdsIn(device)' = IdsIn(device) /\ PositionsIn(device)' = PositionsIn(device)
      /\ LensIn(device)' = LensIn(device) /\ TablesIn(device)' = TablesIn(device)
  BY <1>1, <1>2 DEF IdsIn, PositionsIn, LensIn, TablesIn
<1>6. \A k : /\ Scattered(k)' = Scattered(k)
             /\ TokensIn(h_argmax, k)' = TokensIn(h_argmax, k)
             /\ TokensIn(d_argmax, k)' = TokensIn(d_argmax, k)
  BY <1>1, <1>2 DEF Scattered, Cached, TokensIn, BlockOf, OffsetOf
<1>7. \A n : DeviceAt(n) => DeviceAt(n)'
  BY <1>1, <1>2, <1>5, <1>6 DEF DeviceAt
<1>8. stage = "launched" => \E n \in 0 .. Len(StepWork)' : DeviceAt(n)'
  BY <1>2, <1>7 DEF ExecInv
<1>9. pc = "commit" => Scattered(RowsDone + 1)' /\ TokensIn(h_argmax, RowsDone + 1)'
  BY <1>2, <1>6 DEF ExecInv, SampledFromOwnContext
<1> QED BY <1>1, <1>2, <1>3, <1>4, <1>5, <1>8, <1>9 DEF ExecInv, SampledFromOwnContext

LEMMA ExecNextInv ==
  ASSUME FailAfter \subseteq {0}, SchedInv, PlanInv, ExecInv, [ExecNext]_execSchedVars
  PROVE  ExecInv'
<1>1. CASE SchedulerRuns
  BY <1>1, ExecSchedulerRuns
<1>2. CASE FillMirrors
  BY <1>2, ExecFillMirrors
<1>3. CASE EnqueueStep
  BY <1>3, ExecEnqueueStep
<1>4. CASE ExecutorReturns
  BY <1>4, ExecExecutorReturns
<1>5. CASE GemmUnresolved \/ CudaFails
  BY <1>5, ExecFails
<1>6. CASE DeviceRuns
  BY <1>6, ExecDeviceRuns
<1>7. CASE UNCHANGED execSchedVars
  BY <1>7, ExecStutters
<1> QED BY <1>1, <1>2, <1>3, <1>4, <1>5, <1>6, <1>7 DEF ExecNext

(***************************************************************************)
(* The executor between PlanStep and CompleteStep is invisible to the      *)
(* scheduler: its specification implements the scheduler's, so everything  *)
(* proved of the scheduler alone holds with the stream running beside it,  *)
(* whatever call fails.                                                    *)
(***************************************************************************)
THEOREM ExecutorImplementsScheduler == ExecSpec => SchedSpec
<1>1. ExecInit => SchedInit
  BY DEF ExecInit
<1> QED BY <1>1, ExecIsSched, PTL DEF ExecSpec, SchedSpec

(***************************************************************************)
(* ExecInv holds in every state, provided that no CUDA call fails with     *)
(* some of its step's calls already enqueued (FailAfter is {0} or empty).  *)
(***************************************************************************)
THEOREM ExecutorInvariant ==
  ASSUME FailAfter \subseteq {0}
  PROVE  ExecSpec => []ExecInv
<1>1. ExecInit => ExecInv
  BY ExecInitInv
<1>2. SchedInv /\ PlanInv /\ ExecInv /\ [ExecNext]_execSchedVars => ExecInv'
  BY ExecNextInv
<1>3. ExecSpec => [](SchedInv /\ PlanInv)
  BY ExecutorImplementsScheduler, SchedulerInvariant, PlansFit, PTL
<1> QED BY <1>1, <1>2, <1>3, PTL DEF ExecSpec

(***************************************************************************)
(* Every position an admitted sequence has computed stays in the block its *)
(* table names until the sequence leaves: for every batch size, block size *)
(* and pool, no other sequence's row, padded row, reused block or repeated *)
(* step overwrites it.                                                     *)
(***************************************************************************)
THEOREM CachedContextSurvives ==
  ASSUME FailAfter \subseteq {0}
  PROVE  ExecSpec => []ContextIntact
<1>1. ExecInv => ContextIntact
  BY DEF ExecInv
<1> QED BY <1>1, ExecutorInvariant, PTL

(***************************************************************************)
(* The token CompleteStep appends is the one this step sampled from that   *)
(* sequence's whole context: the rows, their padding, the asynchronous     *)
(* copies and the download never mix up sequences or steps.                *)
(***************************************************************************)
THEOREM TokensComeFromTheirContext ==
  ASSUME FailAfter \subseteq {0}
  PROVE  ExecSpec => []SampledFromOwnContext
<1>1. ExecInv => SampledFromOwnContext
  BY DEF ExecInv
<1> QED BY <1>1, ExecutorInvariant, PTL

(***************************************************************************)
(* "Every step ends with a stream sync": between two steps the device has  *)
(* nothing to do, so the mirrors may be refilled and the memory freed.     *)
(***************************************************************************)
THEOREM NothingInFlightBetweenSteps ==
  ASSUME FailAfter \subseteq {0}
  PROVE  ExecSpec => []StepEndsDrained
<1>1. ExecInv => StepEndsDrained
  BY DEF ExecInv, StepEndsDrained
<1> QED BY <1>1, ExecutorInvariant, PTL
===============================================================================
