------------------------------- MODULE Executor -------------------------------
(***************************************************************************)
(* core/model_executor.{hpp,cpp} between PlanStep and CompleteStep: the    *)
(* pinned host mirrors, the device copies of them, the one CUDA stream,    *)
(* and what the forward pass writes to and reads from the paged KV pool.   *)
(*                                                                         *)
(* The stream is a queue the device works off on its own; an H2D copy      *)
(* reads its mirror when the device gets to it, not when it is enqueued.   *)
(* The host waits for the device only where the code synchronizes.         *)
(*                                                                         *)
(* Data is abstracted to where it comes from.  The token at index p of     *)
(* request r is <<r, p>>; the K/V row computed from it, and the token      *)
(* sampled at position p, are named the same way; anything computed from   *)
(* the wrong input is Junk.  The layers are one: a layer scatters its K/V  *)
(* before it attends, and all of them use the same tables and positions.   *)
(***************************************************************************)
EXTENDS DecodeDispatch

CONSTANT FailAfter            \* how many of a step's stream calls precede one that may fail

ASSUME ExecutorAssumption == FailAfter \subseteq Nat

VARIABLES
  stage,                      \* how far the executor call of the step has come
  host,                       \* h_input_ids_, h_positions_, h_seq_lens_, h_block_tables_
  device,                     \* d_input_ids_, d_positions_, d_seq_lens_, d_block_tables_
  h_argmax, d_argmax,
  stream,                     \* stream_: enqueued and not yet executed
  kv_pool

execVars == <<stage, host, device, h_argmax, d_argmax, stream, kv_pool>>
execSchedVars == <<schedVars, execVars>>

-----------------------------------------------------------------------------
Junk == <<0, 0>>              \* token 0, zeroed memory, or garbage: nobody's

max_blocks_per_seq == BlocksForTokens(MaxSeqLen)

\* Row capacity of the id and position buffers, and of the argmax buffers.
InputRows == 1 .. Max({MaxBatch, PrefillChunk})
BatchRows == 1 .. MaxBatch

DummyRow == [i \in 1 .. max_blocks_per_seq |-> kDummyBlockId]

\* Rows a capture has warmed up with dummy inputs of sequence length 1.
WarmedRows == IF Graphs /\ decode_buckets # <<>> THEN Last(decode_buckets) ELSE 0

\* Both slabs are zero-filled once (zeroed tables are all-dummy rows), and the
\* warmup before a capture fills and uploads dummy rows.
InitialInputs ==
  [ids       |-> [i \in InputRows |-> Junk],
   positions |-> [i \in InputRows |-> 0],
   seq_lens  |-> [i \in BatchRows |-> IF i <= WarmedRows THEN 1 ELSE 0],
   tables    |-> [i \in BatchRows |-> DummyRow]]

ExecInit ==
  /\ SchedInit
  /\ stage = "none"
  /\ host = InitialInputs /\ device = InitialInputs
  /\ h_argmax = [i \in BatchRows |-> Junk] /\ d_argmax = [i \in BatchRows |-> Junk]
  /\ stream = <<>>
  /\ kv_pool = [b \in 0 .. usable_blocks |-> [o \in 0 .. KvBlockSize - 1 |-> Junk]]

-----------------------------------------------------------------------------
(***************************************************************************)
(* Filling the mirrors.                                                    *)
(***************************************************************************)

\* A block table as a device row: the blocks, then dummies.
TableRow(r) ==
  [i \in 1 .. max_blocks_per_seq |->
     IF i <= Len(block_table[r]) THEN block_table[r][i] ELSE kDummyBlockId]

\* The rows a decode step runs at: the bucket of a replay, or eager sizing.
DecodeRows(live) == IF ReplaysGraph(live) THEN ExecutedBucket(live) ELSE EagerRows(live)

\* Live rows in batch order, then padded rows; rows past those are not written.
FillDecodeMirrors(batch) ==
  LET live == 1 .. Len(batch)
      pad  == Len(batch) + 1 .. DecodeRows(Len(batch))
      row(i, filled, padded, old) ==
        IF i \in live THEN filled ELSE IF i \in pad THEN padded ELSE old
  IN
  host' = [ids       |-> [i \in InputRows |->
             row(i, <<batch[i], seq_len(batch[i]) - 1>>, Junk, host.ids[i])],
           positions |-> [i \in InputRows |->
             row(i, seq_len(batch[i]) - 1, 0, host.positions[i])],
           seq_lens  |-> [i \in BatchRows |->
             row(i, seq_len(batch[i]), 0, host.seq_lens[i])],
           tables    |-> [i \in BatchRows |->
             row(i, TableRow(batch[i]), DummyRow, host.tables[i])]]

\* Mutant: positions count from the start of the chunk.
FillPrefillRelative(r, begin, end) ==
  LET rows == 1 .. end - begin IN
  host' = [host EXCEPT
    !.ids       = [i \in InputRows |-> IF i \in rows THEN <<r, begin + i - 1>> ELSE @[i]],
    !.positions = [i \in InputRows |-> IF i \in rows THEN i - 1 ELSE @[i]],
    !.tables[1] = TableRow(r)]

\* The chunk's tokens at their absolute positions; one table row, in row 1.
FillPrefillMirrors(r, begin, end) ==
  LET rows == 1 .. end - begin IN
  host' = [host EXCEPT
    !.ids       = [i \in InputRows |-> IF i \in rows THEN <<r, begin + i - 1>> ELSE @[i]],
    !.positions = [i \in InputRows |-> IF i \in rows THEN begin + i - 1 ELSE @[i]],
    !.tables[1] = TableRow(r)]

-----------------------------------------------------------------------------
(***************************************************************************)
(* What is put on the stream.                                              *)
(***************************************************************************)
Copy(buffer, rows) == [op |-> "h2d", buffer |-> buffer, rows |-> rows]

\* Mutant: the context lengths of the previous step are reused.
UploadDecodeNoLens(rows) ==
  <<Copy("ids", rows), Copy("positions", rows), Copy("tables", rows)>>

\* Four contiguous copies, the table slab as one of them.
UploadDecodeInputs(rows) ==
  <<Copy("ids", rows), Copy("positions", rows), Copy("seq_lens", rows), Copy("tables", rows)>>

\* Three copies: seq_lens stays untouched, one table row.
UploadPrefillInputs(rows) ==
  <<Copy("ids", rows), Copy("positions", rows), Copy("tables", 1)>>

Download(rows) == [op |-> "d2h", rows |-> rows]

\* The forward pass and argmax, enqueued call by call or as one captured graph.
EnqueueDecode(rows) == <<[op |-> "decode", rows |-> rows], Download(rows)>>

\* Only a final chunk computes logits (of its last row) and downloads a token.
EnqueuePrefill(rows, ctx, final_chunk) ==
  <<[op |-> "prefill", rows |-> rows, ctx |-> ctx, final_chunk |-> final_chunk]>>
    \o (IF final_chunk THEN <<Download(1)>> ELSE <<>>)

\* Everything the executor call of this plan enqueues, in order.
StepWork ==
  IF is_prefill
  THEN LET rows == plan.end - plan.begin IN
       UploadPrefillInputs(rows)
         \o EnqueuePrefill(rows, plan.end, plan.end = num_prompt_tokens(plan.prefill))
  ELSE LET rows == DecodeRows(Len(plan.decode)) IN
       UploadDecodeInputs(rows) \o EnqueueDecode(rows)

-----------------------------------------------------------------------------
(***************************************************************************)
(* The device.                                                             *)
(***************************************************************************)

\* Where a row with this table scatters or reads position p.
BlockOf(table, p) == table[(p \div KvBlockSize) + 1]
OffsetOf(p) == p % KvBlockSize

(***************************************************************************)
(* kv_scatter over the rows 1..rows: row i writes the K/V of its token at  *)
(* its position, through table[i].  What rows race for is nobody's.        *)
(***************************************************************************)
KvScatter(rows, table) ==
  LET writers(b, o) == {i \in 1 .. rows :
        BlockOf(table[i], device.positions[i]) = b /\ OffsetOf(device.positions[i]) = o}
      computed(i) == IF device.ids[i][2] = device.positions[i] THEN device.ids[i] ELSE Junk
  IN [b \in DOMAIN kv_pool |-> [o \in DOMAIN kv_pool[b] |->
       IF writers(b, o) = {} THEN kv_pool[b][o]
       ELSE IF Cardinality(writers(b, o)) = 1 THEN computed(CHOOSE i \in writers(b, o) : TRUE)
       ELSE Junk]]

\* Attention over n positions of a table finds the whole context of request r.
Attends(pool, table, n, r) ==
  \A p \in 0 .. n - 1 : pool[BlockOf(table, p)][OffsetOf(p)] = <<r, p>>

\* logits[i], as the token they select: the one after position n-1 of r.
Sampled(pool, i, table, n) ==
  LET r == device.ids[i][1] IN
  IF n > 0 /\ device.ids[i] = <<r, n - 1>> /\ Attends(pool, table, n, r) THEN <<r, n>> ELSE Junk

\* An H2D copy reads the mirror as it is now.
DoCopy(task) ==
  /\ device' = [device EXCEPT ![task.buffer] =
       [i \in DOMAIN @ |-> IF i <= task.rows THEN host[task.buffer][i] ELSE @[i]]]
  /\ UNCHANGED <<d_argmax, h_argmax, kv_pool>>

\* Mutant: a decode step scatters with the row stride of a prefill.
DoDecodeStrideZero(task) ==
  LET pool == KvScatter(task.rows, [i \in 1 .. task.rows |-> device.tables[1]]) IN
  /\ kv_pool' = pool
  /\ d_argmax' = [i \in BatchRows |->
       IF i <= task.rows
       THEN Sampled(pool, i, device.tables[i], device.seq_lens[i])
       ELSE d_argmax[i]]
  /\ UNCHANGED <<device, h_argmax>>

\* Every row scatters; rows with seq_len 0 leave attention at once.
DoDecode(task) ==
  LET pool == KvScatter(task.rows, device.tables) IN
  /\ kv_pool' = pool
  /\ d_argmax' = [i \in BatchRows |->
       IF i <= task.rows
       THEN Sampled(pool, i, device.tables[i], device.seq_lens[i])
       ELSE d_argmax[i]]
  /\ UNCHANGED <<device, h_argmax>>

\* The chunk scatters, then gathers positions 0..ctx-1 through the same table row.
DoPrefill(task) ==
  LET pool == KvScatter(task.rows, [i \in 1 .. task.rows |-> device.tables[1]]) IN
  /\ kv_pool' = pool
  /\ d_argmax' = IF task.final_chunk
                 THEN [d_argmax EXCEPT ![1] = Sampled(pool, task.rows, device.tables[1], task.ctx)]
                 ELSE d_argmax
  /\ UNCHANGED <<device, h_argmax>>

DoDownload(task) ==
  /\ h_argmax' = [i \in BatchRows |-> IF i <= task.rows THEN d_argmax[i] ELSE h_argmax[i]]
  /\ UNCHANGED <<device, d_argmax, kv_pool>>

DeviceRuns ==
  /\ stream # <<>>
  /\ stream' = Tail(stream)
  /\ LET task == Head(stream) IN
       \/ task.op = "h2d"     /\ DoCopy(task)
       \/ task.op = "decode"  /\ DoDecode(task)
       \/ task.op = "prefill" /\ DoPrefill(task)
       \/ task.op = "d2h"     /\ DoDownload(task)
  /\ UNCHANGED <<schedVars, stage, host>>

-----------------------------------------------------------------------------
(***************************************************************************)
(* The host: DecodeEager, DecodeGraph and PrefillChunk.                    *)
(***************************************************************************)
CallsExecutor == is_prefill \/ plan.decode # <<>>

FillMirrors ==
  /\ pc = "planned" /\ CallsExecutor
  /\ stage = "none"
  /\ stage' = "filled"
  /\ IF is_prefill
     THEN FillPrefillMirrors(plan.prefill, plan.begin, plan.end)
     ELSE FillDecodeMirrors(plan.decode)
  /\ UNCHANGED <<schedVars, device, h_argmax, d_argmax, stream, kv_pool>>

EnqueueStep ==
  /\ stage = "filled"
  /\ stage' = "launched"
  /\ stream' = stream \o StepWork
  /\ UNCHANGED <<schedVars, host, device, h_argmax, d_argmax, kv_pool>>

\* cudaStreamSynchronize has returned.
Drained == stage = "launched" /\ stream = <<>>

ExecutorReturns ==
  /\ IF CallsExecutor THEN Drained ELSE stage = "none"
  /\ Execute
  /\ stage' = "none"
  /\ UNCHANGED <<host, device, h_argmax, d_argmax, stream, kv_pool>>

\* ResolvePrefillGemmMode finds no algorithm; nothing has been enqueued yet.
GemmUnresolved ==
  /\ stage = "filled" /\ is_prefill
  /\ ExecutorThrows
  /\ stage' = "none"
  /\ UNCHANGED <<host, device, h_argmax, d_argmax, stream, kv_pool>>

\* A checked call reports an error: one of the enqueued ones, after those before
\* it were enqueued, or the error query after the synchronization.
CudaFails ==
  /\ \/ /\ stage = "filled"
        /\ \E k \in FailAfter \intersect 0 .. Len(StepWork) - 1 :
             stream' = stream \o SubSeq(StepWork, 1, k)
     \/ Drained /\ UNCHANGED stream
  /\ ExecutorThrows
  /\ stage' = "none"
  /\ UNCHANGED <<host, device, h_argmax, d_argmax, kv_pool>>

\* The scheduler's part of Step, and AddRequest: the executor is not running.
SchedulerRuns ==
  /\ \/ \E p \in Workload : AddRequest(p)
     \/ StepBegin \/ PlanStep \/ StepEmpty \/ CompleteStep \/ StepReturn
  /\ UNCHANGED execVars

ExecNext ==
  \/ SchedulerRuns
  \/ FillMirrors \/ EnqueueStep \/ ExecutorReturns \/ GemmUnresolved \/ CudaFails
  \/ DeviceRuns

ExecSpec == ExecInit /\ [][ExecNext]_execSchedVars

-----------------------------------------------------------------------------
\* The positions of r whose K/V earlier steps have written.
Written(r) ==
  IF state[r] = "running" THEN 0 .. seq_len(r) - 2 ELSE 0 .. prefill_progress[r] - 1

\* The pool holds the K/V of position p of r where r's table says.
Cached(r, p) == kv_pool[BlockOf(block_table[r], p)][OffsetOf(p)] = <<r, p>>

(***************************************************************************)
(* The cached context of every admitted sequence stays in the pool until   *)
(* it leaves: no other row, padded row, reused block or repeated step      *)
(* overwrites a position it has computed.                                  *)
(***************************************************************************)
ContextIntact == \A r \in Admitted : \A p \in Written(r) : Cached(r, p)

\* The argmax buffer holds the next token of every sequence of the plan that
\* gets one, from the given decode row on.
TokensIn(argmax, first) ==
  /\ is_prefill /\ plan.end = num_prompt_tokens(plan.prefill) =>
       argmax[1] = <<plan.prefill, plan.end>>
  /\ ~is_prefill => \A k \in first .. Len(plan.decode) :
       argmax[k] = <<plan.decode[k], seq_len(plan.decode[k])>>

(***************************************************************************)
(* The token CompleteStep appends to a sequence was sampled in that        *)
(* sequence's row, from its last token and its whole context: what the     *)
(* host reads back is this step's result, not an earlier step's.           *)
(***************************************************************************)
SampledFromOwnContext == pc = "commit" => TokensIn(h_argmax, RowsDone + 1)

(***************************************************************************)
(* "Every step ends with a stream sync" (ReleaseAll): when Step is back    *)
(* with its caller nothing is in flight, so neither the mirrors the next   *)
(* step fills nor the memory the destructor frees is still being read.     *)
(***************************************************************************)
StepEndsDrained == pc = "idle" => stream = <<>>

-----------------------------------------------------------------------------
(***************************************************************************)
(* What makes these properties inductive while no call fails with work     *)
(* already enqueued (FailAfter is {0} or empty).                           *)
(***************************************************************************)
Pair == Nat \X Nat

Inputs ==
  [ids       : [InputRows -> Pair],
   positions : [InputRows -> Nat],
   seq_lens  : [BatchRows -> Nat],
   tables    : [BatchRows -> [1 .. max_blocks_per_seq -> 0 .. usable_blocks]]]

ExecTypeOK ==
  /\ stage \in {"none", "filled", "launched"}
  /\ host \in Inputs /\ device \in Inputs
  /\ h_argmax \in [BatchRows -> Pair] /\ d_argmax \in [BatchRows -> Pair]
  /\ kv_pool \in [0 .. usable_blocks -> [0 .. KvBlockSize - 1 -> Pair]]

\* The rows of the step, and what row i is to hold.
StepRows == IF is_prefill THEN plan.end - plan.begin ELSE DecodeRows(Len(plan.decode))

RowToken(i) ==
  IF is_prefill THEN <<plan.prefill, plan.begin + i - 1>>
  ELSE IF i <= Len(plan.decode) THEN <<plan.decode[i], seq_len(plan.decode[i]) - 1>>
  ELSE Junk

RowPosition(i) == RowToken(i)[2]

RowLen(i) == IF i <= Len(plan.decode) THEN seq_len(plan.decode[i]) ELSE 0

RowTable(i) ==
  IF is_prefill THEN TableRow(plan.prefill)
  ELSE IF i <= Len(plan.decode) THEN TableRow(plan.decode[i])
  ELSE DummyRow

\* The inputs on either side hold the step's rows.
IdsIn(in) == \A i \in 1 .. StepRows : in.ids[i] = RowToken(i)
PositionsIn(in) == \A i \in 1 .. StepRows : in.positions[i] = RowPosition(i)
LensIn(in) == ~is_prefill => \A i \in 1 .. StepRows : in.seq_lens[i] = RowLen(i)
TablesIn(in) ==
  \A i \in 1 .. (IF is_prefill THEN 1 ELSE StepRows) : in.tables[i] = RowTable(i)

\* The step's own positions are in the pool, from the given decode row on.
Scattered(first) ==
  /\ is_prefill => \A p \in plan.begin .. plan.end - 1 : Cached(plan.prefill, p)
  /\ ~is_prefill => \A k \in first .. Len(plan.decode) :
       Cached(plan.decode[k], seq_len(plan.decode[k]) - 1)

Uploads == IF is_prefill THEN 3 ELSE 4

\* The device has done the first n tasks of the step.
DeviceAt(n) ==
  /\ stream = SubSeq(StepWork, n + 1, Len(StepWork))
  /\ n >= 1 => IdsIn(device)
  /\ n >= 2 => PositionsIn(device)
  /\ n >= 3 => LensIn(device)
  /\ n >= Uploads => TablesIn(device)
  /\ n >= Uploads + 1 => Scattered(1) /\ TokensIn(d_argmax, 1)
  /\ n >= Uploads + 2 \/ n = Len(StepWork) => TokensIn(h_argmax, 1)

ExecInv ==
  /\ ExecTypeOK
  /\ ContextIntact
  /\ stage # "none" =>
       /\ pc = "planned" /\ CallsExecutor
       /\ IdsIn(host) /\ PositionsIn(host) /\ LensIn(host) /\ TablesIn(host)
  /\ stage # "launched" => stream = <<>>
  /\ stage = "launched" => \E n \in 0 .. Len(StepWork) : DeviceAt(n)
  /\ pc = "commit" => Scattered(RowsDone + 1)
  /\ SampledFromOwnContext
===============================================================================
