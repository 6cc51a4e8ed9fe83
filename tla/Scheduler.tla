------------------------------- MODULE Scheduler -------------------------------
(***************************************************************************)
(* The iteration-level scheduler of core/scheduler.{hpp,cpp}, over the     *)
(* block pool of BlockAllocator, driven the way Engine::AddRequest and     *)
(* Engine::Step drive it.                                                  *)
(*                                                                         *)
(* Everything runs on one thread, so AddRequest and Step never overlap.  A *)
(* Step is a walk of pc through the loops of PlanStep and CompleteStep,    *)
(* one action per loop iteration:                                          *)
(*                                                                         *)
(*   idle -> admit* -> prefill* -> planned -> commit* -> idle              *)
(*                 \-> decode*  -/         \-> idle (empty or thrown)      *)
(*                                                                         *)
(* Requests are the ids 1..MaxRequests, given out in arrival order; token  *)
(* values are abstracted to whether they belong to the EOS set.            *)
(***************************************************************************)
EXTENDS BlockAllocator

CONSTANTS
  MaxRequests,                \* bound on the requests ever submitted
  KvBlockSize,                \* tokens per block (kKvBlockSize, 16 in the code)
  MaxBatch,                   \* options_.max_batch
  PrefillChunk,               \* options_.prefill_chunk_tokens
  MaxSeqLen,                  \* options_.max_seq_len
  AdmissionPolicy,            \* options_.admission_policy
  FloorNum, FloorDen,         \* options_.watermark_free_fraction = FloorNum/FloorDen
  Workload,                   \* the requests clients submit, valid or not
  MaxThrows                   \* bound on the steps the executor fails

Tokens == {"eos", "tok"}

\* A request as the client describes it; prompt is the prompt's length.
RequestParams ==
  [prompt : Nat, max_new : Int, ignore_eos : BOOLEAN, forced : Seq(Tokens)]

\* The asserts of the Scheduler constructor, and the block size of types.hpp.
ASSUME SchedulerAssumption ==
  /\ MaxRequests \in Nat
  /\ KvBlockSize \in Nat \ {0}
  /\ MaxBatch \in Nat \ {0}
  /\ PrefillChunk \in Nat \ {0}
  /\ MaxSeqLen \in Nat /\ MaxSeqLen >= 2
  /\ AdmissionPolicy \in {"reserve_full", "watermark"}
  /\ FloorNum \in Nat /\ FloorDen \in Nat /\ FloorNum < FloorDen
  /\ MaxThrows \in Nat

ASSUME WorkloadAssumption == Workload \subseteq RequestParams

Ids == 1 .. MaxRequests

nullptr == 0                  \* StepPlan::prefill of a decode step

VARIABLES
  \* struct Request, one function per field
  param,                      \* prompt_tokens.size(), max_new_tokens, ignore_eos, forced_tokens
  state,                      \* "none" until submitted
  finish_reason,
  output_tokens,
  slot,                       \* -1 unless admitted
  reserved_blocks,
  prefill_progress,
  block_table,
  \* class Scheduler
  waiting, prefill_queue, running, free_slots,
  \* Engine::next_request_id_
  next_request_id,
  \* the Step in progress
  pc, plan, results,
  throws                      \* executor failures so far

requestVars == <<param, state, finish_reason, output_tokens, slot,
                 reserved_blocks, prefill_progress, block_table>>
queueVars   == <<waiting, prefill_queue, running, free_slots>>
stepVars    == <<pc, plan, results>>
schedVars   == <<allocVars, requestVars, queueVars, next_request_id, stepVars, throws>>

-----------------------------------------------------------------------------
BlocksForTokens(n) == (n + KvBlockSize - 1) \div KvBlockSize

token_capacity(r) == Len(block_table[r]) * KvBlockSize

num_prompt_tokens(r) == param[r].prompt

seq_len(r) == num_prompt_tokens(r) + Len(output_tokens[r])

num_running == Len(prefill_queue) + Len(running)

EmptyPlan == [prefill |-> nullptr, begin |-> 0, end |-> 0,
              decode |-> <<>>, aborted |-> <<>>]

is_prefill == plan.prefill # nullptr

plan_empty == ~is_prefill /\ plan.decode = <<>> /\ plan.aborted = <<>>

NoParams == [prompt |-> 0, max_new |-> 0, ignore_eos |-> FALSE, forced |-> <<>>]

SchedInit ==
  /\ AllocInit
  /\ param = [r \in Ids |-> NoParams]
  /\ state = [r \in Ids |-> "none"]
  /\ finish_reason = [r \in Ids |-> "none"]
  /\ output_tokens = [r \in Ids |-> <<>>]
  /\ slot = [r \in Ids |-> -1]
  /\ reserved_blocks = [r \in Ids |-> 0]
  /\ prefill_progress = [r \in Ids |-> 0]
  /\ block_table = [r \in Ids |-> <<>>]
  /\ waiting = <<>> /\ prefill_queue = <<>> /\ running = <<>>
  /\ free_slots = [i \in 1 .. MaxBatch |-> MaxBatch - i]
  /\ next_request_id = 1
  /\ pc = "idle" /\ plan = EmptyPlan /\ results = <<>>
  /\ throws = 0

-----------------------------------------------------------------------------
(***************************************************************************)
(* Submission.                                                             *)
(***************************************************************************)

\* n blocks can be taken out of free uncommitted ones above the free floor.
AboveFloor(uncommitted, n) ==
  (uncommitted - n) * FloorDen >= FloorNum * usable_blocks

\* Mutant: validates a watermark request against the pool without its floor.
ValidIgnoringFloor(p) ==
  /\ p.prompt # 0
  /\ p.max_new > 0
  /\ p.prompt + p.max_new <= MaxSeqLen
  /\ BlocksForTokens(p.prompt) <= usable_blocks

\* ValidateRequest does not throw.
ValidRequest(p) ==
  /\ p.prompt # 0
  /\ p.max_new > 0
  /\ p.prompt + p.max_new <= MaxSeqLen
  /\ IF AdmissionPolicy = "reserve_full"
     THEN BlocksForTokens(p.prompt + p.max_new) <= usable_blocks
     ELSE AboveFloor(usable_blocks, BlocksForTokens(p.prompt))

Enqueue(r) ==
  /\ state' = [state EXCEPT ![r] = "waiting"]
  /\ waiting' = Append(waiting, r)

\* An invalid request throws out of AddRequest and leaves no state behind.
AddRequest(p) ==
  /\ pc = "idle"
  /\ next_request_id \in Ids
  /\ ValidRequest(p)
  /\ param' = [param EXCEPT ![next_request_id] = p]
  /\ Enqueue(next_request_id)
  /\ next_request_id' = next_request_id + 1
  /\ UNCHANGED <<allocVars, finish_reason, output_tokens, slot, reserved_blocks,
                 prefill_progress, block_table, prefill_queue, running,
                 free_slots, stepVars, throws>>

-----------------------------------------------------------------------------
(***************************************************************************)
(* PlanStep 1: FCFS admission.                                             *)
(***************************************************************************)

StepBegin ==
  /\ pc = "idle"
  /\ pc' = "admit"
  /\ UNCHANGED <<allocVars, requestVars, queueVars, next_request_id, plan, results, throws>>

CanAdmit(r) ==
  IF AdmissionPolicy = "reserve_full"
  THEN CanReserve(BlocksForTokens(num_prompt_tokens(r) + param[r].max_new))
  ELSE AboveFloor(Len(free_list) - reserved, BlocksForTokens(num_prompt_tokens(r)))

\* Mutant: the output tokens are left out of a full reservation.
ReservePromptOnly(r) == BlocksForTokens(num_prompt_tokens(r))

ReservationFor(r) ==
  IF AdmissionPolicy = "reserve_full"
  THEN BlocksForTokens(num_prompt_tokens(r) + param[r].max_new)
  ELSE BlocksForTokens(num_prompt_tokens(r))

\* Mutant: the batch limit is forgotten, so admission can outrun the slots.
CanAdmitHeadAnyBatch ==
  /\ waiting # <<>>
  /\ CanAdmit(Head(waiting))

CanAdmitHead ==
  /\ waiting # <<>>
  /\ num_running < MaxBatch
  /\ CanAdmit(Head(waiting))

Admit ==
  /\ pc = "admit"
  /\ CanAdmitHead
  /\ LET r == Head(waiting) IN
       /\ Reserve(ReservationFor(r))
       /\ reserved_blocks' = [reserved_blocks EXCEPT ![r] = ReservationFor(r)]
       /\ slot' = [slot EXCEPT ![r] = Last(free_slots)]
       /\ free_slots' = Front(free_slots)
       /\ state' = [state EXCEPT ![r] = "prefill"]
       /\ waiting' = Tail(waiting)
       /\ prefill_queue' = Append(prefill_queue, r)
  /\ UNCHANGED <<param, finish_reason, output_tokens, prefill_progress,
                 block_table, running, next_request_id, stepVars, throws>>

-----------------------------------------------------------------------------
(***************************************************************************)
(* PlanStep 2: one chunk of the oldest admitted prefill.                   *)
(***************************************************************************)

PlanPrefill ==
  /\ pc = "admit"
  /\ ~CanAdmitHead
  /\ prefill_queue # <<>>
  /\ pc' = "prefill"
  /\ LET r     == Head(prefill_queue)
         chunk == prefill_progress[r] + PrefillChunk
     IN plan' = [plan EXCEPT
          !.prefill = r,
          !.begin   = prefill_progress[r],
          !.end     = IF chunk < num_prompt_tokens(r) THEN chunk ELSE num_prompt_tokens(r)]
  /\ UNCHANGED <<allocVars, requestVars, queueVars, next_request_id, results, throws>>

\* block_table.Append(AllocReserved()); --reserved_blocks
TakeReservedBlock(r) ==
  /\ AllocReserved
  /\ block_table' = [block_table EXCEPT ![r] = Append(@, NextBlock)]
  /\ reserved_blocks' = [reserved_blocks EXCEPT ![r] = @ - 1]

\* Mutant: the last, partial block of the chunk is rounded away.
PrefillNeedsFullBlock == token_capacity(plan.prefill) + KvBlockSize <= plan.end

PrefillNeedsBlock == token_capacity(plan.prefill) < plan.end

MaterializePrefillBlock ==
  /\ pc = "prefill"
  /\ PrefillNeedsBlock
  /\ TakeReservedBlock(plan.prefill)
  /\ UNCHANGED <<param, state, finish_reason, output_tokens, slot, prefill_progress,
                 queueVars, next_request_id, stepVars, throws>>

PrefillPlanned ==
  /\ pc = "prefill"
  /\ ~PrefillNeedsBlock
  /\ pc' = "planned"
  /\ UNCHANGED <<allocVars, requestVars, queueVars, next_request_id, plan, results, throws>>

-----------------------------------------------------------------------------
(***************************************************************************)
(* Giving everything back: the table's blocks in table order, the          *)
(* unmaterialized remainder of the reservation, and the slot.              *)
(***************************************************************************)

\* Mutant: the table forgets its blocks without freeing them.
LeakTable(r) ==
  /\ block_table' = [block_table EXCEPT ![r] = <<>>]
  /\ UNCHANGED <<free_list, outstanding>>

\* BlockTable::Release: FreeBlock on every block.
ReleaseTable(r) ==
  /\ free_list' = free_list \o block_table[r]
  /\ outstanding' = outstanding \ Range(block_table[r])
  /\ block_table' = [block_table EXCEPT ![r] = <<>>]

\* Mutant: the remainder of the promise is never given back.
LeakReservation(r) ==
  /\ reserved_blocks' = [reserved_blocks EXCEPT ![r] = 0]
  /\ UNCHANGED reserved

ReleaseReservation(r) ==
  /\ reserved' = reserved - reserved_blocks[r]
  /\ reserved_blocks' = [reserved_blocks EXCEPT ![r] = 0]

ReleaseSlot(r) ==
  /\ free_slots' = IF slot[r] >= 0 THEN Append(free_slots, slot[r]) ELSE free_slots
  /\ slot' = [slot EXCEPT ![r] = -1]

ReleaseResources(r) == ReleaseTable(r) /\ ReleaseReservation(r) /\ ReleaseSlot(r)

(***************************************************************************)
(* PlanStep 3: the decode batch.  The loop index i is plan.decode.size():  *)
(* both advance together and neither advances on an abort.                 *)
(***************************************************************************)

PlanDecode ==
  /\ pc = "admit"
  /\ ~CanAdmitHead
  /\ prefill_queue = <<>>
  /\ pc' = "decode"
  /\ UNCHANGED <<allocVars, requestVars, queueVars, next_request_id, plan, results, throws>>

DecodeLoop == Len(plan.decode) < Len(running) /\ Len(plan.decode) < MaxBatch

\* The sequence the decode loop looks at.
Candidate == running[Len(plan.decode) + 1]

\* Mutants: one position early, one position late.
NeedsBlockEarly(r) == seq_len(r) >= token_capacity(r)
NeedsBlockLate(r) == seq_len(r) - 1 > token_capacity(r)

\* The position fed this step crosses into a block the table does not have.
NeedsBlock(r) == seq_len(r) - 1 >= token_capacity(r)

DecodeRow ==
  /\ pc = "decode" /\ DecodeLoop
  /\ ~NeedsBlock(Candidate)
  /\ plan' = [plan EXCEPT !.decode = Append(@, Candidate)]
  /\ UNCHANGED <<allocVars, requestVars, queueVars, next_request_id, pc, results, throws>>

\* EnsureDecodeBlockCapacity under reserve_full: covered by the reservation.
DecodeRowReserved ==
  /\ pc = "decode" /\ DecodeLoop
  /\ NeedsBlock(Candidate)
  /\ AdmissionPolicy = "reserve_full"
  /\ TakeReservedBlock(Candidate)
  /\ plan' = [plan EXCEPT !.decode = Append(@, Candidate)]
  /\ UNCHANGED <<param, state, finish_reason, output_tokens, slot, prefill_progress,
                 queueVars, next_request_id, pc, results, throws>>

\* Under watermark: Reserve(1) and AllocReserved, a plain pop.
DecodeRowClaimed ==
  /\ pc = "decode" /\ DecodeLoop
  /\ NeedsBlock(Candidate)
  /\ AdmissionPolicy = "watermark"
  /\ CanReserve(1)
  /\ free_list' = Front(free_list)
  /\ outstanding' = outstanding \union {NextBlock}
  /\ block_table' = [block_table EXCEPT ![Candidate] = Append(@, NextBlock)]
  /\ plan' = [plan EXCEPT !.decode = Append(@, Candidate)]
  /\ UNCHANGED <<reserved, param, state, finish_reason, output_tokens, slot,
                 reserved_blocks, prefill_progress, queueVars, next_request_id,
                 pc, results, throws>>

\* Mutant: the oldest running sequence is sacrificed.
OldestVictim == Head(running)

Victim == Last(running)

\* Under watermark with an exhausted pool: abort the back of running and retry
\* (or, when the victim was the candidate itself, re-test the loop bound).
AbortYoungestRunning ==
  /\ pc = "decode" /\ DecodeLoop
  /\ NeedsBlock(Candidate)
  /\ AdmissionPolicy = "watermark"
  /\ ~CanReserve(1)
  /\ LET victim == Victim IN
       /\ running' = Front(running)
       /\ state' = [state EXCEPT ![victim] = "finished"]
       /\ finish_reason' = [finish_reason EXCEPT ![victim] = "aborted"]
       /\ ReleaseResources(victim)
       /\ plan' = [plan EXCEPT !.aborted = Append(@, victim)]
  /\ UNCHANGED <<param, output_tokens, prefill_progress, waiting, prefill_queue,
                 next_request_id, pc, results, throws>>

DecodePlanned ==
  /\ pc = "decode" /\ ~DecodeLoop
  /\ pc' = "planned"
  /\ UNCHANGED <<allocVars, requestVars, queueVars, next_request_id, plan, results, throws>>

-----------------------------------------------------------------------------
(***************************************************************************)
(* Engine::Step between PlanStep and CompleteStep.                         *)
(***************************************************************************)

\* Nothing was planned: Step returns {}.
StepEmpty ==
  /\ pc = "planned" /\ plan_empty
  /\ pc' = "idle"
  /\ UNCHANGED <<allocVars, requestVars, queueVars, next_request_id, plan, results, throws>>

\* The executor throws: Step unwinds, the plan is dropped, CompleteStep is not
\* called.  An abort-only plan executes nothing and cannot throw.
ExecutorThrows ==
  /\ pc = "planned"
  /\ is_prefill \/ plan.decode # <<>>
  /\ throws < MaxThrows
  /\ throws' = throws + 1
  /\ pc' = "idle"
  /\ plan' = EmptyPlan
  /\ UNCHANGED <<allocVars, requestVars, queueVars, next_request_id, results>>

\* Mutant: the abort notice does not say that the request is over.
AbortResultOpen(r) ==
  [request_id |-> r, token |-> "tok", finished |-> FALSE, finish_reason |-> "aborted"]

AbortResult(r) ==
  [request_id |-> r, token |-> "tok", finished |-> TRUE, finish_reason |-> "aborted"]

\* The executor returns and CompleteStep reports the aborts first.
Execute ==
  /\ pc = "planned" /\ ~plan_empty
  /\ pc' = "commit"
  /\ results' = [i \in 1 .. Len(plan.aborted) |-> AbortResult(plan.aborted[i])]
  /\ UNCHANGED <<allocVars, requestVars, queueVars, next_request_id, plan, throws>>

-----------------------------------------------------------------------------
(***************************************************************************)
(* CompleteStep: one action per produced row.                              *)
(***************************************************************************)

\* The token appended to the sequence: the scripted one while there is one.
Appended(r, sampled) ==
  LET position == Len(output_tokens[r]) IN
  IF position < Len(param[r].forced) THEN param[r].forced[position + 1] ELSE sampled

\* Mutant: a length stop hides a simultaneous EOS.
StopReasonLengthFirst(r, appended) ==
  IF Len(output_tokens[r]) + 1 >= param[r].max_new THEN "length"
  ELSE IF ~param[r].ignore_eos /\ appended = "eos" THEN "eos"
  ELSE "none"

\* The stop checks, on the appended token; EOS wins a simultaneous length stop.
StopReason(r, appended) ==
  IF ~param[r].ignore_eos /\ appended = "eos" THEN "eos"
  ELSE IF Len(output_tokens[r]) + 1 >= param[r].max_new THEN "length"
  ELSE "none"

\* Order-preserving erase of r from running.
EraseRunning(r) == RemoveAt(running, CHOOSE i \in DOMAIN running : running[i] = r)

ApplySampledToken(r, sampled) ==
  LET appended     == Appended(r, sampled)
      reason       == StopReason(r, appended)
      from_prefill == state[r] = "prefill"
  IN
  /\ output_tokens' = [output_tokens EXCEPT ![r] = Append(@, appended)]
  /\ results' = Append(results, [request_id |-> r, token |-> sampled,
                                 finished |-> reason # "none", finish_reason |-> reason])
  /\ \/ /\ reason = "none"
        /\ state' = [state EXCEPT ![r] = "running"]
        /\ running' = IF from_prefill THEN Append(running, r) ELSE running
        /\ UNCHANGED <<allocVars, finish_reason, slot, reserved_blocks, block_table, free_slots>>
     \/ /\ reason # "none"
        /\ state' = [state EXCEPT ![r] = "finished"]
        /\ finish_reason' = [finish_reason EXCEPT ![r] = reason]
        /\ running' = IF from_prefill THEN running ELSE EraseRunning(r)
        /\ ReleaseResources(r)

\* Rows of plan.decode already committed.
RowsDone == Len(results) - Len(plan.aborted)

\* An intermediate chunk computes no logits and reports nothing.
CompletePrefillChunk ==
  /\ pc = "commit" /\ is_prefill
  /\ plan.end < num_prompt_tokens(plan.prefill)
  /\ prefill_progress' = [prefill_progress EXCEPT ![plan.prefill] = plan.end]
  /\ pc' = "return"
  /\ UNCHANGED <<allocVars, param, state, finish_reason, output_tokens, slot,
                 reserved_blocks, block_table, queueVars, next_request_id,
                 plan, results, throws>>

\* The final chunk samples the request's first token.
CompletePrefillFinal(sampled) ==
  /\ pc = "commit" /\ is_prefill
  /\ plan.end >= num_prompt_tokens(plan.prefill)
  /\ prefill_progress' = [prefill_progress EXCEPT ![plan.prefill] = plan.end]
  /\ prefill_queue' = Tail(prefill_queue)
  /\ ApplySampledToken(plan.prefill, sampled)
  /\ pc' = "return"
  /\ UNCHANGED <<param, waiting, next_request_id, plan, throws>>

CompleteDecodeRow(sampled) ==
  /\ pc = "commit" /\ ~is_prefill
  /\ RowsDone < Len(plan.decode)
  /\ ApplySampledToken(plan.decode[RowsDone + 1], sampled)
  /\ UNCHANGED <<param, prefill_progress, waiting, prefill_queue,
                 next_request_id, pc, plan, throws>>

CompleteDecode ==
  /\ pc = "commit" /\ ~is_prefill
  /\ RowsDone = Len(plan.decode)
  /\ pc' = "return"
  /\ UNCHANGED <<allocVars, requestVars, queueVars, next_request_id, plan, results, throws>>

\* Engine::Step returns the results and drops the plan.
StepReturn ==
  /\ pc = "return"
  /\ pc' = "idle"
  /\ plan' = EmptyPlan
  /\ results' = <<>>
  /\ UNCHANGED <<allocVars, requestVars, queueVars, next_request_id, throws>>

-----------------------------------------------------------------------------
\* PlanStep.
PlanStep ==
  \/ Admit
  \/ PlanPrefill \/ MaterializePrefillBlock \/ PrefillPlanned
  \/ PlanDecode \/ DecodeRow \/ DecodeRowReserved \/ DecodeRowClaimed
  \/ AbortYoungestRunning \/ DecodePlanned

\* CompleteStep.
CompleteStep ==
  \/ CompletePrefillChunk
  \/ \E sampled \in Tokens : CompletePrefillFinal(sampled) \/ CompleteDecodeRow(sampled)
  \/ CompleteDecode

\* One Engine::Step whose executor call succeeds.
StepActions ==
  \/ StepBegin \/ PlanStep \/ StepEmpty \/ Execute \/ CompleteStep \/ StepReturn

SchedNext == (\E p \in Workload : AddRequest(p)) \/ StepActions \/ ExecutorThrows

SchedSpec == SchedInit /\ [][SchedNext]_schedVars

-----------------------------------------------------------------------------
(***************************************************************************)
(* Properties.                                                             *)
(***************************************************************************)

FinishReasons == {"none", "eos", "length", "aborted"}

Admitted == {r \in Ids : state[r] \in {"prefill", "running"}}

SchedTypeOK ==
  /\ AllocTypeOK
  /\ param \in [Ids -> RequestParams]
  /\ state \in [Ids -> {"none", "waiting", "prefill", "running", "finished"}]
  /\ finish_reason \in [Ids -> FinishReasons]
  /\ output_tokens \in [Ids -> Seq(Tokens)]
  /\ slot \in [Ids -> -1 .. MaxBatch - 1]
  /\ reserved_blocks \in [Ids -> Nat]
  /\ prefill_progress \in [Ids -> Nat]
  /\ block_table \in [Ids -> Seq(PoolBlocks)]
  /\ waiting \in Seq(Ids) /\ prefill_queue \in Seq(Ids) /\ running \in Seq(Ids)
  /\ free_slots \in Seq(0 .. MaxBatch - 1)
  /\ next_request_id \in 1 .. MaxRequests + 1
  /\ pc \in {"idle", "admit", "prefill", "decode", "planned", "commit", "return"}
  /\ plan \in [prefill : Ids \union {nullptr}, begin : Nat, end : Nat,
                decode : Seq(Ids), aborted : Seq(Ids)]
  /\ results \in Seq([request_id : Ids, token : Tokens, finished : BOOLEAN,
                       finish_reason : FinishReasons])
  /\ throws \in 0 .. MaxThrows

(***************************************************************************)
(* The pool is partitioned between the free stack and the block tables of  *)
(* the admitted requests: no KV block is shared by two sequences, appears  *)
(* twice in one table, or leaks when a request finishes, is aborted in the *)
(* middle of planning, or has its step thrown away.                        *)
(***************************************************************************)
BlockOwnership ==
  /\ FreeListExact
  /\ \A r \in Ids : IsInjective(block_table[r])
  /\ \A r, s \in Ids :
       r # s => Range(block_table[r]) \intersect Range(block_table[s]) = {}
  /\ outstanding = UNION {Range(block_table[r]) : r \in Ids}

\* One pair per block promised to a request and not yet materialized.
Promises == {p \in Ids \X PoolBlocks : p[2] <= reserved_blocks[p[1]]}

(***************************************************************************)
(* reserved_ is exactly the sum of the reservations the admitted requests  *)
(* still hold, and every promised block is free: what Admit, the lazy      *)
(* materialization and ReleaseResources each add and subtract cancels out. *)
(***************************************************************************)
ReservationsExact ==
  /\ reserved = Cardinality(Promises)
  /\ PromisesCovered
  /\ \A r \in Ids : reserved_blocks[r] <= usable_blocks

(***************************************************************************)
(* A request that is not admitted, because it still waits or because it    *)
(* finished by any path (a stop out of the prefill, a stop or an abort out *)
(* of the decode batch), holds no block, no reservation and no slot.       *)
(***************************************************************************)
OnlyAdmittedHold ==
  \A r \in Ids \ Admitted :
    block_table[r] = <<>> /\ reserved_blocks[r] = 0 /\ slot[r] = -1

(***************************************************************************)
(* The asserts at the allocator's call sites hold when they are reached    *)
(* (they are compiled out of a release build, where AllocReserved on an    *)
(* empty free list is undefined behaviour): admission reserves only what   *)
(* CanReserve allows and always finds a slot, a prefill chunk and, under   *)
(* reserve_full, a decode step always have a reservation left to draw on,  *)
(* and every watermark abort gives a block back, so the retry loop ends.   *)
(***************************************************************************)
NoExhaustion ==
  /\ pc = "admit" /\ CanAdmitHead =>
       CanReserve(ReservationFor(Head(waiting))) /\ free_slots # <<>>
  /\ pc = "prefill" /\ PrefillNeedsBlock =>
       reserved_blocks[plan.prefill] > 0 /\ CanAllocReserved
  /\ pc = "decode" /\ DecodeLoop /\ NeedsBlock(Candidate) =>
       IF AdmissionPolicy = "reserve_full"
       THEN reserved_blocks[Candidate] > 0 /\ CanAllocReserved
       ELSE ~CanReserve(1) => block_table[Last(running)] # <<>>

IsIncreasing(s) == \A i, j \in DOMAIN s : i < j => s[i] < s[j]

\* How far a request in state st has come: past its prefill, prefilling, waiting, not here.
Stage(st) == CASE st \in {"running", "finished"} -> 0
               [] st = "prefill" -> 1
               [] st = "waiting" -> 2
               [] st = "none" -> 3

(***************************************************************************)
(* The queues hold exactly the requests of their state, oldest first, and  *)
(* nobody is further along than somebody who arrived earlier:              *)
(* running_.back() really is the youngest, and nobody overtakes.           *)
(***************************************************************************)
AdmissionOrder ==
  /\ IsIncreasing(running) /\ Range(running) = {r \in Ids : state[r] = "running"}
  /\ IsIncreasing(prefill_queue) /\ Range(prefill_queue) = {r \in Ids : state[r] = "prefill"}
  /\ IsIncreasing(waiting) /\ Range(waiting) = {r \in Ids : state[r] = "waiting"}
  /\ \A r, s \in Ids : Stage(state[r]) < Stage(state[s]) => r < s

(***************************************************************************)
(* First tokens appear in arrival order, whatever the request lengths, the *)
(* pool pressure and the failed steps in between (FCFS, no reordering).    *)
(***************************************************************************)
FirstTokenFCFS ==
  \A r, s \in Ids :
    r < s /\ output_tokens[s] # <<>> => output_tokens[r] # <<>>

(***************************************************************************)
(* What FillPrefillMirrors and FillDecodeMirrors hard-check of a plan      *)
(* before they touch the device: a rejected plan would be rejected again   *)
(* by every later Step ("a wedged queue").                                 *)
(***************************************************************************)
ExecutorAccepts ==
  pc = "planned" =>
    /\ is_prefill =>
         LET r == plan.prefill IN
         /\ plan.decode = <<>> /\ plan.aborted = <<>>
         /\ state[r] = "prefill" /\ plan.begin = prefill_progress[r]
         /\ plan.begin < plan.end /\ plan.end <= num_prompt_tokens(r)
         /\ plan.end - plan.begin <= PrefillChunk
         /\ Len(block_table[r]) >= BlocksForTokens(plan.end)
    /\ Len(plan.decode) <= MaxBatch
    /\ IsInjective(plan.decode)
    /\ \A r \in Range(plan.decode) :
         /\ state[r] = "running"
         /\ output_tokens[r] # <<>>
         /\ seq_len(r) <= MaxSeqLen
         /\ Len(block_table[r]) >= BlocksForTokens(seq_len(r))
    /\ \A r \in Ids : Len(block_table[r]) <= BlocksForTokens(MaxSeqLen)
    /\ Range(plan.decode) \intersect Range(plan.aborted) = {}

(***************************************************************************)
(* Materialization is lazy and a failed step does not repeat it: a         *)
(* sequence never owns a block beyond the ones its next step touches, even *)
(* when the step that took the block is thrown away and planned again.     *)
(***************************************************************************)
NoOverAllocation ==
  /\ \A r \in Range(running) : Len(block_table[r]) <= BlocksForTokens(seq_len(r))
  /\ \A r \in Range(prefill_queue) :
       /\ Len(block_table[r]) <= BlocksForTokens(num_prompt_tokens(r))
       /\ Len(block_table[r]) <= BlocksForTokens(prefill_progress[r] + PrefillChunk)

(***************************************************************************)
(* When nothing is admitted, the head of the waiting queue is admissible:  *)
(* ValidateRequest turned away every request an idle pool could not take,  *)
(* and finished requests gave everything back, so nobody waits forever.    *)
(***************************************************************************)
IdlePoolAdmits ==
  pc = "admit" /\ num_running = 0 /\ waiting # <<>> => CanAdmitHead

(***************************************************************************)
(* An abort only ever takes the youngest admitted request, only under the  *)
(* watermark policy, and only when no block is left to claim.              *)
(***************************************************************************)
AbortsYoungest ==
  [][\A r \in Ids :
       finish_reason[r] # "aborted" /\ finish_reason'[r] = "aborted" =>
         /\ AdmissionPolicy = "watermark"
         /\ Len(free_list) = 0
         /\ \A s \in Admitted : s <= r]_schedVars

-----------------------------------------------------------------------------
(***************************************************************************)
(* What makes the safety properties inductive.                             *)
(***************************************************************************)

\* Only validated requests are ever queued, under their arrival number.
AcceptedValid ==
  \A r \in Ids :
    /\ state[r] # "none" <=> r < next_request_id
    /\ state[r] # "none" => ValidRequest(param[r])

\* How much a request has produced, and prefilled, in each state.
ProgressMatchesState ==
  \A r \in Ids :
    /\ state[r] \in {"none", "waiting", "prefill"} => output_tokens[r] = <<>>
    /\ state[r] \in {"running", "finished"} => output_tokens[r] # <<>>
    /\ state[r] = "running" => Len(output_tokens[r]) < param[r].max_new
    /\ state[r] \in {"none", "waiting"} => prefill_progress[r] = 0
    /\ state[r] = "prefill" => prefill_progress[r] < num_prompt_tokens(r)

\* Blocks owned and blocks still promised add up to what admission reserved;
\* under watermark a sequence past its prefill has nothing promised any more.
Quota ==
  \A r \in Ids :
    /\ state[r] = "prefill" =>
         reserved_blocks[r] + Len(block_table[r]) = ReservationFor(r)
    /\ state[r] = "running" =>
         /\ block_table[r] # <<>>
         /\ IF AdmissionPolicy = "reserve_full"
            THEN reserved_blocks[r] + Len(block_table[r]) = ReservationFor(r)
            ELSE reserved_blocks[r] = 0

SlotCount ==
  /\ Len(free_slots) + num_running = MaxBatch
  /\ \A r \in Admitted : slot[r] >= 0

\* The plan in the making, or being committed, is about the queues as they are.
PlanMatchesQueues ==
  /\ pc \in {"idle", "admit"} => plan = EmptyPlan
  /\ pc \notin {"commit", "return"} => results = <<>>
  /\ ~is_prefill => plan.begin = 0 /\ plan.end = 0
  /\ pc = "prefill" => is_prefill
  /\ pc = "decode" =>
       /\ ~is_prefill /\ prefill_queue = <<>>
       /\ Len(plan.decode) <= Len(running)
       /\ \A k \in DOMAIN plan.decode : plan.decode[k] = running[k]
  /\ pc \in {"prefill", "planned", "commit"} /\ is_prefill =>
       /\ prefill_queue # <<>> /\ plan.prefill = Head(prefill_queue)
       /\ plan.begin = prefill_progress[plan.prefill]
       /\ plan.begin < plan.end /\ plan.end <= num_prompt_tokens(plan.prefill)
       /\ plan.decode = <<>> /\ plan.aborted = <<>>
       /\ pc # "prefill" => ~PrefillNeedsBlock
  /\ pc \in {"planned", "commit"} => IsInjective(plan.decode)
  /\ pc = "planned" =>
       \A k \in DOMAIN plan.decode : state[plan.decode[k]] = "running"
  /\ pc = "commit" =>
       /\ RowsDone \in 0 .. Len(plan.decode)
       /\ \A k \in RowsDone + 1 .. Len(plan.decode) : state[plan.decode[k]] = "running"

SchedInv ==
  /\ SchedTypeOK /\ BlockOwnership /\ ReservationsExact /\ OnlyAdmittedHold
  /\ AdmissionOrder /\ AcceptedValid /\ ProgressMatchesState
  /\ Quota /\ SlotCount /\ PlanMatchesQueues

(***************************************************************************)
(* What the executor's checks need on top of SchedInv.                     *)
(***************************************************************************)

\* A table covers what is in the cache already, and at most the next step more.
TableFits(r) ==
  /\ state[r] = "prefill" =>
       /\ Len(block_table[r]) >= BlocksForTokens(prefill_progress[r])
       /\ Len(block_table[r]) <= BlocksForTokens(prefill_progress[r] + PrefillChunk)
       /\ Len(block_table[r]) <= BlocksForTokens(num_prompt_tokens(r))
  /\ state[r] = "running" =>
       /\ Len(block_table[r]) >= BlocksForTokens(seq_len(r) - 1)
       /\ Len(block_table[r]) <= BlocksForTokens(seq_len(r))

\* The table has room for the position this step feeds.
RowFits(r) == Len(block_table[r]) >= BlocksForTokens(seq_len(r))

PlanFits ==
  /\ pc \in {"prefill", "planned"} /\ is_prefill => plan.end <= plan.begin + PrefillChunk
  /\ pc \in {"decode", "planned"} =>
       /\ Len(plan.decode) <= MaxBatch
       /\ \A k \in DOMAIN plan.decode : RowFits(plan.decode[k])
       /\ \A k \in DOMAIN plan.aborted : state[plan.aborted[k]] = "finished"
  /\ pc = "commit" /\ ~is_prefill =>
       \A k \in RowsDone + 1 .. Len(plan.decode) : RowFits(plan.decode[k])

PlanInv == (\A r \in Ids : TableFits(r)) /\ PlanFits
===============================================================================
