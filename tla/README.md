# Redline: a TLA+ model of the serving engine

Redline is a single-GPU LLM inference engine (C++/CUDA, `src/src`) with a
Python client (`src/python`) and a benchmark (`src/bench`).  This directory
models the engine from the files it loads to the clients that drive it: the
checkpoint reader and the weight upload, the engine's construction with its GEMM
probes and graph capture, the paged KV-cache pool, the iteration-level
scheduler, the engine loop around them, the executor's traffic between host and
device, the kernel sequence of a forward pass, and three clients.  TLC checks the
models on small instances.  TLAPS proves the safety of the serving core (allocator,
scheduler, engine, executor) for every pool size, batch size, chunk size and
workload, that of the weight load for every model size, chunk size and
checkpoint, and that of construction and graph capture for every pattern of
failures; where a hypothesis is needed, a run shows what happens without it.

Definitions keep the names of the C++ and Python members and methods they
translate.  `PROJECT.json` maps each of them to its lines.

## 1. Inventory

| Component | State | Operations | What makes it correct |
|---|---|---|---|
| Block allocator, `core/block_allocator.*`, `core/block_table.hpp` | LIFO `free_list_`, `reserved_` count, debug set `outstanding_` | `CanReserve`, `Reserve`, `Unreserve`, `AllocReserved`, `FreeBlock`; `BlockTable::Append/Release` | no id lost, duplicated or handed out twice; every promised block is free |
| Scheduler, `core/scheduler.*`, `core/request.hpp` | `waiting_`, `prefill_queue_`, `running_`, `free_slots_`, every `Request` | `ValidateRequest`, `Enqueue`, `PlanStep` (admit, chunked prefill, decode batch, watermark aborts), `CompleteStep` | exclusive ownership of blocks and slots, exact reservations, FCFS, every plan executable, everybody finishes |
| Engine, `core/engine.*` | `requests_` (live map), `next_request_id_`, statistics | constructor (budget, pool sizing), `AddRequest`, `Step`, accessors | each token and each finish is reported once, the map holds the live requests, counters add up |
| Model executor, `core/model_executor.*` | pinned mirrors, device inputs, KV pool, scratch slab, decode graphs | init (layout, budget, probes, capture), `PrefillChunk`, `DecodeEager`, `DecodeGraph`, teardown | inputs on the device are those of the plan, padded rows touch no live block, replay shape = captured shape |
| GEMM layer, `gemm/cublaslt_gemm.*` | plan cache | `Probe`, `PlanFor`, `BuildPlan`, `Run` | no heuristic query inside a capture; one plan per configuration |
| Loader, `loader/{safetensors,weights,convert}.*` | mapped file, weight slab, two staging slots | header validation, slab layout, placement, BF16->FP16, staged upload | every tensor placed once, staging slot not reused while its copy runs, correct rounding |
| Kernels, `kernels/*.cu` | none (device buffers passed in) | gather, scatter, RoPE, norms, attention, argmax | indexing stays inside the sequence's own blocks; argmax tie-break |
| Configuration, `core/config.*` | none | JSON parsing, range checks | accepts exactly the supported shapes |
| Binding, `api/pybind.cpp` | none | GIL release around engine calls | engine errors become Python exceptions |
| C++ benchmark, `bench_main.cpp` | request traces, counters | warmup, closed-loop submission, pump, verdict | ends; a clean exit means what it claims |
| Python client, `redline_client/__init__.py` | completions by id, idle count | `generate` over one engine | returns exactly its own prompts' tokens; takes no working engine for a wedged one |
| asyncio adapter, `bench/adapters/redline_a.py` | per-request queues, id map, counters | pump task, client tasks, one engine thread | results reach the right client, no client waits for a dead pump |

**Interactions.** One driver thread calls `Engine::AddRequest` and
`Engine::Step`.  `Step` calls `Scheduler::PlanStep`, hands the plan to the
executor, and gives the sampled tokens to `Scheduler::CompleteStep`.  The
scheduler owns the block tables and talks to the allocator; the executor reads
the tables and never changes them.  Requests are shared pointers, visible to all
three.  An exception of the executor unwinds `Step`, and the caller may call
`Step` again.

**What is hard.**  Nothing in the core is multithreaded.  The difficulty is in
long sequences of legal calls over shared accounting (a promised count, lazily
materialized blocks, three exits by which a request gives everything back), in
aborting a sequence in the middle of the loop that plans it, in a step that fails
between planning and completing and is planned again, and in head-of-line
waiting that must always end.  Around the core there is real concurrency: the
asynchronous copies of executor and uploader, the warps of the attention kernel,
and the event loop and engine thread of the adapter.  Construction is a long chain
of calls each of which may fail half way, and the forward pass reuses a few
buffers at shapes that change with every step.  `PROJECT.json` lists each hazard at its line.

## 2. Modules

The serving core, each module extending the one before it:

| Module | Contents |
|---|---|
| `BlockAllocator` | the pool; effects (`Reserve`, `AllocReserved`, ...) separate from the asserted preconditions (`CanReserve`, `CanAllocReserved`, ...) |
| `Scheduler` | requests, queues, slots, `PlanStep`, `CompleteStep`, a failing executor |
| `DecodeBuckets` | the bucket ladder and the bucket a batch is padded to |
| `DecodeDispatch` | extends `Scheduler` and `DecodeBuckets`; which graph or eager shape a batch runs at |
| `Engine` | live map, statistics, what the client received |
| `RequestService` | the abstract specification `Engine` implements: requests accepted, streamed, finished once |
| `Executor` | extends `DecodeDispatch`; pinned mirrors, device inputs, the CUDA stream, the contents of the KV pool |

Its clients:

| Module | Contents |
|---|---|
| `BenchDriver` | extends `Engine`; the loop of `bench_main.cpp`, its verdict and exit codes |
| `Generate` | extends `Engine`; calls of the Python `generate()` on one engine |
| `Adapter` | the event loop, the pump and client tasks and the engine thread of `redline_a.py`, over an abstract engine |

Construction and loading:

| Module | Contents |
|---|---|
| `GemmPlans` | the plan cache of `CublasLtGemm`: probe, build, run, and the rule about captures |
| `Startup` | extends `GemmPlans`; the constructors of `Engine` and `ModelExecutor`, warmup and capture of the decode graphs, degrade, teardown, and the GEMM calls of served steps |
| `Safetensors` | shard mapping, header and index checks, the merged tensor table |
| `WeightsLayout` | the weight map and the slab layout |
| `WeightLoad` | extends `WeightsLayout`; inventory check, the double-buffered upload against an asynchronous stream, the failure path |
| `Convert` | BF16 to FP16 on bit patterns, against a rounding reference |

The device:

| Module | Contents |
|---|---|
| `GemmShapes` | the scratch layout and the operands of every GEMM |
| `Kernels` | extends `GemmShapes`; what each kernel reads and writes |
| `ForwardPass` | extends `Kernels`; the kernel sequences of `EnqueueDecodeForward` and `EnqueuePrefillForward`, the operands each product spans, and the layer-0 dump |
| `PagedAttention` | one thread block of the attention kernel, warp by warp |
| `ArgmaxReduce` | the two argmax kernels and their reduction |

For TLC, with workloads, checkpoints, directories and tables:

| Module | Contents |
|---|---|
| `MCExecutor`, `MCEngine`, `MCAdapter`, `MCStartup` | one component (and what it extends) each |
| `MCClients` | `BenchDriver` or `Generate` over one engine |
| `MCLoading` | `Safetensors`, `Convert` and `WeightLoad` |
| `MCDevice` | `ForwardPass`, `PagedAttention` and `ArgmaxReduce` |

The last three put side by side parts that share no state or never run in one
process: an initial state picks the part a behaviour exercises (`program`, `unit`,
`grain`), and the others rest in a state where nothing is enabled.

Proofs:

| Module | Contents |
|---|---|
| `InductionFacts` | a nonempty set of numbers has a least element; induction over an initial segment; a recursive function exists |
| `SchedulerProofs` | the allocator; what each resource operation preserves of blocks, promises and slots; the invariant action by action; that plans fit their block tables, and what the scheduler promises the executor, waiting requests and abort victims |
| `ExecutorProofs` | the scheduler driving the executor: refinement of the scheduler alone, and where every token comes from |
| `EngineProofs` | the engine around the scheduler: refinement of the scheduler and of `RequestService`, the live map, the statistics; `generate()` on top of it |
| `WeightLoadProofs` | the slab layout, the upload and its failures; the safetensors reader |
| `StartupProofs` | construction, capture, degrade and teardown: what is held at each stage, and which products have plans |
| `PagedAttentionProofs` | the attention kernel, section by section between its barriers |
| `AdapterProofs` | the asyncio adapter: one call per task, engine ids and clients, and where every result and token is |

### Correspondence with the code

`Request` fields are functions from request ids (`slot`, `reserved_blocks`,
`prefill_progress`, `block_table`, `output_tokens`, ...).  The queues and
`free_slots` are sequences in the order of the C++ containers, with the top of a
stack at the end.  A `Step` is a walk of `pc`:

    idle -> admit* -> prefill* -> planned -> commit* -> return -> idle
                  \-> decode*  -/         \-> idle   (empty plan, or the executor throws)

| Code | Actions |
|---|---|
| `Engine::AddRequest` -> `ValidateRequest`, `Enqueue` | `AddRequest`, `EngineAddRequest`; an invalid request throws and changes nothing, so it is not an action |
| `PlanStep` 1, the admission loop | `Admit`, once per admitted request |
| `PlanStep` 2, one prefill chunk | `PlanPrefill`, `MaterializePrefillBlock`*, `PrefillPlanned` |
| `PlanStep` 3 and `EnsureDecodeBlockCapacity` | `PlanDecode`, `DecodeRow`, `DecodeRowReserved`, `DecodeRowClaimed`, `AbortYoungestRunning`, `DecodePlanned` |
| executor call | `Execute`, or `ExecutorThrows` (the plan is lost, everything planning did stays) |
| `CompleteStep`, `ApplySampledToken` | `CompletePrefillChunk`, `CompletePrefillFinal`, `CompleteDecodeRow`*, `CompleteDecode` |
| the rest of `Engine::Step` | `StepReturn`, `EngineStepReturns` (statistics, erase of finished entries, delivery) |

`Executor` replaces the single `Execute` of that walk by what `PrefillChunk`,
`DecodeEager` and `DecodeGraph` do:

| Code | Actions |
|---|---|
| `FillDecodeMirrors`, `FillPrefillMirrors` | `FillMirrors` |
| `Upload*Inputs`, the forward pass or graph launch, the download | `EnqueueStep` puts the step's work on `stream` |
| the device | `DeviceRuns`, one stream item at a time, concurrently with the host |
| `cudaStreamSynchronize` and the return | `ExecutorReturns`, only once the stream is empty |
| `ResolvePrefillGemmMode` throws | `GemmUnresolved`: mirrors filled, nothing enqueued |
| any other checked CUDA call throws | `CudaFails`: part of the work is enqueued, or all of it is done and the last query reports |

`Adapter` has two actors.  Each action of the loop is a task running from one
`await` to the next:

| Code | Actions |
|---|---|
| `load`, `shutdown` | `Load`, which waits for the engine thread |
| `_run_async`, `drive_workload` | `StartTrial`, `TrialSucceeds`, `TrialFails` (cancellation, poisoning) |
| `_stream_one` | `ClientWakes`, `ClientHasCapacity`, `ClientAdded`, `ClientReads` |
| `_pump` | `PumpWakes`, `PumpRoutes`, `PumpFails` |
| the executor thread | `EngineRuns`: one call of `jobs`, its answer appended to `ready` |

`RequestService` knows nothing of queues, blocks or steps: a request is
accepted, and now and then a batch of results comes back.  Each result is the next
token of an open request or the notice that it was given up; first tokens come in
order of acceptance; only the youngest started request may be given up; every
accepted request is eventually closed.  `Engine` instantiates it with `accepted`
= `next_request_id_ - 1` and `stream` = what `Step` has returned per id.
`ImplementsService` is the safety part, `ServiceSafety`; `EveryoneServed` is the
whole specification, with its fairness.
`BenchDriver` and `Generate` replace the free client of `Engine` by the loop of
their source, line by line: submit while there is capacity, step, look at the
results.

`Startup` is a walk of `stage` through the two constructors:

    config -> weights -> stream -> handle -> workspace -> self_check -> kv_pool
      -> scratch -> pinned -> probe_decode -> probe_prefill -> probe_forms
      -> warm* -> (capture_inputs -> capture_begin -> capture -> capture_end
                   -> instantiate -> upload)* -> captured -> ready

`held` and `live_execs` are the resources that exist.  An exception goes to the
handler the code has at that point: `degrade` during warmup and capture, `unwind`
(then `failed`) earlier, the caller of `Step` later.  `todo` is the list of GEMM
calls of the loop the program is in, so that a refused shape or a failing call can
strike at each of them.

| Code | Actions of `Startup` |
|---|---|
| `Engine::Engine` | `Preflight`, `PreflightRefuses`, `LoadWeights` |
| `ModelExecutor::ModelExecutor`, `CublasLtGemm::Init` | `CreateStream`, `CreateHandle`, `AllocWorkspace`, `SelfCheckDone`, `AllocKvPool`, `AllocScratch`, `AllocatePinnedMirrors` |
| `Probe...GemmConfigs` | `ProbeNext`*, `ProbeDecodeGemmConfigs`, `ProbePrefillLinear`, `ProbePrefillForms` |
| `CaptureDecodeGraphs` | `WarmupDecodeBucket`, `FillDummyInputs`, `BeginCapture`, `RegionRecorded`, `EndCapture`, `Instantiate`, `UploadGraph`, `CaptureDone`, `Degrade` |
| `RunImpl`, `PlanFor` | `RunNext`, `RunThrows` |
| `ResolvePrefillGemmMode`, `PrefillChunk`, `DecodeEager` | `PrefillChunkStep`, `ResolveBatched`, `ResolvePerHead`, `DecodeEager`, `StepDone` |
| `ReleaseAll`, destructors | `Unwind`, `Shutdown` |
| any checked library call | `CudaCallFails`, and the failing disjuncts of `EndCapture` and `Instantiate` |

| Code | Actions of the loader |
|---|---|
| `DeviceWeights::DeviceWeights` | `ValidateInventory`, `AllocSlab`, `NextEntry`, `Resident`, `DrainAndFree` |
| `StagedUploader` | `UploadChunk` (wait for the slot, convert, copy, record), `CopyFails`, `DeviceLost`, `Synchronize`, `DestroyUploader` |
| the copy engine | `DeviceStep`, one copy or event at a time; a copy reads its slot when it runs |
| `SafetensorsModel::OpenDir` | `OpenDir`, `Open` (one shard: map, check, move into the vector), `Merge`, `ResolveIndex`, `Fail`, `Close` |

`ForwardPass` turns a call into the list of kernel launches the executor enqueues
and runs them one by one (`DoEmbed`, `DoRmsNorm`, `DoLinear`, ...) over the
scratch slab and the KV pool.  `PagedAttention` has one action per warp for each
stretch between two barriers (`Stage`, `WaitPrior`, `Score`, `Probabilities`,
`Fold`, `Epilogue`), and `Land` for an asynchronous copy that arrives.

The calls of one driver thread do not overlap, so the loop iterations inside a
`Step` could be one atomic step; they are separate actions because invariants are
then checked in the middle of planning, where the aborts happen, and because each
is small enough to prove about.

### Abstractions

* A token is `"eos"` or `"tok"`: the scheduler only asks whether a token belongs
  to the EOS set.  Sampled tokens are arbitrary.  The vocabulary check of
  `AddRequest` is therefore left out, and where a run compares token sequences
  (`GenerateSound`) it compares sequences of these two, of which every mix is produced.
* A prompt is its length; a request's parameters otherwise are those of the code
  (`max_new_tokens`, `ignore_eos`, `forced_tokens`).
* The watermark floor is an exact fraction; the code compares in double
  precision.
* In `Scheduler` and `Engine` the executor succeeds or fails nondeterministically;
  which rows it runs at is `DecodeDispatch`.
* In `Executor` data is named by where it comes from.  The token at index `p` of
  request `r`, its K/V row, and the token sampled there are `<<r, p>>`; anything
  computed from a wrong input, or written by two rows at once, is `Junk`.  The
  layers are one, because each scatters before it attends and all use the same
  tables.  `FailAfter` lists how many of a step's stream calls may have been
  enqueued when one of them fails.
* In `Adapter` the engine is reduced to phases and remaining tokens: admission
  takes any oldest part of the queue (at least one request if nothing else is
  live, `IdlePoolAdmits`), a prompt takes two chunks, decode steps may abort the
  youngest (`AbortsYoungest`), aborts are reported before tokens.  A timer or a
  queue may wake its task at any later time.  That completions reach the loop in
  the order the thread produces them is asyncio's (`call_soon_threadsafe`).
* In `Startup` the heuristic's answer for a shape is free, at most
  `MaxUnsupported` shapes being refused, and stays what it was (the plan is
  cached).  The layers of a forward pass share their plans and are one.  The
  memory budget is a nondeterministic refusal.  The loop that lists the decode
  probes is written by position.
* In `WeightLoad` an element is named by tensor, layer and index; a checkpoint is
  sound or has one defect.  A staging slot is read when its copy runs, so an early
  overwrite is seen in the slab.  The slab is a record of whether it is allocated
  and of its contents.  The layer loops of `BuildWeightMap` and
  `ComputeWeightsLayout` are written by position (`PerLayer`), not as appends.
* In `Safetensors` a header is its list of entries, and `u64` is four bits wide,
  so that products overflow within reach.
* In `Kernels` a value is a term: which tensor, layer, token and column it stands
  for.  A kernel whose operands are not those of one token and one layer yields
  `Junk`.  Values occupy their bytes in the slab, so a wrong stride or an overlap
  is seen; rounding and order of summation are not.
* In `PagedAttention` an accumulator is the set of positions folded into it and
  the maximum it is relative to.
* Elsewhere integers do not overflow: every quantity is bounded by the pool size, the batch
  size or `max_seq_len`.

## 3. Runs

| Run | Checks | Shows |
|---|---|---|
| `exec_eager` | `SchedInv`, `BlockOwnership`, `ExecutorAccepts`, `IdlePoolAdmits`, `AbortsYoungest`, `SampledFromOwnContext` | scheduler and executor under `watermark` when the batch outgrows the pool: self-aborts, cascades of aborts, a failed step after an abort.  The pool and its ownership stay exact, every plan is one the executor takes, and blocks reused in the step that freed them never show in a token |
| `exec_graph` | `ReservationsExact`, `NoExhaustion`, `NoOverAllocation`, `ContextIntact`, `SampledFromOwnContext` | the same under `reserve_full` with replayed buckets and their padded rows: a reservation covers every block a step needs, materialization stays lazy when a failed step is planned again, and each sampled token is that of its row over its own context |
| `engine_forced` | `StatsExact`, `ImplementsService`, `EveryoneServed` | counters and the whole service with graph replay, teacher forcing, ignored EOS and a failed step; every request finishes |
| `engine_watermark` | `LiveMapExact`, `NoExhaustion`, `EveryoneServed` | the service with aborts, when the executor does not fail; with fewer slots than requests every admission finds a slot, every abort gives back a block, and `requests_` loses an aborted request with the step that reports it |
| `clients` | `BenchVerdict`, `BenchEnds`, `GenerateSound`, `GivesUpOnLongPrompt` | the benchmark always ends, never meets what it takes for a broken engine, and its report agrees with the engine's counters; a call of `generate` that returns has a completion with exactly its own tokens, in order, for every prompt, also after a call that failed on the same engine; it gives up for want of progress only on a prompt that has too many chunks |
| `adapter` | `RoutingKnown`, `CleanStart`, `TraceComplete`, `TrialEnds` | results are routed to registered ids, a failed trial leaves nothing to the next, a successful one recorded everything, no trial hangs |
| `startup` | `NothingLeaks`, `GraphsAllOrNothing`, `WarmBeforeCapture`, `CaptureSucceedsUnlessFaulted`, `ResolvedFormRuns` | one failing call anywhere in construction, capture or serving, and any two refused shapes |
| `loading` | `SlabMatchesCheckpoint`, `DrainedBeforeFree`, `DefectRefused`, `ViewsSound`, `RoundsToNearestEven` | placement and slot reuse under every timing of the copies, failed loads drain before they free, a defect is reported at its element; every view lies in a live mapping and has the size its shape says; all BF16 magnitudes and the binary32 ones around every tie are rounded right |
| `device` | `ForwardExact`, `DumpExact`, `OperandsFit`, `AttendsExactly`, `FirstMaximum` | after every call the sampled tokens, the KV pool and the dump files are what the network over each row's own context defines, and no product leaves its regions; under every interleaving of the warps each position is folded once; the argmax is the first maximum |
| `engine_lost_abort` | `LiveMapExact` (violated) | the first finding below |
| `exec_in_flight` | `StepEndsDrained` (violated) | the second |
| `weight_load_record` | `DrainedBeforeFree` (violated) | the third |

**Bounds.**  *Serving core.*  Three requests (`MaxRequests`), two or three batch
slots, blocks of two tokens, four to six blocks, one executor failure
(`MaxThrows`).  Three requests are enough for a waiting one behind a prefilling
one behind a running one, and for an abort that takes one of two younger
sequences.  Blocks of two tokens make outputs cross block boundaries and stop on
either side of one.  The pools are smaller than what the requests can want
together, so admission waits and watermark aborts happen; one request of the
growing mixes outgrows the pool alone and aborts itself.  The workloads include the
requests validation must reject.  One failure reaches the retry of a prefill chunk
and of a decode step, before and after an abort.  What depends on no bound is
proved.

`engine_watermark` has two batch slots for three requests, so the batch limit holds
requests back that the pool would take, and slots are handed on.  The executor runs have four batch slots, so that three live rows are padded to a
bucket of four; mixes of one- and two-chunk prompts put prefill and decode steps
on the same mirrors.  Their
`FailAfter` is `{0}`: a call fails before anything was
enqueued, or after everything was done.  Failures in between are the second
finding.

*Clients.*  The adapter run has two trials (`MaxTrials`) of two clients, a waiting
queue capped at one (so that clients back off), one throwing call (`MaxErrors`,
any `step` or `add_request`) and one abort (`MaxAborts`); a trial after a
failed one, and one after a successful one, are both reached.  In `clients` the
benchmark has waves larger than batch and waiting queue together, a request no
pool takes and a usage error; `generate` makes two calls (`MaxCalls`), with batches
that outgrow the pool, a rejected prompt and one failing step, so that a second
call meets the leftovers of the first.  The policy is `watermark`, under which
`generate` meets aborts; the benchmark's waves fit the pool.  `MAX_IDLE_STEPS` is
one, so that two prompts of two chunks one after the other are tolerated, with every
mix of results and empty steps between them, and one prompt of three is not.

*Construction and loading.*  Buckets 1, 2 and 4, chunks of two rows, contexts of up
to three, one fault (`MaxFaults`), two refused shapes (`MaxUnsupported`), two
served steps (`MaxSteps`): a fault can strike in the second bucket's capture, a
shape can be refused in one form and not in the other, and a step can follow one
that threw.  The checkpoint has one layer and tensors of one to three chunks, so
both slots are reused within a tensor and across tensors; overflows sit at the
start, in the middle and at the end of tensors.  Safetensors directories: every
shape of up to three dimensions around the limits, broken sizes and headers, up to
three shards with overlapping or missing tensors and every index over them.

*Device.*  Forward pass: two sequences on alternating blocks, two layers, four
query and two KV heads, chunks of two, so chunks, decode batches and padded rows
of different shapes meet the same slab; planes of one row and an odd context start
off the alignment of the other operands.  Attention: up to three tiles of four
slots, four warps sharing four heads two by two, which exercises both buffers and a
partly filled last tile.  Argmax: rows of up to ten columns over NaN, -inf and one
finite value, for blocks of eight and four threads of warps of four.

**Deadlock** is checked wherever the system must not stop: a barrier some warp
never reaches, an upload waiting for an event nobody recorded, a client or a stage
of construction without a next step.  Ends of a program are explicit stuttering
actions (`Exited`, `Ended`, `Stopped`, ...).  Only `adapter` turns
the check off, because with the last trial over and a new engine loaded nothing
has to happen; `TrialEnds` is what rules out a hang there.

**Fairness.**  `EngineFairSpec` assumes weak fairness of the
actions of a successful `Step` and nothing else.  That is what the drivers do:
the pump of `redline_a.py` and the loop of `bench_main.cpp` call `Step` until
everything they submitted has finished, and a `Step` runs to its end on one
thread.  Clients need never submit anything; the executor may fail, but at most
`MaxThrows` times.  With an executor that fails forever no request finishes, and
the code promises nothing else.  `ClientsSpec` assumes weak fairness of the benchmark driver's
own steps, which are those of one thread that is always ready to run.

`AdapterFairSpec` assumes weak fairness of each task's steps and of the engine
thread: the loop runs what is ready, timers fire, the thread takes its next call.
Nobody has to load an engine or start a trial.

### Findings

`engine_lost_abort`: under the watermark policy `PlanStep` finishes its abort
victims and records them only in the plan.  If the executor throws for the
surviving rows, `Step` unwinds before `CompleteStep`: the victims' `kAborted`
results are never returned, `aborts_` is not advanced and the victims stay in
`requests_`.  `engine.hpp:214` says the map holds "Live (waiting or admitted, not
yet finished) requests"; the run reaches a finished one in it between two calls.
The default policy, `reserve_full`, never aborts and is not affected
(`engine_forced` checks the same property there with a failing executor).

`exec_in_flight`: every CUDA call of a step throws on error, and no handler
drains the stream.  If a call after the first fails, `Step` is back with its
caller while copies and kernels of the failed step are still queued against the
pinned mirrors.  The comment in `ReleaseAll` (`model_executor.cpp:637`) says
"Every step ends with a stream sync, so no executable can still be running here";
that at `:973` makes the claim only for the GEMM resolution.  A caller that then
calls `Step` again rewrites mirrors those copies have yet to read.

`weight_load_record`: `StagedUploader::Upload` issues a copy, records the slot's
event, and only then marks the slot pending.  If `cudaEventRecord` fails, the copy
is in flight and nobody waits for it: `Synchronize` in the handler of
`DeviceWeights` and `~StagedUploader` look at pending slots only.  The handler's
comment (`weights.cpp:334`) says "A failed upload (e.g. Fp16OverflowError) can
leave chunks in flight that target the slab; drain them before freeing it."  In
`loading`, where recording an event does not fail (`RecordFails`), the
property holds for every other failure.

## 4. Proofs

Assumptions, named in the modules that declare the constants:
`TotalBlocksAssumption` (the pool has at least the dummy block),
`SchedulerAssumption` (the asserts of the `Scheduler` constructor),
`WorkloadAssumption` (requests have the type of requests), `DispatchAssumption`,
`ExecutorAssumption` and `EngineAssumption` (types of the options),
`GemmAssumption` and `StartupAssumption` (sizes are positive),
`WeightsAssumption` (the dimensions of the network and the alignment are positive),
`LoadAssumption` (a checkpoint has at most one defect, at an element of one of
its tensors), `LimitsAssumption` and `DirectoriesAssumption` (`u64` is one bit wider
than a nonnegative `i64`; sizes, dimensions and offsets are not negative),
`AttentionAssumption` (the kernel's static asserts, and a block
table that names each block once and never the dummy) and `AdapterAssumption`
(sizes are positive, bounds are natural numbers).  TLC evaluates them in every run.

| Theorem | Statement | Hypothesis |
|---|---|---|
| `AllocatorSafe` | `AllocSpec => [](AllocTypeOK /\ PromisesCovered /\ FreeListExact)` | |
| `SchedulerInvariant` | `SchedSpec => []SchedInv` | |
| `BlocksOwnedOnce` | `SchedSpec => []BlockOwnership` | |
| `ReservationsAddUp` | `SchedSpec => []ReservationsExact` | |
| `FinishedHoldNothing` | `SchedSpec => []OnlyAdmittedHold` | |
| `NobodyOvertakes` | `SchedSpec => []AdmissionOrder` | |
| `FirstTokensInOrder` | `SchedSpec => []FirstTokenFCFS` | |
| `AllocationNeverFails` | `SchedSpec => []NoExhaustion` | |
| `PlansFit` | `SchedSpec => []PlanInv` | |
| `MaterializationIsLazy` | `SchedSpec => []NoOverAllocation` | |
| `PlansAreAccepted` | `SchedSpec => []ExecutorAccepts` | |
| `IdlePoolTakesTheHead` | `SchedSpec => []IdlePoolAdmits` | |
| `OnlyTheYoungestIsAborted` | `SchedSpec => AbortsYoungest` | |
| `ExecutorImplementsScheduler` | `ExecSpec => SchedSpec` | |
| `ExecutorInvariant` | `ExecSpec => []ExecInv` | `FailAfter \subseteq {0}` |
| `CachedContextSurvives` | `ExecSpec => []ContextIntact` | the same |
| `TokensComeFromTheirContext` | `ExecSpec => []SampledFromOwnContext` | the same |
| `NothingInFlightBetweenSteps` | `ExecSpec => []StepEndsDrained` | the same |
| `EngineImplementsScheduler` | `EngineSpec => SchedSpec` | |
| `EngineInvariant` | `EngineSpec => [](SchedInv /\ EngineInv)` | `reserve_full`, or `MaxThrows = 0` |
| `LiveRequestsExact` | `EngineSpec => []LiveMapExact` | the same |
| `EngineServesItsClients` | `EngineSpec => ImplementsService` | the same |
| `StatisticsExact` | `EngineSpec => []StatsExact` | the same |
| `GenerateIsSound` | `GenerateSpec => []GenerateSound` | the same |
| `GivesUpOnlyOnLongPrompts` | `GenerateSpec => []GivesUpOnLongPrompt` | the same |
| `GenerateImplementsEngine` | `GenerateSpec => EngineSpec` | the same |
| `LoadInvariant` | `LoadSpec => []LoadInv` | |
| `SlabIsTheCheckpoint` | `LoadSpec => []SlabMatchesCheckpoint` | |
| `DefectsAreRefused` | `LoadSpec => []DefectRefused` | |
| `FreedOnlyWhenDrained` | `LoadSpec => []DrainedBeforeFree` | `RecordFails = FALSE` |
| `OpenedViewsAreSound` | `ReaderSpec => []ViewsSound` | |
| `StartupInvariant` | `StartSpec => []StartInv` | |
| `LeakFree` | `StartSpec => []NothingLeaks` | |
| `GraphsCompleteOrAbsent` | `StartSpec => []GraphsAllOrNothing` | |
| `CaptureIsWarm` | `StartSpec => []WarmBeforeCapture` | |
| `CaptureIsReliable` | `StartSpec => []CaptureSucceedsUnlessFaulted` | |
| `ChunkFormRuns` | `StartSpec => []ResolvedFormRuns` | |
| `AttentionInvariant` | `AttentionSpec => []AttentionInv` | |
| `AttentionExact` | `AttentionSpec => []AttendsExactly` | |
| `AdapterInvariant` | `AdapterSpec => []AdapterInv` | |
| `ResultsAreRouted` | `AdapterSpec => []RoutingKnown` | |
| `TrialsStartClean` | `AdapterSpec => []CleanStart` | |
| `TracesAreComplete` | `AdapterSpec => []TraceComplete` | |

**The hypotheses** are the findings, turned round: without them the statements
are false of the code.  `exec_in_flight` violates `StepEndsDrained` when a call
fails with part of a step's work enqueued, `engine_lost_abort` violates
`LiveMapExact` when a step throws after an abort (which is then not counted either), `weight_load_record` violates
`DrainedBeforeFree` when an event cannot be recorded.

**Allocator and scheduler.**  None of the properties is inductive alone.  That
`AllocReserved` never finds the free list empty needs the reservations to be
exact, which needs to know how much each request has reserved and materialized
(`Quota`), which in `reserve_full` bounds the blocks a decode step can want only
together with how far a sequence has come (`ProgressMatchesState`), that it was
validated (`AcceptedValid`), and that the plan in hand is about the queues as
they are now (`PlanMatchesQueues`).  Releasing a request gives back the right
things only if the queues hold exactly the requests of their state, once each
(`AdmissionOrder`).  `SchedInv` is the conjunction.  TLC checks it as an
invariant of `exec_eager`.

The proof separates two levels.  `SchedulerProofs` first shows what taking a
block, releasing a table, a reservation or a slot does to ownership, promises and
quotas, without knowing which action does it; then it goes through the actions and
cites those lemmas.
`AllocationNeverFails` and `FirstTokensInOrder` then follow from the invariant.

`PlanInv` adds what `SchedInv` does not say: a table is at most one block ahead of
the tokens computed, and a row that is planned has the block of the position it
writes.  A failed step leaves its blocks behind, so "at most what the next attempt
needs" is the form that survives a retry.  It is inductive relative to `SchedInv`,
and gives `NoOverAllocation` and `ExecutorAccepts`.  `IdlePoolAdmits` and the action
property `AbortsYoungest` need `SchedInv` alone.

**Executor.**  `ExecutorImplementsScheduler` says that the composition only refines
the scheduler's `Execute`, so all of the above holds of it.  `ExecInv` follows one
step's data: while a call is being made the mirrors hold the inputs of the plan in
hand; with `n` items of the stream done, the device inputs those items upload, the
KV rows they scatter and the tokens they download are in place (`DeviceAt`); the
positions before each sequence's end hold its own context (`ContextIntact`).  The
heart is that a scatter of one row leaves every position another row reads alone,
which is `BlockOwnership`, and that padded rows write to the dummy block only.

**Engine.**  `EngineInv` relates the three books: the live map, what the scheduler
still has to report, and what the client has received.  The results of a step
under way are each the next allowed one of their request, and no request has two;
abort victims are reported in the step that aborts them, which is where the
hypothesis enters.  `EngineServesItsClients` maps every step of the engine to a
step of `RequestService` or to none.  `StatisticsExact` follows the counters through
a step (`StatsInv`): what the requests show and the counters do not yet have is the
rows committed so far, the chunk committed, and the aborts of the plan in hand.  A sum
is stated as the number of its units (`Total`), so that the proof only has to show
that adding to one number adds pairs that were not there.  The number of decode steps
is bounded by the other counters, not determined: no state remembers it.  TLC checked
`StatsInv` on the instances of `engine_forced` and `engine_watermark`.

**Generate.**  `GenerateInv` stands on `EngineInv`.  The last result of a request
carries the reason it ended with, and with it the client has every token it produced
(`LastResults`; an abort notice has none).  The ids of a call are the last ones the
engine gave out, one for every prompt submitted (`CallShape`).  A completion has what
was delivered for its id, and is closed exactly when the delivery is (`UpToDate`), so
the completions still open are the ones `unfinished` counts.  As long as no call has
raised, every request the engine has not closed belongs to the call (the rest of
`GenerateInv`): that is what makes the code's two "single driver" errors unreachable.
The loop over the results is a recursion; because a step has at most one result for
a request, each completion takes its own and no other (`CompletionsAre`).
`TokensInv` adds the tokens themselves: a completion is a prefix of what its request
has produced (`Collected`), and a result carries the request's newest token
(`NewestTold`), which holds because `generate` passes no forced tokens; with as many
tokens as the request has when the last result is in, the prefix is all of them.
`IdleInv` is about the empty results: an intermediate chunk is a whole one
(`PlansAreWork`) of the prompt at the head of `prefill_queue`, which stays the head
until its last chunk gives a result, so `idle_steps` never exceeds the chunks it has
come (`IdleCount`).  The other way to an empty result, an empty plan, needs
that nobody is admitted (`EmptyPlans`), when the head of the waiting queue would have
been (`IdlePoolFits`), or that nobody is there, when `generate` would not call `Step`
(`SomebodyServed`).  TLC checked `GenerateInv` under both policies, `TokensInv` and
`IdleInv` on the instance of `clients`; and the `clients` run checks
`GenerateSound` where the hypothesis fails too, with an abort lost to a step that
throws.

**Weight load.**  The layout is proved first, from the recursion of
`ComputeWeightsLayout`: regions are named uniquely and lie one after another,
every tensor of the weight map fits its rows of its region, and no two tensors
share an element (`LayoutSound`).  Then `LoadInv`: a copy in the stream is
followed by its event and the event's slot is pending (`OnTheBooks`), so a slot that
is free is read by nobody; every copy still carries the chunk it was issued for
(`AllCarry`); every element the loop is past is in the slab or will be written
(`OnTheWay`).  When both events are reached the stream is empty, so everything is in
its place.  With that, reading the slab as fused tensors is a matter of the tables.

Induction over the tables is done on sets, from the library's well-foundedness of `<`
(`InductionFacts`): a nonempty set of numbers has a least element.

**Reader.**  For every width of the integers `elem_count` either gives up or is the
product of the dimensions (a zero dimension included), by induction over its running
counts; so `HeaderAccepted`, written with products that wrap, accepts only
entries that lie inside their file.  `ReaderInv`: the shards held are accepted files and
the mappings are theirs, through every move of a shard (`ShardsAccepted`); no two shards
have a tensor in common, and a merged view is that of the shard with its tensor
(`MergedOnce`); what the index names is in the shard it names (`IndexResolved`).  TLC
checked its parts on the reader of `loading`, where `u64` has four bits; the theorem
holds at 64.

**Construction.**  `StartInv` says what each stage of the constructors holds
(`HeldExactly`), that every executable is on `execs` until the capture ends and on
`graph_execs` afterwards, a prefix of the buckets at each point (`ExecsListed`), and
how far the warmup has come (`WarmedUp`).  `CaptureSucceedsUnlessFaulted` needs more:
that the products of every bucket are among the probed ones, which the constructor
required to be available, that no later step drops a plan, and that warmup and
capture run those products only (`DecodeRuns`); so a call inside a region finds its
plan whatever the heuristic answers elsewhere, and `degrade` is reached through a
failing call alone.  `StartInv` added to the
invariants of `startup.cfg` holds there too.

**Attention.**  `AttentionInv` says that all warps are in one section of one tile
`i`.  Each section is a predicate: while a tile is staged, the accumulators and the
softmax state are those of the tiles before it, and each warp has its rows of the
tile or a copy of its own on the way; while it is scored, weighed or folded, every
warp holds its rows and at most the next tile is in flight, to the other buffer.  A
step of a warp touches rows, scores and heads of its own only, and a barrier adds up
what the warps have: every slot, every score and every head belongs to some warp of
the block.  What a tile adds to a sum of weights is `TileSummed`: no position twice,
all relative to one maximum.  TLC checked `AttentionInv` with four warps in both
stagings.

**Adapter.**  Between trials `Resting` holds: nothing is on its way to the loop, and
unless the adapter is poisoned no call is left and no request lives in the engine.
During a trial `Driving` holds.  Every task has at most one call, in the thread's
queue or on its way back (`OneCall`).  Ids and clients are one to one, and a live
request is registered or the answer with its id is on its way (`RepliesSound`,
`Registered`).  A result travels behind the answer that carried its id, so the loop
handles the answer first, and its client is still open (`PendingSound`): this is why
the comment "Safe against the pump seeing this id first" in `redline_a.py` is
true.  For each request of the trial the tokens recorded, queued, on their way and left
in the engine add up to `Budget` (`TokensAddUp`), so a trace that closes without an
abort is complete.  The proof separates what an engine call may do (`Effect`, `Stepped`) from
what a turn of the loop may do (`LoopStep` and its kinds `PlainStep`, `ReadStep`,
`PumpStep`), shows that each preserves the parts, and then that every action is one of
them.  The results of one step have different ids, so a client gets at most one.
TLC checked `AdapterInv` with two and with three clients.

**Only model-checked.**  `TrialEnds`, `BenchEnds` and the liveness in
`EveryoneServed` are liveness under fairness, out of the prover's reach, as are
`ENABLED`, induction over data with the library's theorems, and anything in a module with
RECURSIVE operators (this project has none).  The bit arithmetic of `Convert`, the
reductions of `ArgmaxReduce` and the symbolic values of `ForwardPass` are checked over
all inputs of their bounds.  The
verdict of `BenchDriver` is provable in principle and is not proved.

## 5. Not modelled

* Floating-point values: rounding, the order of summation and the accuracy of the
  kernels.  TLC cannot evaluate them usefully.
* `core/config.*`: compares JSON fields with constants; no state, no order of steps.
  A refusal is `PreflightRefuses`.
* `api/pybind.cpp`: one-line forwards with type conversion.
* `bench/run_bench.py`, `workload.py`, `report.py`: arithmetic over finished traces.
* Reports and texts: `AlgoReportJson`, the benchmark's JSON and percentiles, log
  lines; the `--selftest-workload` comparison of `bench_main.cpp`; tokenizing.
* The arithmetic of the memory budget (`ComputeBudget`, preflight): its refusal is
  modelled, its numbers are not.
* A failure between the two `cudaEventCreate` calls of `StagedUploader`'s
  constructor, before anything is in flight.

## 6. Plan

Done: every component above but those of section 5, and the proofs of the serving
core, of the safetensors reader and the weight load, of the engine's construction, of
the attention kernel, of the asyncio adapter and of `generate()`.  What is left is
proof: `BenchVerdict`, the verdict of the C++ benchmark, which needs sums over its
traces.
