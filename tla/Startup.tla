------------------------------- MODULE Startup --------------------------------
(***************************************************************************)
(* From the constructor of Engine to the steps it serves: the constructor  *)
(* of core/engine.cpp, the one of core/model_executor.cpp it calls, the    *)
(* GEMM probes, the warmup and capture of the decode graphs, and which     *)
(* plans of GemmPlans the prefill chunks and decode steps then use.        *)
(*                                                                         *)
(* Every call that can fail may do so, MaxFaults times in a behaviour.  A  *)
(* loop over GEMM calls is `todo`, its head the next call.  An exception   *)
(* goes where the code catches it: during the capture to degrade, earlier  *)
(* to the unwinding of the constructors, in a served step to the caller.   *)
(* The layers of a forward pass share their plans and are one.             *)
(***************************************************************************)
EXTENDS GemmPlans, DecodeBuckets

CONSTANTS
  MaxBatch, PrefillChunk, MaxSeqLen,
  MaxFaults,                  \* bound: failing library calls
  MaxSteps                    \* bound: served steps

ASSUME StartupAssumption ==
  /\ {MaxBatch, PrefillChunk, MaxSeqLen} \subseteq Nat \ {0}
  /\ {MaxFaults, MaxSteps} \subseteq Nat

VARIABLES
  stage,                      \* where the program is
  todo,                       \* GEMM calls left in the loop it is in
  held,                       \* resources that exist
  faults,
  enable_cuda_graphs,         \* options_.enable_cuda_graphs
  bucket,                     \* index of the bucket warmed or captured
  stream_capturing,           \* the capture status of stream_
  capturing,                  \* CaptureDecodeGraphs' local flag
  execs, graph_execs,         \* its local list, and the member; bucket indices
  live_execs,                 \* graph executables that exist
  executed,                   \* configurations the warmup has run and drained
  prefill_gemm_mode,
  chunk,                      \* the prefill chunk served: rows, ctx, final, mode
  steps

captureVars == <<bucket, stream_capturing, capturing, execs, graph_execs, live_execs, executed>>
serveVars == <<prefill_gemm_mode, chunk, steps>>
vars == <<gemmVars, enable_cuda_graphs, stage, todo, held, faults, captureVars, serveVars>>

-----------------------------------------------------------------------------
buckets == MakeDecodeBuckets(MaxBatch)

\* Every bucket, and max_batch when it is not one.
row_shapes ==
  IF buckets # <<>> /\ Last(buckets) = MaxBatch THEN buckets ELSE Append(buckets, MaxBatch)

\* The products of a decode step, in the order EnqueueDecodeForward runs them.
DecodeCalls(rows) ==
  <<Linear("qkv_bias", rows), Linear("o", rows), Linear("gateup", rows),
    Linear("down", rows), Linear("lm_head", rows)>>

LinearCalls(rows) == SubSeq(DecodeCalls(rows), 1, 4)

\* The calls of one prefill layer with attention in `mode`, and of a final chunk.
PrefillCalls(rows, ctx, mode, final_chunk) ==
  LET heads == IF mode = "strided_batched" THEN HeadsPerGroup ELSE 1 IN
  <<Linear("qkv_bias", rows), PrefillScores(rows, ctx, heads), PrefillPv(rows, ctx, heads)>>
    \o Tail(LinearCalls(rows))
    \o (IF final_chunk THEN <<Linear("lm_head", 1)>> ELSE <<>>)

Forms(rows, ctx, heads) == <<PrefillScores(rows, ctx, heads), PrefillPv(rows, ctx, heads)>>

\* The largest chunk a request can produce, at the largest context.
rep_rows == Min({PrefillChunk, MaxSeqLen})

\* The five products of each row shape.
DecodeProbes ==
  [k \in 1 .. 5 * Len(row_shapes) |->
     DecodeCalls(row_shapes[(k - 1) \div 5 + 1])[((k - 1) % 5) + 1]]

\* Both attention forms are probed whatever the first one answers.
FormProbes == Forms(rep_rows, MaxSeqLen, HeadsPerGroup) \o Forms(rep_rows, MaxSeqLen, 1)

Available(calls) == \A i \in DOMAIN calls : calls[i] \in DOMAIN plans /\ plans[calls[i]]

NoChunk == [rows |-> 0, ctx |-> 0, final |-> FALSE, mode |-> "none"]

StartInit ==
  /\ GemmInit
  /\ stage = "config" /\ todo = <<>> /\ enable_cuda_graphs \in BOOLEAN /\ bucket = 0
  /\ held = {} /\ live_execs = {} /\ stream_capturing = FALSE /\ capturing = FALSE
  /\ execs = <<>> /\ graph_execs = <<>> /\ executed = {}
  /\ prefill_gemm_mode = "strided_batched" /\ chunk = NoChunk
  /\ faults = 0 /\ steps = 0

-----------------------------------------------------------------------------
(***************************************************************************)
(* Failing calls.                                                          *)
(***************************************************************************)

CaptureStages == {"warm", "capture_inputs", "capture_begin", "capture", "capture_end",
                  "instantiate", "upload", "captured"}

ServingStages == {"resolve", "resolve_per_head", "prefill", "decode"}

\* The handler an exception thrown now reaches.
Handler ==
  IF stage \in CaptureStages THEN "degrade"
  ELSE IF stage \in ServingStages THEN "ready" ELSE "unwind"

Throw == stage' = Handler /\ todo' = <<>>

\* One call of a library fails; what the caller holds at that point it keeps.
Fault == faults < MaxFaults /\ faults' = faults + 1 /\ Throw

\* A call that leaves nothing behind when it fails.  EndCapture and Instantiate
\* are not such calls and have their failures below.
CudaCallFails ==
  /\ stage \notin {"ready", "failed", "unwind", "degrade", "capture_end", "instantiate"}
  /\ Fault
  /\ UNCHANGED <<gemmVars, held, captureVars, serveVars>>

\* Control moves on and nothing else changes.
GoTo(from, next) ==
  /\ stage = from /\ stage' = next
  /\ UNCHANGED <<gemmVars, todo, held, faults, captureVars, serveVars>>

-----------------------------------------------------------------------------
(***************************************************************************)
(* Engine::Engine up to the executor.                                      *)
(***************************************************************************)

\* ModelConfig::FromModelDir, OpenDir and the budget hold no device resource.
Preflight == GoTo("config", "weights")

\* cudaMemGetInfo reports less than the required total, or parsing throws.
PreflightRefuses == GoTo("config", "unwind")

\* One allocation made by the constructors.
Acquire(from, resource, next, calls) ==
  /\ stage = from /\ stage' = next /\ todo' = calls
  /\ held' = held \cup {resource}
  /\ handle' = (handle \/ resource = "handle")
  /\ UNCHANGED <<plans, faults, captureVars, serveVars>>

\* The load stream lives for the upload only.  A failing load is CudaCallFails:
\* DeviceWeights and the handler around it release what they made.
LoadWeights == Acquire("weights", "weights", "stream", <<>>)

-----------------------------------------------------------------------------
(***************************************************************************)
(* ModelExecutor::ModelExecutor: s0, then the handle and the workspace of  *)
(* CublasLtGemm::Init, then the pool, the scratch and the mirrors.         *)
(***************************************************************************)
CreateStream == Acquire("stream", "stream", "handle", <<>>)
CreateHandle == Acquire("handle", "handle", "workspace", <<>>)
AllocWorkspace == Acquire("workspace", "workspace", "self_check", SelfCheckModelShapes)
AllocKvPool == Acquire("kv_pool", "kv_pool", "scratch", <<>>)
AllocScratch == Acquire("scratch", "scratch", "pinned", <<>>)
AllocatePinnedMirrors == Acquire("pinned", "pinned", "probe_decode", DecodeProbes)

ProbeStages == {"self_check", "probe_decode", "probe_prefill", "probe_forms", "resolve",
                "resolve_per_head"}

\* One Probe of a probing loop: unavailability is noted and the loop goes on.
ProbeNext ==
  /\ stage \in ProbeStages /\ todo # <<>>
  /\ handle /\ Probe(Head(todo)) /\ todo' = Tail(todo)
  /\ UNCHANGED <<handle, stage, held, faults, captureVars, serveVars>>

SelfCheckDone == todo = <<>> /\ GoTo("self_check", "kv_pool")

\* A probing loop whose configurations have no fallback, and what follows it.
RequireAvailable(at, calls, next, next_calls) ==
  /\ stage = at /\ todo = <<>>
  /\ IF Available(calls) THEN stage' = next /\ todo' = next_calls ELSE Throw
  /\ UNCHANGED <<gemmVars, held, faults, captureVars, serveVars>>

ProbeDecodeGemmConfigs ==
  RequireAvailable("probe_decode", DecodeProbes, "probe_prefill", LinearCalls(rep_rows))

ProbePrefillLinear ==
  RequireAvailable("probe_prefill", LinearCalls(rep_rows), "probe_forms", FormProbes)

\* What the constructor does after its probes: capture, or serve eagerly.
AfterProbes ==
  IF enable_cuda_graphs /\ buckets # <<>>
  THEN stage' = "warm" /\ bucket' = 1 /\ todo' = DecodeCalls(buckets[1])
  ELSE stage' = "ready" /\ UNCHANGED <<bucket, todo>>

\* The form the engine starts with: batched, else per head, else no engine.
ProbePrefillForms ==
  LET batched  == Available(Forms(rep_rows, MaxSeqLen, HeadsPerGroup))
      per_head == Available(Forms(rep_rows, MaxSeqLen, 1))
  IN
  /\ stage = "probe_forms" /\ todo = <<>>
  /\ \/ batched /\ prefill_gemm_mode' = "strided_batched" /\ AfterProbes
     \/ ~batched /\ per_head /\ prefill_gemm_mode' = "per_head" /\ AfterProbes
     \/ ~batched /\ ~per_head /\ Throw /\ UNCHANGED <<bucket, prefill_gemm_mode>>
  /\ UNCHANGED <<gemmVars, held, faults, stream_capturing, capturing, execs, graph_execs,
                 live_execs, executed, chunk, steps>>

-----------------------------------------------------------------------------
(***************************************************************************)
(* CaptureDecodeGraphs: warm every bucket, then capture every bucket.      *)
(***************************************************************************)
RunStages == {"warm", "capture", "prefill", "decode"}

\* One GEMM of a forward pass reaches cublasLtMatmul.
RunNext ==
  /\ stage \in RunStages /\ todo # <<>>
  /\ RunImpl(Head(todo), stream_capturing) /\ todo' = Tail(todo)
  /\ UNCHANGED <<handle, stage, held, faults, captureVars, serveVars>>

\* It throws: no algorithm, or a plan missing inside the capture region.
RunThrows ==
  /\ stage \in RunStages /\ todo # <<>>
  /\ IF MissesInCapture(Head(todo), stream_capturing) THEN UNCHANGED plans
     ELSE RunUnavailable(Head(todo), stream_capturing)
  /\ Throw
  /\ UNCHANGED <<handle, held, faults, captureVars, serveVars>>

\* Mutant: one warmup is taken to serve for all buckets.
WarmFirstOnly ==
  /\ stage = "warm" /\ todo = <<>>
  /\ executed' = executed \cup ToSet(DecodeCalls(buckets[bucket]))
  /\ stage' = "capture_inputs" /\ bucket' = 1 /\ UNCHANGED todo
  /\ UNCHANGED <<gemmVars, held, faults, stream_capturing, capturing, execs, graph_execs,
                 live_execs, serveVars>>

\* The warmup step of a bucket is drained; the next bucket's, or phase 2.
WarmupDecodeBucket ==
  /\ stage = "warm" /\ todo = <<>>
  /\ executed' = executed \cup ToSet(DecodeCalls(buckets[bucket]))
  /\ IF bucket < Len(buckets)
     THEN stage' = "warm" /\ bucket' = bucket + 1 /\ todo' = DecodeCalls(buckets[bucket + 1])
     ELSE stage' = "capture_inputs" /\ bucket' = 1 /\ UNCHANGED todo
  /\ UNCHANGED <<gemmVars, held, faults, stream_capturing, capturing, execs, graph_execs,
                 live_execs, serveVars>>

\* The dummy inputs of the bucket's shape, uploaded and drained.
FillDummyInputs == GoTo("capture_inputs", "capture_begin")

BeginCapture ==
  /\ stage = "capture_begin" /\ stage' = "capture"
  /\ stream_capturing' = TRUE /\ capturing' = TRUE /\ todo' = DecodeCalls(buckets[bucket])
  /\ UNCHANGED <<gemmVars, held, faults, bucket, execs, graph_execs, live_execs, executed,
                 serveVars>>

\* The enqueue calls of the region have all been recorded.
RegionRecorded == todo = <<>> /\ GoTo("capture", "capture_end")

\* The region is over either way; a failed EndCapture yields no graph.
EndCapture ==
  /\ stage = "capture_end" /\ stream_capturing' = FALSE /\ capturing' = FALSE
  /\ \/ held' = held \cup {"graph"} /\ stage' = "instantiate" /\ UNCHANGED <<todo, faults>>
     \/ Fault /\ UNCHANGED held
  /\ UNCHANGED <<gemmVars, bucket, execs, graph_execs, live_execs, executed, serveVars>>

InstantiateRest == <<gemmVars, bucket, stream_capturing, capturing, graph_execs, executed, serveVars>>

\* Mutant: the executable is not listed before it has been uploaded.
InstantiateUnlisted ==
  /\ stage = "instantiate" /\ held' = held \ {"graph"}
  /\ stage' = "upload" /\ live_execs' = live_execs \cup {bucket}
  /\ UNCHANGED <<execs, todo, faults, InstantiateRest>>

\* The template goes whether or not it could be instantiated; the executable
\* is listed at once.
Instantiate ==
  /\ stage = "instantiate" /\ held' = held \ {"graph"}
  /\ \/ /\ stage' = "upload" /\ live_execs' = live_execs \cup {bucket}
        /\ execs' = Append(execs, bucket) /\ UNCHANGED <<todo, faults>>
     \/ Fault /\ UNCHANGED <<live_execs, execs>>
  /\ UNCHANGED InstantiateRest

\* cudaGraphUpload is drained: the next bucket, or the end of the loop.
UploadGraph ==
  /\ stage = "upload"
  /\ IF bucket < Len(buckets) THEN stage' = "capture_inputs" /\ bucket' = bucket + 1
     ELSE stage' = "captured" /\ UNCHANGED bucket
  /\ UNCHANGED <<gemmVars, todo, held, faults, stream_capturing, capturing, execs, graph_execs,
                 live_execs, executed, serveVars>>

\* After the last cudaMemGetInfo the member takes the list over.
CaptureDone ==
  /\ stage = "captured" /\ stage' = "ready"
  /\ graph_execs' = execs /\ execs' = <<>>
  /\ UNCHANGED <<gemmVars, todo, held, faults, bucket, stream_capturing, capturing, live_execs,
                 executed, serveVars>>

DegradeRest == <<gemmVars, todo, held, faults, bucket, executed, serveVars>>

\* Mutant: what was captured so far is kept for replay.
DegradeKeepsCaptured ==
  /\ stage = "degrade" /\ stage' = "ready"
  /\ stream_capturing' = FALSE /\ capturing' = FALSE
  /\ graph_execs' = execs /\ execs' = <<>>
  /\ UNCHANGED <<live_execs, DegradeRest>>

\* degrade: close an open region, destroy what was made, serve eagerly.
Degrade ==
  /\ stage = "degrade" /\ stage' = "ready"
  /\ stream_capturing' = (stream_capturing /\ ~capturing) /\ capturing' = FALSE
  /\ live_execs' = live_execs \ ToSet(execs) /\ execs' = <<>>
  /\ UNCHANGED <<graph_execs, DegradeRest>>

-----------------------------------------------------------------------------
(***************************************************************************)
(* Teardown: ReleaseAll, then the destructors of gemm_ and of weights_.    *)
(***************************************************************************)
ExecutorHolds == {"stream", "kv_pool", "scratch", "pinned", "workspace", "handle", "weights"}

ReleaseAll ==
  /\ held' = held \ ExecutorHolds
  /\ live_execs' = live_execs \ ToSet(graph_execs) /\ graph_execs' = <<>>
  /\ handle' = FALSE /\ plans' = <<>>

\* The constructor throws: the executor's, and with it the engine's.
Unwind ==
  /\ stage = "unwind" /\ stage' = "failed"
  /\ ReleaseAll
  /\ UNCHANGED <<todo, faults, bucket, stream_capturing, capturing, execs, executed, serveVars>>

\* The engine is destroyed between two steps.
Shutdown == GoTo("ready", "unwind")

-----------------------------------------------------------------------------
(***************************************************************************)
(* Serving.                                                                *)
(***************************************************************************)
ServeRest == <<gemmVars, held, faults, captureVars, prefill_gemm_mode>>

\* An eager decode step, `live` being the rows it runs at (a bucket if eager steps
\* are padded); a replayed one calls no GEMM.
DecodeEager(live) ==
  /\ stage = "ready" /\ steps < MaxSteps /\ steps' = steps + 1
  /\ graph_execs = <<>> \/ SelectBucket(live, buckets) < 0
  /\ stage' = "decode" /\ todo' = DecodeCalls(live)
  /\ UNCHANGED <<ServeRest, chunk>>

\* A chunk: resolve the attention form at its shape before anything is enqueued.
PrefillChunkStep(rows, ctx, final_chunk) ==
  /\ stage = "ready" /\ steps < MaxSteps /\ steps' = steps + 1
  /\ chunk' = [rows |-> rows, ctx |-> ctx, final |-> final_chunk, mode |-> "none"]
  /\ IF prefill_gemm_mode = "strided_batched"
     THEN stage' = "resolve" /\ todo' = Forms(rows, ctx, HeadsPerGroup)
     ELSE stage' = "resolve_per_head" /\ todo' = Forms(rows, ctx, 1)
  /\ UNCHANGED ServeRest

RunChunk(mode) ==
  /\ stage' = "prefill" /\ chunk' = [chunk EXCEPT !.mode = mode]
  /\ todo' = PrefillCalls(chunk.rows, chunk.ctx, mode, chunk.final)

\* This shape is demoted to per-head calls.
Demote == stage' = "resolve_per_head" /\ todo' = Forms(chunk.rows, chunk.ctx, 1) /\ UNCHANGED chunk

\* Mutant: the scores product alone decides.
ResolveByScores ==
  /\ stage = "resolve" /\ todo = <<>>
  /\ IF Available(<<PrefillScores(chunk.rows, chunk.ctx, HeadsPerGroup)>>)
     THEN RunChunk("strided_batched") ELSE Demote
  /\ UNCHANGED <<ServeRest, steps>>

\* Both batched products are available at this shape, or it is demoted.
ResolveBatched ==
  /\ stage = "resolve" /\ todo = <<>>
  /\ IF Available(Forms(chunk.rows, chunk.ctx, HeadsPerGroup))
     THEN RunChunk("strided_batched") ELSE Demote
  /\ UNCHANGED <<ServeRest, steps>>

\* The last form: per head, or the step throws with nothing enqueued.
ResolvePerHead ==
  /\ stage = "resolve_per_head" /\ todo = <<>>
  /\ IF Available(Forms(chunk.rows, chunk.ctx, 1)) THEN RunChunk("per_head")
     ELSE Throw /\ UNCHANGED chunk
  /\ UNCHANGED <<ServeRest, steps>>

\* The step's final synchronization.
StepDone == todo = <<>> /\ \E at \in {"prefill", "decode"} : GoTo(at, "ready")

-----------------------------------------------------------------------------
StartupSteps ==
  \/ Preflight \/ PreflightRefuses \/ LoadWeights \/ CreateStream \/ CreateHandle
  \/ AllocWorkspace \/ AllocKvPool \/ AllocScratch \/ AllocatePinnedMirrors
  \/ ProbeNext \/ SelfCheckDone \/ ProbeDecodeGemmConfigs \/ ProbePrefillLinear
  \/ ProbePrefillForms \/ RunNext \/ RunThrows \/ WarmupDecodeBucket \/ FillDummyInputs
  \/ BeginCapture \/ RegionRecorded \/ EndCapture \/ Instantiate \/ UploadGraph
  \/ CaptureDone \/ Degrade \/ Unwind \/ CudaCallFails

\* The rest of a step that has begun.
StepRest == ResolveBatched \/ ResolvePerHead \/ StepDone

StepBegins ==
  \/ \E live \in 1 .. MaxBatch : DecodeEager(live)
  \/ \E rows \in 1 .. rep_rows, ctx \in 1 .. MaxSeqLen, final_chunk \in BOOLEAN :
       rows <= ctx /\ PrefillChunkStep(rows, ctx, final_chunk)

Stopped == stage = "failed" /\ UNCHANGED vars

StartNext ==
  /\ UNCHANGED enable_cuda_graphs
  /\ \/ StartupSteps \/ StepRest \/ StepBegins \/ Shutdown \/ Stopped

StartSpec == StartInit /\ [][StartNext]_vars

-----------------------------------------------------------------------------
(***************************************************************************)
(* Properties.                                                             *)
(***************************************************************************)
\* Whatever call fails, and wherever: a constructor that threw (and a destroyed
\* engine) leaves no stream, memory, library handle, graph or executable
\* behind, and one that returned holds exactly its own and those of the graphs
\* it replays (ModelExecutor::ReleaseAll, degrade, ~CublasLtGemm).
NothingLeaks ==
  /\ stage = "failed" => held = {} /\ live_execs = {}
  /\ stage = "ready" => held = ExecutorHolds /\ live_execs = ToSet(graph_execs)

\* Once the engine serves, every bucket has its graph or none has; the stream
\* is not left in capture mode (CaptureDecodeGraphs' degrade rule).
GraphsAllOrNothing ==
  stage \in ServingStages \cup {"ready"} =>
    /\ graph_execs \in {<<>>, [i \in DOMAIN buckets |-> i]}
    /\ ~stream_capturing

\* Everything recorded in a graph has run eagerly before any capture began: no
\* first-use work (plan, kernel image, constant table) falls into a capture.
WarmBeforeCapture ==
  stream_capturing => \A i \in DOMAIN buckets : ToSet(DecodeCalls(buckets[i])) \subseteq executed

\* Graphs are lost to a failing call only: no plan is missing inside a capture
\* region and no captured shape lacks an algorithm (PlanFor's capture rule).
CaptureSucceedsUnlessFaulted ==
  stage \in ServingStages \cup {"ready"} /\ enable_cuda_graphs /\ faults = 0 => graph_execs # <<>>

\* A chunk that starts to enqueue work has an algorithm for both attention
\* products in the form it resolved to: it cannot throw between them and leave
\* copies in flight (PrefillChunk resolves "BEFORE anything is enqueued").
ResolvedFormRuns ==
  stage = "prefill" =>
    Available(Forms(chunk.rows, chunk.ctx,
                    IF chunk.mode = "strided_batched" THEN HeadsPerGroup ELSE 1))

-----------------------------------------------------------------------------
(***************************************************************************)
(* What makes the properties inductive.                                    *)
(***************************************************************************)
\* The executor is complete and no graph template exists.
Settled ==
  {"probe_decode", "probe_prefill", "probe_forms", "degrade", "ready"}
    \cup ServingStages \cup (CaptureStages \ {"instantiate"})

Stages ==
  {"config", "weights", "stream", "handle", "workspace", "self_check", "kv_pool", "scratch", "pinned",
   "instantiate", "unwind", "failed"} \cup Settled

FirstBuckets(n) == [i \in 1 .. n |-> i]

\* What exists is what the constructors have made up to this stage.
HeldExactly ==
  /\ stage \in {"config", "weights", "failed"} => held = {}
  /\ stage = "stream" => held = {"weights"}
  /\ stage = "handle" => held = {"weights", "stream"}
  /\ stage = "workspace" => held = {"weights", "stream", "handle"}
  /\ stage \in {"self_check", "kv_pool"} => held = {"weights", "stream", "handle", "workspace"}
  /\ stage = "scratch" => held = {"weights", "stream", "handle", "workspace", "kv_pool"}
  /\ stage = "pinned" => held = {"weights", "stream", "handle", "workspace", "kv_pool", "scratch"}
  /\ stage \in Settled => held = ExecutorHolds
  /\ stage = "instantiate" => held = ExecutorHolds \cup {"graph"}
  /\ stage = "unwind" => held \subseteq ExecutorHolds

\* The executables are those of the buckets captured so far, on one list: that
\* of CaptureDecodeGraphs until it ends, the executor's afterwards.
ExecsListed ==
  /\ live_execs = ToSet(execs) \cup ToSet(graph_execs)
  /\ stage \in {"capture_inputs", "capture_begin", "capture", "capture_end", "instantiate"} =>
       execs = FirstBuckets(bucket - 1)
  /\ stage = "upload" => execs = FirstBuckets(bucket)
  /\ stage = "captured" => execs = FirstBuckets(Len(buckets))
  /\ stage \notin (CaptureStages \ {"warm"}) \cup {"degrade"} => execs = <<>>
  /\ graph_execs # <<>> => /\ stage \in ServingStages \cup {"ready", "unwind"}
                            /\ graph_execs = FirstBuckets(Len(buckets))

\* Every bucket before the one being warmed has run; all of them, later on.
WarmedUp ==
  /\ stage \in CaptureStages => bucket \in 1 .. Len(buckets)
  /\ stage = "warm" => \A i \in 1 .. bucket - 1 : ToSet(DecodeCalls(buckets[i])) \subseteq executed
  /\ stage \in CaptureStages \ {"warm"} \/ stream_capturing =>
       \A i \in DOMAIN buckets : ToSet(DecodeCalls(buckets[i])) \subseteq executed
  /\ stream_capturing = capturing
  /\ stream_capturing => stage \in {"capture", "capture_end", "degrade"}

\* Past their probes the decode products have an algorithm each, and warmup and
\* capture run no others.
DecodeRuns ==
  /\ stage \in (Settled \cup {"instantiate"}) \ {"probe_decode"} => Available(DecodeProbes)
  /\ stage \in {"warm", "capture"} => todo \in Seq(ToSet(DecodeCalls(buckets[bucket])))

StartInv ==
  /\ stage \in Stages /\ faults \in Nat /\ DOMAIN chunk = {"rows", "ctx", "final", "mode"}
  /\ HeldExactly /\ ExecsListed /\ WarmedUp /\ DecodeRuns
  /\ stage = "degrade" => faults > 0
  /\ CaptureSucceedsUnlessFaulted
  /\ ResolvedFormRuns
===============================================================================
