---------------------------- MODULE StartupProofs -----------------------------
(***************************************************************************)
(* Proofs about construction and capture: whatever call fails, nothing is  *)
(* leaked, the graphs are complete or absent, and a region only records    *)
(* what has run before.                                                    *)
(***************************************************************************)
EXTENDS Startup, SequenceTheorems, TLAPS

-----------------------------------------------------------------------------
(***************************************************************************)
(* The buckets and the plans of their products.                            *)
(***************************************************************************)
\* The ladder restricted to max_batch is a non-empty sequence.
LEMMA BucketList ==
  /\ Len(buckets) \in Nat /\ Len(buckets) > 0 /\ DOMAIN buckets = 1 .. Len(buckets)
  /\ buckets \in Seq(Nat) /\ buckets # <<>>
<1> DEFINE D == {i \in 1 .. 8 : kLadder[i] <= MaxBatch}
<1>0. MaxBatch \in Nat /\ MaxBatch > 0
  BY StartupAssumption
<1>1. /\ kLadder[1] = 1 /\ kLadder[2] = 2 /\ kLadder[3] = 4 /\ kLadder[4] = 8
      /\ kLadder[5] = 16 /\ kLadder[6] = 32 /\ kLadder[7] = 48 /\ kLadder[8] = 64
      /\ DOMAIN kLadder = 1 .. 8
  BY DEF kLadder
<1>2. \A i \in 1 .. 8 : kLadder[i] \in Nat
  BY <1>1
<1>3. PICK n \in 1 .. 8 : D = 1 .. n
  <2>1. CASE MaxBatch < 2                   <3>1. D = 1 .. 1 BY <2>1, <1>0, <1>1 <3> QED BY <3>1
  <2>2. CASE MaxBatch >= 2 /\ MaxBatch < 4   <3>1. D = 1 .. 2 BY <2>2, <1>0, <1>1 <3> QED BY <3>1
  <2>3. CASE MaxBatch >= 4 /\ MaxBatch < 8   <3>1. D = 1 .. 3 BY <2>3, <1>0, <1>1 <3> QED BY <3>1
  <2>4. CASE MaxBatch >= 8 /\ MaxBatch < 16  <3>1. D = 1 .. 4 BY <2>4, <1>0, <1>1 <3> QED BY <3>1
  <2>5. CASE MaxBatch >= 16 /\ MaxBatch < 32 <3>1. D = 1 .. 5 BY <2>5, <1>0, <1>1 <3> QED BY <3>1
  <2>6. CASE MaxBatch >= 32 /\ MaxBatch < 48 <3>1. D = 1 .. 6 BY <2>6, <1>0, <1>1 <3> QED BY <3>1
  <2>7. CASE MaxBatch >= 48 /\ MaxBatch < 64 <3>1. D = 1 .. 7 BY <2>7, <1>0, <1>1 <3> QED BY <3>1
  <2>8. CASE MaxBatch >= 64                 <3>1. D = 1 .. 8 BY <2>8, <1>0, <1>1 <3> QED BY <3>1
  <2> HIDE DEF D
  <2> QED BY <1>0, <2>1, <2>2, <2>3, <2>4, <2>5, <2>6, <2>7, <2>8
<1>4. buckets = [i \in D |-> kLadder[i]]
  BY <1>1 DEF buckets, MakeDecodeBuckets, Restrict
<1>5. \A i \in D : kLadder[i] \in Nat
  BY <1>2
<1> HIDE DEF D
<1>6. buckets \in [1 .. n -> Nat]
  BY <1>3, <1>4, <1>5
<1>7. buckets \in Seq(Nat) /\ Len(buckets) = n /\ DOMAIN buckets = 1 .. n
  BY <1>3, <1>6
<1> QED BY <1>3, <1>7

\* The position of product j of row shape l in the list of the probes.
LEMMA Digits5 ==
  ASSUME NEW n \in Nat
  PROVE  \A l \in 1 .. n, j \in 1 .. 5 :
           /\ 5 * (l - 1) + j \in 1 .. 5 * n
           /\ (5 * (l - 1) + j - 1) \div 5 + 1 = l
           /\ ((5 * (l - 1) + j - 1) % 5) + 1 = j
  OBVIOUS

\* The row shapes begin with the buckets.
LEMMA RowShapes ==
  /\ Len(row_shapes) \in Nat /\ Len(buckets) <= Len(row_shapes)
  /\ \A i \in 1 .. Len(buckets) : row_shapes[i] = buckets[i]
<1>1. buckets \in Seq(Nat) /\ MaxBatch \in Nat
  BY BucketList, StartupAssumption
<1>2. CASE row_shapes = buckets
  BY <1>1, <1>2
<1>3. CASE row_shapes = Append(buckets, MaxBatch)
  BY <1>1, <1>3, AppendProperties
<1> QED BY <1>2, <1>3 DEF row_shapes

\* A decode step runs five products.
LEMMA DecodeCallList ==
  ASSUME NEW rows
  PROVE  DOMAIN DecodeCalls(rows) = 1 .. 5 /\ DecodeCalls(rows) \in Seq(ToSet(DecodeCalls(rows)))
<1>1. PICK s : s = DecodeCalls(rows)
  OBVIOUS
<1>2. DOMAIN s = 1 .. 5 /\ s = [i \in 1 .. 5 |-> s[i]]
  BY <1>1 DEF DecodeCalls
<1>3. \A i \in 1 .. 5 : s[i] \in ToSet(s)
  BY <1>2 DEF ToSet
<1>4. s \in Seq(ToSet(s))
  BY <1>2, <1>3
<1> QED BY <1>1, <1>2, <1>4

\* The products of every bucket are among the probed ones.
LEMMA BucketProbed ==
  ASSUME Available(DecodeProbes), NEW i \in 1 .. Len(buckets), NEW c \in ToSet(DecodeCalls(buckets[i]))
  PROVE  c \in DOMAIN plans /\ plans[c]
<1>1. PICK j \in 1 .. 5 : c = DecodeCalls(buckets[i])[j]
  BY DecodeCallList DEF ToSet
<1>2. PICK n \in Nat : n = Len(row_shapes) /\ i \in 1 .. n /\ row_shapes[i] = buckets[i]
  BY RowShapes, BucketList
<1>3. PICK k : k = 5 * (i - 1) + j
  OBVIOUS
<1>4. k \in 1 .. 5 * n /\ (k - 1) \div 5 + 1 = i /\ ((k - 1) % 5) + 1 = j
  BY <1>2, <1>3, Digits5
<1>5. /\ DecodeProbes[k] = DecodeCalls(row_shapes[(k - 1) \div 5 + 1])[((k - 1) % 5) + 1]
      /\ k \in DOMAIN DecodeProbes
  BY <1>2, <1>4 DEF DecodeProbes
<1>6. DecodeProbes[k] = c
  BY <1>1, <1>2, <1>4, <1>5, Zenon
<1> QED BY <1>5, <1>6, Zenon DEF Available

\* A plan once made stays.
LEMMA PlansGrow ==
  ASSUME NEW c, Probe(c)
  PROVE  \A d \in DOMAIN plans : d \in DOMAIN plans' /\ plans'[d] = plans[d]
<1>1. CASE FindPlan(c) /\ UNCHANGED plans
  BY <1>1
<1>2. CASE ~FindPlan(c) /\ \E available \in BOOLEAN : BuildPlan(c, available)
  BY <1>2 DEF BuildPlan, CachePlan, FindPlan
<1> QED BY <1>1, <1>2 DEF Probe

\* Every plan is there after the step as before it.
Kept == \A d \in DOMAIN plans : d \in DOMAIN plans' /\ plans'[d] = plans[d]

\* What was available stays so.
LEMMA StaysAvailable ==
  ASSUME Kept, NEW calls, Available(calls)
  PROVE  Available(calls)'
  BY DEF Kept, Available
-----------------------------------------------------------------------------
(***************************************************************************)
(* Each part of the invariant is kept by every step.                       *)
(***************************************************************************)
\* The steps up to the probes of the attention forms, and those that move
\* control only; the invariant is indifferent to which of them it is.
Construction ==
  \/ Preflight \/ PreflightRefuses \/ LoadWeights \/ CreateStream \/ CreateHandle
  \/ AllocWorkspace \/ AllocKvPool \/ AllocScratch \/ AllocatePinnedMirrors
  \/ SelfCheckDone \/ ProbeDecodeGemmConfigs \/ ProbePrefillLinear

ControlMoves == FillDummyInputs \/ RegionRecorded \/ StepDone \/ Shutdown

\* Every step leads to a stage of the program, with what that stage holds.
LEMMA HeldStep ==
  ASSUME HeldExactly, stage \in Stages, StartNext \/ UNCHANGED vars
  PROVE  HeldExactly' /\ stage' \in Stages
<1>0. HeldExactly /\ stage \in Stages
  OBVIOUS
<1> USE DEF gemmVars, captureVars, serveVars, Stages, Settled, CaptureStages, ServingStages,
         HeldExactly, ExecutorHolds
<1>1. CASE Construction
  BY <1>0, <1>1 DEF Construction, Preflight, PreflightRefuses, SelfCheckDone, LoadWeights,
         CreateStream, CreateHandle, AllocWorkspace, AllocKvPool, AllocScratch,
         AllocatePinnedMirrors, ProbeDecodeGemmConfigs, ProbePrefillLinear, GoTo, Acquire,
         RequireAvailable, Throw, Handler
<1>2. CASE ControlMoves
  BY <1>0, <1>2 DEF ControlMoves, FillDummyInputs, RegionRecorded, StepDone, Shutdown, GoTo
<1>3. CASE ProbeNext
  BY <1>0, <1>3 DEF ProbeNext, ProbeStages
<1>4. CASE ProbePrefillForms
  BY <1>0, <1>4 DEF ProbePrefillForms, AfterProbes, Throw, Handler
<1>5. CASE RunNext
  BY <1>0, <1>5 DEF RunNext, RunStages
<1>6. CASE RunThrows
  BY <1>0, <1>6 DEF RunThrows, Throw, Handler, RunStages
<1>7. CASE WarmupDecodeBucket
  BY <1>0, <1>7 DEF WarmupDecodeBucket
<1>8. CASE BeginCapture
  BY <1>0, <1>8 DEF BeginCapture
<1>9. CASE EndCapture
  BY <1>0, <1>9 DEF EndCapture, Fault, Throw, Handler
<1>10. CASE Instantiate
  BY <1>0, <1>10 DEF Instantiate, InstantiateRest, Fault, Throw, Handler
<1>11. CASE UploadGraph
  BY <1>0, <1>11 DEF UploadGraph
<1>12. CASE CaptureDone
  BY <1>0, <1>12 DEF CaptureDone
<1>13. CASE Degrade
  BY <1>0, <1>13 DEF Degrade, DegradeRest
<1>14. CASE Unwind
  BY <1>0, <1>14 DEF Unwind, ReleaseAll
<1>15. CASE CudaCallFails
  BY <1>0, <1>15 DEF CudaCallFails, Fault, Throw, Handler
<1>16. CASE ResolveBatched
  BY <1>0, <1>16 DEF ResolveBatched, ServeRest, RunChunk, Demote
<1>17. CASE ResolvePerHead
  BY <1>0, <1>17 DEF ResolvePerHead, ServeRest, RunChunk, Throw, Handler
<1>18. CASE \E live \in 1 .. MaxBatch : DecodeEager(live)
  BY <1>0, <1>18 DEF DecodeEager, ServeRest
<1>19. CASE \E rows \in 1 .. rep_rows, ctx \in 1 .. MaxSeqLen, final_chunk \in BOOLEAN :
             rows <= ctx /\ PrefillChunkStep(rows, ctx, final_chunk)
  BY <1>0, <1>19 DEF PrefillChunkStep, ServeRest
<1>20. CASE Stopped \/ UNCHANGED vars
  BY <1>0, <1>20 DEF Stopped, vars
<1> QED BY <1>1, <1>2, <1>3, <1>4, <1>5, <1>6, <1>7, <1>8, <1>9, <1>10, <1>11, <1>12, <1>13, <1>14,
         <1>15, <1>16, <1>17, <1>18, <1>19, <1>20, Zenon
         DEF StartNext, StartupSteps, StepRest, StepBegins, Construction, ControlMoves

\* Before the first capture the list of executables is empty.
LEMMA NoBuckets == FirstBuckets(0) = <<>>
  BY DEF FirstBuckets

\* It holds the indices up to n.
LEMMA FirstBucketSet ==
  ASSUME NEW n \in Nat
  PROVE  ToSet(FirstBuckets(n)) = 1 .. n
  BY DEF FirstBuckets, ToSet

\* Capturing the next bucket extends it.
LEMMA OneBucketMore ==
  ASSUME NEW n \in Nat
  PROVE  Append(FirstBuckets(n), n + 1) = FirstBuckets(n + 1)
  BY DEF FirstBuckets

\* An empty list owns no executable.
LEMMA NoElements == ToSet(<<>>) = {}
  BY DEF ToSet

\* The lists of executables stay complete.
LEMMA ExecsStep ==
  ASSUME ExecsListed, WarmedUp, stage \in Stages, StartNext \/ UNCHANGED vars
  PROVE  ExecsListed'
<1>0. /\ ExecsListed /\ stage \in Stages
      /\ stage \in CaptureStages => bucket \in 1 .. Len(buckets)
      /\ Len(buckets) \in Nat /\ ToSet(<<>>) = {} /\ FirstBuckets(0) = <<>>
  BY BucketList, NoElements, NoBuckets DEF WarmedUp
<1> USE DEF gemmVars, captureVars, serveVars, Stages, Settled, CaptureStages, ServingStages,
         ExecsListed
<1>1. CASE Construction
  BY <1>0, <1>1 DEF Construction, Preflight, PreflightRefuses, SelfCheckDone, LoadWeights,
         CreateStream, CreateHandle, AllocWorkspace, AllocKvPool, AllocScratch,
         AllocatePinnedMirrors, ProbeDecodeGemmConfigs, ProbePrefillLinear, GoTo, Acquire,
         RequireAvailable, Throw, Handler
<1>2. CASE ControlMoves
  BY <1>0, <1>2 DEF ControlMoves, FillDummyInputs, RegionRecorded, StepDone, Shutdown, GoTo
<1>3. CASE ProbeNext
  BY <1>0, <1>3 DEF ProbeNext, ProbeStages
<1>4. CASE ProbePrefillForms
  BY <1>0, <1>4 DEF ProbePrefillForms, AfterProbes, Throw, Handler
<1>5. CASE RunNext
  BY <1>0, <1>5 DEF RunNext, RunStages
<1>6. CASE RunThrows
  BY <1>0, <1>6 DEF RunThrows, Throw, Handler, RunStages
<1>7. CASE WarmupDecodeBucket
  BY <1>0, <1>7 DEF WarmupDecodeBucket
<1>8. CASE BeginCapture
  BY <1>0, <1>8 DEF BeginCapture
<1>9. CASE EndCapture
  BY <1>0, <1>9 DEF EndCapture, Fault, Throw, Handler
<1>10. CASE Instantiate
  <2>1. stage = "instantiate" /\ bucket \in 1 .. Len(buckets) /\ Len(buckets) \in Nat
    BY <1>0, <1>10 DEF Instantiate
  <2>2. PICK n \in Nat : bucket = n + 1 /\ bucket - 1 = n
    <3>1. bucket - 1 \in Nat /\ bucket = (bucket - 1) + 1
      BY <2>1
    <3> QED BY <3>1
  <2>3. execs = FirstBuckets(n) /\ graph_execs = <<>>
    BY <1>0, <2>1, <2>2
  <2>4. CASE stage' = "upload" /\ live_execs' = live_execs \cup {bucket} /\ execs' = Append(execs, bucket)
    <3>1. execs' = FirstBuckets(bucket) /\ ToSet(execs') = 1 .. n + 1 /\ ToSet(execs) = 1 .. n
      <4>1. n + 1 \in Nat
        OBVIOUS
      <4>2. Append(FirstBuckets(n), n + 1) = FirstBuckets(n + 1)
        BY OneBucketMore, Zenon
      <4>3. ToSet(FirstBuckets(n)) = 1 .. n /\ ToSet(FirstBuckets(n + 1)) = 1 .. n + 1
        BY FirstBucketSet, <4>1, Zenon
      <4> QED BY <2>2, <2>3, <2>4, <4>2, <4>3, Zenon
    <3>2. 1 .. n + 1 = (1 .. n) \cup {bucket}
      BY <2>2
    <3>3. live_execs' = ToSet(execs') \cup ToSet(graph_execs')
      BY <1>0, <1>10, <2>3, <2>4, <3>1, <3>2 DEF Instantiate, InstantiateRest
    <3> QED BY <1>10, <2>3, <2>4, <3>1, <3>3 DEF Instantiate, InstantiateRest
  <2>5. CASE Fault /\ UNCHANGED <<live_execs, execs>>
    BY <1>0, <1>10, <2>3, <2>5 DEF Instantiate, InstantiateRest, Fault, Throw, Handler
  <2> QED BY <1>10, <2>4, <2>5 DEF Instantiate
<1>11. CASE UploadGraph
  BY <1>0, <1>11 DEF UploadGraph
<1>12. CASE CaptureDone
  BY <1>0, <1>12 DEF CaptureDone
<1>13. CASE Degrade
  BY <1>0, <1>13 DEF Degrade, DegradeRest
<1>14. CASE Unwind
  BY <1>0, <1>14 DEF Unwind, ReleaseAll
<1>15. CASE CudaCallFails
  BY <1>0, <1>15 DEF CudaCallFails, Fault, Throw, Handler
<1>16. CASE ResolveBatched
  BY <1>0, <1>16 DEF ResolveBatched, ServeRest, RunChunk, Demote
<1>17. CASE ResolvePerHead
  BY <1>0, <1>17 DEF ResolvePerHead, ServeRest, RunChunk, Throw, Handler
<1>18. CASE \E live \in 1 .. MaxBatch : DecodeEager(live)
  BY <1>0, <1>18 DEF DecodeEager, ServeRest
<1>19. CASE \E rows \in 1 .. rep_rows, ctx \in 1 .. MaxSeqLen, final_chunk \in BOOLEAN :
             rows <= ctx /\ PrefillChunkStep(rows, ctx, final_chunk)
  BY <1>0, <1>19 DEF PrefillChunkStep, ServeRest
<1>20. CASE Stopped \/ UNCHANGED vars
  BY <1>0, <1>20 DEF Stopped, vars
<1> QED BY <1>1, <1>2, <1>3, <1>4, <1>5, <1>6, <1>7, <1>8, <1>9, <1>10, <1>11, <1>12, <1>13, <1>14,
         <1>15, <1>16, <1>17, <1>18, <1>19, <1>20, Zenon
         DEF StartNext, StartupSteps, StepRest, StepBegins, Construction, ControlMoves

\* A bucket is captured after every bucket has been warmed.
LEMMA WarmStep ==
  ASSUME WarmedUp, stage \in Stages, StartNext \/ UNCHANGED vars
  PROVE  WarmedUp'
<1>0. /\ WarmedUp /\ stage \in Stages
      /\ Len(buckets) \in Nat /\ Len(buckets) > 0 /\ DOMAIN buckets = 1 .. Len(buckets)
  BY BucketList
<1> USE DEF gemmVars, captureVars, serveVars, Stages, Settled, CaptureStages, ServingStages,
         WarmedUp
<1>1. CASE Construction
  BY <1>0, <1>1 DEF Construction, Preflight, PreflightRefuses, SelfCheckDone, LoadWeights,
         CreateStream, CreateHandle, AllocWorkspace, AllocKvPool, AllocScratch,
         AllocatePinnedMirrors, ProbeDecodeGemmConfigs, ProbePrefillLinear, GoTo, Acquire,
         RequireAvailable, Throw, Handler
<1>2. CASE ControlMoves
  BY <1>0, <1>2 DEF ControlMoves, FillDummyInputs, RegionRecorded, StepDone, Shutdown, GoTo
<1>3. CASE ProbeNext
  BY <1>0, <1>3 DEF ProbeNext, ProbeStages
<1>4. CASE ProbePrefillForms
  BY <1>0, <1>4 DEF ProbePrefillForms, AfterProbes, Throw, Handler
<1>5. CASE RunNext
  BY <1>0, <1>5 DEF RunNext, RunStages
<1>6. CASE RunThrows
  BY <1>0, <1>6 DEF RunThrows, Throw, Handler, RunStages
<1>7. CASE WarmupDecodeBucket
  BY <1>0, <1>7 DEF WarmupDecodeBucket
<1>8. CASE BeginCapture
  BY <1>0, <1>8 DEF BeginCapture
<1>9. CASE EndCapture
  BY <1>0, <1>9 DEF EndCapture, Fault, Throw, Handler
<1>10. CASE Instantiate
  BY <1>0, <1>10 DEF Instantiate, InstantiateRest, Fault, Throw, Handler
<1>11. CASE UploadGraph
  BY <1>0, <1>11 DEF UploadGraph
<1>12. CASE CaptureDone
  BY <1>0, <1>12 DEF CaptureDone
<1>13. CASE Degrade
  <2>1. stream_capturing' = (stream_capturing /\ ~capturing) /\ stream_capturing = capturing
    BY <1>0, <1>13, Zenon DEF Degrade, WarmedUp
  <2>2. (stream_capturing /\ ~capturing) = FALSE
    BY <2>1
  <2>3. stream_capturing' = FALSE /\ capturing' = FALSE
    BY <1>13, <2>1, <2>2, Zenon DEF Degrade
  <2> QED BY <1>0, <1>13, <2>3 DEF Degrade, DegradeRest
<1>14. CASE Unwind
  BY <1>0, <1>14 DEF Unwind, ReleaseAll
<1>15. CASE CudaCallFails
  BY <1>0, <1>15 DEF CudaCallFails, Fault, Throw, Handler
<1>16. CASE ResolveBatched
  BY <1>0, <1>16 DEF ResolveBatched, ServeRest, RunChunk, Demote
<1>17. CASE ResolvePerHead
  BY <1>0, <1>17 DEF ResolvePerHead, ServeRest, RunChunk, Throw, Handler
<1>18. CASE \E live \in 1 .. MaxBatch : DecodeEager(live)
  BY <1>0, <1>18 DEF DecodeEager, ServeRest
<1>19. CASE \E rows \in 1 .. rep_rows, ctx \in 1 .. MaxSeqLen, final_chunk \in BOOLEAN :
             rows <= ctx /\ PrefillChunkStep(rows, ctx, final_chunk)
  BY <1>0, <1>19 DEF PrefillChunkStep, ServeRest
<1>20. CASE Stopped \/ UNCHANGED vars
  BY <1>0, <1>20 DEF Stopped, vars
<1> QED BY <1>1, <1>2, <1>3, <1>4, <1>5, <1>6, <1>7, <1>8, <1>9, <1>10, <1>11, <1>12, <1>13, <1>14,
         <1>15, <1>16, <1>17, <1>18, <1>19, <1>20, Zenon
         DEF StartNext, StartupSteps, StepRest, StepBegins, Construction, ControlMoves

\* No step but the teardown drops or changes a plan.
LEMMA PlansKept ==
  ASSUME StartNext \/ UNCHANGED vars
  PROVE  Kept \/ stage' = "failed"
<1>0. UNCHANGED plans => Kept
  BY DEF Kept
<1> USE DEF gemmVars, captureVars, serveVars
<1>1. CASE Construction
  BY <1>0, <1>1 DEF Construction, Preflight, PreflightRefuses, SelfCheckDone, LoadWeights,
         CreateStream, CreateHandle, AllocWorkspace, AllocKvPool, AllocScratch,
         AllocatePinnedMirrors, ProbeDecodeGemmConfigs, ProbePrefillLinear, GoTo, Acquire,
         RequireAvailable, Throw, Handler
<1>2. CASE ControlMoves
  BY <1>0, <1>2 DEF ControlMoves, FillDummyInputs, RegionRecorded, StepDone, Shutdown, GoTo
<1>3. CASE ProbeNext
  BY <1>3, PlansGrow DEF ProbeNext, Kept
<1>4. CASE ProbePrefillForms
  BY <1>0, <1>4 DEF ProbePrefillForms, AfterProbes, Throw, Handler
<1>5. CASE RunNext
  <2>1. Probe(Head(todo))
    BY <1>5 DEF RunNext, RunImpl
  <2> QED BY <2>1, PlansGrow DEF Kept
<1>6. CASE RunThrows
  <2>1. CASE UNCHANGED plans
    BY <1>0, <2>1
  <2>2. CASE RunUnavailable(Head(todo), stream_capturing)
    <3>1. Probe(Head(todo))
      BY <2>2 DEF RunUnavailable
    <3> QED BY <3>1, PlansGrow DEF Kept
  <2> QED BY <1>6, <2>1, <2>2 DEF RunThrows
<1>7. CASE WarmupDecodeBucket
  BY <1>0, <1>7 DEF WarmupDecodeBucket
<1>8. CASE BeginCapture
  BY <1>0, <1>8 DEF BeginCapture
<1>9. CASE EndCapture
  BY <1>0, <1>9 DEF EndCapture, Fault, Throw, Handler
<1>10. CASE Instantiate
  BY <1>0, <1>10 DEF Instantiate, InstantiateRest, Fault, Throw, Handler
<1>11. CASE UploadGraph
  BY <1>0, <1>11 DEF UploadGraph
<1>12. CASE CaptureDone
  BY <1>0, <1>12 DEF CaptureDone
<1>13. CASE Degrade
  BY <1>0, <1>13 DEF Degrade, DegradeRest
<1>14. CASE Unwind
  BY <1>0, <1>14 DEF Unwind, ReleaseAll
<1>15. CASE CudaCallFails
  BY <1>0, <1>15 DEF CudaCallFails, Fault, Throw, Handler
<1>16. CASE ResolveBatched
  BY <1>0, <1>16 DEF ResolveBatched, ServeRest, RunChunk, Demote
<1>17. CASE ResolvePerHead
  BY <1>0, <1>17 DEF ResolvePerHead, ServeRest, RunChunk, Throw, Handler
<1>18. CASE \E live \in 1 .. MaxBatch : DecodeEager(live)
  BY <1>0, <1>18 DEF DecodeEager, ServeRest
<1>19. CASE \E rows \in 1 .. rep_rows, ctx \in 1 .. MaxSeqLen, final_chunk \in BOOLEAN :
             rows <= ctx /\ PrefillChunkStep(rows, ctx, final_chunk)
  BY <1>0, <1>19 DEF PrefillChunkStep, ServeRest
<1>20. CASE Stopped \/ UNCHANGED vars
  BY <1>0, <1>20 DEF Stopped, vars
<1> QED BY <1>1, <1>2, <1>3, <1>4, <1>5, <1>6, <1>7, <1>8, <1>9, <1>10, <1>11, <1>12, <1>13, <1>14,
         <1>15, <1>16, <1>17, <1>18, <1>19, <1>20, Zenon
         DEF StartNext, StartupSteps, StepRest, StepBegins, Construction, ControlMoves

\* In warmup and capture the next product is one of the bucket's, with a plan.
LEMMA NextProductRuns ==
  ASSUME DecodeRuns, WarmedUp, stage \in {"warm", "capture"}, todo # <<>>
  PROVE  Head(todo) \in DOMAIN plans /\ plans[Head(todo)]
<1>1. Available(DecodeProbes) /\ todo \in Seq(ToSet(DecodeCalls(buckets[bucket])))
  BY DEF DecodeRuns, Settled, CaptureStages
<1>2. bucket \in 1 .. Len(buckets)
  BY DEF WarmedUp, CaptureStages
<1>3. Head(todo) \in ToSet(DecodeCalls(buckets[bucket]))
  BY <1>1
<1> QED BY <1>1, <1>2, <1>3, BucketProbed, Zenon

\* A GEMM call throws in a served step only.
LEMMA RunThrowsServing ==
  ASSUME DecodeRuns, WarmedUp, RunThrows
  PROVE  stage \in {"prefill", "decode"}
<1> SUFFICES ASSUME stage \in {"warm", "capture"} PROVE FALSE
  BY DEF RunThrows, RunStages
<1>1. Head(todo) \in DOMAIN plans /\ plans[Head(todo)]
  BY NextProductRuns DEF RunThrows
<1>2. RunUnavailable(Head(todo), stream_capturing)
  BY <1>1, Zenon DEF RunThrows, MissesInCapture, FindPlan
<1>3. Probe(Head(todo)) /\ ~plans'[Head(todo)]
  BY <1>2, Zenon DEF RunUnavailable
<1>4. plans'[Head(todo)] = plans[Head(todo)]
  BY <1>1, <1>3, PlansGrow, Zenon
<1> QED BY <1>1, <1>3, <1>4, Zenon

\* The decode products are available in every stage after their probes.
LEMMA DecodeAvailableStep ==
  ASSUME DecodeRuns, StartNext \/ UNCHANGED vars,
         stage' \in (Settled \cup {"instantiate"}) \ {"probe_decode"}
  PROVE  Available(DecodeProbes)'
<1> SUFFICES Available(DecodeProbes)
  BY PlansKept, StaysAvailable DEF Settled, CaptureStages, ServingStages
<1>0. /\ stage \in (Settled \cup {"instantiate"}) \ {"probe_decode"} => Available(DecodeProbes)
      /\ stage' \in (Settled \cup {"instantiate"}) \ {"probe_decode"}
  BY DEF DecodeRuns
<1> USE DEF Stages, Settled, CaptureStages, ServingStages
<1>1. CASE Construction
  BY <1>0, <1>1 DEF Construction, Preflight, PreflightRefuses, SelfCheckDone, LoadWeights,
         CreateStream, CreateHandle, AllocWorkspace, AllocKvPool, AllocScratch,
         AllocatePinnedMirrors, ProbeDecodeGemmConfigs, ProbePrefillLinear, GoTo, Acquire,
         RequireAvailable, Throw, Handler
<1>2. CASE ControlMoves
  BY <1>0, <1>2 DEF ControlMoves, FillDummyInputs, RegionRecorded, StepDone, Shutdown, GoTo
<1>3. CASE ProbeNext
  BY <1>0, <1>3 DEF ProbeNext, ProbeStages
<1>4. CASE ProbePrefillForms
  BY <1>0, <1>4 DEF ProbePrefillForms, AfterProbes, Throw, Handler
<1>5. CASE RunNext
  BY <1>0, <1>5 DEF RunNext, RunStages
<1>6. CASE RunThrows
  BY <1>0, <1>6 DEF RunThrows, Throw, Handler, RunStages
<1>7. CASE WarmupDecodeBucket
  BY <1>0, <1>7 DEF WarmupDecodeBucket
<1>8. CASE BeginCapture
  BY <1>0, <1>8 DEF BeginCapture
<1>9. CASE EndCapture
  BY <1>0, <1>9 DEF EndCapture, Fault, Throw, Handler
<1>10. CASE Instantiate
  BY <1>0, <1>10 DEF Instantiate, InstantiateRest, Fault, Throw, Handler
<1>11. CASE UploadGraph
  BY <1>0, <1>11 DEF UploadGraph
<1>12. CASE CaptureDone
  BY <1>0, <1>12 DEF CaptureDone
<1>13. CASE Degrade
  BY <1>0, <1>13 DEF Degrade, DegradeRest
<1>14. CASE Unwind
  BY <1>0, <1>14 DEF Unwind, ReleaseAll
<1>15. CASE CudaCallFails
  BY <1>0, <1>15 DEF CudaCallFails, Fault, Throw, Handler
<1>16. CASE ResolveBatched
  BY <1>0, <1>16 DEF ResolveBatched, ServeRest, RunChunk, Demote
<1>17. CASE ResolvePerHead
  BY <1>0, <1>17 DEF ResolvePerHead, ServeRest, RunChunk, Throw, Handler
<1>18. CASE \E live \in 1 .. MaxBatch : DecodeEager(live)
  BY <1>0, <1>18 DEF DecodeEager, ServeRest
<1>19. CASE \E rows \in 1 .. rep_rows, ctx \in 1 .. MaxSeqLen, final_chunk \in BOOLEAN :
             rows <= ctx /\ PrefillChunkStep(rows, ctx, final_chunk)
  BY <1>0, <1>19 DEF PrefillChunkStep, ServeRest
<1>20. CASE Stopped \/ UNCHANGED vars
  BY <1>0, <1>20, Zenon DEF Stopped, vars
<1> QED BY <1>1, <1>2, <1>3, <1>4, <1>5, <1>6, <1>7, <1>8, <1>9, <1>10, <1>11, <1>12, <1>13, <1>14,
         <1>15, <1>16, <1>17, <1>18, <1>19, <1>20, Zenon
         DEF StartNext, StartupSteps, StepRest, StepBegins, Construction, ControlMoves

\* Warmup and capture run the products of the bucket they are at.
LEMMA DecodeTodoStep ==
  ASSUME DecodeRuns, WarmedUp, StartNext \/ UNCHANGED vars, stage' \in {"warm", "capture"}
  PROVE  todo' \in Seq(ToSet(DecodeCalls(buckets[bucket])))'
<1>0. /\ stage \in {"warm", "capture"} => todo \in Seq(ToSet(DecodeCalls(buckets[bucket])))
      /\ stage' \in {"warm", "capture"}
  BY DEF DecodeRuns
<1> USE DEF gemmVars, captureVars, serveVars, CaptureStages, ServingStages
<1>1. CASE Construction
  BY <1>0, <1>1 DEF Construction, Preflight, PreflightRefuses, SelfCheckDone, LoadWeights,
         CreateStream, CreateHandle, AllocWorkspace, AllocKvPool, AllocScratch,
         AllocatePinnedMirrors, ProbeDecodeGemmConfigs, ProbePrefillLinear, GoTo, Acquire,
         RequireAvailable, Throw, Handler
<1>2. CASE ControlMoves
  BY <1>0, <1>2 DEF ControlMoves, FillDummyInputs, RegionRecorded, StepDone, Shutdown, GoTo
<1>3. CASE ProbeNext
  BY <1>0, <1>3 DEF ProbeNext, ProbeStages
<1>4. CASE ProbePrefillForms
  BY <1>0, <1>4, DecodeCallList DEF ProbePrefillForms, AfterProbes, Throw, Handler
<1>5. CASE RunNext
  BY <1>0, <1>5 DEF RunNext, RunStages
<1>6. CASE RunThrows
  BY <1>0, <1>6 DEF RunThrows, Throw, Handler, RunStages
<1>7. CASE WarmupDecodeBucket
  BY <1>0, <1>7, DecodeCallList DEF WarmupDecodeBucket
<1>8. CASE BeginCapture
  BY <1>0, <1>8, DecodeCallList DEF BeginCapture
<1>9. CASE EndCapture
  BY <1>0, <1>9 DEF EndCapture, Fault, Throw, Handler
<1>10. CASE Instantiate
  BY <1>0, <1>10 DEF Instantiate, InstantiateRest, Fault, Throw, Handler
<1>11. CASE UploadGraph
  BY <1>0, <1>11 DEF UploadGraph
<1>12. CASE CaptureDone
  BY <1>0, <1>12 DEF CaptureDone
<1>13. CASE Degrade
  BY <1>0, <1>13 DEF Degrade, DegradeRest
<1>14. CASE Unwind
  BY <1>0, <1>14 DEF Unwind, ReleaseAll
<1>15. CASE CudaCallFails
  BY <1>0, <1>15 DEF CudaCallFails, Fault, Throw, Handler
<1>16. CASE ResolveBatched
  BY <1>0, <1>16 DEF ResolveBatched, ServeRest, RunChunk, Demote
<1>17. CASE ResolvePerHead
  BY <1>0, <1>17 DEF ResolvePerHead, ServeRest, RunChunk, Throw, Handler
<1>18. CASE \E live \in 1 .. MaxBatch : DecodeEager(live)
  BY <1>0, <1>18 DEF DecodeEager, ServeRest
<1>19. CASE \E rows \in 1 .. rep_rows, ctx \in 1 .. MaxSeqLen, final_chunk \in BOOLEAN :
             rows <= ctx /\ PrefillChunkStep(rows, ctx, final_chunk)
  BY <1>0, <1>19 DEF PrefillChunkStep, ServeRest
<1>20. CASE Stopped \/ UNCHANGED vars
  BY <1>0, <1>20 DEF Stopped, vars
<1> QED BY <1>1, <1>2, <1>3, <1>4, <1>5, <1>6, <1>7, <1>8, <1>9, <1>10, <1>11, <1>12, <1>13, <1>14,
         <1>15, <1>16, <1>17, <1>18, <1>19, <1>20, Zenon
         DEF StartNext, StartupSteps, StepRest, StepBegins, Construction, ControlMoves

\* Graphs are given up after a failing call only.
Uncaptured ==
  /\ stage \in Stages /\ faults \in Nat
  /\ stage = "degrade" => faults > 0
  /\ CaptureSucceedsUnlessFaulted

\* A step that reaches degrade has counted its fault; one that ends the capture
\* leaves a graph for every bucket.
LEMMA UncapturedStep ==
  ASSUME Uncaptured, HeldExactly, ExecsListed, WarmedUp, DecodeRuns, enable_cuda_graphs' = enable_cuda_graphs,
         StartNext \/ UNCHANGED vars
  PROVE  Uncaptured'
<1>0. /\ Uncaptured /\ stage' \in Stages /\ enable_cuda_graphs' = enable_cuda_graphs
      /\ buckets # <<>>
  BY HeldStep, BucketList DEF Uncaptured
<1> USE DEF gemmVars, captureVars, serveVars, Stages, Settled, CaptureStages, ServingStages,
         Uncaptured, CaptureSucceedsUnlessFaulted
<1>1. CASE Construction
  BY <1>0, <1>1 DEF Construction, Preflight, PreflightRefuses, SelfCheckDone, LoadWeights,
         CreateStream, CreateHandle, AllocWorkspace, AllocKvPool, AllocScratch,
         AllocatePinnedMirrors, ProbeDecodeGemmConfigs, ProbePrefillLinear, GoTo, Acquire,
         RequireAvailable, Throw, Handler
<1>2. CASE ControlMoves
  BY <1>0, <1>2 DEF ControlMoves, FillDummyInputs, RegionRecorded, StepDone, Shutdown, GoTo
<1>3. CASE ProbeNext
  BY <1>0, <1>3 DEF ProbeNext, ProbeStages
<1>4. CASE ProbePrefillForms
  BY <1>0, <1>4 DEF ProbePrefillForms, AfterProbes, Throw, Handler
<1>5. CASE RunNext
  BY <1>0, <1>5 DEF RunNext, RunStages
<1>6. CASE RunThrows
  BY <1>0, <1>6, RunThrowsServing DEF RunThrows, Throw, Handler, RunStages
<1>7. CASE WarmupDecodeBucket
  BY <1>0, <1>7 DEF WarmupDecodeBucket
<1>8. CASE BeginCapture
  BY <1>0, <1>8 DEF BeginCapture
<1>9. CASE EndCapture
  BY <1>0, <1>9 DEF EndCapture, Fault, Throw, Handler
<1>10. CASE Instantiate
  BY <1>0, <1>10 DEF Instantiate, InstantiateRest, Fault, Throw, Handler
<1>11. CASE UploadGraph
  BY <1>0, <1>11 DEF UploadGraph
<1>12. CASE CaptureDone
  <2>1. graph_execs' # <<>>
    <3>1. graph_execs' = FirstBuckets(Len(buckets)) /\ DOMAIN FirstBuckets(Len(buckets)) = 1 .. Len(buckets)
      BY <1>12 DEF CaptureDone, ExecsListed, FirstBuckets
    <3> QED BY <3>1, BucketList
  <2> QED BY <1>0, <1>12, <2>1 DEF CaptureDone
<1>13. CASE Degrade
  BY <1>0, <1>13 DEF Degrade, DegradeRest
<1>14. CASE Unwind
  BY <1>0, <1>14 DEF Unwind, ReleaseAll
<1>15. CASE CudaCallFails
  BY <1>0, <1>15 DEF CudaCallFails, Fault, Throw, Handler
<1>16. CASE ResolveBatched
  BY <1>0, <1>16 DEF ResolveBatched, ServeRest, RunChunk, Demote
<1>17. CASE ResolvePerHead
  BY <1>0, <1>17 DEF ResolvePerHead, ServeRest, RunChunk, Throw, Handler
<1>18. CASE \E live \in 1 .. MaxBatch : DecodeEager(live)
  BY <1>0, <1>18 DEF DecodeEager, ServeRest
<1>19. CASE \E rows \in 1 .. rep_rows, ctx \in 1 .. MaxSeqLen, final_chunk \in BOOLEAN :
             rows <= ctx /\ PrefillChunkStep(rows, ctx, final_chunk)
  BY <1>0, <1>19 DEF PrefillChunkStep, ServeRest
<1>20. CASE Stopped \/ UNCHANGED vars
  BY <1>0, <1>20 DEF Stopped, vars
<1> QED BY <1>1, <1>2, <1>3, <1>4, <1>5, <1>6, <1>7, <1>8, <1>9, <1>10, <1>11, <1>12, <1>13, <1>14,
         <1>15, <1>16, <1>17, <1>18, <1>19, <1>20, Zenon
         DEF StartNext, StartupSteps, StepRest, StepBegins, Construction, ControlMoves

\* The chunk that runs resolved to a form with an algorithm for both products.
FormOf(c) ==
  Forms(c.rows, c.ctx, IF c.mode = "strided_batched" THEN HeadsPerGroup ELSE 1)

\* RunChunk records the form it runs in.
LEMMA ChunkForm ==
  ASSUME DOMAIN chunk = {"rows", "ctx", "final", "mode"}, NEW mode, RunChunk(mode)
  PROVE  /\ DOMAIN chunk' = {"rows", "ctx", "final", "mode"}
         /\ mode = "strided_batched" => FormOf(chunk') = Forms(chunk.rows, chunk.ctx, HeadsPerGroup)
         /\ mode = "per_head" => FormOf(chunk') = Forms(chunk.rows, chunk.ctx, 1)
<1>1. /\ DOMAIN chunk' = {"rows", "ctx", "final", "mode"}
      /\ chunk'.rows = chunk.rows /\ chunk'.ctx = chunk.ctx /\ chunk'.mode = mode
  BY DEF RunChunk
<1> QED BY <1>1 DEF FormOf

\* A chunk enters prefill from an available form, and plans stay.
LEMMA ResolvedStep ==
  ASSUME ResolvedFormRuns, DOMAIN chunk = {"rows", "ctx", "final", "mode"}, StartNext \/ UNCHANGED vars
  PROVE  ResolvedFormRuns' /\ DOMAIN chunk' = {"rows", "ctx", "final", "mode"}
<1> USE DEF FormOf
<1>0. /\ stage = "prefill" => Available(FormOf(chunk))
      /\ stage' = "prefill" => Kept
      /\ DOMAIN chunk = {"rows", "ctx", "final", "mode"}
  BY PlansKept DEF ResolvedFormRuns
<1> SUFFICES /\ stage' = "prefill" => Available(FormOf(chunk'))
             /\ DOMAIN chunk' = {"rows", "ctx", "final", "mode"}
  BY <1>0, StaysAvailable DEF ResolvedFormRuns
<1> HIDE DEF FormOf
<1> USE DEF gemmVars, captureVars, serveVars, CaptureStages, ServingStages
<1>1. CASE Construction
  BY <1>0, <1>1 DEF Construction, Preflight, PreflightRefuses, SelfCheckDone, LoadWeights,
         CreateStream, CreateHandle, AllocWorkspace, AllocKvPool, AllocScratch,
         AllocatePinnedMirrors, ProbeDecodeGemmConfigs, ProbePrefillLinear, GoTo, Acquire,
         RequireAvailable, Throw, Handler
<1>2. CASE ControlMoves
  BY <1>0, <1>2 DEF ControlMoves, FillDummyInputs, RegionRecorded, StepDone, Shutdown, GoTo
<1>3. CASE ProbeNext
  BY <1>0, <1>3 DEF ProbeNext, ProbeStages
<1>4. CASE ProbePrefillForms
  BY <1>0, <1>4 DEF ProbePrefillForms, AfterProbes, Throw, Handler
<1>5. CASE RunNext
  BY <1>0, <1>5 DEF RunNext, RunStages
<1>6. CASE RunThrows
  BY <1>0, <1>6 DEF RunThrows, Throw, Handler, RunStages
<1>7. CASE WarmupDecodeBucket
  BY <1>0, <1>7 DEF WarmupDecodeBucket
<1>8. CASE BeginCapture
  BY <1>0, <1>8 DEF BeginCapture
<1>9. CASE EndCapture
  BY <1>0, <1>9 DEF EndCapture, Fault, Throw, Handler
<1>10. CASE Instantiate
  BY <1>0, <1>10 DEF Instantiate, InstantiateRest, Fault, Throw, Handler
<1>11. CASE UploadGraph
  BY <1>0, <1>11 DEF UploadGraph
<1>12. CASE CaptureDone
  BY <1>0, <1>12 DEF CaptureDone
<1>13. CASE Degrade
  BY <1>0, <1>13 DEF Degrade, DegradeRest
<1>14. CASE Unwind
  BY <1>0, <1>14 DEF Unwind, ReleaseAll
<1>15. CASE CudaCallFails
  BY <1>0, <1>15 DEF CudaCallFails, Fault, Throw, Handler
<1>16. CASE ResolveBatched
  <2>1. CASE Available(Forms(chunk.rows, chunk.ctx, HeadsPerGroup)) /\ RunChunk("strided_batched")
    BY <1>0, <2>1, ChunkForm, Zenon
  <2>2. CASE Demote
    BY <1>0, <2>2 DEF Demote
  <2> QED BY <1>16, <2>1, <2>2 DEF ResolveBatched
<1>17. CASE ResolvePerHead
  <2>1. CASE Available(Forms(chunk.rows, chunk.ctx, 1)) /\ RunChunk("per_head")
    BY <1>0, <2>1, ChunkForm, Zenon
  <2>2. CASE Throw /\ UNCHANGED chunk
    BY <1>0, <1>17, <2>2 DEF ResolvePerHead, Throw, Handler
  <2> QED BY <1>17, <2>1, <2>2 DEF ResolvePerHead
<1>18. CASE \E live \in 1 .. MaxBatch : DecodeEager(live)
  BY <1>0, <1>18 DEF DecodeEager, ServeRest
<1>19. CASE \E rows \in 1 .. rep_rows, ctx \in 1 .. MaxSeqLen, final_chunk \in BOOLEAN :
             rows <= ctx /\ PrefillChunkStep(rows, ctx, final_chunk)
  BY <1>0, <1>19 DEF PrefillChunkStep, ServeRest
<1>20. CASE Stopped \/ UNCHANGED vars
  BY <1>0, <1>20 DEF Stopped, vars
<1> QED BY <1>1, <1>2, <1>3, <1>4, <1>5, <1>6, <1>7, <1>8, <1>9, <1>10, <1>11, <1>12, <1>13, <1>14,
         <1>15, <1>16, <1>17, <1>18, <1>19, <1>20, Zenon
         DEF StartNext, StartupSteps, StepRest, StepBegins, Construction, ControlMoves

-----------------------------------------------------------------------------
\* The invariant of construction and serving: for every ladder, chunk size and
\* number of failing calls, the resources held are those of the stage, the
\* executables are on one list, and decode products are available and warm.
THEOREM StartupInvariant == StartSpec => []StartInv
<1>1. StartInit => StartInv
  <2> SUFFICES ASSUME StartInit PROVE StartInv
    OBVIOUS
  <2>1. /\ stage = "config" /\ held = {} /\ faults = 0 /\ live_execs = {} /\ execs = <<>>
        /\ graph_execs = <<>> /\ stream_capturing = FALSE /\ capturing = FALSE
        /\ DOMAIN chunk = {"rows", "ctx", "final", "mode"}
    BY DEF StartInit, NoChunk
  <2> QED BY <2>1, NoElements
          DEF StartInv, Stages, Settled, CaptureStages, ServingStages, HeldExactly, ExecsListed, WarmedUp,
              DecodeRuns, CaptureSucceedsUnlessFaulted, ResolvedFormRuns
<1>2. StartInv /\ [StartNext]_vars => StartInv'
  <2> SUFFICES ASSUME StartInv, StartNext \/ UNCHANGED vars PROVE StartInv'
    BY Zenon
  <2>0. /\ stage \in Stages /\ HeldExactly /\ ExecsListed /\ WarmedUp /\ DecodeRuns /\ Uncaptured
        /\ ResolvedFormRuns /\ DOMAIN chunk = {"rows", "ctx", "final", "mode"}
    BY Zenon DEF StartInv, Uncaptured
  <2>1. HeldExactly' /\ stage' \in Stages
    BY <2>0, HeldStep, Zenon
  <2>2. ExecsListed'
    BY <2>0, ExecsStep, Zenon
  <2>3. WarmedUp'
    BY <2>0, WarmStep, Zenon
  <2>4. DecodeRuns'
    BY <2>0, DecodeAvailableStep, DecodeTodoStep DEF DecodeRuns, Settled, CaptureStages, ServingStages
  <2>5. enable_cuda_graphs' = enable_cuda_graphs
    BY DEF StartNext, vars
  <2>6. Uncaptured'
    BY <2>0, <2>5, UncapturedStep, Zenon
  <2>7. ResolvedFormRuns' /\ DOMAIN chunk' = {"rows", "ctx", "final", "mode"}
    BY <2>0, ResolvedStep, Zenon
  <2> QED BY <2>1, <2>2, <2>3, <2>4, <2>6, <2>7, Zenon DEF StartInv, Uncaptured
<1> QED BY <1>1, <1>2, PTL DEF StartSpec

\* Whatever call fails and wherever, a constructor that threw and a destroyed
\* engine hold nothing, and one that serves holds what it owns and no more.
THEOREM LeakFree == StartSpec => []NothingLeaks
<1>1. StartInv => NothingLeaks
  BY NoElements DEF StartInv, NothingLeaks, HeldExactly, ExecsListed, Settled, CaptureStages
<1> QED BY <1>1, StartupInvariant, PTL

\* An engine that serves replays a graph for every bucket or for none.
THEOREM GraphsCompleteOrAbsent == StartSpec => []GraphsAllOrNothing
<1>1. StartInv => GraphsAllOrNothing
  <2> SUFFICES ASSUME StartInv, stage \in ServingStages \cup {"ready"}
               PROVE  graph_execs \in {<<>>, [i \in DOMAIN buckets |-> i]} /\ ~stream_capturing
    BY DEF GraphsAllOrNothing
  <2>1. graph_execs # <<>> => graph_execs = [i \in DOMAIN buckets |-> i]
    BY BucketList DEF StartInv, ExecsListed, FirstBuckets
  <2>2. ~stream_capturing
    BY DEF StartInv, WarmedUp, ServingStages
  <2> QED BY <2>1, <2>2
<1> QED BY <1>1, StartupInvariant, PTL

\* No first-use work falls into a capture region: all its products have run.
THEOREM CaptureIsWarm == StartSpec => []WarmBeforeCapture
<1>1. StartInv => WarmBeforeCapture
  BY DEF StartInv, WarmedUp, WarmBeforeCapture
<1> QED BY <1>1, StartupInvariant, PTL

\* Without a failing call, capture succeeds: it meets no missing plan.
THEOREM CaptureIsReliable == StartSpec => []CaptureSucceedsUnlessFaulted
<1>1. StartInv => CaptureSucceedsUnlessFaulted
  BY DEF StartInv
<1> QED BY <1>1, StartupInvariant, PTL

\* A prefill chunk that began to enqueue has an algorithm for both products.
THEOREM ChunkFormRuns == StartSpec => []ResolvedFormRuns
<1>1. StartInv => ResolvedFormRuns
  BY DEF StartInv
<1> QED BY <1>1, StartupInvariant, PTL
===============================================================================
