-------------------------------- MODULE Engine --------------------------------
(***************************************************************************)
(* core/engine.{hpp,cpp}: what Engine adds around the scheduler (the map   *)
(* of live requests, the decode dispatch, the statistics) and what a       *)
(* client has received from Step.                                          *)
(***************************************************************************)
EXTENDS DecodeDispatch

CONSTANT MaxWaiting           \* kMaxWaitingRequests

ASSUME EngineAssumption == MaxWaiting \in Nat \ {0}

VARIABLES
  requests,                   \* the keys of requests_
  steps, prefill_tokens, decode_tokens, aborts,
  graph_replays, eager_decodes, bucket_decode_steps,
  delivered                   \* per request, the StepResults Step has returned for it

statVars == <<steps, prefill_tokens, decode_tokens, aborts,
              graph_replays, eager_decodes, bucket_decode_steps>>
engineVars == <<schedVars, requests, statVars, delivered>>

-----------------------------------------------------------------------------
EngineInit ==
  /\ SchedInit
  /\ requests = {}
  /\ steps = 0 /\ prefill_tokens = 0 /\ decode_tokens = 0 /\ aborts = 0
  /\ graph_replays = 0 /\ eager_decodes = 0
  /\ bucket_decode_steps = [b \in Range(decode_buckets) |-> 0]
  /\ delivered = [r \in Ids |-> <<>>]

EngineAddRequest(p) ==
  /\ AddRequest(p)
  /\ requests' = requests \union {next_request_id}
  /\ UNCHANGED <<statVars, delivered>>

\* Backpressure: the depth of the waiting queue.
HasCapacity == Len(waiting) < MaxWaiting

\* The part of Step that only the scheduler and the executor take part in.
EngineStepInternal ==
  /\ StepBegin \/ PlanStep \/ StepEmpty \/ Execute \/ CompleteStep
  /\ UNCHANGED <<requests, statVars, delivered>>

\* The counters of a completed step, from the plan it executed.
CountStep ==
  LET live   == Len(plan.decode)
      bucket == ExecutedBucket(live)
  IN
  /\ steps' = steps + 1
  /\ aborts' = aborts + Len(plan.aborted)
  /\ prefill_tokens' = prefill_tokens + (plan.end - plan.begin)
  /\ decode_tokens' = decode_tokens + live
  /\ graph_replays' = graph_replays + (IF live > 0 /\ ReplaysGraph(live) THEN 1 ELSE 0)
  /\ eager_decodes' = eager_decodes + (IF live > 0 /\ ~ReplaysGraph(live) THEN 1 ELSE 0)
  /\ bucket_decode_steps' =
       IF live > 0 /\ bucket >= 0
       THEN [bucket_decode_steps EXCEPT ![bucket] = @ + 1]
       ELSE bucket_decode_steps

\* Mutant: the step is counted before it is executed.
EngineStepThrowsCounted ==
  /\ ExecutorThrows
  /\ CountStep
  /\ UNCHANGED <<requests, delivered>>

\* The exception passes through Step before any engine state is touched.
EngineStepThrows ==
  /\ ExecutorThrows
  /\ UNCHANGED <<requests, statVars, delivered>>

\* Mutant: only the requests that took part in the step, not those aborted to make room.
SampledFinishedIn(res) ==
  {res[i].request_id : i \in {j \in DOMAIN res : res[j].finish_reason \in {"eos", "length"}}}

FinishedIn(res) == {res[i].request_id : i \in {j \in DOMAIN res : res[j].finished}}

\* The results of this step that are about r, in order.
ResultsOf(r) ==
  LET mine   == {i \in DOMAIN results : results[i].request_id = r}
      nth(k) == CHOOSE i \in mine : Cardinality({j \in mine : j <= i}) = k
  IN [k \in 1 .. Cardinality(mine) |-> results[nth(k)]]

\* The results reach the client.
Deliver == delivered' = [r \in Ids |-> delivered[r] \o ResultsOf(r)]

EngineStepReturns ==
  /\ StepReturn
  /\ CountStep
  /\ requests' = requests \ FinishedIn(results)
  /\ Deliver

EngineNext ==
  \/ \E p \in Workload : EngineAddRequest(p)
  \/ EngineStepInternal
  \/ EngineStepThrows
  \/ EngineStepReturns

EngineSpec == EngineInit /\ [][EngineNext]_engineVars

\* The driver (the pump loop of bench/adapters/redline_a.py, bench_main.cpp,
\* generate) keeps calling Step while requests are live, and a Step runs to its
\* end; nothing is assumed of the clients, and the executor may fail MaxThrows
\* times.
EngineFairSpec ==
  EngineSpec /\ WF_engineVars(EngineStepInternal \/ EngineStepReturns)

-----------------------------------------------------------------------------
Live == {r \in Ids : state[r] \in {"waiting", "prefill", "running"}}

(***************************************************************************)
(* Between calls requests_ holds exactly the live requests, as engine.hpp  *)
(* says of it: "Live (waiting or admitted, not yet finished) requests by   *)
(* id ... Entries are erased as their finish emission is returned from     *)
(* Step, so the map stays bounded across a long-serving process".          *)
(***************************************************************************)
LiveMapExact == pc = "idle" => requests = Live

\* The sum of the numbers of f: as many pairs <<x, n>> as f counts.
Units(f) == UNION {{x} \X (1 .. f[x]) : x \in DOMAIN f}
Total(f) == Cardinality(Units(f))

\* The tokens of each request that decode steps produced: all but the first.
DecodeProduced ==
  [r \in Ids |-> IF output_tokens[r] = <<>> THEN 0 ELSE Len(output_tokens[r]) - 1]

AbortedRequests == {r \in Ids : finish_reason[r] = "aborted"}

(***************************************************************************)
(* Between calls the counters of tokens and aborts are what the requests   *)
(* show: failed steps are not counted and a retried chunk is counted once. *)
(* Decode steps, replayed or eager, are as many as the padded ones at      *)
(* least and as the decoded tokens at most.                                *)
(***************************************************************************)
StatsExact ==
  pc = "idle" =>
    /\ prefill_tokens = Total(prefill_progress)
    /\ decode_tokens = Total(DecodeProduced)
    /\ Total(bucket_decode_steps) <= graph_replays + eager_decodes
    /\ graph_replays + eager_decodes <= decode_tokens
    /\ ~Graphs => graph_replays = 0
    /\ aborts = Cardinality(AbortedRequests)

Service ==
  INSTANCE RequestService
    WITH Params <- Workload, MayAbort <- (AdmissionPolicy = "watermark"),
         accepted <- next_request_id - 1, request <- param, stream <- delivered

(***************************************************************************)
(* Engine implements the service its clients see: whatever is queued,      *)
(* chunked, batched, padded, aborted or thrown away inside Step, a client  *)
(* receives its tokens one at a time and in order, a single finish with    *)
(* the reason its tokens give, first tokens come first come first served,  *)
(* and only the youngest is given up.                                      *)
(***************************************************************************)
ImplementsService == Service!ServiceSafety

(***************************************************************************)
(* The service as a whole: while Step is called, every request Engine has  *)
(* accepted gets its finish from a Step sooner or later, however the pool  *)
(* is shared and whichever step fails.                                     *)
(***************************************************************************)
EveryoneServed == Service!ServiceSpec

-----------------------------------------------------------------------------
(***************************************************************************)
(* What makes LiveMapExact and ImplementsService inductive while no step   *)
(* that has aborted a request is thrown away (under reserve_full, or       *)
(* without executor failures).                                             *)
(***************************************************************************)
StepResult == [request_id : Ids, token : Tokens, finished : BOOLEAN, finish_reason : FinishReasons]

HasResult(r) == \E i \in DOMAIN results : results[i].request_id = r

\* Finished requests whose finish the client has not been told of yet.
Unreported ==
  IF pc \in {"commit", "return"} THEN FinishedIn(results) ELSE Range(plan.aborted)

\* What the client has is what the request has produced before this step's results.
CaughtUp(r) ==
  /\ state[r] # "finished" =>
       /\ ~Service!Closed(delivered[r])
       /\ Len(output_tokens[r]) = Len(delivered[r]) + (IF HasResult(r) THEN 1 ELSE 0)
  /\ state[r] = "finished" => r \in Unreported \/ Service!Closed(delivered[r])
  /\ output_tokens[r] # <<>> <=> delivered[r] # <<>> \/ HasResult(r)

\* The aborts of the plan: running before, and younger than all that still runs.
AbortsPlanned ==
  /\ IsInjective(plan.aborted)
  /\ plan.aborted # <<>> => AdmissionPolicy = "watermark"
  /\ \A k \in DOMAIN plan.aborted :
       /\ state[plan.aborted[k]] = "finished" /\ delivered[plan.aborted[k]] # <<>>
       /\ ~Service!Closed(delivered[plan.aborted[k]])
       /\ \A s \in Admitted : s < plan.aborted[k]

\* The service allows this result next, and the request agrees about its finish.
ResultAllowed(x) ==
  LET r == x.request_id IN
  /\ ~Service!Closed(delivered[r])
  /\ x \in Service!NextResults(r)
  /\ state[r] # "none"
  /\ x.finished <=> state[r] = "finished"
  /\ x.finish_reason = "aborted" => \A s \in Admitted : s < r

ResultsAllowed ==
  /\ \A i, j \in DOMAIN results : results[i].request_id = results[j].request_id => i = j
  /\ \A i \in DOMAIN results : ResultAllowed(results[i])

EngineInv ==
  /\ requests = Live \union Unreported
  /\ delivered \in [Ids -> Seq(StepResult)]
  /\ \A r \in Ids : CaughtUp(r)
  /\ pc \in {"decode", "planned"} => AbortsPlanned
  /\ pc = "decode" => Len(plan.aborted) + Len(running) <= MaxBatch
  /\ pc \in {"planned", "commit"} => Len(plan.aborted) + Len(plan.decode) <= MaxBatch
  /\ ResultsAllowed
  /\ pc = "commit" => \A k \in RowsDone + 1 .. Len(plan.decode) : ~HasResult(plan.decode[k])
  /\ Len(results) <= MaxBatch

(***************************************************************************)
(* What StatsExact needs on top: the books in the middle of a step, which  *)
(* is counted when it returns.                                             *)
(***************************************************************************)
\* The decode rows, and the prompt tokens, of the step under way that the requests show.
RowsUncounted == IF pc \in {"commit", "return"} /\ ~is_prefill THEN RowsDone ELSE 0
PromptUncounted == IF pc = "return" THEN plan.end - plan.begin ELSE 0

StatsTypeOK ==
  /\ prefill_tokens \in Nat /\ decode_tokens \in Nat /\ aborts \in Nat
  /\ graph_replays \in Nat /\ eager_decodes \in Nat
  /\ bucket_decode_steps \in [Range(decode_buckets) -> Nat]

\* A step that has committed its rows has committed its plan.
StepCommitted ==
  pc = "return" =>
    IF is_prefill THEN plan.decode = <<>> /\ plan.begin <= plan.end
    ELSE RowsDone = Len(plan.decode)

StatsInv ==
  /\ StatsTypeOK /\ StepCommitted
  /\ Total(prefill_progress) = prefill_tokens + PromptUncounted
  /\ Total(DecodeProduced) = decode_tokens + RowsUncounted
  /\ Total(bucket_decode_steps) <= graph_replays + eager_decodes
  /\ graph_replays + eager_decodes <= decode_tokens
  /\ ~Graphs => graph_replays = 0
  /\ Cardinality(AbortedRequests) = aborts + Len(plan.aborted)
  /\ \A r \in Ids : finish_reason[r] # "none" => state[r] = "finished"
===============================================================================
