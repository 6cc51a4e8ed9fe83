----------------------------- MODULE BenchDriver ------------------------------
(***************************************************************************)
(* bench_main.cpp: the C++ profiling driver over Engine.  One warmup       *)
(* request is drained, then a closed wave of equal requests is submitted   *)
(* against the backpressure of HasCapacity and pumped until all of them    *)
(* have finished; then the traces are summarized and gated.                *)
(*                                                                         *)
(* Client time, stamped on tokens after each Step, counts the Step calls   *)
(* that returned a result.  An exception of Engine ends the run.           *)
(***************************************************************************)
EXTENDS Engine

CONSTANTS
  CliOptions,                 \* command lines: prompt_len, gen_len, requests, ignore_eos
  WarmupGen                   \* 8 in the code

ASSUME BenchAssumption ==
  /\ WarmupGen \in Nat \ {0}
  /\ \A o \in CliOptions :
       /\ {o.prompt_len, o.gen_len, o.requests} \subseteq Int /\ o.ignore_eos \in BOOLEAN
       /\ o.requests < MaxRequests                \* and the warmup request
       /\ o.prompt_len + o.gen_len <= MaxSeqLen   \* max_seq_len is raised to fit

VARIABLES
  opt,
  at,                         \* where Run is
  ended,                      \* how main ended: "" while it runs
  submitted, finished,
  index_by_id,                \* request id -> index into traces
  traces,                     \* per workload index: submit_s, token_times_s, finish_reason
  step_calls,                 \* client time
  warmup_tokens

driverVars == <<at, ended, submitted, finished, index_by_id, traces, step_calls, warmup_tokens>>
benchVars == <<engineVars, opt, driverVars>>

-----------------------------------------------------------------------------
\* ParseCli: every count is at least 1.
ValidOptions == opt.prompt_len >= 1 /\ opt.gen_len >= 1 /\ opt.requests >= 1

warmup_gen == Min({WarmupGen, opt.gen_len})

WarmupRequest ==
  [prompt |-> Min({opt.prompt_len, MaxSeqLen - warmup_gen}), max_new |-> warmup_gen,
   ignore_eos |-> TRUE, forced |-> <<>>]

BenchRequest ==
  [prompt |-> opt.prompt_len, max_new |-> opt.gen_len, ignore_eos |-> opt.ignore_eos,
   forced |-> <<>>]

NoTrace == [submit_s |-> 0, token_times_s |-> <<>>, finish_reason |-> "none"]

\* Mutant: an admitted request is looked for in the decode batch only.
IdleIgnoringPrefill == waiting = <<>> /\ running = <<>>

\* Stats() reports no waiting and no running request.
EngineIdle == waiting = <<>> /\ num_running = 0

BenchInit ==
  /\ EngineInit
  /\ opt \in CliOptions
  /\ at = "cli" /\ ended = ""
  /\ submitted = 0 /\ finished = 0 /\ index_by_id = <<>>
  /\ traces = [i \in 1 .. opt.requests |-> NoTrace]
  /\ step_calls = 0 /\ warmup_tokens = 0

\* The process ends; nothing else it holds matters any more.
Exit(how) ==
  /\ at' = "exited" /\ ended' = how
  /\ UNCHANGED <<submitted, finished, index_by_id, traces, step_calls, warmup_tokens>>

ParseCli ==
  /\ at = "cli"
  /\ IF ValidOptions
     THEN at' = "warmup_add" /\ UNCHANGED <<ended, submitted, finished, index_by_id, traces,
                                            step_calls, warmup_tokens>>
     ELSE Exit("usage")
  /\ UNCHANGED <<engineVars, opt>>

-----------------------------------------------------------------------------
(***************************************************************************)
(* Submission.  A request AddRequest rejects is an exception of Run.       *)
(***************************************************************************)
SubmitWarmup ==
  /\ at = "warmup_add"
  /\ EngineAddRequest(WarmupRequest)
  /\ at' = "warmup"
  /\ UNCHANGED <<opt, ended, submitted, finished, index_by_id, traces, step_calls, warmup_tokens>>

SubmitWanted == at = "submit" /\ submitted < opt.requests /\ HasCapacity

SubmitRequest ==
  /\ SubmitWanted
  /\ EngineAddRequest(BenchRequest)
  /\ traces' = [traces EXCEPT ![submitted + 1].submit_s = step_calls]
  /\ index_by_id' = [r \in DOMAIN index_by_id \cup {next_request_id} |->
                       IF r = next_request_id THEN submitted + 1 ELSE index_by_id[r]]
  /\ submitted' = submitted + 1
  /\ UNCHANGED <<opt, at, ended, finished, step_calls, warmup_tokens>>

RequestRejected ==
  /\ at = "warmup_add" \/ SubmitWanted
  /\ ~ValidRequest(IF at = "warmup_add" THEN WarmupRequest ELSE BenchRequest)
  /\ Exit("exception")
  /\ UNCHANGED <<engineVars, opt>>

\* Everything is submitted or the waiting queue is full: call Step.
SubmitDone ==
  /\ at = "submit" /\ ~SubmitWanted
  /\ at' = "pump"
  /\ UNCHANGED <<engineVars, opt, ended, submitted, finished, index_by_id, traces, step_calls,
                 warmup_tokens>>

-----------------------------------------------------------------------------
(***************************************************************************)
(* Step, and what the driver does with its results.                        *)
(***************************************************************************)
Stepping == at \in {"warmup", "pump"}

StepRuns ==
  /\ Stepping /\ EngineStepInternal /\ pc' # "idle"
  /\ UNCHANGED <<opt, driverVars>>

StepThrows == Stepping /\ EngineStepThrows /\ Exit("exception") /\ UNCHANGED opt

Emitted(res) == Len(SelectSeq(res, LAMBDA x : x.finish_reason # "aborted"))
Finishing(res) == Len(SelectSeq(res, LAMBDA x : x.finished))

\* One iteration of the warmup loop.
WarmupResults(res) ==
  IF \E i \in DOMAIN res : res[i].request_id # 1 THEN Exit("fatal")
  ELSE IF res = <<>> /\ EngineIdle' THEN Exit("fatal")
  ELSE /\ warmup_tokens' = warmup_tokens + Emitted(res)
       /\ at' = IF Finishing(res) > 0 THEN "submit" ELSE "warmup"
       /\ UNCHANGED <<ended, submitted, finished, index_by_id, traces, step_calls>>

\* One result goes to the trace of its request; an abort notice carries no token.
Record(trs, res) ==
  LET i == index_by_id[res.request_id] IN
  [trs EXCEPT ![i].token_times_s =
                IF res.finish_reason = "aborted" THEN @ ELSE Append(@, step_calls + 1),
              ![i].finish_reason = IF res.finished THEN res.finish_reason ELSE @]

\* One iteration of the measured loop: an id nobody submitted is fatal, and so
\* is an idle engine that has returned nothing while requests are unfinished.
PumpResults(res) ==
  IF \E i \in DOMAIN res : res[i].request_id \notin DOMAIN index_by_id THEN Exit("fatal")
  ELSE IF res = <<>> /\ EngineIdle' THEN Exit("fatal")
  ELSE /\ traces' = FoldLeft(Record, traces, res)
       /\ finished' = finished + Finishing(res)
       /\ step_calls' = step_calls + (IF res = <<>> THEN 0 ELSE 1)
       /\ at' = IF finished' < opt.requests THEN "submit" ELSE "report"
       /\ UNCHANGED <<ended, submitted, index_by_id, warmup_tokens>>

StepReturns ==
  /\ \/ EngineStepReturns
     \/ EngineStepInternal /\ pc' = "idle"     \* nothing was planned
  /\ \/ at = "warmup" /\ WarmupResults(results)
     \/ at = "pump" /\ PumpResults(results)
  /\ UNCHANGED opt

-----------------------------------------------------------------------------
(***************************************************************************)
(* Summarize, the JSON file, and the forced-length gate.                   *)
(***************************************************************************)
Indices == DOMAIN traces

total_new_tokens == MapThenSumSet(LAMBDA i : Len(traces[i].token_times_s), Indices)

WithTokens == {i \in Indices : traces[i].token_times_s # <<>>}

\* The last token of the wave minus the first submission, in client time.
wall_window ==
  Max({Last(traces[i].token_times_s) : i \in WithTokens}) - Min({traces[i].submit_s : i \in Indices})

\* Inter-token gaps that enter the ITL percentiles.
itl == UNION {{<<i, k, traces[i].token_times_s[k] - traces[i].token_times_s[k - 1]>> :
                 k \in 2 .. Len(traces[i].token_times_s)} : i \in Indices}

ForcedLengthHolds ==
  \A i \in Indices :
    traces[i].finish_reason = "length" /\ Len(traces[i].token_times_s) = opt.gen_len

Report ==
  /\ at = "report"
  /\ IF WithTokens = {} \/ wall_window <= 0 THEN Exit("fatal")
     ELSE \/ Exit("json_unwritable")
          \/ Exit(IF opt.ignore_eos /\ ~ForcedLengthHolds THEN "gate" ELSE "ok")
  /\ UNCHANGED <<engineVars, opt>>

Exited == at = "exited" /\ UNCHANGED benchVars

Progress ==
  \/ ParseCli \/ SubmitWarmup \/ SubmitRequest \/ RequestRejected \/ SubmitDone
  \/ StepRuns \/ StepReturns \/ Report

BenchNext == Progress \/ StepThrows \/ Exited

\* One thread runs the driver and the engine, and nothing makes it wait.
BenchSpec == BenchInit /\ [][BenchNext]_benchVars /\ WF_benchVars(Progress)

-----------------------------------------------------------------------------
(***************************************************************************)
(* Properties.                                                             *)
(***************************************************************************)

(***************************************************************************)
(* What the driver takes for a broken engine never happens: no result has  *)
(* an unknown id, no finish is lost, and with --ignore-eos 1 every request *)
(* has exactly gen_len tokens.  When it reports, the client's token count  *)
(* and the engine's counters agree (the first token of each request comes  *)
(* from its prefill), and no two tokens of a request share a timestamp.    *)
(***************************************************************************)
BenchVerdict ==
  /\ ended \notin {"fatal", "gate"}
  /\ ended = "ok" =>
       /\ total_new_tokens + warmup_tokens = decode_tokens + opt.requests + 1
       /\ warmup_tokens = warmup_gen
       /\ \A gap \in itl : gap[3] > 0

\* The driver always ends: no wave of requests leaves it stepping forever.
BenchEnds == <>(at = "exited")
===============================================================================
