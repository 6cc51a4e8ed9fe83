------------------------------- MODULE Generate -------------------------------
(***************************************************************************)
(* python/redline_client/__init__.py: generate(), the synchronous pump     *)
(* over Engine.  It may be called again on the same engine, also after a   *)
(* call that raised and left requests behind in the engine.                *)
(***************************************************************************)
EXTENDS Engine

CONSTANTS
  Batches,                    \* sequences of requests to run to completion
  MaxCalls,                   \* bound on the calls of generate
  MAX_IDLE_STEPS              \* _MAX_IDLE_STEPS, 4096 in the code

\* generate calls add_request without forced tokens.
ASSUME GenerateAssumption ==
  /\ MaxCalls \in Nat /\ MAX_IDLE_STEPS \in Nat
  /\ \A b \in Batches : b \in Seq(Workload) /\ \A i \in DOMAIN b : b[i].forced = <<>>

VARIABLES
  prompts,                    \* the arguments of the call in progress
  call,                       \* "none", "submit", "step", "returned" or what it raised
  calls, failed_before,       \* calls made, and whether one before this raised
  next_index, unfinished, idle_steps,
  by_id                       \* request id -> Completion: tokens collected, finish_reason

callVars == <<prompts, call, calls, failed_before, next_index, unfinished, idle_steps, by_id>>
genVars == <<engineVars, callVars>>

-----------------------------------------------------------------------------
Errors == {"rejected", "step_raised", "unknown_id", "after_finish", "no_progress"}

GenerateInit ==
  /\ EngineInit
  /\ prompts = <<>> /\ call = "none" /\ calls = 0 /\ failed_before = FALSE
  /\ next_index = 1 /\ unfinished = 0 /\ idle_steps = 0 /\ by_id = <<>>

CallGenerate(batch) ==
  /\ call \in {"none", "returned"} \cup Errors /\ calls < MaxCalls
  /\ prompts' = batch /\ call' = "submit" /\ calls' = calls + 1
  /\ failed_before' = (failed_before \/ call \in Errors)
  /\ next_index' = 1 /\ unfinished' = 0 /\ idle_steps' = 0 /\ by_id' = <<>>
  /\ UNCHANGED engineVars

Raise(error) ==
  /\ call' = error
  /\ UNCHANGED <<prompts, calls, failed_before, next_index, unfinished, idle_steps, by_id>>

MoreToDo == next_index <= Len(prompts) \/ unfinished > 0

PromptWanted == next_index <= Len(prompts) /\ HasCapacity

SubmitPrompt ==
  /\ call = "submit" /\ PromptWanted
  /\ EngineAddRequest(prompts[next_index])
  /\ by_id' = [r \in DOMAIN by_id \cup {next_request_id} |->
                 IF r = next_request_id THEN [tokens |-> <<>>, finish_reason |-> "none"] ELSE by_id[r]]
  /\ unfinished' = unfinished + 1 /\ next_index' = next_index + 1
  /\ UNCHANGED <<prompts, call, calls, failed_before, idle_steps>>

\* add_request raises ValueError; what was submitted before stays in the engine.
PromptRejected ==
  /\ call = "submit" /\ PromptWanted /\ ~ValidRequest(prompts[next_index])
  /\ Raise("rejected") /\ UNCHANGED engineVars

\* The outer loop: step, or return the completions.
PromptsSubmitted ==
  /\ call = "submit" /\ ~PromptWanted
  /\ call' = IF MoreToDo THEN "step" ELSE "returned"
  /\ UNCHANGED <<engineVars, prompts, calls, failed_before, next_index, unfinished, idle_steps, by_id>>

CallSteps == call = "step" /\ EngineStepInternal /\ pc' # "idle" /\ UNCHANGED callVars

CallStepRaises == call = "step" /\ EngineStepThrows /\ Raise("step_raised")

\* Mutant: the newest token goes to the front of the completion.
CollectReversed(collected, res) ==
  [collected EXCEPT ![res.request_id] =
     [tokens |-> IF res.finish_reason = "aborted" THEN @.tokens ELSE <<res.token>> \o @.tokens,
      finish_reason |-> IF res.finished THEN res.finish_reason ELSE @.finish_reason]]

\* One result goes to its completion; an abort notice carries no token.
Collect(collected, res) ==
  [collected EXCEPT ![res.request_id] =
     [tokens |-> IF res.finish_reason = "aborted" THEN @.tokens ELSE Append(@.tokens, res.token),
      finish_reason |-> IF res.finished THEN res.finish_reason ELSE @.finish_reason]]

\* The completions after the loop over the results.
Completions(res) ==
  LET after[i \in 0 .. Len(res)] == IF i = 0 THEN by_id ELSE Collect(after[i - 1], res[i])
  IN after[Len(res)]

\* What the loop over the results raises, or "none".
ResultError(res) ==
  IF \E i \in DOMAIN res : res[i].request_id \notin DOMAIN by_id THEN "unknown_id"
  ELSE IF \E i \in DOMAIN res : by_id[res[i].request_id].finish_reason # "none" THEN "after_finish"
  ELSE "none"

\* An empty result: count it, or give up when there are too many in a row.
IdleStep ==
  IF idle_steps + 1 > MAX_IDLE_STEPS THEN Raise("no_progress")
  ELSE /\ idle_steps' = idle_steps + 1 /\ call' = "submit"
       /\ UNCHANGED <<prompts, calls, failed_before, next_index, unfinished, by_id>>

\* Mutant: a result does not end the run of empty ones.
HandleResultsNoReset(res) ==
  IF res = <<>> THEN IdleStep
  ELSE IF ResultError(res) # "none" THEN Raise(ResultError(res))
  ELSE /\ by_id' = Completions(res)
       /\ unfinished' = unfinished - Cardinality({i \in DOMAIN res : res[i].finished})
       /\ call' = "submit"
       /\ UNCHANGED <<prompts, calls, failed_before, next_index, idle_steps>>

HandleResults(res) ==
  IF res = <<>> THEN IdleStep
  ELSE IF ResultError(res) # "none" THEN Raise(ResultError(res))
  ELSE /\ by_id' = Completions(res)
       /\ unfinished' = unfinished - Cardinality({i \in DOMAIN res : res[i].finished})
       /\ idle_steps' = 0 /\ call' = "submit"
       /\ UNCHANGED <<prompts, calls, failed_before, next_index>>

CallStepReturns ==
  /\ call = "step"
  /\ EngineStepReturns \/ (EngineStepInternal /\ pc' = "idle")
  /\ HandleResults(results)

Finished == call \notin {"submit", "step"} /\ calls = MaxCalls /\ UNCHANGED genVars

GenerateNext ==
  \/ \E batch \in Batches : CallGenerate(batch)
  \/ SubmitPrompt \/ PromptRejected \/ PromptsSubmitted \/ CallSteps \/ CallStepReturns \/ CallStepRaises
  \/ Finished

GenerateSpec == GenerateInit /\ [][GenerateNext]_genVars

-----------------------------------------------------------------------------
(***************************************************************************)
(* Properties.                                                             *)
(***************************************************************************)

(***************************************************************************)
(* When generate returns, it returns a completion for every prompt, with   *)
(* the finish reason and exactly the tokens the engine produced for it, in *)
(* their order (those before the abort, if it was aborted); a result it    *)
(* cannot place is met only after an earlier call had raised and left      *)
(* requests in the engine.                                                 *)
(***************************************************************************)
GenerateSound ==
  /\ call = "returned" =>
       /\ Cardinality(DOMAIN by_id) = Len(prompts)
       /\ \A r \in DOMAIN by_id :
            /\ by_id[r].finish_reason = finish_reason[r] /\ state[r] = "finished"
            /\ by_id[r].tokens = output_tokens[r]
  /\ call \in {"unknown_id", "after_finish"} => failed_before

(***************************************************************************)
(* A run of _MAX_IDLE_STEPS empty results "means the engine is wedged":    *)
(* generate never gives up on anything else than a prompt that really has  *)
(* more chunks than that, one after the other, whatever other requests are *)
(* waiting, decoding or left behind by a call that raised.  So it never    *)
(* gives up while every prompt is within _MAX_IDLE_STEPS chunks.           *)
(***************************************************************************)
GivesUpOnLongPrompt ==
  call = "no_progress" =>
    \E r \in Ids :
      state[r] = "prefill" /\ prefill_progress[r] > MAX_IDLE_STEPS * PrefillChunk

-----------------------------------------------------------------------------
(***************************************************************************)
(* What makes GenerateSound inductive, on top of EngineInv.                *)
(***************************************************************************)
\* The last result of a request says how it ended, and tells its last token.
LastResults ==
  /\ \A i \in DOMAIN results : results[i].finished =>
       LET r == results[i].request_id IN
       /\ results[i].finish_reason = finish_reason[r]
       /\ Len(output_tokens[r]) =
            Len(delivered[r]) + (IF results[i].finish_reason = "aborted" THEN 0 ELSE 1)
  /\ \A k \in DOMAIN plan.aborted :
       LET r == plan.aborted[k] IN
       /\ state[r] = "finished" /\ finish_reason[r] = "aborted"
       /\ Len(output_tokens[r]) = Len(delivered[r])

Completion == [tokens : Seq(Tokens), finish_reason : FinishReasons]

\* The ids of the call are the ones it was given, and it steps the engine alone.
CallShape ==
  /\ call \in {"none", "submit", "step", "returned"} \cup Errors /\ failed_before \in BOOLEAN
  /\ prompts \in Batches \cup {<<>>}
  /\ next_index \in 1 .. Len(prompts) + 1 /\ next_index <= next_request_id
  /\ by_id \in [next_request_id - next_index + 1 .. next_request_id - 1 -> Completion]
  /\ call = "none" => next_request_id = 1
  /\ call # "step" => pc = "idle"
  /\ call = "returned" => next_index > Len(prompts) /\ unfinished <= 0

\* A completion holds what the client was given, and all there is once it is closed.
UpToDate(r) ==
  /\ by_id[r].finish_reason = "none" <=> ~Service!Closed(delivered[r])
  /\ ~Service!Closed(delivered[r]) => Len(by_id[r].tokens) = Len(delivered[r])
  /\ Service!Closed(delivered[r]) =>
       /\ by_id[r].finish_reason = finish_reason[r]
       /\ Len(by_id[r].tokens) = Len(output_tokens[r])

Awaited == {r \in DOMAIN by_id : by_id[r].finish_reason = "none"}

GenerateInv ==
  /\ CallShape /\ LastResults
  /\ call \in {"submit", "step", "returned"} =>
       unfinished = Cardinality(Awaited) /\ \A r \in DOMAIN by_id : UpToDate(r)
  /\ ~failed_before /\ call \notin Errors =>
       \A r \in Ids : state[r] # "none" /\ ~Service!Closed(delivered[r]) => r \in DOMAIN by_id
  /\ call \in {"unknown_id", "after_finish"} => failed_before

(***************************************************************************)
(* The tokens: what a completion holds is a prefix of what the request has *)
(* produced, and a result carries the newest token of its request.         *)
(***************************************************************************)
NothingForced == \A r \in Ids : param[r].forced = <<>>

NewestTold ==
  \A i \in DOMAIN results : results[i].finish_reason # "aborted" =>
    LET produced == output_tokens[results[i].request_id] IN
    produced # <<>> /\ results[i].token = Last(produced)

Collected(r) ==
  /\ Len(by_id[r].tokens) <= Len(output_tokens[r])
  /\ \A k \in DOMAIN by_id[r].tokens : by_id[r].tokens[k] = output_tokens[r][k]

TokensInv == NothingForced /\ NewestTold /\ \A r \in DOMAIN by_id : Collected(r)

(***************************************************************************)
(* The idle count: every empty result in a row is another chunk of the     *)
(* same prompt, and Step never finds nothing to do while generate calls it.*)
(***************************************************************************)
\* The oldest prefill has come n chunks.
HeadHasCome(n) ==
  prefill_queue # <<>> /\ prefill_progress[Head(prefill_queue)] >= n * PrefillChunk

IdleCount ==
  /\ idle_steps \in Nat
  /\ call \in {"submit", "step"} /\ pc # "return" /\ idle_steps > 0 => HeadHasCome(idle_steps)
  /\ call = "step" /\ pc = "return" /\ results = <<>> => HeadHasCome(idle_steps + 1)

\* An intermediate chunk is a whole one, and only a plan that has something is executed.
PlansAreWork ==
  /\ pc \in {"prefill", "planned", "commit"} /\ is_prefill /\ plan.end < num_prompt_tokens(plan.prefill)
       => plan.end = plan.begin + PrefillChunk
  /\ pc = "commit" => ~plan_empty

\* While generate steps the engine there is somebody to serve, or to tell of an abort.
SomebodyServed ==
  call = "step" /\ pc \notin {"commit", "return"} => Live # {} \/ plan.aborted # <<>>

\* An empty plan means that nobody is admitted, and nobody can be.
EmptyPlans ==
  pc \in {"decode", "planned"} /\ plan_empty =>
    /\ prefill_queue = <<>> /\ ~CanAdmitHead
    /\ pc = "planned" => running = <<>>

IdleInv == IdleCount /\ PlansAreWork /\ SomebodyServed /\ EmptyPlans /\ GivesUpOnLongPrompt
===============================================================================
