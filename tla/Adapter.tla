-------------------------------- MODULE Adapter --------------------------------
(***************************************************************************)
(* bench/adapters/redline_a.py over the shared driver of                   *)
(* bench/adapters/__init__.py: trials in which one asyncio task per        *)
(* request submits and consumes, and a pump task steps the engine.         *)
(*                                                                         *)
(* Two actors run concurrently.  The event loop runs one task at a time up *)
(* to its next await; the engine thread works off the calls the tasks      *)
(* handed to the executor, in order, and completions come back to the loop *)
(* in that order.  Sleeps and queue wake-ups may happen at any later time. *)
(*                                                                         *)
(* The engine is what Engine shows of itself: a request waits, is admitted *)
(* and prefilled, then gets one token per decode step until its budget is  *)
(* used or it is aborted; a call may throw.                                *)
(***************************************************************************)
EXTENDS Integers, Sequences, FiniteSets, FiniteSetsExt

CONSTANTS
  NumRequests,                \* requests of a workload
  Budget,                     \* max_new_tokens of every request
  MaxWaiting,                 \* kMaxWaitingRequests
  MaxTrials,                  \* bound on run() calls
  MaxErrors,                  \* bound on engine calls that throw
  MaxAborts                   \* bound on watermark aborts

ASSUME AdapterAssumption ==
  /\ {NumRequests, Budget, MaxWaiting, MaxTrials} \subseteq Nat \ {0}
  /\ {MaxErrors, MaxAborts} \subseteq Nat

Clients   == 1 .. NumRequests
Pump      == 0
Tasks     == Clients \union {Pump}
EngineIds == 1 .. NumRequests * MaxTrials

\* The numbers of a set, in ascending order: requests from the oldest to the youngest,
\* positions from the first to the last.
Sorted(S) ==
  CHOOSE s \in [1 .. Cardinality(S) -> S] : \A i, j \in DOMAIN s : i < j => s[i] < s[j]

VARIABLES
  \* the engine
  phase, left, next_id,
  \* the engine thread and the way back to the loop
  jobs, ready,
  \* RedlineAdapter
  queues, engine_to_request, submitted, finished, poisoned, loaded,
  \* the tasks, and what the clients recorded
  main, task, received, aborted,
  \* what went wrong, how the last trial ended, and the bounds
  pump_error, outcome, trials, errors, aborts

engineState  == <<phase, left, next_id>>
threadVars   == <<jobs, ready>>
adapterState == <<queues, engine_to_request, submitted, finished, poisoned, loaded>>
traceVars    == <<received, aborted>>
boundVars    == <<trials, errors, aborts>>
adapterVars  == <<engineState, threadVars, adapterState, main, task, traceVars,
                  pump_error, outcome, boundVars>>

-----------------------------------------------------------------------------
FreshEngine ==
  /\ phase = [e \in EngineIds |-> "none"]
  /\ left = [e \in EngineIds |-> 0]
  /\ next_id = 1

AdapterInit ==
  /\ FreshEngine
  /\ jobs = <<>> /\ ready = <<>>
  /\ queues = [c \in Clients |-> <<>>]
  /\ engine_to_request = [e \in EngineIds |-> 0]
  /\ submitted = 0 /\ finished = 0
  /\ poisoned = FALSE /\ loaded = FALSE
  /\ main = "idle"
  /\ task = [t \in Tasks |-> "none"]
  /\ received = [c \in Clients |-> 0] /\ aborted = [c \in Clients |-> FALSE]
  /\ pump_error = "none" /\ outcome = "none"
  /\ trials = 0 /\ errors = 0 /\ aborts = 0

-----------------------------------------------------------------------------
(***************************************************************************)
(* The engine thread.                                                      *)
(***************************************************************************)
InPhase(p) == {e \in EngineIds : phase[e] = p}

Live == UNION {InPhase(p) : p \in {"waiting", "admitted", "prefill", "running"}}

Call(t, fn) == [task |-> t, fn |-> fn]

Reply(t, ok, id, results) == [task |-> t, ok |-> ok, id |-> id, results |-> results]

\* Mutant: a completion overtakes the ones before it.
CompleteFirst(reply) == ready' = IF main = "driving" THEN <<reply>> \o ready ELSE ready

\* The future's completion is handed to the loop, unless the loop is gone.
Complete(reply) == ready' = IF main = "driving" THEN Append(ready, reply) ELSE ready

\* One StepResult: whether it carries a token, and whether it is the last.
Item(e, token, fin) == [id |-> e, token |-> token, finished |-> fin]

has_capacity(t) ==
  /\ Complete(Reply(t, Cardinality(InPhase("waiting")) < MaxWaiting, 0, <<>>))
  /\ UNCHANGED <<engineState, errors, aborts>>

add_request(t) ==
  /\ next_id \in EngineIds
  /\ phase' = [phase EXCEPT ![next_id] = "waiting"]
  /\ left' = [left EXCEPT ![next_id] = Budget]
  /\ next_id' = next_id + 1
  /\ Complete(Reply(t, TRUE, next_id, <<>>))
  /\ UNCHANGED <<errors, aborts>>

\* The requests a step may admit: the oldest waiting ones, at least one if no other
\* request holds blocks.
Admissible ==
  LET waiting == InPhase("waiting")
  IN {A \in SUBSET waiting :
        /\ \A e \in A, f \in waiting \ A : e < f
        /\ A = {} => waiting = {} \/ Live # waiting}

\* What an admission leaves waiting, and where the prefilled request gets to.
Prefilled(A, e, to) ==
  [f \in EngineIds |-> IF f = e THEN to ELSE IF f \in A THEN "admitted" ELSE phase[f]]

\* The phase of a request after its next token.
AfterToken(e) == IF left[e] = 1 THEN "finished" ELSE "running"

\* A prompt takes two chunks.  The oldest admitted request gets the first: no result.
step_chunk(A, e) ==
  /\ phase[e] # "prefill"
  /\ phase' = Prefilled(A, e, "prefill")
  /\ Complete(Reply(Pump, TRUE, 0, <<>>))
  /\ UNCHANGED <<left, next_id, errors, aborts>>

step_final_chunk(A, e) ==
  /\ phase[e] = "prefill"
  /\ phase' = Prefilled(A, e, AfterToken(e))
  /\ left' = [left EXCEPT ![e] = @ - 1]
  /\ Complete(Reply(Pump, TRUE, 0, <<Item(e, TRUE, left[e] = 1)>>))
  /\ UNCHANGED <<next_id, errors, aborts>>

\* The aborted requests, youngest first, then the decoded ones, oldest first.
DecodeResults(V, rest) ==
  LET n == Cardinality(V) IN
  [i \in 1 .. n + Cardinality(rest) |->
     IF i <= n THEN Item(Sorted(V)[n + 1 - i], FALSE, TRUE)
     ELSE LET e == Sorted(rest)[i - n] IN Item(e, TRUE, left[e] = 1)]

\* The youngest requests V are aborted for want of blocks, the others get a token.
step_decode(V) ==
  LET running == InPhase("running")
      rest    == running \ V
  IN /\ \A e \in V, f \in rest : f < e
     /\ aborts + Cardinality(V) <= MaxAborts
     /\ aborts' = aborts + Cardinality(V)
     /\ left' = [e \in EngineIds |-> IF e \in rest THEN left[e] - 1 ELSE left[e]]
     /\ phase' = [e \in EngineIds |-> IF e \in V THEN "finished"
                                      ELSE IF e \in rest THEN AfterToken(e) ELSE phase[e]]
     /\ Complete(Reply(Pump, TRUE, 0, DecodeResults(V, rest)))
     /\ UNCHANGED <<next_id, errors>>

step ==
  \E A \in Admissible :
    LET prefills == A \union InPhase("admitted") \union InPhase("prefill") IN
      \/ /\ prefills # {}
         /\ step_chunk(A, Min(prefills)) \/ step_final_chunk(A, Min(prefills))
      \/ prefills = {} /\ \E V \in SUBSET InPhase("running") : step_decode(V)

\* step() or add_request() throws; no trial uses the engine after that.
CallThrows(t) ==
  /\ errors < MaxErrors
  /\ errors' = errors + 1
  /\ Complete(Reply(t, FALSE, 0, <<>>))
  /\ UNCHANGED <<engineState, aborts>>

EngineRuns ==
  /\ jobs # <<>>
  /\ jobs' = Tail(jobs)
  /\ LET job == Head(jobs) IN
       \/ job.fn = "has_capacity" /\ has_capacity(job.task)
       \/ job.fn = "add_request" /\ (add_request(job.task) \/ CallThrows(job.task))
       \/ job.fn = "step" /\ (step \/ CallThrows(Pump))
  /\ UNCHANGED <<adapterState, main, task, traceVars, pump_error, outcome, trials>>

-----------------------------------------------------------------------------
(***************************************************************************)
(* _stream_one: one task per request.                                      *)
(***************************************************************************)
Submit(t, fn) == jobs' = Append(jobs, Call(t, fn))

\* The arrival delay, or the backpressure sleep, is over.
ClientWakes(c) ==
  /\ main = "driving"
  /\ task[c] \in {"arriving", "backoff"}
  /\ Submit(c, "has_capacity")
  /\ task' = [task EXCEPT ![c] = "has_capacity"]
  /\ UNCHANGED <<engineState, ready, adapterState, main, traceVars,
                 pump_error, outcome, boundVars>>

\* The next completion on the loop belongs to task t.
Answered(t) == ready # <<>> /\ Head(ready).task = t

ClientHasCapacity(c) ==
  /\ Answered(c) /\ task[c] = "has_capacity"
  /\ ready' = Tail(ready)
  /\ IF Head(ready).ok
     THEN Submit(c, "add_request") /\ task' = [task EXCEPT ![c] = "add_request"]
     ELSE task' = [task EXCEPT ![c] = "backoff"] /\ UNCHANGED jobs
  /\ UNCHANGED <<engineState, adapterState, main, traceVars, pump_error, outcome, boundVars>>

ClientAdded(c) ==
  /\ Answered(c) /\ task[c] = "add_request"
  /\ ready' = Tail(ready)
  /\ IF Head(ready).ok
     THEN /\ engine_to_request' = [engine_to_request EXCEPT ![Head(ready).id] = c]
          /\ submitted' = submitted + 1
          /\ task' = [task EXCEPT ![c] = "reading"]
     ELSE /\ task' = [task EXCEPT ![c] = "failed"]
          /\ UNCHANGED <<engine_to_request, submitted>>
  /\ UNCHANGED <<engineState, jobs, queues, finished, poisoned, loaded, main, traceVars,
                 pump_error, outcome, boundVars>>

PUMP_FAILED == Item(0, FALSE, FALSE)

\* Mutant: the token that comes with the finish is not recorded.
RecordsUnfinished(item) == item.token /\ ~item.finished

\* if reason != "aborted": trace.record(token)
Records(item) == item.token

ClientReads(c) ==
  /\ main = "driving"
  /\ task[c] = "reading" /\ queues[c] # <<>>
  /\ queues' = [queues EXCEPT ![c] = Tail(@)]
  /\ LET item == Head(queues[c]) IN
       \/ /\ item = PUMP_FAILED
          /\ task' = [task EXCEPT ![c] = "failed"]
          /\ UNCHANGED traceVars
       \/ /\ item # PUMP_FAILED
          /\ received' = [received EXCEPT ![c] = @ + (IF Records(item) THEN 1 ELSE 0)]
          /\ aborted' = [aborted EXCEPT ![c] = item.finished /\ ~item.token]
          /\ task' = [task EXCEPT ![c] = IF item.finished THEN "done" ELSE "reading"]
  /\ UNCHANGED <<engineState, threadVars, engine_to_request, submitted, finished,
                 poisoned, loaded, main, pump_error, outcome, boundVars>>

-----------------------------------------------------------------------------
(***************************************************************************)
(* _pump.                                                                  *)
(***************************************************************************)

\* The loop test: another step, or the end.
PumpLoops(done) ==
  IF done < NumRequests
  THEN Submit(Pump, "step") /\ task' = [task EXCEPT ![Pump] = "step"]
  ELSE task' = [task EXCEPT ![Pump] = "done"] /\ UNCHANGED jobs

\* The task starts, or its nap is over.
PumpWakes ==
  /\ main = "driving"
  /\ task[Pump] \in {"start", "nap"}
  /\ PumpLoops(finished)
  /\ UNCHANGED <<engineState, ready, adapterState, main, traceVars,
                 pump_error, outcome, boundVars>>

\* Results up to the first one for an id that is not registered.
Known(results) ==
  LET unknown == {i \in DOMAIN results : engine_to_request[results[i].id] = 0}
  IN IF unknown = {} THEN results ELSE SubSeq(results, 1, Min(unknown) - 1)

\* The queues after the results have been routed.
Routed(results) ==
  [c \in Clients |->
     LET mine == {i \in DOMAIN results : engine_to_request[results[i].id] = c}
     IN queues[c] \o [k \in 1 .. Cardinality(mine) |-> results[Sorted(mine)[k]]]]

Finishes(results) == Cardinality({i \in DOMAIN results : results[i].finished})

PumpRoutes ==
  /\ Answered(Pump) /\ task[Pump] = "step"
  /\ Head(ready).ok
  /\ LET results == Head(ready).results IN
       /\ Known(results) = results
       /\ ready' = Tail(ready)
       /\ queues' = Routed(results)
       /\ finished' = finished + Finishes(results)
       /\ IF results = <<>> /\ submitted = finished
          THEN task' = [task EXCEPT ![Pump] = "nap"] /\ UNCHANGED jobs
          ELSE PumpLoops(finished + Finishes(results))
  /\ UNCHANGED <<engineState, engine_to_request, submitted, poisoned, loaded, main,
                 traceVars, pump_error, outcome, boundVars>>

\* Mutant: the clients are not told.
FailPumpSilently(qs) ==
  /\ task' = [task EXCEPT ![Pump] = "failed"]
  /\ queues' = qs

\* except BaseException: the sentinel goes to every queue.
FailPump(qs) ==
  /\ task' = [task EXCEPT ![Pump] = "failed"]
  /\ queues' = [c \in Clients |-> Append(qs[c], PUMP_FAILED)]

PumpFails ==
  /\ Answered(Pump) /\ task[Pump] = "step"
  /\ ready' = Tail(ready)
  /\ LET reply == Head(ready) IN
       /\ ~reply.ok \/ Known(reply.results) # reply.results
       /\ pump_error' = IF reply.ok THEN "unknown request id" ELSE "step"
       /\ finished' = finished + Finishes(Known(reply.results))
       /\ FailPump(Routed(Known(reply.results)))
  /\ UNCHANGED <<engineState, jobs, engine_to_request, submitted, poisoned, loaded, main,
                 traceVars, outcome, boundVars>>

-----------------------------------------------------------------------------
(***************************************************************************)
(* load and _run_async.                                                    *)
(***************************************************************************)

\* shutdown() waits for the engine thread; then a new engine is built.
Load ==
  /\ main = "idle"
  /\ jobs = <<>>
  /\ loaded' = TRUE /\ poisoned' = FALSE
  /\ phase' = [e \in EngineIds |-> "none"]
  /\ left' = [e \in EngineIds |-> 0]
  /\ next_id' = 1
  /\ UNCHANGED <<threadVars, queues, engine_to_request, submitted, finished, main, task,
                 traceVars, pump_error, outcome, boundVars>>

\* Mutant: a failed trial does not matter.
MayRunPoisoned == loaded

\* run() refuses without an engine, and after a failed trial.
MayRun == loaded /\ ~poisoned

ResetCounters == submitted' = 0 /\ finished' = 0

StartTrial ==
  /\ main = "idle" /\ MayRun
  /\ trials < MaxTrials
  /\ trials' = trials + 1
  /\ main' = "driving"
  /\ queues' = [c \in Clients |-> <<>>]
  /\ engine_to_request' = [e \in EngineIds |-> 0]
  /\ ResetCounters
  /\ pump_error' = "none"
  /\ task' = [t \in Tasks |-> IF t = Pump THEN "start" ELSE "arriving"]
  /\ received' = [c \in Clients |-> 0] /\ aborted' = [c \in Clients |-> FALSE]
  /\ outcome' = "none"
  /\ UNCHANGED <<engineState, threadVars, poisoned, loaded, errors, aborts>>

\* gather and the pump returned.
TrialSucceeds ==
  /\ main = "driving"
  /\ \A t \in Tasks : task[t] = "done"
  /\ main' = "idle" /\ outcome' = "ok"
  /\ UNCHANGED <<engineState, threadVars, adapterState, task, traceVars, pump_error, boundVars>>

\* gather, or the pump after it, raised.
Raised ==
  \/ \E c \in Clients : task[c] = "failed"
  \/ task[Pump] = "failed" /\ \A c \in Clients : task[c] = "done"

\* Every task is cancelled, and with it its call, unless the engine thread is already
\* running that; the pump handles its cancellation as any other exception.
TrialFails ==
  /\ main = "driving" /\ Raised
  /\ main' = "idle" /\ outcome' = "failed"
  /\ poisoned' = TRUE
  /\ task' = [t \in Tasks |-> IF task[t] \in {"done", "failed"} THEN task[t] ELSE "cancelled"]
  /\ IF task[Pump] \in {"done", "failed"}
     THEN UNCHANGED <<queues, pump_error>>
     ELSE /\ queues' = [c \in Clients |-> Append(queues[c], PUMP_FAILED)]
          /\ pump_error' = "cancelled"
  /\ jobs' \in {<<>>} \union {<<jobs[i]>> : i \in {1} \intersect DOMAIN jobs}
  /\ ready' = <<>>
  /\ UNCHANGED <<engineState, engine_to_request, submitted, finished, loaded,
                 traceVars, boundVars>>

-----------------------------------------------------------------------------
\* What the loop and the engine thread do by themselves.
TrialRuns ==
  \/ EngineRuns
  \/ \E c \in Clients :
       ClientWakes(c) \/ ClientHasCapacity(c) \/ ClientAdded(c) \/ ClientReads(c)
  \/ PumpWakes \/ PumpRoutes \/ PumpFails
  \/ TrialSucceeds \/ TrialFails

AdapterNext == Load \/ StartTrial \/ TrialRuns

AdapterSpec == AdapterInit /\ [][AdapterNext]_adapterVars

(***************************************************************************)
(* Timers fire, the loop runs what is ready, and the engine thread takes   *)
(* its next call; nobody has to start a trial.                             *)
(***************************************************************************)
AdapterFairSpec ==
  /\ AdapterSpec
  /\ WF_adapterVars(EngineRuns)
  /\ WF_adapterVars(PumpWakes) /\ WF_adapterVars(PumpRoutes) /\ WF_adapterVars(PumpFails)
  /\ WF_adapterVars(TrialSucceeds) /\ WF_adapterVars(TrialFails)
  /\ \A c \in Clients :
       /\ WF_adapterVars(ClientWakes(c)) /\ WF_adapterVars(ClientHasCapacity(c))
       /\ WF_adapterVars(ClientAdded(c)) /\ WF_adapterVars(ClientReads(c))

-----------------------------------------------------------------------------
(***************************************************************************)
(* "Safe against the pump seeing this id first" (_stream_one): no result   *)
(* reaches the pump before its client has registered the engine id, and no *)
(* result of an earlier trial reaches a later one.                         *)
(***************************************************************************)
RoutingKnown == pump_error # "unknown request id"

(***************************************************************************)
(* A trial starts on an engine without requests and an idle engine thread, *)
(* however the trials before it ended.                                     *)
(***************************************************************************)
CleanStart ==
  main = "driving" /\ (\A t \in Tasks : task[t] \in {"start", "arriving"}) =>
    Live = {} /\ jobs = <<>> /\ ready = <<>>

(***************************************************************************)
(* A trial that succeeds has recorded every token of every request, except *)
(* that an aborted request ends early, and leaves nothing in the engine.   *)
(***************************************************************************)
TraceComplete ==
  outcome = "ok" =>
    /\ \A c \in Clients : IF aborted[c] THEN received[c] < Budget ELSE received[c] = Budget
    /\ Live = {}

(***************************************************************************)
(* Why they hold.  The engine, at any time: ids are given out in order,    *)
(* and a request in the engine has tokens left.                            *)
(***************************************************************************)
Phases == {"none", "waiting", "admitted", "prefill", "running", "finished"}
Calls == [task : Tasks, fn : {"has_capacity", "add_request", "step"}]
Items == [id : EngineIds \union {0}, token : BOOLEAN, finished : BOOLEAN]
Replies == [task : Tasks, ok : BOOLEAN, id : EngineIds \union {0}, results : Seq(Items)]

AdapterTypeOK ==
  /\ phase \in [EngineIds -> Phases] /\ left \in [EngineIds -> Nat] /\ next_id \in Nat \ {0}
  /\ jobs \in Seq(Calls) /\ ready \in Seq(Replies)
  /\ queues \in [Clients -> Seq(Items)]
  /\ engine_to_request \in [EngineIds -> Tasks]
  /\ main \in {"idle", "driving"} /\ poisoned \in BOOLEAN
  /\ DOMAIN task = Tasks
  /\ task[Pump] \in {"none", "start", "step", "nap", "done", "failed", "cancelled"}
  /\ \A c \in Clients : task[c] \in {"none", "arriving", "has_capacity", "backoff", "add_request",
                                     "reading", "done", "failed", "cancelled"}
  /\ received \in [Clients -> Nat] /\ aborted \in [Clients -> BOOLEAN]

EngineSound ==
  \A e \in EngineIds : (e >= next_id => phase[e] = "none") /\ (e \in Live => left[e] > 0)

(***************************************************************************)
(* The calls under way.  A task has at most one, in the thread's queue or  *)
(* on its way back.                                                        *)
(***************************************************************************)
OneCall ==
  /\ \A i \in DOMAIN jobs : task[jobs[i].task] = jobs[i].fn
  /\ \A k \in DOMAIN ready : task[ready[k].task] \in {"has_capacity", "add_request", "step"}
  /\ \A i, j \in DOMAIN jobs : jobs[i].task = jobs[j].task => i = j
  /\ \A k, n \in DOMAIN ready : ready[k].task = ready[n].task => k = n
  /\ \A i \in DOMAIN jobs, k \in DOMAIN ready : jobs[i].task # ready[k].task

\* An id comes back from add_request only, once; results from step only.
RepliesSound ==
  \A k \in DOMAIN ready :
    LET r == ready[k] IN
    /\ r.id # 0 <=> r.ok /\ task[r.task] = "add_request"
    /\ r.id # 0 => r.id < next_id /\ engine_to_request[r.id] = 0
    /\ \A n \in DOMAIN ready : r.id # 0 /\ ready[n].id = r.id => n = k
    /\ r.results # <<>> => r.ok /\ r.task = Pump

(***************************************************************************)
(* Ids and clients.                                                        *)
(***************************************************************************)
\* The id of e comes back before completion k.
AnsweredBefore(e, k) == \E n \in DOMAIN ready : n < k /\ ready[n].id = e

OfTrial(e) == engine_to_request[e] # 0 \/ AnsweredBefore(e, Len(ready) + 1)

Registered ==
  /\ \A e \in EngineIds : engine_to_request[e] # 0 =>
       e < next_id /\ task[engine_to_request[e]] \in {"reading", "done", "failed"}
  /\ \A e, f \in EngineIds :
       engine_to_request[e] # 0 /\ engine_to_request[e] = engine_to_request[f] => e = f
  /\ \A e \in EngineIds : e \in Live => OfTrial(e)
  /\ \A c \in Clients : task[c] \in {"arriving", "has_capacity", "backoff", "add_request"} =>
       received[c] = 0

(***************************************************************************)
(* Results.  The finishing one is the last of its request, and carries a   *)
(* token unless the request was aborted.                                   *)
(***************************************************************************)
Sound(x) ==
  /\ x.id \in EngineIds
  /\ x.finished => phase[x.id] = "finished" /\ (x.token <=> left[x.id] = 0)

\* Result i of completion k: no other of that request comes with it, and the request is
\* registered by then and not over.
PendingAt(k, i) ==
  LET x == ready[k].results[i] IN
  /\ Sound(x)
  /\ engine_to_request[x.id] # 0 \/ AnsweredBefore(x.id, k)
  /\ \A j \in DOMAIN ready[k].results : ready[k].results[j].id = x.id => i = j
  /\ \A c \in Clients : engine_to_request[x.id] = c =>
       task[c] # "done" /\ \A q \in DOMAIN queues[c] : ~queues[c][q].finished

PendingSound ==
  \A k \in DOMAIN ready : \A i \in DOMAIN ready[k].results : PendingAt(k, i)

\* A queued result is its client's, and no other follows a finishing one.
QueuedAt(c, q) ==
  LET x == queues[c][q] IN x # PUMP_FAILED =>
    /\ Sound(x) /\ engine_to_request[x.id] = c
    /\ x.finished => \A n \in DOMAIN queues[c] : n > q => queues[c][n] = PUMP_FAILED

QueuesSound == \A c \in Clients : \A q \in DOMAIN queues[c] : QueuedAt(c, q)

DoneSound ==
  \A c \in Clients : task[c] = "done" => \E e \in EngineIds :
    /\ engine_to_request[e] = c /\ phase[e] = "finished"
    /\ aborted[c] <=> left[e] # 0
    /\ \A q \in DOMAIN queues[c] : queues[c][q] = PUMP_FAILED

\* Every token of a request is recorded, queued, on its way to the pump or to come.
TokensIn(results) == Cardinality({i \in DOMAIN results : results[i].token})

Pending(e) ==
  IF \E k \in DOMAIN ready : \E i \in DOMAIN ready[k].results :
       ready[k].results[i].id = e /\ ready[k].results[i].token THEN 1 ELSE 0

Recorded(e) ==
  LET c == engine_to_request[e] IN IF c = 0 THEN 0 ELSE received[c] + TokensIn(queues[c])

TokensAddUp ==
  \A e \in EngineIds : OfTrial(e) => Recorded(e) + Pending(e) + left[e] = Budget

(***************************************************************************)
(* A trial under way, and between trials.                                  *)
(***************************************************************************)
Driving ==
  /\ OneCall /\ RepliesSound /\ Registered
  /\ PendingSound /\ QueuesSound /\ DoneSound /\ TokensAddUp
  /\ ~poisoned /\ outcome = "none"

Resting ==
  /\ ready = <<>>
  /\ ~poisoned => jobs = <<>> /\ Live = {}
  /\ outcome = "ok" => ~poisoned /\ \A c \in Clients :
       IF aborted[c] THEN received[c] < Budget ELSE received[c] = Budget

AdapterInv ==
  /\ AdapterTypeOK /\ EngineSound /\ RoutingKnown
  /\ IF main = "driving" THEN Driving ELSE Resting

-----------------------------------------------------------------------------
(***************************************************************************)
(* "no client task can wait forever on a queue that will never be fed"     *)
(* (_PUMP_FAILED): a trial ends, whichever call throws and whenever.       *)
(***************************************************************************)
TrialEnds == (main = "driving") ~> (main = "idle")
===============================================================================
