----------------------------- MODULE EngineProofs -----------------------------
(***************************************************************************)
(* Proofs about Engine and the client that pumps it, generate(): requests_ *)
(* holds exactly the live requests between calls, what Step returns is     *)
(* what RequestService allows, the statistics count exactly the work that  *)
(* was done, and what generate() returns is complete.                      *)
(*                                                                         *)
(* EngineInv is split into what holds of the results at any time           *)
(* (Reported) and what the step in progress needs of its plan (InStep).    *)
(***************************************************************************)
EXTENDS Generate, SchedulerProofs, InductionFacts, SequenceTheorems

Reported ==
  /\ requests = Live \union Unreported
  /\ delivered \in [Ids -> Seq(StepResult)]
  /\ \A r \in Ids : CaughtUp(r)
  /\ ResultsAllowed
  /\ Len(results) <= MaxBatch

InStep ==
  /\ pc \in {"decode", "planned"} => AbortsPlanned
  /\ pc = "decode" => Len(plan.aborted) + Len(running) <= MaxBatch
  /\ pc \in {"planned", "commit"} => Len(plan.aborted) + Len(plan.decode) <= MaxBatch
  /\ pc = "commit" => \A k \in RowsDone + 1 .. Len(plan.decode) : ~HasResult(plan.decode[k])

LEMMA EngineSplit == EngineInv <=> Reported /\ InStep
BY DEF EngineInv, Reported, InStep

LEMMA EngineSplitNext == EngineInv' <=> Reported' /\ InStep'
BY DEF EngineInv, Reported, InStep

LEMMA ResultTypes ==
  ASSUME SchedInv
  PROVE  /\ results \in Seq(StepResult) /\ Len(results) \in Nat /\ DOMAIN results = 1 .. Len(results)
         /\ \A i \in DOMAIN results : results[i] \in StepResult /\ results[i].request_id \in Ids
<1>1. results \in Seq(StepResult)
  BY InvSplit DEF StepType, StepResult
<1>2. Len(results) \in Nat /\ DOMAIN results = 1 .. Len(results)
  BY <1>1
<1>3. ASSUME NEW i \in DOMAIN results PROVE results[i] \in StepResult
  BY <1>1, <1>2
<1>4. \A x \in StepResult : x.request_id \in Ids
  BY DEF StepResult
<1> QED BY <1>1, <1>2, <1>3, <1>4

LEMMA PlanTypes ==
  ASSUME SchedInv
  PROVE  /\ plan.aborted \in Seq(Ids) /\ Len(plan.aborted) \in Nat
         /\ DOMAIN plan.aborted = 1 .. Len(plan.aborted)
         /\ plan.decode \in Seq(Ids) /\ Len(plan.decode) \in Nat
         /\ DOMAIN plan.decode = 1 .. Len(plan.decode)
         /\ running \in Seq(Ids) /\ Len(running) \in Nat
         /\ \A k \in DOMAIN plan.aborted : plan.aborted[k] \in Ids
         /\ \A k \in DOMAIN plan.decode : plan.decode[k] \in Ids
<1>1. plan.aborted \in Seq(Ids) /\ plan.decode \in Seq(Ids) /\ running \in Seq(Ids)
  BY InvSplit DEF StepType, Core, CoreType
<1> QED BY <1>1

\* The service's view depends on nothing but these.
LEMMA ServiceFrame ==
  ASSUME UNCHANGED <<delivered, param>>
  PROVE  \A r : /\ Service!Closed(delivered[r])' = Service!Closed(delivered[r])
                /\ Service!NextResults(r)' = Service!NextResults(r)
BY DEF Service!Closed, Service!NextResults, Service!TokenResult, Service!AbortNotice,
       Service!Reason, Service!Meant

\* A step that moves requests on between the states before the finish.
LEMMA ReportedQuiet ==
  ASSUME SchedInv, Reported, UNCHANGED <<requests, delivered, results, output_tokens, param>>,
         Live' = Live, Unreported' = Unreported,
         \A r \in Ids : /\ state'[r] = "finished" <=> state[r] = "finished"
                        /\ state[r] # "none" => state'[r] # "none",
         results = <<>> \/ Admitted' = Admitted
  PROVE  Reported'
<1>1. \A r : HasResult(r)' = HasResult(r)
  BY DEF HasResult
<1>2. \A r \in Ids : CaughtUp(r)'
  BY <1>1, ServiceFrame DEF Reported, CaughtUp
<1>3. ResultsAllowed'
  <2>1. CASE results = <<>>
    BY <2>1 DEF ResultsAllowed
  <2>2. CASE Admitted' = Admitted
    <3>1. \A i \in DOMAIN results : results[i].request_id \in Ids
      BY ResultTypes
    <3>2. ASSUME NEW i \in DOMAIN results PROVE ResultAllowed(results[i])'
      <4>1. PICK x : x = results[i]
        OBVIOUS
      <4>2. PICK r \in Ids : r = x.request_id
        BY <3>1, <4>1
      <4>3. ResultAllowed(x)
        BY <4>1 DEF Reported, ResultsAllowed
      <4>4. results'[i] = x
        BY <4>1
      <4> QED BY <2>2, <4>2, <4>3, <4>4, ServiceFrame DEF ResultAllowed
    <3> QED BY <3>2 DEF Reported, ResultsAllowed
  <2> QED BY <2>1, <2>2
<1> QED BY <1>2, <1>3 DEF Reported

-----------------------------------------------------------------------------
(***************************************************************************)
(* Submission and planning.                                                *)
(***************************************************************************)

\* Until a step is committed it has no results.
LEMMA NoResults ==
  ASSUME SchedInv, pc \notin {"commit", "return"}
  PROVE  results = <<>> /\ Unreported = Range(plan.aborted) /\ \A r : ~HasResult(r)
<1>1. results = <<>>
  BY InvSplit DEF PlanMatchesQueues
<1> QED BY <1>1 DEF Unreported, HasResult

LEMMA NoAborts ==
  ASSUME SchedInv, pc \in {"idle", "admit"}
  PROVE  plan.aborted = <<>> /\ Unreported = {}
<1>1. plan.aborted = <<>>
  BY InvSplit DEF PlanMatchesQueues, EmptyPlan
<1>2. Range(<<>>) = {}
  BY DEF Range
<1> QED BY <1>1, <1>2, NoResults

LEMMA EngineInitInv == EngineInit => EngineInv
<1> SUFFICES ASSUME EngineInit PROVE EngineInv
  OBVIOUS
<1>1. /\ state = [r \in Ids |-> "none"] /\ output_tokens = [r \in Ids |-> <<>>]
      /\ pc = "idle" /\ plan = EmptyPlan /\ results = <<>>
      /\ requests = {} /\ delivered = [r \in Ids |-> <<>>]
  BY DEF EngineInit, SchedInit
<1>2. Unreported = {} /\ Live = {}
  <2>1. Range(<<>>) = {} /\ plan.aborted = <<>>
    BY <1>1 DEF Range, EmptyPlan
  <2> QED BY <1>1, <2>1 DEF Unreported, Live
<1>3. \A r \in Ids : CaughtUp(r)
  BY <1>1 DEF CaughtUp, HasResult, Service!Closed
<1>4. ResultsAllowed /\ Len(results) <= MaxBatch
  BY <1>1, SchedulerAssumption DEF ResultsAllowed
<1>5. Reported
  BY <1>1, <1>2, <1>3, <1>4 DEF Reported
<1>6. InStep
  BY <1>1 DEF InStep
<1> QED BY <1>5, <1>6, EngineSplit

LEMMA EngineInvAddRequest ==
  ASSUME SchedInv, EngineInv, NEW p \in Workload, EngineAddRequest(p), SchedInv'
  PROVE  EngineInv'
<1>1. PICK n \in Ids : n = next_request_id
  BY DEF EngineAddRequest, AddRequest
<1>2. /\ pc = "idle" /\ pc' = "idle" /\ UNCHANGED <<plan, results, output_tokens, delivered>>
      /\ state' = [state EXCEPT ![n] = "waiting"] /\ requests' = requests \union {n}
  BY <1>1 DEF EngineAddRequest, AddRequest, Enqueue, stepVars
<1>3. Reported
  BY EngineSplit
<1>4. state \in [Ids -> States] /\ state[n] = "none" /\ output_tokens[n] = <<>>
  <2>1. CoreType /\ AcceptedValid /\ ProgressMatchesState
    BY InvSplit DEF Core
  <2>2. state \in [Ids -> States] /\ ~(n < n)
    BY <2>1, <1>1 DEF CoreType, Ids
  <2>3. state[n] = "none"
    BY <1>1, <2>1, <2>2 DEF AcceptedValid
  <2> QED BY <2>1, <2>2, <2>3 DEF ProgressMatchesState
<1>5. \A r \in Ids : state'[r] = IF r = n THEN "waiting" ELSE state[r]
  BY <1>2, <1>4
<1>6. Live' = Live \union {n} /\ Unreported' = {} /\ Unreported = {}
  <2>1. Live' = Live \union {n}
    BY <1>5 DEF Live
  <2>2. Unreported = {} /\ Unreported' = Unreported
    BY <1>2, NoAborts DEF Unreported
  <2> QED BY <2>1, <2>2
<1>7. \A r \in Ids : CaughtUp(r)'
  <2> SUFFICES ASSUME NEW r \in Ids PROVE CaughtUp(r)'
    OBVIOUS
  <2>1. CaughtUp(r) /\ ~HasResult(r) /\ ~HasResult(r)'
    BY <1>2, <1>3, NoResults DEF Reported, HasResult
  <2>2. Service!Closed(delivered[r])' = Service!Closed(delivered[r])
    BY <1>2 DEF Service!Closed
  <2>3. CASE r = n
    BY <1>2, <1>4, <1>5, <2>1, <2>2, <2>3 DEF CaughtUp
  <2>4. CASE r # n
    BY <1>2, <1>5, <1>6, <2>1, <2>2, <2>4 DEF CaughtUp
  <2> QED BY <2>3, <2>4
<1>8. results' = <<>> /\ ResultsAllowed'
  <2>1. results' = <<>>
    BY <1>2, NoResults
  <2> QED BY <2>1 DEF ResultsAllowed
<1>9. Reported'
  BY <1>2, <1>3, <1>6, <1>7, <1>8 DEF Reported
<1>10. InStep'
  BY <1>2 DEF InStep
<1> QED BY <1>9, <1>10, EngineSplitNext

LEMMA EngineInvAdmit ==
  ASSUME SchedInv, EngineInv, Admit, UNCHANGED <<requests, delivered>>
  PROVE  EngineInv'
<1>1. PICK r \in Ids : r = Head(waiting) /\ state[r] = "waiting"
  <2>1. waiting \in Seq(Ids) /\ waiting # <<>> /\ Range(waiting) = {q \in Ids : state[q] = "waiting"}
    BY InvSplit DEF Core, CoreType, AdmissionOrder, Admit, CanAdmitHead
  <2>2. 1 \in DOMAIN waiting /\ Head(waiting) = waiting[1]
    BY <2>1
  <2>3. Head(waiting) \in Range(waiting)
    BY <2>2 DEF Range
  <2> QED BY <2>1, <2>3
<1>2. /\ pc = "admit" /\ UNCHANGED <<pc, plan, results, output_tokens, param>>
      /\ state' = [state EXCEPT ![r] = "prefill"]
  BY <1>1 DEF Admit, stepVars
<1>3. state \in [Ids -> States]
  BY InvSplit DEF Core, CoreType
<1>4. \A q \in Ids : state'[q] = IF q = r THEN "prefill" ELSE state[q]
  BY <1>2, <1>3
<1>5. Live' = Live /\ Unreported' = Unreported
  BY <1>1, <1>2, <1>4 DEF Live, Unreported
<1>6. Reported'
  <2>1. results = <<>>
    BY <1>2, NoResults
  <2> QED BY <1>1, <1>2, <1>4, <1>5, <2>1, EngineSplit, ReportedQuiet
<1>7. InStep'
  BY <1>2 DEF InStep
<1> QED BY <1>6, <1>7, EngineSplitNext

\* Steps of PlanStep that neither admit nor abort anybody.
LEMMA ReportedPlanning ==
  ASSUME SchedInv, EngineInv, UNCHANGED <<requests, delivered, results, output_tokens, param, state>>,
         \/ pc \notin {"commit", "return"} /\ pc' \notin {"commit", "return"}
         \/ pc \in {"commit", "return"} /\ pc' \in {"commit", "return"},
         plan'.aborted = plan.aborted
  PROVE  Reported' /\ (AbortsPlanned => AbortsPlanned')
<1>1. Admitted' = Admitted /\ Live' = Live /\ Unreported' = Unreported
  BY DEF Admitted, Live, Unreported
<1>2. Reported'
  BY <1>1, EngineSplit, ReportedQuiet
<1>3. AbortsPlanned => AbortsPlanned'
  BY <1>1, ServiceFrame DEF AbortsPlanned
<1> QED BY <1>2, <1>3

LEMMA NothingAborted ==
  ASSUME plan'.aborted = <<>>
  PROVE  AbortsPlanned'
BY DEF AbortsPlanned, IsInjective

LEMMA EngineInvPlan ==
  ASSUME SchedInv, EngineInv, UNCHANGED <<requests, delivered>>,
         StepBegin \/ PlanPrefill \/ MaterializePrefillBlock \/ StepEmpty
  PROVE  EngineInv'
<1>1. /\ UNCHANGED <<results, output_tokens, param, state>> /\ plan'.aborted = plan.aborted
      /\ pc \notin {"commit", "return"} /\ pc' \in {"admit", "prefill", "idle"}
  <2>1. CASE StepBegin
    BY <2>1 DEF StepBegin, requestVars
  <2>2. CASE PlanPrefill
    <3>1. plan \in [prefill : Ids \union {nullptr}, begin : Nat, end : Nat,
                    decode : Seq(Ids), aborted : Seq(Ids)]
      BY InvSplit DEF StepType
    <3>2. PICK r, b, e : plan' = [plan EXCEPT !.prefill = r, !.begin = b, !.end = e]
      BY <2>2 DEF PlanPrefill
    <3> QED BY <2>2, <3>1, <3>2 DEF PlanPrefill, requestVars
  <2>3. CASE MaterializePrefillBlock
    BY <2>3 DEF MaterializePrefillBlock, stepVars
  <2>4. CASE StepEmpty
    BY <2>4 DEF StepEmpty, requestVars
  <2> QED BY <2>1, <2>2, <2>3, <2>4
<1>2. Reported'
  BY <1>1, ReportedPlanning
<1>3. InStep'
  BY <1>1 DEF InStep
<1> QED BY <1>2, <1>3, EngineSplitNext

LEMMA EngineInvPrefillPlanned ==
  ASSUME SchedInv, EngineInv, UNCHANGED <<requests, delivered>>, PrefillPlanned
  PROVE  EngineInv'
<1>1. /\ UNCHANGED <<results, output_tokens, param, state, plan>> /\ pc = "prefill" /\ pc' = "planned"
  BY DEF PrefillPlanned, requestVars
<1>2. plan.aborted = <<>> /\ plan.decode = <<>>
  BY <1>1, InvSplit DEF PlanMatchesQueues
<1>3. Reported'
  BY <1>1, ReportedPlanning
<1>4. InStep'
  BY <1>1, <1>2, NothingAborted, SchedulerAssumption DEF InStep
<1> QED BY <1>3, <1>4, EngineSplitNext

LEMMA EngineInvPlanDecode ==
  ASSUME SchedInv, EngineInv, UNCHANGED <<requests, delivered>>, PlanDecode
  PROVE  EngineInv'
<1>1. /\ UNCHANGED <<results, output_tokens, param, state, plan, running>> /\ pc = "admit" /\ pc' = "decode"
  BY DEF PlanDecode, requestVars, queueVars
<1>2. plan.aborted = <<>>
  BY <1>1, NoAborts
<1>3. Len(running) <= MaxBatch
  <2>1. /\ free_slots \in Seq(0 .. MaxBatch - 1) /\ prefill_queue \in Seq(Ids) /\ running \in Seq(Ids)
        /\ Len(free_slots) + (Len(prefill_queue) + Len(running)) = MaxBatch
    BY InvSplit DEF Core, CoreType, SlotCount, num_running
  <2>2. Len(free_slots) \in Nat /\ Len(prefill_queue) \in Nat /\ Len(running) \in Nat
    BY <2>1
  <2> QED BY <2>1, <2>2
<1>4. Len(plan'.aborted) + Len(running') <= MaxBatch
  <2>1. Len(running) \in Nat /\ Len(<<>>) = 0
    BY PlanTypes
  <2> QED BY <1>1, <1>2, <1>3, <2>1
<1>5. Reported'
  BY <1>1, ReportedPlanning
<1>6. InStep'
  BY <1>1, <1>2, <1>4, NothingAborted DEF InStep
<1> QED BY <1>5, <1>6, EngineSplitNext

LEMMA EngineInvDecodeRow ==
  ASSUME SchedInv, EngineInv, UNCHANGED <<requests, delivered>>,
         DecodeRow \/ DecodeRowReserved \/ DecodeRowClaimed
  PROVE  EngineInv'
<1>1. /\ UNCHANGED <<results, output_tokens, param, state, running, pc>> /\ pc = "decode"
      /\ plan' = [plan EXCEPT !.decode = Append(@, Candidate)]
  BY DEF DecodeRow, DecodeRowReserved, DecodeRowClaimed, requestVars, queueVars
<1>2. plan'.aborted = plan.aborted
  <2>1. plan \in [prefill : Ids \union {nullptr}, begin : Nat, end : Nat,
                  decode : Seq(Ids), aborted : Seq(Ids)]
    BY InvSplit DEF StepType
  <2>2. PICK d : plan' = [plan EXCEPT !.decode = d]
    BY <1>1
  <2> QED BY <2>1, <2>2
<1>3. Reported' /\ (AbortsPlanned => AbortsPlanned')
  BY <1>1, <1>2, ReportedPlanning
<1>4. InStep'
  BY <1>1, <1>2, <1>3, EngineSplit DEF InStep
<1> QED BY <1>3, <1>4, EngineSplitNext

LEMMA EngineInvDecodePlanned ==
  ASSUME SchedInv, EngineInv, UNCHANGED <<requests, delivered>>, DecodePlanned
  PROVE  EngineInv'
<1>1. /\ UNCHANGED <<results, output_tokens, param, state, plan>> /\ pc = "decode" /\ pc' = "planned"
  BY DEF DecodePlanned, requestVars
<1>2. Reported' /\ (AbortsPlanned => AbortsPlanned')
  BY <1>1, ReportedPlanning
<1>3. AbortsPlanned /\ Len(plan.aborted) + Len(running) <= MaxBatch
  BY <1>1, EngineSplit DEF InStep
<1>4. Len(plan.aborted) + Len(plan.decode) <= MaxBatch
  <2>1. Len(plan.decode) <= Len(running)
    BY <1>1, InvSplit DEF PlanMatchesQueues
  <2>2. PICK a \in Nat : a = Len(plan.aborted)
    BY PlanTypes
  <2>3. PICK d \in Nat : d = Len(plan.decode)
    BY PlanTypes
  <2>4. PICK n \in Nat : n = Len(running)
    BY PlanTypes
  <2>5. a + n <= MaxBatch /\ d <= n /\ MaxBatch \in Nat
    BY <1>3, <2>1, <2>2, <2>3, <2>4, SchedulerAssumption
  <2>6. a + d <= MaxBatch
    BY <2>5
  <2> QED BY <2>2, <2>3, <2>6
<1>5. InStep'
  BY <1>1, <1>2, <1>3, <1>4 DEF InStep
<1> QED BY <1>2, <1>5, EngineSplitNext

LEMMA EngineInvAbort ==
  ASSUME SchedInv, EngineInv, UNCHANGED <<requests, delivered>>, AbortYoungestRunning
  PROVE  EngineInv'
<1>1. /\ pc = "decode" /\ DecodeLoop /\ AdmissionPolicy = "watermark"
      /\ UNCHANGED <<pc, results, output_tokens, param>>
  BY DEF AbortYoungestRunning
<1>2. running # <<>> /\ running \in Seq(Ids) /\ Len(running) \in Nat
  BY <1>1, CandidateRuns, PlanTypes
<1>3. CoreType /\ AdmissionOrder /\ ProgressMatchesState
  BY InvSplit DEF Core
<1>4. PICK v \in Ids : /\ v = Last(running) /\ v \in Range(running)
                       /\ Len(Front(running)) = Len(running) - 1
                       /\ \A s \in Range(running) : s <= v
  BY <1>2, <1>3, PopYoungest DEF AdmissionOrder
<1>5. /\ state' = [state EXCEPT ![v] = "finished"] /\ running' = Front(running)
      /\ plan' = [plan EXCEPT !.aborted = Append(@, v)]
  BY <1>4 DEF AbortYoungestRunning, Victim
<1>6. plan'.aborted = Append(plan.aborted, v)
  <2>1. plan \in [prefill : Ids \union {nullptr}, begin : Nat, end : Nat,
                  decode : Seq(Ids), aborted : Seq(Ids)]
    BY InvSplit DEF StepType
  <2>2. PICK a : a = Append(plan.aborted, v) /\ plan' = [plan EXCEPT !.aborted = a]
    BY <1>5
  <2> QED BY <2>1, <2>2
<1>7. PICK n \in Nat : n = Len(plan.aborted) /\ DOMAIN plan.aborted = 1 .. n /\ plan.aborted \in Seq(Ids)
  BY PlanTypes
<1>8. /\ Len(plan'.aborted) = n + 1 /\ DOMAIN plan'.aborted = 1 .. n + 1
      /\ plan'.aborted[n + 1] = v /\ \A k \in 1 .. n : plan'.aborted[k] = plan.aborted[k]
  BY <1>6, <1>7
<1>9. /\ state[v] = "running" /\ state \in [Ids -> States]
      /\ \A s \in Ids : state[s] # "prefill"
  <2>1. prefill_queue = <<>> /\ Range(<<>>) = {}
    BY <1>1, InvSplit DEF PlanMatchesQueues, Range
  <2>2. \A s \in Ids : state[s] # "prefill"
    BY <1>3, <2>1 DEF AdmissionOrder
  <2> QED BY <1>3, <1>4, <2>2 DEF AdmissionOrder, CoreType
<1>10. \A q \in Ids : state'[q] = IF q = v THEN "finished" ELSE state[q]
  BY <1>5, <1>9
<1>11. Reported /\ AbortsPlanned /\ Len(plan.aborted) + Len(running) <= MaxBatch
  BY <1>1, EngineSplit DEF InStep
<1>12. Range(plan'.aborted) = Range(plan.aborted) \union {v}
  <2>1. ASSUME NEW q \in Range(plan'.aborted) PROVE q \in Range(plan.aborted) \union {v}
    <3>1. PICK k \in 1 .. n + 1 : q = plan'.aborted[k]
      BY <1>8, <2>1 DEF Range
    <3>2. k = n + 1 \/ k \in 1 .. n
      BY <3>1
    <3> QED BY <1>7, <1>8, <3>1, <3>2 DEF Range
  <2>2. ASSUME NEW q \in Range(plan.aborted) PROVE q \in Range(plan'.aborted)
    <3>1. PICK k \in 1 .. n : q = plan.aborted[k]
      BY <1>7, <2>2 DEF Range
    <3>2. k \in 1 .. n + 1 /\ plan'.aborted[k] = q
      BY <1>8, <3>1
    <3> QED BY <1>8, <3>2 DEF Range
  <2>3. v \in Range(plan'.aborted)
    BY <1>8 DEF Range
  <2> QED BY <2>1, <2>2, <2>3
<1>13. Unreported' = Unreported \union {v} /\ Live = Live' \union {v}
  <2>1. Unreported = Range(plan.aborted) /\ Unreported' = Range(plan'.aborted)
    BY <1>1 DEF Unreported
  <2>2. Live = Live' \union {v}
    BY <1>9, <1>10 DEF Live
  <2> QED BY <1>12, <2>1, <2>2
<1>14. \A r \in Ids : CaughtUp(r)'
  <2> SUFFICES ASSUME NEW r \in Ids PROVE CaughtUp(r)'
    OBVIOUS
  <2>1. CaughtUp(r) /\ ~HasResult(r) /\ ~HasResult(r)'
    BY <1>1, <1>11, NoResults DEF Reported, HasResult
  <2>2. Service!Closed(delivered[r])' = Service!Closed(delivered[r])
    BY <1>1, ServiceFrame
  <2>3. CASE r = v
    BY <1>1, <1>10, <1>13, <2>1, <2>2, <2>3 DEF CaughtUp
  <2>4. CASE r # v
    BY <1>1, <1>10, <1>13, <2>1, <2>2, <2>4 DEF CaughtUp
  <2> QED BY <2>3, <2>4
<1>15. results' = <<>> /\ ResultsAllowed'
  <2>1. results' = <<>>
    BY <1>1, NoResults
  <2> QED BY <2>1 DEF ResultsAllowed
<1>16. Reported'
  BY <1>1, <1>11, <1>13, <1>14, <1>15 DEF Reported
<1>17. delivered[v] # <<>> /\ ~Service!Closed(delivered[v])
  <2>1. CaughtUp(v) /\ ~HasResult(v) /\ output_tokens[v] # <<>>
    BY <1>1, <1>3, <1>9, <1>11, NoResults DEF Reported, ProgressMatchesState
  <2> QED BY <1>9, <2>1 DEF CaughtUp
<1>18. AbortsPlanned'
  <2>1. \A k \in 1 .. n : plan.aborted[k] \in Ids /\ plan.aborted[k] # v
    <3>1. \A k \in 1 .. n : state[plan.aborted[k]] = "finished"
      BY <1>7, <1>11 DEF AbortsPlanned
    <3> QED BY <1>7, <1>9, <3>1
  <2>2. IsInjective(plan'.aborted)
    <3> SUFFICES ASSUME NEW i \in 1 .. n + 1, NEW j \in 1 .. n + 1, plan'.aborted[i] = plan'.aborted[j]
                 PROVE  i = j
      BY <1>8 DEF IsInjective
    <3>1. (i = n + 1 \/ i \in 1 .. n) /\ (j = n + 1 \/ j \in 1 .. n)
      OBVIOUS
    <3>2. CASE i \in 1 .. n /\ j \in 1 .. n
      BY <1>7, <1>8, <1>11, <3>2 DEF AbortsPlanned, IsInjective
    <3> QED BY <1>8, <2>1, <3>1, <3>2
  <2>3. ASSUME NEW k \in 1 .. n + 1
        PROVE  \E a \in Ids :
                 /\ a = plan'.aborted[k] /\ state'[a] = "finished" /\ delivered'[a] # <<>>
                 /\ ~Service!Closed(delivered[a])'
                 /\ \A s \in Admitted' : s < a
    <3>1. \A a : Service!Closed(delivered[a])' = Service!Closed(delivered[a])
      BY <1>1, ServiceFrame
    <3>2. Admitted' = Admitted \ {v}
      BY <1>9, <1>10 DEF Admitted
    <3>3. CASE k = n + 1
      <4>1. \A s \in Admitted' : s < v
        <5> SUFFICES ASSUME NEW s \in Admitted' PROVE s < v
          OBVIOUS
        <5>1. s \in Ids /\ s # v /\ state[s] = "running"
          BY <1>9, <3>2 DEF Admitted
        <5>2. s <= v
          BY <1>3, <1>4, <5>1 DEF AdmissionOrder
        <5> QED BY <5>1, <5>2, SchedulerAssumption DEF Ids
      <4> QED BY <1>8, <1>10, <1>17, <3>1, <3>3, <4>1
    <3>4. CASE k \in 1 .. n
      <4>1. PICK a \in Ids :
              /\ a = plan.aborted[k] /\ a # v
              /\ state[a] = "finished" /\ delivered[a] # <<>> /\ ~Service!Closed(delivered[a])
              /\ \A s \in Admitted : s < a
        BY <1>7, <1>11, <2>1, <3>4 DEF AbortsPlanned
      <4> QED BY <1>8, <1>10, <2>1, <3>1, <3>2, <3>4, <4>1
    <3> QED BY <3>3, <3>4
  <2> QED BY <1>1, <1>8, <2>2, <2>3 DEF AbortsPlanned, Service!Closed
<1>19. Len(plan'.aborted) + Len(running') <= MaxBatch
  BY <1>2, <1>4, <1>5, <1>7, <1>8, <1>11, SchedulerAssumption
<1>20. InStep'
  BY <1>1, <1>18, <1>19 DEF InStep
<1> QED BY <1>16, <1>20, EngineSplitNext

-----------------------------------------------------------------------------
(***************************************************************************)
(* Executing and committing.                                               *)
(***************************************************************************)
LEMMA EngineInvExecute ==
  ASSUME SchedInv, EngineInv, UNCHANGED <<requests, delivered>>, Execute, SchedInv'
  PROVE  EngineInv'
<1>1. /\ pc = "planned" /\ pc' = "commit" /\ UNCHANGED <<plan, param, state, output_tokens>>
      /\ results' = [i \in 1 .. Len(plan.aborted) |-> AbortResult(plan.aborted[i])]
  BY DEF Execute, requestVars
<1>2. PICK n \in Nat : /\ n = Len(plan.aborted) /\ DOMAIN plan.aborted = 1 .. n
                       /\ \A k \in 1 .. n : plan.aborted[k] \in Ids
  BY PlanTypes
<1>3. /\ DOMAIN results' = 1 .. n
      /\ \A k \in 1 .. n : results'[k] = AbortResult(plan.aborted[k])
      /\ \A k \in 1 .. n : results'[k].request_id = plan.aborted[k] /\ results'[k].finished
  BY <1>1, <1>2 DEF AbortResult
<1>4. Len(results') = n
  BY <1>1, <1>2
<1>5. Reported /\ AbortsPlanned /\ Len(plan.aborted) + Len(plan.decode) <= MaxBatch
  BY <1>1, EngineSplit DEF InStep
<1>6. \A r : HasResult(r)' <=> r \in Range(plan.aborted)
  BY <1>2, <1>3 DEF HasResult, Range
<1>7. Unreported' = Unreported /\ Live' = Live /\ Admitted' = Admitted
  <2>1. FinishedIn(results') = Range(plan.aborted)
    BY <1>2, <1>3 DEF FinishedIn, Range
  <2>2. Unreported' = FinishedIn(results')
    BY <1>1 DEF Unreported
  <2>3. Unreported = Range(plan.aborted)
    BY <1>1 DEF Unreported
  <2> QED BY <1>1, <2>1, <2>2, <2>3 DEF Live, Admitted
<1>8. \A r \in Ids : CaughtUp(r)'
  <2> SUFFICES ASSUME NEW r \in Ids PROVE CaughtUp(r)'
    OBVIOUS
  <2>1. CaughtUp(r) /\ ~HasResult(r)
    BY <1>1, <1>5, NoResults DEF Reported
  <2>2. Service!Closed(delivered[r])' = Service!Closed(delivered[r])
    BY <1>1, ServiceFrame
  <2>3. r \in Range(plan.aborted) => state[r] = "finished" /\ delivered[r] # <<>>
    BY <1>5 DEF AbortsPlanned, Range
  <2> QED BY <1>1, <1>6, <1>7, <2>1, <2>2, <2>3 DEF CaughtUp
<1>9. ResultsAllowed'
  <2>1. ASSUME NEW i \in 1 .. n, NEW j \in 1 .. n, results'[i].request_id = results'[j].request_id
        PROVE  i = j
    BY <1>2, <1>3, <1>5, <2>1 DEF AbortsPlanned, IsInjective
  <2>2. ASSUME NEW i \in 1 .. n PROVE ResultAllowed(results[i])'
    <3>1. PICK a \in Ids : a = plan.aborted[i]
      BY <1>2
    <3>2. PICK x : x = AbortResult(a) /\ x = results'[i]
      BY <1>3, <3>1
    <3>3. x.request_id = a /\ x.finished /\ x.finish_reason = "aborted"
      BY <3>2 DEF AbortResult
    <3>4. /\ state[a] = "finished" /\ delivered[a] # <<>> /\ ~Service!Closed(delivered[a])
          /\ AdmissionPolicy = "watermark" /\ \A s \in Admitted : s < a
      <4>1. plan.aborted # <<>>
        BY <1>2
      <4> QED BY <1>2, <1>5, <3>1, <4>1 DEF AbortsPlanned
    <3>5. x \in Service!NextResults(a)
      BY <3>2, <3>4 DEF Service!NextResults, Service!AbortNotice, AbortResult
    <3> QED BY <1>1, <1>7, <3>2, <3>3, <3>4, <3>5, ServiceFrame DEF ResultAllowed
  <2> QED BY <1>3, <2>1, <2>2 DEF ResultsAllowed
<1>10. n <= MaxBatch /\ RowsDone' = 0
  <2>1. RowsDone' = n - n
    BY <1>1, <1>2, <1>4 DEF RowsDone
  <2>2. PICK d \in Nat : d = Len(plan.decode)
    BY PlanTypes
  <2>3. n + d <= MaxBatch /\ MaxBatch \in Nat
    BY <1>2, <1>5, <2>2, SchedulerAssumption
  <2>4. n <= MaxBatch
    BY <2>3
  <2> QED BY <2>1, <2>4
<1>11. Reported'
  BY <1>1, <1>4, <1>5, <1>7, <1>8, <1>9, <1>10 DEF Reported
<1>12. ASSUME NEW k \in 1 .. Len(plan.decode) PROVE ~HasResult(plan.decode[k])'
  <2>1. state[plan.decode[k]] = "running"
    BY <1>1, InvSplit, PlanTypes DEF PlanMatchesQueues
  <2>2. plan.decode[k] \notin Range(plan.aborted)
    BY <1>5, <2>1 DEF AbortsPlanned, Range
  <2>3. PICK d : d = plan.decode[k] /\ d = plan'.decode[k]
    BY <1>1
  <2>4. ~HasResult(d)'
    BY <1>6, <2>2, <2>3
  <2>5. \A i \in DOMAIN results' : results'[i].request_id # d
    BY <2>4 DEF HasResult
  <2> QED BY <2>3, <2>5 DEF HasResult
<1>13. InStep'
  <2>1. RowsDone' + 1 = 1
    BY <1>10
  <2> QED BY <1>1, <1>5, <1>12, <2>1 DEF InStep
<1> QED BY <1>11, <1>13, EngineSplitNext

\* What a sampled token does to the results and to what is owed.
LEMMA EngineSampled ==
  ASSUME SchedInv, EngineInv, NEW r \in Ids, NEW sampled \in Tokens,
         pc = "commit", pc' \in {"commit", "return"},
         state[r] \in {"prefill", "running"}, ~HasResult(r), Len(results) < MaxBatch,
         ApplySampledToken(r, sampled), UNCHANGED <<requests, delivered, plan, param>>
  PROVE  Reported' /\ \A q \in Ids : HasResult(q)' => HasResult(q) \/ q = r
<1>1. PICK why : why = StopReason(r, Appended(r, sampled))
  OBVIOUS
<1>2. why \in {"none", "eos", "length"}
  BY <1>1 DEF StopReason
<1>3. PICK x : x = [request_id |-> r, token |-> sampled, finished |-> why # "none", finish_reason |-> why]
  OBVIOUS
<1>4. x.request_id = r /\ x.finish_reason = why /\ (x.finished <=> why # "none")
  BY <1>3
<1>5. /\ output_tokens' = [output_tokens EXCEPT ![r] = Append(@, Appended(r, sampled))]
      /\ results' = Append(results, x)
      /\ state' = [state EXCEPT ![r] = IF why = "none" THEN "running" ELSE "finished"]
  <2>1. results' = Append(results, x)
    BY <1>1, <1>3 DEF ApplySampledToken
  <2>2. why = "none" => state' = [state EXCEPT ![r] = "running"]
    BY <1>1 DEF ApplySampledToken
  <2>3. why # "none" => state' = [state EXCEPT ![r] = "finished"]
    BY <1>1 DEF ApplySampledToken
  <2> QED BY <2>1, <2>2, <2>3 DEF ApplySampledToken
<1>6. state \in [Ids -> States] /\ output_tokens \in [Ids -> Seq(Tokens)]
  BY InvSplit DEF Core, CoreType
<1>7. \A q \in Ids : state'[q] = IF q # r THEN state[q] ELSE IF why = "none" THEN "running" ELSE "finished"
  BY <1>5, <1>6
<1>8. /\ Len(output_tokens'[r]) = Len(output_tokens[r]) + 1 /\ output_tokens'[r] # <<>>
      /\ \A q \in Ids \ {r} : output_tokens'[q] = output_tokens[q]
  <2>1. Core /\ results \in Seq(Result)
    BY InvSplit DEF StepType, Result
  <2> QED BY <2>1, SampledToken
<1>9. PICK m \in Nat : m = Len(results) /\ DOMAIN results = 1 .. m /\ results \in Seq(StepResult)
  BY ResultTypes
<1>10. /\ DOMAIN results' = 1 .. m + 1 /\ Len(results') = m + 1
       /\ results'[m + 1] = x /\ \A i \in 1 .. m : results'[i] = results[i]
  <2>1. x \in StepResult
    BY <1>2, <1>3 DEF StepResult, FinishReasons
  <2> QED BY <1>5, <1>9, <2>1
<1>11. \A i \in 1 .. m + 1 : i = m + 1 \/ i \in 1 .. m
  OBVIOUS
<1>12. Reported /\ CaughtUp(r)
  BY EngineSplit DEF Reported
<1>13. \A q : HasResult(q)' <=> HasResult(q) \/ q = r
  <2>1. \A i \in 1 .. m : i \in 1 .. m + 1
    OBVIOUS
  <2>2. m + 1 \in 1 .. m + 1
    OBVIOUS
  <2> QED BY <1>4, <1>9, <1>10, <1>11, <2>1, <2>2 DEF HasResult
<1>14. Unreported' = IF why = "none" THEN Unreported ELSE Unreported \union {r}
  <2>1. FinishedIn(results') = IF why = "none" THEN FinishedIn(results) ELSE FinishedIn(results) \union {r}
    <3>1. ASSUME NEW q PROVE q \in FinishedIn(results') <=>
                               q \in FinishedIn(results) \/ (why # "none" /\ q = r)
      <4>1. q \in FinishedIn(results') <=> \E i \in 1 .. m + 1 : results'[i].finished /\ results'[i].request_id = q
        BY <1>10 DEF FinishedIn
      <4>2. q \in FinishedIn(results) <=> \E i \in 1 .. m : results[i].finished /\ results[i].request_id = q
        BY <1>9 DEF FinishedIn
      <4>3. \A i \in 1 .. m : i \in 1 .. m + 1
        OBVIOUS
      <4>4. m + 1 \in 1 .. m + 1
        OBVIOUS
      <4> QED BY <1>4, <1>10, <1>11, <4>1, <4>2, <4>3, <4>4
    <3> QED BY <3>1
  <2>2. Unreported = FinishedIn(results)
    BY DEF Unreported
  <2>3. Unreported' = FinishedIn(results')
    BY DEF Unreported
  <2> QED BY <2>1, <2>2, <2>3
<1>15. Live' = IF why = "none" THEN Live ELSE Live \ {r}
  BY <1>7 DEF Live
<1>16. r \in Live /\ Admitted' \subseteq Admitted /\ r \in Admitted
  BY <1>7 DEF Live, Admitted
<1>17. \A q : Service!Closed(delivered[q])' = Service!Closed(delivered[q])
  BY ServiceFrame
<1>18. \A q \in Ids : CaughtUp(q)'
  <2> SUFFICES ASSUME NEW q \in Ids PROVE CaughtUp(q)'
    OBVIOUS
  <2>1. CASE q # r
    <3>1. CaughtUp(q)
      BY <1>12 DEF Reported
    <3>2. /\ state'[q] = state[q] /\ output_tokens'[q] = output_tokens[q]
          /\ (HasResult(q)' <=> HasResult(q)) /\ (q \in Unreported' <=> q \in Unreported)
      BY <1>7, <1>8, <1>13, <1>14, <2>1
    <3> QED BY <1>17, <3>1, <3>2 DEF CaughtUp
  <2>2. CASE q = r
    <3>1. /\ ~Service!Closed(delivered[r]) /\ Len(output_tokens[r]) = Len(delivered[r]) + 0
      BY <1>12 DEF CaughtUp
    <3>2. Len(delivered[r]) \in Nat /\ HasResult(r)'
      BY <1>12, <1>13 DEF Reported
    <3>3. Len(output_tokens'[r]) = Len(delivered'[r]) + 1
      BY <1>8, <3>1, <3>2
    <3>4. CASE why = "none"
      BY <1>7, <1>8, <1>17, <2>2, <3>1, <3>2, <3>3, <3>4 DEF CaughtUp
    <3>5. CASE why # "none"
      BY <1>7, <1>8, <1>14, <2>2, <3>2, <3>5 DEF CaughtUp
    <3> QED BY <3>4, <3>5
  <2> QED BY <2>1, <2>2
<1>19. x \in Service!NextResults(r)
  <2>1. Len(output_tokens[r]) = Len(delivered[r]) /\ Len(delivered[r]) \in Nat
    BY <1>12 DEF CaughtUp, Reported
  <2>2. param[r] \in RequestParams
    BY InvSplit DEF Core, CoreType
  <2>3. PICK d \in Nat : d = Len(delivered[r]) /\ d = Len(output_tokens[r])
    BY <2>1
  <2>4. Len(param[r].forced) \in Nat
    BY <2>2 DEF RequestParams
  <2>5. d < Len(param[r].forced) <=> d + 1 <= Len(param[r].forced)
    BY <2>4
  <2>6. Service!Meant(param[r], d + 1, sampled) = Appended(r, sampled)
    BY <2>3, <2>5 DEF Service!Meant, Appended
  <2>7. Service!Reason(param[r], d + 1, sampled) = why
    BY <1>1, <2>3, <2>6 DEF Service!Reason, StopReason
  <2>8. x = Service!TokenResult(r, sampled)
    BY <1>3, <2>3, <2>7 DEF Service!TokenResult
  <2> QED BY <2>8 DEF Service!NextResults
<1>20. ResultsAllowed'
  <2>1. ASSUME NEW i \in 1 .. m PROVE results[i].request_id \in Ids /\ results[i].request_id # r
    BY <1>9, ResultTypes, <2>1 DEF HasResult
  <2>2. ASSUME NEW i \in 1 .. m + 1, NEW j \in 1 .. m + 1,
               results'[i].request_id = results'[j].request_id
        PROVE  i = j
    <3>1. CASE i \in 1 .. m /\ j \in 1 .. m
      BY <1>9, <1>10, <1>12, <2>2, <3>1 DEF Reported, ResultsAllowed
    <3>2. CASE i = m + 1 \/ j = m + 1
      BY <1>4, <1>10, <1>11, <2>1, <2>2, <3>2
    <3> QED BY <1>11, <3>1, <3>2
  <2>3. ASSUME NEW i \in 1 .. m + 1 PROVE ResultAllowed(results[i])'
    <3>1. CASE i = m + 1
      <4>1. results'[i] = x
        BY <1>10, <3>1
      <4>2. ~Service!Closed(delivered[r]) /\ state'[r] # "none" /\ (x.finished <=> state'[r] = "finished")
        BY <1>4, <1>7, <1>12 DEF CaughtUp
      <4> QED BY <1>2, <1>4, <1>19, <4>1, <4>2, ServiceFrame DEF ResultAllowed
    <3>2. CASE i \in 1 .. m
      <4>1. PICK y : y = results[i] /\ y = results'[i]
        BY <1>10, <3>2
      <4>2. PICK q \in Ids : q = y.request_id /\ q # r
        BY <2>1, <3>2, <4>1
      <4>3. ResultAllowed(y)
        BY <1>9, <1>12, <3>2, <4>1 DEF Reported, ResultsAllowed
      <4> QED BY <1>7, <1>16, <4>1, <4>2, <4>3, ServiceFrame DEF ResultAllowed
    <3> QED BY <1>11, <3>1, <3>2
  <2> QED BY <1>10, <2>2, <2>3 DEF ResultsAllowed
<1>21. Len(results') <= MaxBatch
  BY <1>9, <1>10, SchedulerAssumption
<1>22. requests' = Live' \union Unreported'
  BY <1>12, <1>14, <1>15, <1>16 DEF Reported
<1>23. Reported'
  BY <1>12, <1>18, <1>20, <1>21, <1>22 DEF Reported
<1> QED BY <1>13, <1>23

LEMMA EngineInvCompleted ==
  ASSUME SchedInv, EngineInv, UNCHANGED <<requests, delivered>>,
         CompletePrefillChunk \/ CompleteDecode
  PROVE  EngineInv'
<1>1. /\ UNCHANGED <<results, output_tokens, param, state, plan>> /\ pc = "commit" /\ pc' = "return"
  BY DEF CompletePrefillChunk, CompleteDecode, requestVars
<1>2. Reported'
  BY <1>1, ReportedPlanning
<1>3. InStep'
  BY <1>1 DEF InStep
<1> QED BY <1>2, <1>3, EngineSplitNext

LEMMA EngineInvCompletePrefillFinal ==
  ASSUME SchedInv, EngineInv, UNCHANGED <<requests, delivered>>,
         NEW sampled \in Tokens, CompletePrefillFinal(sampled)
  PROVE  EngineInv'
<1>1. /\ pc = "commit" /\ is_prefill /\ pc' = "return" /\ UNCHANGED <<plan, param>>
      /\ ApplySampledToken(plan.prefill, sampled)
  BY DEF CompletePrefillFinal
<1>2. PICK r \in Ids : r = plan.prefill /\ state[r] = "prefill"
  BY <1>1, CommittedPrefill
<1>3. results = <<>> /\ ~HasResult(r)
  <2>1. plan.decode = <<>> /\ plan.aborted = <<>> /\ RowsDone \in 0 .. Len(plan.decode)
    BY <1>1, InvSplit DEF PlanMatchesQueues
  <2>2. RowsDone = 0 /\ Len(plan.aborted) = 0
    BY <2>1
  <2>3. Len(results) = 0
    BY <2>2, ResultTypes DEF RowsDone
  <2>4. results = <<>>
    BY <2>3, ResultTypes
  <2> QED BY <2>4 DEF HasResult
<1>4. Len(results) < MaxBatch
  BY <1>3, SchedulerAssumption
<1>5. Reported'
  BY <1>1, <1>2, <1>3, <1>4, EngineSampled
<1>6. InStep'
  BY <1>1 DEF InStep
<1> QED BY <1>5, <1>6, EngineSplitNext

LEMMA EngineInvCompleteDecodeRow ==
  ASSUME SchedInv, EngineInv, UNCHANGED <<requests, delivered>>,
         NEW sampled \in Tokens, CompleteDecodeRow(sampled)
  PROVE  EngineInv'
<1>1. /\ pc = "commit" /\ ~is_prefill /\ UNCHANGED <<pc, plan, param>> /\ RowsDone < Len(plan.decode)
      /\ ApplySampledToken(plan.decode[RowsDone + 1], sampled)
  BY DEF CompleteDecodeRow
<1>2. PICK d \in Nat : d = Len(plan.decode) /\ DOMAIN plan.decode = 1 .. d
                       /\ \A k \in 1 .. d : plan.decode[k] \in Ids
  BY PlanTypes
<1>3. PICK n \in Nat : n = RowsDone /\ n < d /\ IsInjective(plan.decode)
                       /\ \A k \in n + 1 .. d : state[plan.decode[k]] = "running"
  BY <1>1, <1>2, InvSplit DEF PlanMatchesQueues
<1>4. n + 1 \in n + 1 .. d /\ n + 1 \in 1 .. d
  BY <1>3
<1>5. /\ \A k \in n + 1 .. d : ~HasResult(plan.decode[k])
      /\ Len(plan.aborted) + Len(plan.decode) <= MaxBatch
  BY <1>1, <1>2, <1>3, EngineSplit DEF InStep
<1>6. PICK r \in Ids : r = plan.decode[n + 1] /\ state[r] = "running" /\ ~HasResult(r)
  BY <1>2, <1>3, <1>4, <1>5
<1>7. PICK a \in Nat : a = Len(plan.aborted)
  BY PlanTypes
<1>8. PICK m \in Nat : m = Len(results) /\ m = a + n /\ m < MaxBatch
  <2>1. PICK m \in Nat : m = Len(results)
    BY ResultTypes
  <2>2. n = m - a
    BY <1>3, <1>7, <2>1 DEF RowsDone
  <2>3. a + d <= MaxBatch /\ MaxBatch \in Nat
    BY <1>2, <1>5, <1>7, SchedulerAssumption
  <2>4. m = a + n /\ m < MaxBatch
    BY <1>3, <2>2, <2>3
  <2> QED BY <2>1, <2>4
<1>9. Reported' /\ \A q \in Ids : HasResult(q)' => HasResult(q) \/ q = r
  BY <1>1, <1>3, <1>6, <1>8, EngineSampled
<1>10. RowsDone' = n + 1
  <2>1. Core /\ results \in Seq(Result)
    BY InvSplit DEF StepType, Result
  <2>2. Len(results') = m + 1
    BY <1>1, <1>3, <1>6, <1>8, <2>1, SampledToken
  <2>3. RowsDone' = (m + 1) - a
    BY <1>1, <1>7, <2>2 DEF RowsDone
  <2> QED BY <1>8, <2>3
<1>11. ASSUME NEW k \in (n + 1) + 1 .. d PROVE ~HasResult(plan.decode[k])'
  <2>1. k \in n + 1 .. d /\ k \in 1 .. d /\ k # n + 1
    OBVIOUS
  <2>2. PICK q \in Ids : q = plan.decode[k] /\ q # r /\ ~HasResult(q)
    BY <1>2, <1>3, <1>4, <1>5, <1>6, <2>1 DEF IsInjective
  <2>3. ~HasResult(q)'
    BY <1>9, <2>2
  <2>4. q = plan'.decode[k] /\ \A i \in DOMAIN results' : results'[i].request_id # q
    BY <1>1, <2>2, <2>3 DEF HasResult
  <2> QED BY <2>4 DEF HasResult
<1>12. InStep'
  <2>1. Len(plan'.decode) = d /\ Len(plan'.aborted) + Len(plan'.decode) <= MaxBatch
    BY <1>1, <1>2, <1>5
  <2> QED BY <1>1, <1>10, <1>11, <2>1 DEF InStep
<1> QED BY <1>9, <1>12, EngineSplitNext

\* A thrown step has aborted nobody when only reserve_full steps can throw.
LEMMA EngineInvThrows ==
  ASSUME AdmissionPolicy = "reserve_full" \/ MaxThrows = 0,
         SchedInv, EngineInv, EngineStepThrows
  PROVE  EngineInv'
<1>1. /\ pc = "planned" /\ pc' = "idle" /\ plan' = EmptyPlan /\ throws < MaxThrows
      /\ UNCHANGED <<results, output_tokens, param, state, requests, delivered>>
  BY DEF EngineStepThrows, ExecutorThrows, requestVars
<1>2. plan.aborted = <<>>
  <2>1. throws \in 0 .. MaxThrows
    BY InvSplit DEF StepType
  <2>2. MaxThrows # 0
    BY <1>1, <2>1
  <2>3. AbortsPlanned
    BY <1>1, EngineSplit DEF InStep
  <2> QED BY <2>2, <2>3 DEF AbortsPlanned
<1>3. Reported'
  BY <1>1, <1>2, ReportedPlanning DEF EmptyPlan
<1>4. InStep'
  BY <1>1 DEF InStep
<1> QED BY <1>3, <1>4, EngineSplitNext

-----------------------------------------------------------------------------
(***************************************************************************)
(* The results reach the client.                                           *)
(***************************************************************************)
LEMMA DeliveredTo ==
  ASSUME SchedInv, EngineInv, Deliver, NEW r \in Ids
  PROVE  /\ delivered'[r] \in Seq(StepResult)
         /\ ~HasResult(r) => delivered'[r] = delivered[r]
         /\ \A i \in DOMAIN results : results[i].request_id = r =>
              delivered'[r] = Append(delivered[r], results[i])
<1>1. delivered[r] \in Seq(StepResult) /\ delivered'[r] = delivered[r] \o ResultsOf(r)
  BY EngineSplit DEF Reported, Deliver
<1> DEFINE mine == {i \in DOMAIN results : results[i].request_id = r}
           nth(k) == CHOOSE i \in mine : Cardinality({j \in mine : j <= i}) = k
<1>2. ResultsOf(r) = [k \in 1 .. Cardinality(mine) |-> results[nth(k)]]
  BY DEF ResultsOf
<1>3. CASE ~HasResult(r)
  <2>1. mine = {}
    BY <1>3 DEF HasResult
  <2>2. 1 .. Cardinality(mine) = {}
    BY <2>1, FS_EmptySet
  <2>3. ResultsOf(r) = <<>>
    BY <1>2, <2>2
  <2>4. delivered'[r] = delivered[r]
    BY <1>1, <2>3
  <2> QED BY <1>1, <1>3, <2>4 DEF HasResult
<1>4. CASE HasResult(r)
  <2>1. PICK i \in DOMAIN results : results[i].request_id = r
    BY <1>4 DEF HasResult
  <2>2. results[i] \in StepResult /\ i \in Nat
    BY ResultTypes
  <2>3. \A j \in DOMAIN results : results[j].request_id = r => j = i
    BY <2>1, EngineSplit DEF Reported, ResultsAllowed
  <2>4. mine = {i}
    BY <2>1, <2>3
  <2>5. {j \in mine : j <= i} = {i}
    BY <2>2, <2>4
  <2>6. Cardinality(mine) = 1 /\ Cardinality({j \in mine : j <= i}) = 1
    BY <2>4, <2>5, FS_Singleton
  <2> HIDE DEF mine
  <2>7. nth(1) = i
    BY <2>4, <2>6
  <2> HIDE DEF nth
  <2>8. ResultsOf(r) = [k \in 1 .. 1 |-> results[nth(k)]]
    BY <1>2, <2>6
  <2>9. ResultsOf(r) = <<results[i]>>
    BY <2>7, <2>8
  <2>10. delivered'[r] = Append(delivered[r], results[i])
    BY <1>1, <2>2, <2>9, AppendIsConcat
  <2> QED BY <1>1, <1>4, <2>2, <2>3, <2>10
<1> QED BY <1>3, <1>4

LEMMA ClosedAppend ==
  ASSUME NEW s \in Seq(StepResult), NEW x \in StepResult
  PROVE  Service!Closed(Append(s, x)) <=> Service!Closed(s) \/ x.finished
<1>1. PICK n \in Nat : n = Len(s) /\ DOMAIN s = 1 .. n
  OBVIOUS
<1>2. PICK t : t = Append(s, x)
  OBVIOUS
<1>3. DOMAIN t = 1 .. n + 1 /\ t[n + 1] = x /\ \A i \in 1 .. n : t[i] = s[i]
  BY <1>1, <1>2
<1>4. /\ \A i \in 1 .. n + 1 : i = n + 1 \/ i \in 1 .. n
      /\ \A i \in 1 .. n : i \in 1 .. n + 1
      /\ n + 1 \in 1 .. n + 1
  OBVIOUS
<1>5. (\E i \in DOMAIN t : t[i].finished) <=> (\E i \in DOMAIN s : s[i].finished) \/ x.finished
  BY <1>1, <1>3, <1>4
<1> QED BY <1>2, <1>5 DEF Service!Closed

LEMMA EngineInvStepReturns ==
  ASSUME SchedInv, EngineInv, EngineStepReturns
  PROVE  EngineInv'
<1>1. /\ pc = "return" /\ pc' = "idle" /\ plan' = EmptyPlan /\ results' = <<>>
      /\ UNCHANGED <<output_tokens, param, state>>
      /\ requests' = requests \ FinishedIn(results) /\ Deliver
  BY DEF EngineStepReturns, StepReturn, requestVars
<1>2. Reported
  BY EngineSplit
<1>3. Unreported = FinishedIn(results) /\ Unreported' = {} /\ \A r : ~HasResult(r)'
  <2>1. Unreported = FinishedIn(results)
    BY <1>1 DEF Unreported
  <2>2. Range(<<>>) = {} /\ plan'.aborted = <<>>
    BY <1>1 DEF Range, EmptyPlan
  <2> QED BY <1>1, <2>1, <2>2 DEF Unreported, HasResult
<1>4. ASSUME NEW i \in DOMAIN results
      PROVE  /\ results[i] \in StepResult /\ results[i].request_id \in Ids
             /\ results[i].finished <=> state[results[i].request_id] = "finished"
             /\ ~Service!Closed(delivered[results[i].request_id])
  BY <1>2, ResultTypes DEF Reported, ResultsAllowed, ResultAllowed
<1>5. requests' = Live' \union Unreported'
  <2>1. ASSUME NEW r \in FinishedIn(results) PROVE r \notin Live
    <3>1. PICK i \in DOMAIN results : results[i].finished /\ r = results[i].request_id
      BY <2>1 DEF FinishedIn
    <3>2. state[r] = "finished"
      BY <1>4, <3>1
    <3> QED BY <3>2 DEF Live
  <2>2. Live' = Live
    BY <1>1 DEF Live
  <2> QED BY <1>1, <1>2, <1>3, <2>1, <2>2 DEF Reported
<1>6. delivered' \in [Ids -> Seq(StepResult)]
  <2>1. delivered' = [r \in Ids |-> delivered'[r]]
    BY <1>1 DEF Deliver
  <2>2. \A r \in Ids : delivered'[r] \in Seq(StepResult)
    BY <1>1, DeliveredTo
  <2> QED BY <2>1, <2>2
<1>7. \A r \in Ids : CaughtUp(r)'
  <2> SUFFICES ASSUME NEW r \in Ids PROVE CaughtUp(r)'
    OBVIOUS
  <2>1. CaughtUp(r) /\ delivered[r] \in Seq(StepResult)
    BY <1>2 DEF Reported
  <2>2. CASE ~HasResult(r)
    <3>1. delivered'[r] = delivered[r]
      BY <1>1, <2>2, DeliveredTo
    <3>2. r \notin Unreported
      BY <1>3, <2>2 DEF FinishedIn, HasResult
    <3>3. Service!Closed(delivered[r])' <=> Service!Closed(delivered[r])
      BY <3>1 DEF Service!Closed
    <3> QED BY <1>1, <1>3, <2>1, <2>2, <3>1, <3>2, <3>3 DEF CaughtUp
  <2>3. CASE HasResult(r)
    <3>1. PICK i \in DOMAIN results : results[i].request_id = r
      BY <2>3 DEF HasResult
    <3>2. PICK x \in StepResult : x = results[i] /\ (x.finished <=> state[r] = "finished")
      BY <1>4, <3>1
    <3>3. delivered'[r] = Append(delivered[r], x)
      BY <1>1, <3>1, <3>2, DeliveredTo
    <3>4. Service!Closed(delivered[r])' <=> Service!Closed(delivered[r]) \/ x.finished
      <4>1. Service!Closed(Append(delivered[r], x)) <=> Service!Closed(delivered[r]) \/ x.finished
        BY <2>1, ClosedAppend
      <4> QED BY <3>3, <4>1 DEF Service!Closed
    <3>5. Len(delivered'[r]) = Len(delivered[r]) + 1 /\ delivered'[r] # <<>> /\ Len(delivered[r]) \in Nat
      BY <2>1, <3>3, AppendProperties
    <3>6. output_tokens'[r] # <<>>
      BY <1>1, <2>1, <2>3 DEF CaughtUp
    <3>7. CASE state[r] = "finished"
      BY <1>1, <3>2, <3>4, <3>5, <3>6, <3>7 DEF CaughtUp
    <3>8. CASE state[r] # "finished"
      <4>1. ~Service!Closed(delivered[r]) /\ Len(output_tokens[r]) = Len(delivered[r]) + 1
        BY <2>1, <2>3, <3>8 DEF CaughtUp
      <4>2. ~Service!Closed(delivered[r])'
        BY <3>2, <3>4, <3>8, <4>1
      <4>3. Len(output_tokens'[r]) = Len(delivered'[r]) + 0
        BY <1>1, <3>5, <4>1
      <4> QED BY <1>1, <1>3, <3>5, <3>6, <3>8, <4>2, <4>3 DEF CaughtUp
    <3> QED BY <3>7, <3>8
  <2> QED BY <2>2, <2>3
<1>8. ResultsAllowed' /\ Len(results') <= MaxBatch
  BY <1>1, SchedulerAssumption DEF ResultsAllowed
<1>9. Reported'
  BY <1>5, <1>6, <1>7, <1>8 DEF Reported
<1>10. InStep'
  BY <1>1 DEF InStep
<1> QED BY <1>9, <1>10, EngineSplitNext

-----------------------------------------------------------------------------
(***************************************************************************)
(* Every step.                                                             *)
(***************************************************************************)
LEMMA EngineIsSched == [EngineNext]_engineVars => [SchedNext]_schedVars
<1> SUFFICES ASSUME [EngineNext]_engineVars PROVE [SchedNext]_schedVars
  OBVIOUS
<1>1. CASE UNCHANGED engineVars
  BY <1>1 DEF engineVars
<1>2. CASE \E p \in Workload : EngineAddRequest(p)
  BY <1>2 DEF EngineAddRequest, SchedNext
<1>3. CASE EngineStepInternal
  BY <1>3 DEF EngineStepInternal, SchedNext, StepActions
<1>4. CASE EngineStepThrows \/ EngineStepReturns
  BY <1>4 DEF EngineStepThrows, EngineStepReturns, SchedNext, StepActions
<1> QED BY <1>1, <1>2, <1>3, <1>4 DEF EngineNext

LEMMA EngineInvInternal ==
  ASSUME SchedInv, EngineInv, EngineStepInternal, SchedInv'
  PROVE  EngineInv'
<1>1. UNCHANGED <<requests, delivered>>
  BY DEF EngineStepInternal
<1>2. CASE PlanStep
  <2>1. CASE Admit
    BY <1>1, <2>1, EngineInvAdmit
  <2>2. CASE PlanPrefill \/ MaterializePrefillBlock
    BY <1>1, <2>2, EngineInvPlan
  <2>3. CASE PrefillPlanned
    BY <1>1, <2>3, EngineInvPrefillPlanned
  <2>4. CASE PlanDecode
    BY <1>1, <2>4, EngineInvPlanDecode
  <2>5. CASE DecodeRow \/ DecodeRowReserved \/ DecodeRowClaimed
    BY <1>1, <2>5, EngineInvDecodeRow
  <2>6. CASE AbortYoungestRunning
    BY <1>1, <2>6, EngineInvAbort
  <2>7. CASE DecodePlanned
    BY <1>1, <2>7, EngineInvDecodePlanned
  <2> QED BY <1>2, <2>1, <2>2, <2>3, <2>4, <2>5, <2>6, <2>7 DEF PlanStep
<1>3. CASE StepBegin \/ StepEmpty
  BY <1>1, <1>3, EngineInvPlan
<1>4. CASE Execute
  BY <1>1, <1>4, EngineInvExecute
<1>5. CASE CompleteStep
  <2>1. CASE CompletePrefillChunk \/ CompleteDecode
    BY <1>1, <2>1, EngineInvCompleted
  <2>2. ASSUME NEW sampled \in Tokens, CompletePrefillFinal(sampled) \/ CompleteDecodeRow(sampled)
        PROVE  EngineInv'
    BY <1>1, <2>2, EngineInvCompletePrefillFinal, EngineInvCompleteDecodeRow
  <2> QED BY <1>5, <2>1, <2>2 DEF CompleteStep
<1> QED BY <1>2, <1>3, <1>4, <1>5 DEF EngineStepInternal

LEMMA EngineInvNext ==
  ASSUME AdmissionPolicy = "reserve_full" \/ MaxThrows = 0,
         SchedInv, EngineInv, [EngineNext]_engineVars
  PROVE  EngineInv'
<1>1. SchedInv'
  BY EngineIsSched, InvNext
<1>2. CASE UNCHANGED engineVars
  <2>1. UNCHANGED <<requests, delivered, results, output_tokens, param, state, plan, pc, running>>
    BY <1>2 DEF engineVars, schedVars, stepVars, requestVars, queueVars
  <2>2. Reported' /\ (AbortsPlanned => AbortsPlanned')
    BY <2>1, ReportedPlanning
  <2>3. RowsDone' = RowsDone /\ \A q : HasResult(q)' <=> HasResult(q)
    BY <2>1 DEF RowsDone, HasResult
  <2>4. InStep'
    BY <2>1, <2>2, <2>3, EngineSplit DEF InStep, HasResult
  <2> QED BY <2>2, <2>4, EngineSplitNext
<1>3. CASE \E p \in Workload : EngineAddRequest(p)
  BY <1>1, <1>3, EngineInvAddRequest
<1>4. CASE EngineStepInternal
  BY <1>1, <1>4, EngineInvInternal
<1>5. CASE EngineStepThrows
  BY <1>5, EngineInvThrows
<1>6. CASE EngineStepReturns
  BY <1>6, EngineInvStepReturns
<1> QED BY <1>2, <1>3, <1>4, <1>5, <1>6 DEF EngineNext

-----------------------------------------------------------------------------
(***************************************************************************)
(* Every step of Engine is a step of RequestService, or one its clients do *)
(* not see.                                                                *)
(***************************************************************************)
LEMMA ServiceStarts == EngineInit => Service!ServiceInit
<1> SUFFICES ASSUME EngineInit PROVE Service!ServiceInit
  OBVIOUS
<1>1. next_request_id = 1 /\ param = [r \in Ids |-> NoParams] /\ delivered = [r \in Ids |-> <<>>]
  BY DEF EngineInit, SchedInit
<1>2. next_request_id - 1 = 0
  BY <1>1
<1>3. param \in [Ids -> {[prompt |-> 0, max_new |-> 0, ignore_eos |-> FALSE, forced |-> <<>>]}]
  BY <1>1 DEF NoParams
<1> QED BY <1>1, <1>2, <1>3 DEF Service!ServiceInit

LEMMA ServiceAccepts ==
  ASSUME SchedInv, NEW p \in Workload, EngineAddRequest(p)
  PROVE  Service!Accept(p)
<1>1. PICK n \in Ids : /\ n = next_request_id /\ next_request_id' = n + 1
                       /\ param' = [param EXCEPT ![n] = p] /\ delivered' = delivered
  BY DEF EngineAddRequest, AddRequest
<1>2. n \in Int
  BY SchedulerAssumption DEF Ids
<1>3. (n - 1) + 1 = n /\ (n + 1) - 1 = (n - 1) + 1
  BY <1>2
<1> QED BY <1>1, <1>3 DEF Service!Accept

LEMMA ServiceReturns ==
  ASSUME SchedInv, EngineInv, EngineStepReturns, EngineInv', results # <<>>
  PROVE  \E batch \in SUBSET Service!Open : Service!Return(batch)
<1> DEFINE batch == {results[i].request_id : i \in DOMAIN results}
           at(r) == CHOOSE i \in DOMAIN results : results[i].request_id = r
           result == [r \in batch |-> results[at(r)]]
<1>1. /\ pc = "return" /\ pc' = "idle" /\ results' = <<>> /\ plan' = EmptyPlan
      /\ UNCHANGED <<output_tokens, param, state, next_request_id>> /\ Deliver
  BY DEF EngineStepReturns, StepReturn, requestVars
<1>2. Reported /\ Reported'
  BY EngineSplit, EngineSplitNext
<1>3. PICK m \in Nat : m = Len(results) /\ DOMAIN results = 1 .. m /\ m <= MaxBatch
  BY <1>2, ResultTypes DEF Reported
<1>4. ASSUME NEW r \in batch
      PROVE  /\ at(r) \in DOMAIN results /\ results[at(r)].request_id = r
             /\ r \in Ids /\ state[r] # "none" /\ ~Service!Closed(delivered[r])
             /\ results[at(r)] \in Service!NextResults(r)
             /\ results[at(r)].finish_reason = "aborted" => \A s \in Admitted : s < r
             /\ delivered'[r] = Append(delivered[r], results[at(r)])
  <2>1. PICK i \in DOMAIN results : results[i].request_id = r
    BY <1>4
  <2>2. at(r) \in DOMAIN results /\ results[at(r)].request_id = r
    BY <2>1
  <2> HIDE DEF at
  <2>3. r \in Ids
    BY <2>2, ResultTypes
  <2>4. PICK x : x = results[at(r)] /\ x.request_id = r /\ ResultAllowed(x)
    BY <1>2, <2>2 DEF Reported, ResultsAllowed
  <2>5. /\ state[r] # "none" /\ ~Service!Closed(delivered[r]) /\ x \in Service!NextResults(r)
        /\ x.finish_reason = "aborted" => \A s \in Admitted : s < r
    BY <2>4 DEF ResultAllowed
  <2>6. delivered'[r] = Append(delivered[r], x)
    BY <1>1, <2>2, <2>3, <2>4, DeliveredTo
  <2> QED BY <2>2, <2>3, <2>4, <2>5, <2>6
<1>5. batch # {}
  <2>1. 1 \in DOMAIN results
    BY <1>3, ResultTypes
  <2> QED BY <2>1
<1>6. Cardinality(batch) <= MaxBatch
  <2> DEFINE f == [i \in 1 .. m |-> results[i].request_id]
  <2>1. f \in Surjection(1 .. m, batch)
    BY <1>3 DEF Surjection
  <2>2. ExistsSurjection(1 .. m, batch)
    BY <2>1 DEF ExistsSurjection
  <2> HIDE DEF batch
  <2>3. Cardinality(batch) <= m
    BY <2>2, FS_SurjCardinalityBound
  <2>4. Cardinality(batch) \in Nat
    <3>1. IsFiniteSet(1 .. m)
      BY FS_Interval
    <3>2. IsFiniteSet(batch)
      BY <2>1, <3>1, FS_Surjection
    <3> QED BY <3>2, FS_CardinalityType
  <2> QED BY <1>3, <2>3, <2>4, SchedulerAssumption
<1>7. batch \in SUBSET Service!Open
  <2> SUFFICES ASSUME NEW r \in batch PROVE r \in Service!Open
    OBVIOUS
  <2>1. r \in Ids /\ state[r] # "none" /\ ~Service!Closed(delivered[r])
    BY <1>4
  <2>2. r < next_request_id /\ next_request_id \in 1 .. MaxRequests + 1
    BY <2>1, InvSplit DEF Core, AcceptedValid, CoreType
  <2>3. r \in 1 .. next_request_id - 1
    BY <2>1, <2>2, SchedulerAssumption DEF Ids
  <2> QED BY <2>1, <2>3 DEF Service!Open
<1>8. ASSUME NEW r \in Ids, r \notin batch PROVE delivered'[r] = delivered[r]
  <2>1. ~HasResult(r)
    BY <1>8 DEF HasResult
  <2> QED BY <1>1, <2>1, DeliveredTo
<1> HIDE DEF at, batch
<1>9. /\ result \in [batch -> UNION {Service!NextResults(r) : r \in batch}]
      /\ \A r \in batch : result[r] \in Service!NextResults(r)
  BY <1>4
<1>10. delivered' = [r \in Ids |-> IF r \in batch THEN Append(delivered[r], result[r]) ELSE delivered[r]]
  <2>1. delivered' = [r \in Ids |-> delivered'[r]]
    BY <1>1 DEF Deliver
  <2>2. ASSUME NEW r \in Ids
        PROVE  delivered'[r] = IF r \in batch THEN Append(delivered[r], result[r]) ELSE delivered[r]
    BY <1>4, <1>8
  <2> QED BY <2>1, <2>2
<1>11. \A r \in batch : result[r].finish_reason = "aborted" => \A s \in Admitted : s < r
  BY <1>4
<1> HIDE DEF result
<1>12. \A r \in Ids : /\ output_tokens[r] # <<>> <=> delivered'[r] # <<>>
                      /\ delivered[r] # <<>> => output_tokens[r] # <<>>
                      /\ state[r] = "finished" => Service!Closed(delivered[r])'
  <2> SUFFICES ASSUME NEW r \in Ids
               PROVE  /\ output_tokens[r] # <<>> <=> delivered'[r] # <<>>
                      /\ delivered[r] # <<>> => output_tokens[r] # <<>>
                      /\ state[r] = "finished" => Service!Closed(delivered[r])'
    OBVIOUS
  <2>1. CaughtUp(r) /\ CaughtUp(r)'
    BY <1>2 DEF Reported
  <2>2. ~HasResult(r)' /\ Unreported' = {}
    <3>1. Range(<<>>) = {} /\ plan'.aborted = <<>>
      BY <1>1 DEF Range, EmptyPlan
    <3> QED BY <1>1, <3>1 DEF HasResult, Unreported
  <2> QED BY <1>1, <2>1, <2>2 DEF CaughtUp
<1>13. ASSUME NEW r \in batch, NEW s \in Ids, result[r].finish_reason = "aborted", s > r,
              delivered[s] # <<>>
       PROVE  Service!Closed(delivered'[s])
  <2>1. r \in Ids /\ \A t \in Admitted : t < r
    BY <1>4, <1>11, <1>13
  <2>2. s \notin Admitted
    BY <1>13, <2>1, SchedulerAssumption DEF Ids
  <2>3. output_tokens[s] # <<>>
    BY <1>12, <1>13
  <2>4. state[s] = "finished"
    <3>1. state \in [Ids -> States] /\ ProgressMatchesState
      BY InvSplit DEF Core, CoreType
    <3> QED BY <2>2, <2>3, <3>1 DEF States, ProgressMatchesState, Admitted
  <2> QED BY <1>12, <2>4 DEF Service!Closed
<1>14. Service!GivesUpYoungest(batch, result)
  BY <1>13 DEF Service!GivesUpYoungest
<1>15. Service!FirstComeFirstServed'
  <2>1. FirstTokenFCFS
    BY FirstTokens
  <2> QED BY <1>12, <2>1 DEF FirstTokenFCFS, Service!FirstComeFirstServed
<1>16. UNCHANGED <<next_request_id - 1, param>>
  BY <1>1
<1>17. Service!Cardinality(batch) = Cardinality(batch)
  BY DEF Service!Cardinality, Cardinality
<1>18. Service!Return(batch)
  BY <1>5, <1>6, <1>9, <1>10, <1>14, <1>15, <1>16, <1>17 DEF Service!Return
<1> QED BY <1>7, <1>18

\* What was asked for and how many asked only change when a request is added.
LEMMA InsideStepSilent ==
  ASSUME EngineStepInternal \/ EngineStepThrows
  PROVE  UNCHANGED <<next_request_id, param, delivered>>
<1>1. delivered' = delivered
  BY DEF EngineStepInternal, EngineStepThrows
<1>2. CASE StepBegin \/ StepEmpty \/ ExecutorThrows \/ Execute
  BY <1>1, <1>2 DEF StepBegin, StepEmpty, ExecutorThrows, Execute, requestVars
<1>3. CASE PlanStep
  <2>1. CASE Admit \/ PlanPrefill \/ MaterializePrefillBlock \/ PrefillPlanned
    BY <1>1, <2>1 DEF Admit, PlanPrefill, MaterializePrefillBlock, PrefillPlanned, requestVars
  <2>2. CASE PlanDecode \/ DecodeRow \/ DecodeRowReserved \/ DecodeRowClaimed \/ DecodePlanned
    BY <1>1, <2>2 DEF PlanDecode, DecodeRow, DecodeRowReserved, DecodeRowClaimed, DecodePlanned, requestVars
  <2>3. CASE AbortYoungestRunning
    BY <1>1, <2>3 DEF AbortYoungestRunning
  <2> QED BY <1>1, <1>3, <2>1, <2>2, <2>3 DEF PlanStep
<1>4. CASE CompleteStep
  <2>1. CASE CompletePrefillChunk \/ CompleteDecode
    BY <1>1, <2>1 DEF CompletePrefillChunk, CompleteDecode, requestVars
  <2>2. ASSUME NEW sampled \in Tokens, CompletePrefillFinal(sampled) \/ CompleteDecodeRow(sampled)
        PROVE  UNCHANGED <<next_request_id, param>>
    BY <1>1, <2>2 DEF CompletePrefillFinal, CompleteDecodeRow
  <2> QED BY <1>1, <1>4, <2>1, <2>2 DEF CompleteStep
<1> QED BY <1>2, <1>3, <1>4 DEF EngineStepInternal, EngineStepThrows

LEMMA ServiceSteps ==
  ASSUME SchedInv, EngineInv, EngineInv', [EngineNext]_engineVars
  PROVE  [Service!ServiceNext]_(Service!serviceVars)
<1>1. ASSUME UNCHANGED <<next_request_id, param, delivered>>
      PROVE  [Service!ServiceNext]_(Service!serviceVars)
  BY <1>1 DEF Service!serviceVars
<1>2. CASE UNCHANGED engineVars
  BY <1>1, <1>2 DEF engineVars, schedVars, requestVars
<1>3. CASE \E p \in Workload : EngineAddRequest(p)
  BY <1>3, ServiceAccepts DEF Service!ServiceNext
<1>4. CASE EngineStepInternal \/ EngineStepThrows
  BY <1>1, <1>4, InsideStepSilent
<1>5. CASE EngineStepReturns
  <2>1. CASE results # <<>>
    BY <1>5, <2>1, ServiceReturns DEF Service!ServiceNext
  <2>2. CASE results = <<>>
    <3>1. Deliver /\ UNCHANGED <<next_request_id, param>>
      BY <1>5 DEF EngineStepReturns, StepReturn, requestVars
    <3>2. delivered' = [r \in Ids |-> delivered'[r]] /\ delivered = [r \in Ids |-> delivered[r]]
      BY <3>1, EngineSplit DEF Deliver, Reported
    <3>3. \A r \in Ids : ~HasResult(r)
      BY <2>2 DEF HasResult
    <3>4. \A r \in Ids : delivered'[r] = delivered[r]
      BY <3>1, <3>3, DeliveredTo
    <3>5. delivered' = delivered
      BY <3>2, <3>4
    <3> QED BY <1>1, <3>1, <3>5
  <2> QED BY <2>1, <2>2
<1> QED BY <1>2, <1>3, <1>4, <1>5 DEF EngineNext

-----------------------------------------------------------------------------
(***************************************************************************)
(* The statistics.  A sum is the number of its units, so that adding to    *)
(* one number adds pairs that were not there.                              *)
(***************************************************************************)
LEMMA UnitsMember ==
  ASSUME NEW S, NEW f \in [S -> Nat], NEW p
  PROVE  p \in Units(f) <=> \E x \in S : \E i \in 1 .. f[x] : p = <<x, i>>
BY DEF Units

LEMMA UnitsFinite ==
  ASSUME NEW S, IsFiniteSet(S), NEW f \in [S -> Nat]
  PROVE  IsFiniteSet(Units(f)) /\ Total(f) \in Nat
<1> DEFINE T == {{x} \X (1 .. f[x]) : x \in S}
           g == [x \in S |-> {x} \X (1 .. f[x])]
<1>1. g \in Surjection(S, T)
  BY DEF Surjection
<1>2. IsFiniteSet(T)
  BY <1>1, FS_Surjection
<1>3. ASSUME NEW A \in T PROVE IsFiniteSet(A)
  <2>1. PICK x \in S : A = {x} \X (1 .. f[x])
    OBVIOUS
  <2>2. f[x] \in Nat
    OBVIOUS
  <2> QED BY <2>1, <2>2, PromiseCount
<1>4. IsFiniteSet(UNION T)
  BY <1>2, <1>3, FS_UNION
<1>5. Units(f) = UNION T
  BY DEF Units
<1> QED BY <1>4, <1>5, FS_CardinalityType DEF Total

\* A number that grows by n makes the sum grow by n.
LEMMA TotalGrows ==
  ASSUME NEW S, IsFiniteSet(S), NEW f \in [S -> Nat], NEW x \in S, NEW n \in Nat,
         NEW g \in [S -> Nat], g[x] = f[x] + n, \A y \in S \ {x} : g[y] = f[y]
  PROVE  Total(g) = Total(f) + n
<1> DEFINE New == {x} \X (f[x] + 1 .. f[x] + n)
<1>1. f[x] \in Nat
  OBVIOUS
<1>2. PICK a \in Nat : a = f[x]
  BY <1>1
<1>3. IsFiniteSet(New) /\ Cardinality(New) = n
  <2>1. IsFiniteSet({x}) /\ Cardinality({x}) = 1
    BY FS_Singleton
  <2>2. IsFiniteSet(a + 1 .. a + n) /\ Cardinality(a + 1 .. a + n) = n
    <3>1. a + 1 \in Int /\ a + n \in Int
      OBVIOUS
    <3>2. /\ IsFiniteSet(a + 1 .. a + n)
          /\ Cardinality(a + 1 .. a + n) = IF a + 1 > a + n THEN 0 ELSE (a + n) - (a + 1) + 1
      BY <3>1, FS_Interval
    <3> QED BY <3>2
  <2>3. /\ IsFiniteSet({x} \X (a + 1 .. a + n))
        /\ Cardinality({x} \X (a + 1 .. a + n)) = Cardinality({x}) * Cardinality(a + 1 .. a + n)
    BY <2>1, <2>2, FS_Product, Zenon
  <2> QED BY <1>2, <2>1, <2>2, <2>3
<1>4. Units(f) \intersect New = {}
  <2> SUFFICES ASSUME NEW p \in Units(f), p \in New PROVE FALSE
    OBVIOUS
  <2>1. PICK y \in S : \E i \in 1 .. f[y] : p = <<y, i>>
    BY UnitsMember
  <2>10. PICK i \in 1 .. f[y] : p = <<y, i>>
    BY <2>1
  <2>2. PICK j \in a + 1 .. a + n : p = <<x, j>>
    BY <1>2
  <2>3. y = x /\ i = j
    BY <2>10, <2>2
  <2> QED BY <1>2, <2>10, <2>2, <2>3
<1>5. Units(g) = Units(f) \union New
  <2>1. ASSUME NEW p \in Units(g) PROVE p \in Units(f) \union New
    <3>1. PICK y \in S : \E i \in 1 .. g[y] : p = <<y, i>>
      <4>1. g \in [S -> Nat] /\ p \in Units(g)
        BY <2>1
      <4>2. p \in Units(g) <=> \E z \in S : \E k \in 1 .. g[z] : p = <<z, k>>
        BY <4>1, UnitsMember
      <4> QED BY <4>1, <4>2
    <3>10. PICK i \in 1 .. g[y] : p = <<y, i>>
      BY <3>1
    <3>2. CASE y = x /\ i > a
      <4>1. i \in a + 1 .. a + n
        BY <1>2, <3>10, <3>2
      <4> QED BY <1>2, <3>10, <3>2, <4>1
    <3>3. CASE ~(y = x /\ i > a)
      <4>1. i \in 1 .. f[y]
        BY <1>2, <3>10, <3>3
      <4> QED BY <3>10, <4>1, UnitsMember
    <3> QED BY <3>2, <3>3
  <2>2. ASSUME NEW p \in Units(f) PROVE p \in Units(g)
    <3>1. PICK y \in S : \E i \in 1 .. f[y] : p = <<y, i>>
      BY UnitsMember
    <3>10. PICK i \in 1 .. f[y] : p = <<y, i>>
      BY <3>1
    <3>2. f[y] \in Nat /\ g[y] \in Nat /\ f[y] <= g[y]
      <4>1. CASE y = x
        BY <4>1, <1>2
      <4>2. CASE y # x
        BY <4>2
      <4> QED BY <4>1, <4>2
    <3>3. i \in 1 .. g[y]
      BY <3>10, <3>2
    <3> QED BY <3>10, <3>3, UnitsMember
  <2>3. ASSUME NEW p \in New PROVE p \in Units(g)
    <3>1. PICK j \in a + 1 .. a + n : p = <<x, j>>
      BY <1>2
    <3>2. j \in 1 .. g[x]
      BY <1>2, <3>1
    <3> QED BY <3>1, <3>2, UnitsMember
  <2> QED BY <2>1, <2>2, <2>3
<1>6. IsFiniteSet(Units(f)) /\ Cardinality(Units(f)) \in Nat
  BY UnitsFinite DEF Total
<1>7. Cardinality(Units(f) \union New) =
        Cardinality(Units(f)) + Cardinality(New) - Cardinality(Units(f) \intersect New)
  BY <1>3, <1>6, FS_Union, Zenon
<1>8. Cardinality(Units(f) \intersect New) = 0
  BY <1>4, FS_EmptySet
<1> QED BY <1>3, <1>5, <1>6, <1>7, <1>8 DEF Total

\* A sum of zeros.
LEMMA TotalZero ==
  ASSUME NEW S
  PROVE  Total([x \in S |-> 0]) = 0
<1>1. Units([x \in S |-> 0]) = {}
  <2> SUFFICES ASSUME NEW p \in Units([x \in S |-> 0]) PROVE FALSE
    OBVIOUS
  <2>1. [x \in S |-> 0] \in [S -> Nat]
    OBVIOUS
  <2>2. PICK x \in S : \E i \in 1 .. [y \in S |-> 0][x] : p = <<x, i>>
    BY <2>1, UnitsMember
  <2>20. PICK i \in 1 .. [y \in S |-> 0][x] : p = <<x, i>>
    BY <2>2
  <2> QED BY <2>20
<1> QED BY <1>1, FS_EmptySet DEF Total

LEMMA IdsFinite == IsFiniteSet(Ids) /\ IsFiniteSet(AbortedRequests)
<1>1. IsFiniteSet(Ids)
  BY FS_Interval, SchedulerAssumption DEF Ids
<1>2. AbortedRequests \in SUBSET Ids
  BY DEF AbortedRequests
<1> QED BY <1>1, <1>2, FS_Subset

LEMMA BucketsFinite == IsFiniteSet(Range(decode_buckets))
<1>1. \A i \in DOMAIN kLadder : kLadder[i] \in 1 .. 64
  BY DEF kLadder
<1>2. Range(decode_buckets) \in SUBSET (1 .. 64)
  BY <1>1 DEF decode_buckets, MakeDecodeBuckets, Restrict, Range
<1>3. 1 \in Int /\ 64 \in Int
  OBVIOUS
<1>4. IsFiniteSet(1 .. 64)
  BY <1>3, FS_Interval
<1> QED BY <1>2, <1>4, FS_Subset

LEMMA ProducedType ==
  ASSUME output_tokens \in [Ids -> Seq(Tokens)]
  PROVE  DecodeProduced \in [Ids -> Nat]
<1>1. ASSUME NEW r \in Ids, output_tokens[r] # <<>> PROVE Len(output_tokens[r]) - 1 \in Nat
  <2>1. output_tokens[r] \in Seq(Tokens)
    OBVIOUS
  <2> QED BY <1>1, <2>1
<1> QED BY <1>1 DEF DecodeProduced

LEMMA StatsInitInv == EngineInit => StatsInv
<1> SUFFICES ASSUME EngineInit PROVE StatsInv
  OBVIOUS
<1>1. /\ prefill_tokens = 0 /\ decode_tokens = 0 /\ aborts = 0 /\ graph_replays = 0 /\ eager_decodes = 0
      /\ bucket_decode_steps = [b \in Range(decode_buckets) |-> 0]
      /\ finish_reason = [r \in Ids |-> "none"] /\ pc = "idle" /\ plan = EmptyPlan
      /\ prefill_progress = [r \in Ids |-> 0] /\ output_tokens = [r \in Ids |-> <<>>]
  BY DEF EngineInit, SchedInit
<1>2. Total(prefill_progress) = 0
  BY <1>1, TotalZero
<1>3. DecodeProduced = [r \in Ids |-> 0]
  BY <1>1 DEF DecodeProduced
<1>4. Total(DecodeProduced) = 0
  BY <1>3, TotalZero
<1>5. Total(bucket_decode_steps) = 0
  BY <1>1, TotalZero
<1>6. AbortedRequests = {}
  BY <1>1 DEF AbortedRequests
<1>7. Cardinality(AbortedRequests) = 0 /\ plan.aborted = <<>> /\ Len(plan.aborted) = 0
  BY <1>1, <1>6, FS_EmptySet DEF EmptyPlan
<1>8. StatsTypeOK /\ StepCommitted
  BY <1>1 DEF StatsTypeOK, StepCommitted
<1>9. RowsUncounted = 0 /\ PromptUncounted = 0
  BY <1>1 DEF RowsUncounted, PromptUncounted
<1> QED BY <1>1, <1>2, <1>4, <1>5, <1>7, <1>8, <1>9 DEF StatsInv

\* A step that shows nothing new in the requests, and is not in the middle of its commit.
LEMMA StatsQuiet ==
  ASSUME StatsInv, UNCHANGED <<statVars, prefill_progress, output_tokens, finish_reason>>,
         pc \notin {"commit", "return"}, pc' \notin {"commit", "return"},
         Len(plan'.aborted) = Len(plan.aborted),
         \A r \in Ids : state[r] = "finished" => state'[r] = "finished"
  PROVE  StatsInv'
<1>1. /\ UNCHANGED <<prefill_tokens, decode_tokens, aborts, graph_replays, eager_decodes>>
      /\ UNCHANGED bucket_decode_steps
  BY DEF statVars
<1>2. /\ RowsUncounted' = RowsUncounted /\ PromptUncounted' = PromptUncounted
      /\ StepCommitted'
  BY DEF RowsUncounted, PromptUncounted, StepCommitted
<1>3. DecodeProduced' = DecodeProduced /\ AbortedRequests' = AbortedRequests
  BY DEF DecodeProduced, AbortedRequests
<1>4. /\ Total(prefill_progress)' = Total(prefill_progress)
      /\ Total(bucket_decode_steps)' = Total(bucket_decode_steps)
      /\ Total(DecodeProduced)' = Total(DecodeProduced)
  BY <1>1, <1>3 DEF Total, Units
<1>5. StatsTypeOK'
  BY <1>1 DEF StatsInv, StatsTypeOK
<1>6. \A r \in Ids : finish_reason'[r] # "none" => state'[r] = "finished"
  BY DEF StatsInv
<1> QED BY <1>1, <1>2, <1>3, <1>4, <1>5, <1>6 DEF StatsInv

\* The same within the commit of a step.
LEMMA StatsSame ==
  ASSUME StatsInv, UNCHANGED <<statVars, prefill_progress, output_tokens, finish_reason, state>>,
         StepCommitted', Len(plan'.aborted) = Len(plan.aborted),
         RowsUncounted' = RowsUncounted, PromptUncounted' = PromptUncounted
  PROVE  StatsInv'
<1>1. /\ UNCHANGED <<prefill_tokens, decode_tokens, aborts, graph_replays, eager_decodes>>
      /\ UNCHANGED bucket_decode_steps
  BY DEF statVars
<1>2. DecodeProduced' = DecodeProduced /\ AbortedRequests' = AbortedRequests
  BY DEF DecodeProduced, AbortedRequests
<1>3. /\ Total(prefill_progress)' = Total(prefill_progress)
      /\ Total(bucket_decode_steps)' = Total(bucket_decode_steps)
      /\ Total(DecodeProduced)' = Total(DecodeProduced)
  BY <1>1, <1>2 DEF Total, Units
<1>4. StatsTypeOK'
  BY <1>1 DEF StatsInv, StatsTypeOK
<1> QED BY <1>1, <1>2, <1>3, <1>4 DEF StatsInv

\* Submission, admission and planning count nothing, and finish nobody but victims.
LEMMA StatsPlanning ==
  ASSUME SchedInv, StatsInv, UNCHANGED statVars,
         \/ \E p \in Workload : AddRequest(p)
         \/ StepBegin \/ Admit \/ PlanPrefill \/ MaterializePrefillBlock \/ PrefillPlanned
         \/ PlanDecode \/ DecodeRow \/ DecodeRowReserved \/ DecodeRowClaimed
         \/ DecodePlanned \/ StepEmpty
  PROVE  StatsInv'
<1>1. plan \in [prefill : Ids \union {nullptr}, begin : Nat, end : Nat,
                decode : Seq(Ids), aborted : Seq(Ids)]
  BY InvSplit DEF StepType
<1>2. state \in [Ids -> States]
  BY InvSplit DEF Core, CoreType
<1>3. CASE \E p \in Workload : AddRequest(p)
  <2>1. /\ UNCHANGED <<prefill_progress, output_tokens, finish_reason, plan, pc>> /\ pc = "idle"
        /\ state' = [state EXCEPT ![next_request_id] = "waiting"] /\ next_request_id \in Ids
    BY <1>3 DEF AddRequest, Enqueue, stepVars
  <2>2. state[next_request_id] = "none"
    <3>1. AcceptedValid /\ next_request_id \in 1 .. MaxRequests + 1
      BY InvSplit DEF Core, CoreType
    <3> QED BY <2>1, <3>1 DEF AcceptedValid
  <2>3. \A r \in Ids : state[r] = "finished" => state'[r] = "finished"
    BY <1>2, <2>1, <2>2
  <2> QED BY <2>1, <2>3, StatsQuiet
<1>4. CASE Admit
  <2>1. PICK r : /\ r = Head(waiting) /\ state' = [state EXCEPT ![r] = "prefill"] /\ waiting # <<>>
                 /\ UNCHANGED <<prefill_progress, output_tokens, finish_reason, plan, pc>> /\ pc = "admit"
    BY <1>4 DEF Admit, CanAdmitHead, stepVars
  <2>2. r \in Ids /\ state[r] = "waiting"
    <3>1. waiting \in Seq(Ids) /\ Range(waiting) = {q \in Ids : state[q] = "waiting"}
      BY InvSplit DEF Core, CoreType, AdmissionOrder
    <3>2. r \in Range(waiting)
      BY <2>1, <3>1 DEF Range
    <3> QED BY <3>1, <3>2
  <2>3. \A q \in Ids : state[q] = "finished" => state'[q] = "finished"
    BY <1>2, <2>1, <2>2
  <2> QED BY <2>1, <2>3, StatsQuiet
<1>5. CASE StepBegin \/ MaterializePrefillBlock \/ PrefillPlanned \/ PlanDecode \/ DecodePlanned \/ StepEmpty
  <2>1. /\ UNCHANGED <<prefill_progress, output_tokens, finish_reason, state, plan>>
        /\ pc \notin {"commit", "return"} /\ pc' \notin {"commit", "return"}
    BY <1>5 DEF StepBegin, MaterializePrefillBlock, PrefillPlanned, PlanDecode, DecodePlanned, StepEmpty,
                requestVars, stepVars
  <2> QED BY <2>1, StatsQuiet
<1>6. CASE PlanPrefill
  <2>1. /\ UNCHANGED <<prefill_progress, output_tokens, finish_reason, state>>
        /\ pc = "admit" /\ pc' = "prefill"
    BY <1>6 DEF PlanPrefill, requestVars
  <2>2. PICK r, b, e : plan' = [plan EXCEPT !.prefill = r, !.begin = b, !.end = e]
    BY <1>6 DEF PlanPrefill
  <2>3. plan'.aborted = plan.aborted
    BY <1>1, <2>2
  <2> QED BY <2>1, <2>3, StatsQuiet
<1>7. CASE DecodeRow \/ DecodeRowReserved \/ DecodeRowClaimed
  <2>1. /\ UNCHANGED <<prefill_progress, output_tokens, finish_reason, state, pc>> /\ pc = "decode"
        /\ plan' = [plan EXCEPT !.decode = Append(@, Candidate)]
    BY <1>7 DEF DecodeRow, DecodeRowReserved, DecodeRowClaimed, requestVars
  <2>2. PICK d : plan' = [plan EXCEPT !.decode = d]
    BY <2>1
  <2>3. plan'.aborted = plan.aborted
    BY <1>1, <2>2
  <2> QED BY <2>1, <2>3, StatsQuiet
<1> QED BY <1>3, <1>4, <1>5, <1>6, <1>7

\* An abort is in the plan from the moment the request is finished.
LEMMA StatsAbort ==
  ASSUME SchedInv, StatsInv, UNCHANGED statVars, AbortYoungestRunning
  PROVE  StatsInv'
<1>1. /\ pc = "decode" /\ DecodeLoop /\ UNCHANGED <<pc, results, output_tokens, prefill_progress>>
  BY DEF AbortYoungestRunning
<1>2. running # <<>> /\ running \in Seq(Ids)
  BY <1>1, CandidateRuns, PlanTypes
<1>3. CoreType /\ AdmissionOrder
  BY InvSplit DEF Core
<1>4. PICK v \in Ids : v = Last(running) /\ state[v] = "running"
  BY <1>2, <1>3, PopYoungest DEF AdmissionOrder
<1>5. /\ state' = [state EXCEPT ![v] = "finished"]
      /\ finish_reason' = [finish_reason EXCEPT ![v] = "aborted"]
      /\ plan' = [plan EXCEPT !.aborted = Append(@, v)]
  BY <1>4 DEF AbortYoungestRunning, Victim
<1>6. plan'.aborted = Append(plan.aborted, v)
  <2>1. plan \in [prefill : Ids \union {nullptr}, begin : Nat, end : Nat,
                  decode : Seq(Ids), aborted : Seq(Ids)]
    BY InvSplit DEF StepType
  <2>2. PICK a : a = Append(plan.aborted, v) /\ plan' = [plan EXCEPT !.aborted = a]
    BY <1>5
  <2> QED BY <2>1, <2>2
<1>7. Len(plan'.aborted) = Len(plan.aborted) + 1 /\ Len(plan.aborted) \in Nat
  BY <1>6, PlanTypes
<1>8. /\ state \in [Ids -> States] /\ finish_reason \in [Ids -> FinishReasons]
      /\ finish_reason[v] = "none"
  BY <1>3, <1>4 DEF CoreType, StatsInv
<1>9. AbortedRequests' = AbortedRequests \union {v} /\ v \notin AbortedRequests
  BY <1>5, <1>8 DEF AbortedRequests
<1>10. Cardinality(AbortedRequests') = Cardinality(AbortedRequests) + 1
  BY <1>9, IdsFinite, FS_AddElement
<1>11. \A r \in Ids : finish_reason'[r] # "none" => state'[r] = "finished"
  BY <1>5, <1>8 DEF StatsInv
<1>12. /\ UNCHANGED <<prefill_tokens, decode_tokens, aborts, graph_replays, eager_decodes>>
       /\ UNCHANGED bucket_decode_steps
  BY DEF statVars
<1>13. /\ RowsUncounted' = RowsUncounted /\ PromptUncounted' = PromptUncounted
       /\ StepCommitted' /\ DecodeProduced' = DecodeProduced
  BY <1>1 DEF RowsUncounted, PromptUncounted, StepCommitted, DecodeProduced
<1>14. /\ Total(prefill_progress)' = Total(prefill_progress)
       /\ Total(bucket_decode_steps)' = Total(bucket_decode_steps)
       /\ Total(DecodeProduced)' = Total(DecodeProduced)
  BY <1>1, <1>12, <1>13 DEF Total, Units
<1>15. Cardinality(AbortedRequests') = aborts' + Len(plan'.aborted)
  <2>1. aborts \in Nat /\ Cardinality(AbortedRequests) = aborts + Len(plan.aborted)
    BY DEF StatsInv, StatsTypeOK
  <2> QED BY <1>7, <1>10, <1>12, <2>1
<1>16. StatsTypeOK'
  BY <1>12 DEF StatsInv, StatsTypeOK
<1> QED BY <1>11, <1>12, <1>13, <1>14, <1>15, <1>16 DEF StatsInv

\* The executor has returned: the rows of the plan are about to be committed.
LEMMA StatsExecute ==
  ASSUME SchedInv, StatsInv, UNCHANGED statVars, Execute
  PROVE  StatsInv'
<1>1. /\ pc = "planned" /\ pc' = "commit" /\ UNCHANGED <<prefill_progress, output_tokens, finish_reason, state, plan>>
      /\ results' = [i \in 1 .. Len(plan.aborted) |-> AbortResult(plan.aborted[i])]
  BY DEF Execute, requestVars
<1>2. Len(results') = Len(plan.aborted) /\ Len(plan.aborted) \in Nat
  BY <1>1, PlanTypes
<1>3. RowsUncounted = 0 /\ PromptUncounted = 0 /\ PromptUncounted' = 0 /\ StepCommitted'
  BY <1>1 DEF RowsUncounted, PromptUncounted, StepCommitted
<1>4. RowsUncounted' = 0
  BY <1>1, <1>2 DEF RowsUncounted, RowsDone
<1> QED BY <1>1, <1>3, <1>4, StatsSame

\* The plan of a prefill step that is being committed.
LEMMA PrefillPlan ==
  ASSUME SchedInv, pc = "commit", is_prefill
  PROVE  /\ plan.prefill \in Ids /\ plan.begin = prefill_progress[plan.prefill]
         /\ plan.begin \in Nat /\ plan.end \in Nat /\ plan.begin < plan.end
         /\ plan.decode = <<>>
<1>1. /\ plan.begin = prefill_progress[plan.prefill] /\ plan.begin < plan.end /\ plan.decode = <<>>
  BY InvSplit DEF PlanMatchesQueues
<1>2. plan.begin \in Nat /\ plan.end \in Nat
  BY InvSplit DEF StepType
<1> QED BY <1>1, <1>2, CommittedPrefill

\* A committed chunk: the request shows plan.end - plan.begin more prompt tokens.
LEMMA PromptGrows ==
  ASSUME SchedInv, StatsInv, pc = "commit", is_prefill, pc' = "return", UNCHANGED plan,
         prefill_progress' = [prefill_progress EXCEPT ![plan.prefill] = plan.end]
  PROVE  /\ Total(prefill_progress)' = prefill_tokens + PromptUncounted'
         /\ StepCommitted' /\ RowsUncounted = 0 /\ RowsUncounted' = 0
<1>1. PICK r \in Ids : r = plan.prefill
  BY PrefillPlan
<1>2. PICK b \in Nat : b = plan.begin /\ b = prefill_progress[r]
  BY <1>1, PrefillPlan
<1>3. PICK e \in Nat : e = plan.end /\ b < e
  BY <1>2, PrefillPlan
<1>4. prefill_progress \in [Ids -> Nat]
  BY InvSplit DEF Core, CoreType
<1>5. PICK g \in [Ids -> Nat] : g = prefill_progress' /\ g[r] = e /\ \A q \in Ids \ {r} : g[q] = prefill_progress[q]
  BY <1>1, <1>3, <1>4
<1>6. e - b \in Nat /\ g[r] = prefill_progress[r] + (e - b)
  BY <1>2, <1>3, <1>5
<1>7. Total(g) = Total(prefill_progress) + (e - b)
  <2>1. PICK f \in [Ids -> Nat] : f = prefill_progress
    BY <1>4
  <2>2. PICK n \in Nat : n = e - b
    BY <1>6
  <2>3. g[r] = f[r] + n /\ \A q \in Ids \ {r} : g[q] = f[q]
    BY <1>5, <1>6, <2>1, <2>2
  <2>4. Total(g) = Total(f) + n
    BY <2>3, IdsFinite, TotalGrows
  <2> QED BY <2>1, <2>2, <2>4
<1>8. PromptUncounted = 0 /\ PromptUncounted' = e - b
  BY <1>2, <1>3 DEF PromptUncounted
<1>9. Total(prefill_progress) = prefill_tokens /\ prefill_tokens \in Nat
  BY <1>8 DEF StatsInv, StatsTypeOK
<1>10. Total(prefill_progress)' = Total(g)
  BY <1>5 DEF Total, Units
<1>11. is_prefill' /\ StepCommitted'
  BY <1>2, <1>3, PrefillPlan DEF is_prefill, StepCommitted
<1>12. RowsUncounted = 0 /\ RowsUncounted' = 0
  BY <1>11 DEF RowsUncounted
<1> QED BY <1>7, <1>8, <1>9, <1>10, <1>11, <1>12

LEMMA StatsPrefillChunk ==
  ASSUME SchedInv, StatsInv, UNCHANGED statVars, CompletePrefillChunk
  PROVE  StatsInv'
<1>1. /\ pc = "commit" /\ is_prefill /\ pc' = "return"
      /\ UNCHANGED <<plan, output_tokens, finish_reason, state>>
      /\ prefill_progress' = [prefill_progress EXCEPT ![plan.prefill] = plan.end]
  BY DEF CompletePrefillChunk
<1>2. /\ UNCHANGED <<prefill_tokens, decode_tokens, aborts, graph_replays, eager_decodes>>
      /\ UNCHANGED bucket_decode_steps
  BY DEF statVars
<1>3. /\ Total(prefill_progress)' = prefill_tokens + PromptUncounted'
      /\ StepCommitted' /\ RowsUncounted = 0 /\ RowsUncounted' = 0
  BY <1>1, PromptGrows
<1>4. DecodeProduced' = DecodeProduced /\ AbortedRequests' = AbortedRequests
  BY <1>1 DEF DecodeProduced, AbortedRequests
<1>5. /\ Total(bucket_decode_steps)' = Total(bucket_decode_steps)
      /\ Total(DecodeProduced)' = Total(DecodeProduced)
  BY <1>2, <1>4 DEF Total, Units
<1>6. StatsTypeOK'
  BY <1>2 DEF StatsInv, StatsTypeOK
<1> QED BY <1>1, <1>2, <1>3, <1>4, <1>5, <1>6 DEF StatsInv

\* A sampled token: the first of a request is the prefill's, the others are a decode step's.
LEMMA StatsSampled ==
  ASSUME SchedInv, StatsInv, NEW r \in Ids, state[r] \in {"prefill", "running"},
         NEW sampled \in Tokens, ApplySampledToken(r, sampled)
  PROVE  /\ Total(DecodeProduced)' = Total(DecodeProduced) + (IF state[r] = "running" THEN 1 ELSE 0)
         /\ AbortedRequests' = AbortedRequests
         /\ \A q \in Ids : finish_reason'[q] # "none" => state'[q] = "finished"
         /\ Len(results') = Len(results) + 1
<1>1. Core /\ results \in Seq(Result)
  BY InvSplit DEF StepType, Result
<1>2. /\ output_tokens' \in [Ids -> Seq(Tokens)] /\ output_tokens'[r] # <<>>
      /\ Len(output_tokens'[r]) = Len(output_tokens[r]) + 1
      /\ \A q \in Ids \ {r} : output_tokens'[q] = output_tokens[q]
      /\ Len(results') = Len(results) + 1
  BY <1>1, SampledToken
<1>3. /\ output_tokens \in [Ids -> Seq(Tokens)] /\ state \in [Ids -> States]
      /\ finish_reason \in [Ids -> FinishReasons] /\ ProgressMatchesState
  BY <1>1 DEF Core, CoreType
<1>4. DecodeProduced \in [Ids -> Nat]
  BY <1>3, ProducedType
<1>5. PICK g \in [Ids -> Nat] :
        g = [q \in Ids |-> IF output_tokens'[q] = <<>> THEN 0 ELSE Len(output_tokens'[q]) - 1]
  <2>1. ASSUME NEW q \in Ids, output_tokens'[q] # <<>> PROVE Len(output_tokens'[q]) - 1 \in Nat
    <3>1. output_tokens'[q] \in Seq(Tokens)
      BY <1>2
    <3> QED BY <2>1, <3>1
  <2> QED BY <2>1
<1>6. \A q \in Ids \ {r} : g[q] = DecodeProduced[q]
  BY <1>2, <1>5 DEF DecodeProduced
<1>7. g[r] = DecodeProduced[r] + (IF state[r] = "running" THEN 1 ELSE 0)
  <2>1. PICK n \in Nat : n = Len(output_tokens[r])
    BY <1>3
  <2>2. g[r] = (n + 1) - 1
    BY <1>2, <1>5, <2>1
  <2>3. CASE state[r] = "running"
    <3>1. output_tokens[r] # <<>>
      BY <1>3, <2>3 DEF ProgressMatchesState
    <3>2. DecodeProduced[r] = n - 1
      BY <2>1, <3>1 DEF DecodeProduced
    <3> QED BY <2>2, <2>3, <3>2
  <2>4. CASE state[r] = "prefill"
    <3>1. output_tokens[r] = <<>>
      BY <1>3, <2>4 DEF ProgressMatchesState
    <3>2. DecodeProduced[r] = 0 /\ n = 0
      BY <2>1, <3>1 DEF DecodeProduced
    <3> QED BY <2>2, <2>4, <3>2
  <2> QED BY <2>3, <2>4
<1>8. PICK n \in Nat : n = IF state[r] = "running" THEN 1 ELSE 0
  OBVIOUS
<1>9. Total(g) = Total(DecodeProduced) + n
  BY <1>4, <1>6, <1>7, <1>8, IdsFinite, TotalGrows
<1>10. DecodeProduced' = g
  BY <1>5 DEF DecodeProduced
<1>11. Total(DecodeProduced)' = Total(g)
  BY <1>10 DEF Total, Units
<1>12. finish_reason[r] = "none"
  BY <1>3 DEF StatsInv
<1>13. \/ state' = [state EXCEPT ![r] = "running"] /\ finish_reason' = finish_reason
       \/ \E reason \in {"eos", "length"} :
            /\ state' = [state EXCEPT ![r] = "finished"]
            /\ finish_reason' = [finish_reason EXCEPT ![r] = reason]
  <2>1. StopReason(r, Appended(r, sampled)) \in {"eos", "length", "none"}
    BY DEF StopReason
  <2> QED BY <2>1 DEF ApplySampledToken
<1>14. AbortedRequests' = AbortedRequests
  BY <1>3, <1>12, <1>13 DEF AbortedRequests
<1>15. \A q \in Ids : finish_reason'[q] # "none" => state'[q] = "finished"
  BY <1>3, <1>12, <1>13 DEF StatsInv
<1> QED BY <1>2, <1>8, <1>9, <1>11, <1>14, <1>15

LEMMA StatsPrefillFinal ==
  ASSUME SchedInv, StatsInv, UNCHANGED statVars, NEW sampled \in Tokens, CompletePrefillFinal(sampled)
  PROVE  StatsInv'
<1>1. /\ pc = "commit" /\ is_prefill /\ pc' = "return" /\ UNCHANGED plan
      /\ prefill_progress' = [prefill_progress EXCEPT ![plan.prefill] = plan.end]
      /\ ApplySampledToken(plan.prefill, sampled)
  BY DEF CompletePrefillFinal
<1>2. PICK r \in Ids : r = plan.prefill /\ state[r] = "prefill"
  BY <1>1, CommittedPrefill
<1>3. /\ UNCHANGED <<prefill_tokens, decode_tokens, aborts, graph_replays, eager_decodes>>
      /\ UNCHANGED bucket_decode_steps
  BY DEF statVars
<1>4. /\ Total(prefill_progress)' = prefill_tokens + PromptUncounted'
      /\ StepCommitted' /\ RowsUncounted = 0 /\ RowsUncounted' = 0
  BY <1>1, PromptGrows
<1>5. /\ Total(DecodeProduced)' = Total(DecodeProduced) + 0
      /\ AbortedRequests' = AbortedRequests
      /\ \A q \in Ids : finish_reason'[q] # "none" => state'[q] = "finished"
  BY <1>1, <1>2, StatsSampled
<1>6. Total(DecodeProduced) = decode_tokens + 0 /\ decode_tokens \in Nat
  BY <1>4 DEF StatsInv, StatsTypeOK
<1>7. Total(bucket_decode_steps)' = Total(bucket_decode_steps)
  BY <1>3 DEF Total, Units
<1>8. StatsTypeOK'
  BY <1>3 DEF StatsInv, StatsTypeOK
<1> QED BY <1>1, <1>3, <1>4, <1>5, <1>6, <1>7, <1>8 DEF StatsInv

LEMMA StatsDecodeRow ==
  ASSUME SchedInv, StatsInv, UNCHANGED statVars, NEW sampled \in Tokens, CompleteDecodeRow(sampled)
  PROVE  StatsInv'
<1>1. /\ pc = "commit" /\ ~is_prefill /\ UNCHANGED <<pc, plan, prefill_progress>>
      /\ RowsDone < Len(plan.decode)
      /\ ApplySampledToken(plan.decode[RowsDone + 1], sampled)
  BY DEF CompleteDecodeRow
<1>2. PICK d \in Nat : d = Len(plan.decode) /\ \A k \in 1 .. d : plan.decode[k] \in Ids
  BY PlanTypes
<1>3. PICK n \in Nat : /\ n = RowsDone /\ n < d
                       /\ \A k \in n + 1 .. d : state[plan.decode[k]] = "running"
  BY <1>1, <1>2, InvSplit DEF PlanMatchesQueues
<1>4. n + 1 \in n + 1 .. d /\ n + 1 \in 1 .. d
  BY <1>3
<1>5. PICK r \in Ids : r = plan.decode[n + 1] /\ state[r] = "running"
  BY <1>2, <1>3, <1>4
<1>6. /\ UNCHANGED <<prefill_tokens, decode_tokens, aborts, graph_replays, eager_decodes>>
      /\ UNCHANGED bucket_decode_steps
  BY DEF statVars
<1>7. /\ Total(DecodeProduced)' = Total(DecodeProduced) + 1
      /\ AbortedRequests' = AbortedRequests
      /\ \A q \in Ids : finish_reason'[q] # "none" => state'[q] = "finished"
      /\ Len(results') = Len(results) + 1
  BY <1>1, <1>3, <1>5, StatsSampled
<1>8. RowsDone' = n + 1
  <2>1. PICK m \in Nat : m = Len(results)
    BY ResultTypes
  <2>2. PICK a \in Nat : a = Len(plan.aborted) /\ a = Len(plan'.aborted)
    BY <1>1, PlanTypes
  <2>3. n = m - a /\ RowsDone' = (m + 1) - a
    BY <1>3, <1>7, <2>1, <2>2 DEF RowsDone
  <2> QED BY <2>3
<1>9. /\ RowsUncounted = n /\ RowsUncounted' = n + 1
      /\ PromptUncounted = 0 /\ PromptUncounted' = 0 /\ StepCommitted'
  BY <1>1, <1>3, <1>8 DEF RowsUncounted, PromptUncounted, StepCommitted, is_prefill
<1>10. Total(DecodeProduced)' = decode_tokens' + RowsUncounted'
  <2>1. Total(DecodeProduced) = decode_tokens + n /\ decode_tokens \in Nat
    BY <1>9 DEF StatsInv, StatsTypeOK
  <2> QED BY <1>6, <1>7, <1>9, <2>1
<1>11. /\ Total(prefill_progress)' = Total(prefill_progress)
       /\ Total(bucket_decode_steps)' = Total(bucket_decode_steps)
  BY <1>1, <1>6 DEF Total, Units
<1>12. StatsTypeOK'
  BY <1>6 DEF StatsInv, StatsTypeOK
<1> QED BY <1>1, <1>6, <1>7, <1>9, <1>10, <1>11, <1>12 DEF StatsInv

LEMMA StatsCompleteDecode ==
  ASSUME SchedInv, StatsInv, UNCHANGED statVars, CompleteDecode
  PROVE  StatsInv'
<1>1. /\ pc = "commit" /\ ~is_prefill /\ pc' = "return" /\ RowsDone = Len(plan.decode)
      /\ UNCHANGED <<plan, results, prefill_progress, output_tokens, finish_reason, state>>
  BY DEF CompleteDecode, requestVars
<1>2. plan.begin = 0 /\ plan.end = 0
  BY <1>1, InvSplit DEF PlanMatchesQueues
<1>3. ~is_prefill' /\ RowsDone' = RowsDone
  BY <1>1 DEF is_prefill, RowsDone
<1>4. /\ RowsUncounted' = RowsUncounted /\ PromptUncounted' = PromptUncounted /\ StepCommitted'
  BY <1>1, <1>2, <1>3 DEF RowsUncounted, PromptUncounted, StepCommitted
<1> QED BY <1>1, <1>4, StatsSame

\* The step returns and is counted.
LEMMA StatsReturns ==
  ASSUME SchedInv, StatsInv, EngineStepReturns
  PROVE  StatsInv'
<1>1. /\ pc = "return" /\ pc' = "idle" /\ plan' = EmptyPlan /\ CountStep
      /\ UNCHANGED <<prefill_progress, output_tokens, finish_reason, state>>
  BY DEF EngineStepReturns, StepReturn, requestVars
<1>2. PICK live \in Nat : live = Len(plan.decode)
  BY PlanTypes
<1>3. /\ plan.begin \in Nat /\ plan.end \in Nat /\ plan.begin <= plan.end
      /\ plan.end - plan.begin \in Nat
  <2>1. plan.begin \in Nat /\ plan.end \in Nat
    BY InvSplit DEF StepType
  <2>2. ~is_prefill => plan.begin = 0 /\ plan.end = 0
    BY InvSplit DEF PlanMatchesQueues
  <2>3. plan.begin <= plan.end
    BY <1>1, <2>1, <2>2 DEF StatsInv, StepCommitted
  <2> QED BY <2>1, <2>3
<1>4. RowsUncounted = live
  <2>1. CASE is_prefill
    <3>1. plan.decode = <<>>
      BY <1>1, <2>1 DEF StatsInv, StepCommitted
    <3> QED BY <1>2, <2>1, <3>1 DEF RowsUncounted
  <2>2. CASE ~is_prefill
    BY <1>1, <1>2, <2>2 DEF StatsInv, StepCommitted, RowsUncounted
  <2> QED BY <2>1, <2>2
<1>5. PromptUncounted = plan.end - plan.begin
  BY <1>1 DEF PromptUncounted
<1>6. /\ RowsUncounted' = 0 /\ PromptUncounted' = 0 /\ StepCommitted'
      /\ Len(plan'.aborted) = 0
  BY <1>1 DEF RowsUncounted, PromptUncounted, StepCommitted, EmptyPlan
<1>7. DecodeProduced' = DecodeProduced /\ AbortedRequests' = AbortedRequests
  BY <1>1 DEF DecodeProduced, AbortedRequests
<1>8. /\ Total(prefill_progress)' = Total(prefill_progress)
      /\ Total(DecodeProduced)' = Total(DecodeProduced)
  BY <1>1, <1>7 DEF Total, Units
<1>9. StatsTypeOK
  BY DEF StatsInv
<1>10. /\ prefill_tokens' \in Nat
       /\ Total(prefill_progress)' = prefill_tokens' + PromptUncounted'
  <2>1. prefill_tokens' = prefill_tokens + (plan.end - plan.begin)
    BY <1>1 DEF CountStep
  <2>2. Total(prefill_progress) = prefill_tokens + (plan.end - plan.begin) /\ prefill_tokens \in Nat
    BY <1>5, <1>9 DEF StatsInv, StatsTypeOK
  <2> QED BY <1>3, <1>6, <1>8, <2>1, <2>2
<1>11. /\ decode_tokens' = decode_tokens + live /\ decode_tokens' \in Nat
       /\ Total(DecodeProduced)' = decode_tokens' + RowsUncounted'
  <2>1. decode_tokens' = decode_tokens + live
    BY <1>1, <1>2 DEF CountStep
  <2>2. Total(DecodeProduced) = decode_tokens + live /\ decode_tokens \in Nat
    BY <1>4, <1>9 DEF StatsInv, StatsTypeOK
  <2> QED BY <1>6, <1>8, <2>1, <2>2
<1>12. /\ aborts' \in Nat /\ Cardinality(AbortedRequests') = aborts' + Len(plan'.aborted)
  <2>1. PICK a \in Nat : a = Len(plan.aborted)
    BY PlanTypes
  <2>2. aborts' = aborts + a
    BY <1>1, <2>1 DEF CountStep
  <2>3. Cardinality(AbortedRequests) = aborts + a /\ aborts \in Nat
    BY <1>9, <2>1 DEF StatsInv, StatsTypeOK
  <2> QED BY <1>6, <1>7, <2>2, <2>3
<1>13. /\ graph_replays' \in Nat /\ eager_decodes' \in Nat
       /\ graph_replays' + eager_decodes' = (graph_replays + eager_decodes) + (IF live > 0 THEN 1 ELSE 0)
       /\ ~Graphs => graph_replays' = graph_replays
  <2>1. /\ graph_replays' = graph_replays + (IF live > 0 /\ ReplaysGraph(live) THEN 1 ELSE 0)
        /\ eager_decodes' = eager_decodes + (IF live > 0 /\ ~ReplaysGraph(live) THEN 1 ELSE 0)
    BY <1>1, <1>2 DEF CountStep
  <2>2. graph_replays \in Nat /\ eager_decodes \in Nat
    BY <1>9 DEF StatsTypeOK
  <2>3. ReplaysGraph(live) => Graphs
    BY DEF ReplaysGraph
  <2>4. CASE ReplaysGraph(live)
    BY <2>1, <2>2, <2>3, <2>4
  <2>5. CASE ~ReplaysGraph(live)
    BY <2>1, <2>2, <2>5
  <2> QED BY <2>4, <2>5
<1>14. /\ bucket_decode_steps' \in [Range(decode_buckets) -> Nat]
       /\ Total(bucket_decode_steps)' <= Total(bucket_decode_steps) + (IF live > 0 THEN 1 ELSE 0)
       /\ Total(bucket_decode_steps) \in Nat /\ Total(bucket_decode_steps)' \in Nat
  <2>1. PICK S : S = Range(decode_buckets) /\ IsFiniteSet(S)
    BY BucketsFinite
  <2>2. PICK f \in [S -> Nat] : f = bucket_decode_steps
    BY <1>9, <2>1 DEF StatsTypeOK
  <2>3. PICK bucket : bucket = ExecutedBucket(live)
    OBVIOUS
  <2>4. bucket_decode_steps' = IF live > 0 /\ bucket >= 0 THEN [f EXCEPT ![bucket] = @ + 1] ELSE f
    BY <1>1, <1>2, <2>2, <2>3 DEF CountStep
  <2>5. Total(f) \in Nat
    BY <2>1, UnitsFinite
  <2>6. CASE live > 0 /\ bucket >= 0 /\ bucket \in S
    <3>1. PICK g \in [S -> Nat] : /\ g = bucket_decode_steps' /\ g[bucket] = f[bucket] + 1
                                  /\ \A y \in S \ {bucket} : g[y] = f[y]
      BY <2>4, <2>6
    <3>2. Total(g) = Total(f) + 1
      BY <2>1, <2>6, <3>1, TotalGrows
    <3> QED BY <2>1, <2>2, <2>5, <2>6, <3>1, <3>2 DEF Total, Units
  <2>7. CASE ~(live > 0 /\ bucket >= 0 /\ bucket \in S)
    <3>1. bucket_decode_steps' = f
      BY <2>4, <2>7
    <3> QED BY <2>1, <2>2, <2>5, <3>1 DEF Total, Units
  <2> QED BY <2>6, <2>7
<1>15. PICK one \in 0 .. 1 : one = (IF live > 0 THEN 1 ELSE 0) /\ one <= live
  OBVIOUS
<1>16. PICK ran \in Nat : ran = graph_replays + eager_decodes /\ graph_replays' + eager_decodes' = ran + one
  <2>1. graph_replays + eager_decodes \in Nat
    <3>1. graph_replays \in Nat /\ eager_decodes \in Nat
      BY <1>9 DEF StatsTypeOK
    <3> QED BY <3>1
  <2>2. graph_replays' + eager_decodes' = (graph_replays + eager_decodes) + one
    BY <1>13, <1>15, Zenon
  <2> QED BY <2>1, <2>2, Zenon
<1>17. Total(bucket_decode_steps)' <= graph_replays' + eager_decodes'
  <2>1. PICK t \in Nat : t = Total(bucket_decode_steps) /\ t <= ran
    BY <1>14, <1>16 DEF StatsInv
  <2>2. PICK u \in Nat : u = Total(bucket_decode_steps)' /\ u <= t + one
    BY <1>14, <1>15, <2>1
  <2>3. u <= ran + one
    BY <2>1, <2>2
  <2> QED BY <1>16, <2>2, <2>3
<1>18. graph_replays' + eager_decodes' <= decode_tokens'
  <2>1. ran <= decode_tokens /\ decode_tokens \in Nat
    BY <1>9, <1>16 DEF StatsInv, StatsTypeOK
  <2>2. ran + one <= decode_tokens + live
    BY <1>15, <2>1
  <2> QED BY <1>11, <1>16, <2>2
<1>19. ~Graphs => graph_replays' = 0
  BY <1>13 DEF StatsInv
<1>20. \A r \in Ids : finish_reason'[r] # "none" => state'[r] = "finished"
  BY <1>1 DEF StatsInv
<1>21. StatsTypeOK'
  BY <1>10, <1>11, <1>12, <1>13, <1>14 DEF StatsTypeOK
<1> QED BY <1>6, <1>10, <1>11, <1>12, <1>17, <1>18, <1>19, <1>20, <1>21 DEF StatsInv

\* A step that is thrown away is not counted, and had aborted nobody.
LEMMA StatsThrows ==
  ASSUME AdmissionPolicy = "reserve_full" \/ MaxThrows = 0,
         SchedInv, EngineInv, StatsInv, EngineStepThrows
  PROVE  StatsInv'
<1>1. /\ pc = "planned" /\ pc' = "idle" /\ plan' = EmptyPlan /\ throws < MaxThrows
      /\ UNCHANGED <<statVars, prefill_progress, output_tokens, finish_reason, state>>
  BY DEF EngineStepThrows, ExecutorThrows, requestVars
<1>2. plan.aborted = <<>>
  <2>1. throws \in 0 .. MaxThrows
    BY InvSplit DEF StepType
  <2>2. MaxThrows # 0
    BY <1>1, <2>1
  <2>3. AbortsPlanned
    BY <1>1, EngineSplit DEF InStep
  <2> QED BY <2>2, <2>3 DEF AbortsPlanned
<1>3. Len(plan'.aborted) = Len(plan.aborted)
  BY <1>1, <1>2 DEF EmptyPlan
<1> QED BY <1>1, <1>3, StatsQuiet

LEMMA StatsNext ==
  ASSUME AdmissionPolicy = "reserve_full" \/ MaxThrows = 0,
         SchedInv, EngineInv, StatsInv, [EngineNext]_engineVars
  PROVE  StatsInv'
<1>1. CASE UNCHANGED engineVars
  <2>1. UNCHANGED <<statVars, prefill_progress, output_tokens, finish_reason, state, plan, pc, results>>
    BY <1>1 DEF engineVars, schedVars, requestVars, stepVars
  <2>2. /\ StepCommitted' /\ RowsUncounted' = RowsUncounted /\ PromptUncounted' = PromptUncounted
    BY <2>1 DEF StatsInv, StepCommitted, RowsUncounted, PromptUncounted, RowsDone, is_prefill
  <2> QED BY <2>1, <2>2, StatsSame
<1>2. CASE \E p \in Workload : EngineAddRequest(p)
  BY <1>2, StatsPlanning DEF EngineAddRequest
<1>3. CASE EngineStepInternal
  <2>1. UNCHANGED statVars
    BY <1>3 DEF EngineStepInternal
  <2>2. CASE AbortYoungestRunning
    BY <2>1, <2>2, StatsAbort
  <2>3. CASE StepBegin \/ StepEmpty \/ (PlanStep /\ ~AbortYoungestRunning)
    BY <2>1, <2>3, StatsPlanning DEF PlanStep
  <2>4. CASE Execute
    BY <2>1, <2>4, StatsExecute
  <2>5. CASE CompleteStep
    <3>1. ASSUME NEW sampled \in Tokens, CompletePrefillFinal(sampled) \/ CompleteDecodeRow(sampled)
          PROVE  StatsInv'
      BY <2>1, <3>1, StatsPrefillFinal, StatsDecodeRow
    <3> QED BY <2>1, <2>5, <3>1, StatsPrefillChunk, StatsCompleteDecode DEF CompleteStep
  <2> QED BY <1>3, <2>2, <2>3, <2>4, <2>5 DEF EngineStepInternal
<1>4. CASE EngineStepThrows
  BY <1>4, StatsThrows
<1>5. CASE EngineStepReturns
  BY <1>5, StatsReturns
<1> QED BY <1>1, <1>2, <1>3, <1>4, <1>5 DEF EngineNext

-----------------------------------------------------------------------------
(***************************************************************************)
(* generate().  First what any step of the engine leaves alone, and what   *)
(* the last result of a request says.                                      *)
(***************************************************************************)

\* Every row that is committed is one of a live request with no result yet.
LEMMA CommittedRow ==
  ASSUME SchedInv, EngineInv, NEW sampled \in Tokens,
         CompletePrefillFinal(sampled) \/ CompleteDecodeRow(sampled)
  PROVE  \E r \in Ids : /\ state[r] \in {"prefill", "running"} /\ ~HasResult(r)
                        /\ ApplySampledToken(r, sampled) /\ plan' = plan /\ pc = "commit"
<1>1. CASE CompletePrefillFinal(sampled)
  <2>1. /\ pc = "commit" /\ is_prefill /\ UNCHANGED plan /\ ApplySampledToken(plan.prefill, sampled)
    BY <1>1 DEF CompletePrefillFinal
  <2>2. PICK r \in Ids : r = plan.prefill /\ state[r] = "prefill"
    BY <2>1, CommittedPrefill
  <2>3. plan.decode = <<>> /\ plan.aborted = <<>> /\ RowsDone \in 0 .. Len(plan.decode)
    BY <2>1, InvSplit DEF PlanMatchesQueues
  <2>4. Len(results) = 0
    <3>1. RowsDone = 0 /\ Len(plan.aborted) = 0
      BY <2>3
    <3> QED BY <3>1, ResultTypes DEF RowsDone
  <2>5. ~HasResult(r)
    BY <2>4, ResultTypes DEF HasResult
  <2> QED BY <2>1, <2>2, <2>5
<1>2. CASE CompleteDecodeRow(sampled)
  <2>1. /\ pc = "commit" /\ ~is_prefill /\ UNCHANGED plan /\ RowsDone < Len(plan.decode)
        /\ ApplySampledToken(plan.decode[RowsDone + 1], sampled)
    BY <1>2 DEF CompleteDecodeRow
  <2>2. PICK d \in Nat : d = Len(plan.decode) /\ \A k \in 1 .. d : plan.decode[k] \in Ids
    BY PlanTypes
  <2>3. PICK n \in Nat : /\ n = RowsDone /\ n < d
                         /\ \A k \in n + 1 .. d : state[plan.decode[k]] = "running"
    BY <2>1, <2>2, InvSplit DEF PlanMatchesQueues
  <2>4. n + 1 \in n + 1 .. d /\ n + 1 \in 1 .. d
    BY <2>3
  <2>5. ~HasResult(plan.decode[n + 1])
    BY <2>1, <2>2, <2>3, <2>4, EngineSplit DEF InStep
  <2> QED BY <2>1, <2>2, <2>3, <2>4, <2>5
<1> QED BY <1>1, <1>2

\* What ApplySampledToken does to the request and the results.
LEMMA SampledReport ==
  ASSUME SchedInv, NEW r \in Ids, state[r] \in {"prefill", "running"},
         NEW sampled \in Tokens, ApplySampledToken(r, sampled)
  PROVE  \E x \in StepResult :
           /\ x.request_id = r /\ x.token = sampled /\ x.finish_reason # "aborted"
           /\ results' = Append(results, x)
           /\ x.finished => finish_reason'[r] = x.finish_reason
           /\ Len(output_tokens'[r]) = Len(output_tokens[r]) + 1
           /\ \A q \in Ids \ {r} : /\ output_tokens'[q] = output_tokens[q]
                                   /\ finish_reason'[q] = finish_reason[q] /\ state'[q] = state[q]
<1>1. PICK why : why = StopReason(r, Appended(r, sampled))
  OBVIOUS
<1>2. why \in {"none", "eos", "length"}
  BY <1>1 DEF StopReason
<1>3. PICK x : x = [request_id |-> r, token |-> sampled, finished |-> why # "none", finish_reason |-> why]
  OBVIOUS
<1>4. /\ x \in StepResult /\ x.request_id = r /\ x.token = sampled
      /\ x.finish_reason = why /\ (x.finished <=> why # "none")
  BY <1>2, <1>3 DEF StepResult, FinishReasons
<1>5. results' = Append(results, x)
  BY <1>1, <1>3 DEF ApplySampledToken
<1>6. Core /\ results \in Seq(Result)
  BY InvSplit DEF StepType, Result
<1>7. /\ Len(output_tokens'[r]) = Len(output_tokens[r]) + 1
      /\ \A s \in Ids \ {r} : output_tokens'[s] = output_tokens[s]
  BY <1>6, SampledToken
<1>8. state \in [Ids -> States] /\ finish_reason \in [Ids -> FinishReasons]
  BY <1>6 DEF Core, CoreType
<1>9. CASE why = "none"
  <2>1. state' = [state EXCEPT ![r] = "running"] /\ finish_reason' = finish_reason
    BY <1>1, <1>9 DEF ApplySampledToken
  <2>2. \A q \in Ids \ {r} : finish_reason'[q] = finish_reason[q] /\ state'[q] = state[q]
    BY <1>8, <2>1
  <2> QED BY <1>4, <1>5, <1>7, <1>9, <2>2
<1>10. CASE why # "none"
  <2>1. state' = [state EXCEPT ![r] = "finished"] /\ finish_reason' = [finish_reason EXCEPT ![r] = why]
    BY <1>1, <1>10 DEF ApplySampledToken
  <2>2. /\ \A q \in Ids \ {r} : finish_reason'[q] = finish_reason[q] /\ state'[q] = state[q]
        /\ finish_reason'[r] = why
    BY <1>8, <2>1
  <2>3. why # "aborted"
    BY <1>2
  <2> QED BY <1>4, <1>5, <1>7, <2>2, <2>3
<1> QED BY <1>9, <1>10

Frozen(r) ==
  state'[r] = "finished" /\ output_tokens'[r] = output_tokens[r] /\ finish_reason'[r] = finish_reason[r]

\* A request that is finished stays as it is.
LEMMA FinishedFrozen ==
  ASSUME SchedInv, EngineInv, [EngineNext]_engineVars
  PROVE  \A r \in Ids : state[r] = "finished" => Frozen(r)
<1> SUFFICES ASSUME NEW r \in Ids, state[r] = "finished" PROVE Frozen(r)
  OBVIOUS
<1>1. state \in [Ids -> States] /\ finish_reason \in [Ids -> FinishReasons]
  BY InvSplit DEF Core, CoreType
<1>2. ASSUME UNCHANGED <<state, output_tokens, finish_reason>> PROVE Frozen(r)
  BY <1>2 DEF Frozen
<1>3. ASSUME NEW q \in Ids, NEW s, q # r, state' = [state EXCEPT ![q] = s],
             UNCHANGED <<output_tokens, finish_reason>>
      PROVE  Frozen(r)
  BY <1>1, <1>3 DEF Frozen
<1>4. CASE \E p \in Workload : EngineAddRequest(p)
  <2>1. /\ UNCHANGED <<output_tokens, finish_reason>> /\ next_request_id \in Ids
        /\ state' = [state EXCEPT ![next_request_id] = "waiting"]
    BY <1>4 DEF EngineAddRequest, AddRequest, Enqueue
  <2>2. state[next_request_id] = "none"
    <3>1. AcceptedValid /\ next_request_id \in 1 .. MaxRequests + 1
      BY InvSplit DEF Core, CoreType
    <3> QED BY <2>1, <3>1 DEF AcceptedValid
  <2> QED BY <1>3, <2>1, <2>2
<1>5. CASE Admit
  <2>1. PICK q : /\ q = Head(waiting) /\ state' = [state EXCEPT ![q] = "prefill"] /\ waiting # <<>>
                 /\ UNCHANGED <<output_tokens, finish_reason>>
    BY <1>5 DEF Admit, CanAdmitHead
  <2>2. q \in Ids /\ state[q] = "waiting"
    <3>1. waiting \in Seq(Ids) /\ Range(waiting) = {s \in Ids : state[s] = "waiting"}
      BY InvSplit DEF Core, CoreType, AdmissionOrder
    <3>2. q \in Range(waiting)
      BY <2>1, <3>1 DEF Range
    <3> QED BY <3>1, <3>2
  <2> QED BY <1>3, <2>1, <2>2
<1>6. CASE AbortYoungestRunning
  <2>1. /\ pc = "decode" /\ DecodeLoop /\ UNCHANGED output_tokens
    BY <1>6 DEF AbortYoungestRunning
  <2>2. running # <<>> /\ running \in Seq(Ids) /\ CoreType /\ AdmissionOrder
    BY <2>1, CandidateRuns, PlanTypes, InvSplit DEF Core
  <2>3. PICK v \in Ids : v = Last(running) /\ state[v] = "running"
    BY <2>2, PopYoungest DEF AdmissionOrder
  <2>4. /\ state' = [state EXCEPT ![v] = "finished"]
        /\ finish_reason' = [finish_reason EXCEPT ![v] = "aborted"]
    BY <1>6, <2>3 DEF AbortYoungestRunning, Victim
  <2> QED BY <1>1, <2>1, <2>3, <2>4 DEF Frozen
<1>7. CASE \/ UNCHANGED engineVars \/ StepBegin \/ PlanPrefill \/ MaterializePrefillBlock \/ PrefillPlanned
           \/ PlanDecode \/ DecodeRow \/ DecodeRowReserved \/ DecodeRowClaimed \/ DecodePlanned
           \/ StepEmpty \/ Execute \/ CompletePrefillChunk \/ CompleteDecode
           \/ EngineStepThrows \/ EngineStepReturns
  <2>1. UNCHANGED <<state, output_tokens, finish_reason>>
    BY <1>7 DEF engineVars, schedVars, StepBegin, PlanPrefill, MaterializePrefillBlock, PrefillPlanned,
                PlanDecode, DecodeRow, DecodeRowReserved, DecodeRowClaimed, DecodePlanned, StepEmpty, Execute,
                CompletePrefillChunk, CompleteDecode, EngineStepThrows, ExecutorThrows, EngineStepReturns,
                StepReturn, requestVars
  <2> QED BY <1>2, <2>1
<1>8. ASSUME NEW sampled \in Tokens, CompletePrefillFinal(sampled) \/ CompleteDecodeRow(sampled)
      PROVE  Frozen(r)
  <2>1. PICK q \in Ids : state[q] \in {"prefill", "running"} /\ ApplySampledToken(q, sampled)
    BY <1>8, CommittedRow
  <2>2. q # r
    BY <2>1
  <2> QED BY <2>1, <2>2, SampledReport DEF Frozen
<1> QED BY <1>4, <1>5, <1>6, <1>7, <1>8 DEF EngineNext, EngineStepInternal, PlanStep, CompleteStep

\* What LastResults says of one result.
LEMMA ResultSays ==
  ASSUME LastResults, NEW i \in DOMAIN results, results[i].finished
  PROVE  LET r == results[i].request_id IN
         /\ results[i].finish_reason = finish_reason[r]
         /\ Len(output_tokens[r]) =
              Len(delivered[r]) + (IF results[i].finish_reason = "aborted" THEN 0 ELSE 1)
BY Zenon DEF LastResults

\* A step that reports nothing and aborts nobody.
LEMMA LastResultsQuiet ==
  ASSUME SchedInv, EngineInv, LastResults, [EngineNext]_engineVars,
         UNCHANGED <<results, delivered>>, plan'.aborted = plan.aborted
  PROVE  LastResults'
<1>1. \A r \in Ids : state[r] = "finished" => Frozen(r)
  BY FinishedFrozen
<1>2. ASSUME NEW i \in DOMAIN results', results'[i].finished
      PROVE  LET r == results'[i].request_id IN
             /\ results'[i].finish_reason = finish_reason'[r]
             /\ Len(output_tokens'[r]) =
                  Len(delivered'[r]) + (IF results'[i].finish_reason = "aborted" THEN 0 ELSE 1)
  <2>1. PICK x, r : x = results[i] /\ r = x.request_id /\ results'[i] = x
    OBVIOUS
  <2>2. r \in Ids /\ ResultAllowed(x)
    BY <1>2, <2>1, ResultTypes, EngineSplit DEF Reported, ResultsAllowed
  <2>3. Frozen(r)
    BY <1>1, <1>2, <2>1, <2>2 DEF ResultAllowed
  <2>4. /\ x.finish_reason = finish_reason[r]
        /\ Len(output_tokens[r]) = Len(delivered[r]) + (IF x.finish_reason = "aborted" THEN 0 ELSE 1)
    BY <1>2, <2>1, ResultSays
  <2> QED BY <2>1, <2>3, <2>4 DEF Frozen
<1>3. ASSUME NEW k \in DOMAIN plan'.aborted
      PROVE  LET r == plan'.aborted[k] IN
             /\ state'[r] = "finished" /\ finish_reason'[r] = "aborted"
             /\ Len(output_tokens'[r]) = Len(delivered'[r])
  <2>1. PICK r \in Ids : r = plan.aborted[k] /\ r = plan'.aborted[k]
    BY <1>3, PlanTypes
  <2>2. state[r] = "finished" /\ finish_reason[r] = "aborted" /\ Len(output_tokens[r]) = Len(delivered[r])
    BY <1>3, <2>1 DEF LastResults
  <2> QED BY <1>1, <2>1, <2>2 DEF Frozen
<1> QED BY <1>2, <1>3 DEF LastResults

\* A victim has given its client all it has produced.
LEMMA LastResultsAbort ==
  ASSUME SchedInv, EngineInv, LastResults, [EngineNext]_engineVars,
         AbortYoungestRunning, UNCHANGED delivered
  PROVE  LastResults'
<1>1. /\ pc = "decode" /\ DecodeLoop /\ UNCHANGED <<results, output_tokens>>
  BY DEF AbortYoungestRunning
<1>2. running # <<>> /\ running \in Seq(Ids) /\ CoreType /\ AdmissionOrder
  BY <1>1, CandidateRuns, PlanTypes, InvSplit DEF Core
<1>3. PICK v \in Ids : v = Last(running) /\ state[v] = "running"
  BY <1>2, PopYoungest DEF AdmissionOrder
<1>4. /\ state' = [state EXCEPT ![v] = "finished"]
      /\ finish_reason' = [finish_reason EXCEPT ![v] = "aborted"]
      /\ plan' = [plan EXCEPT !.aborted = Append(@, v)]
  BY <1>3 DEF AbortYoungestRunning, Victim
<1>5. plan'.aborted = Append(plan.aborted, v)
  <2>1. plan \in [prefill : Ids \union {nullptr}, begin : Nat, end : Nat,
                  decode : Seq(Ids), aborted : Seq(Ids)]
    BY InvSplit DEF StepType
  <2>2. PICK a : a = Append(plan.aborted, v) /\ plan' = [plan EXCEPT !.aborted = a]
    BY <1>4
  <2> QED BY <2>1, <2>2
<1>6. PICK n \in Nat : n = Len(plan.aborted) /\ DOMAIN plan.aborted = 1 .. n /\ plan.aborted \in Seq(Ids)
  BY PlanTypes
<1>7. /\ DOMAIN plan'.aborted = 1 .. n + 1
      /\ plan'.aborted[n + 1] = v /\ \A k \in 1 .. n : plan'.aborted[k] = plan.aborted[k]
  BY <1>5, <1>6
<1>8. state'[v] = "finished" /\ finish_reason'[v] = "aborted"
  BY <1>2, <1>4 DEF CoreType
<1>9. results = <<>> /\ ~HasResult(v)
  BY <1>1, NoResults
<1>10. Len(output_tokens[v]) = Len(delivered[v])
  <2>1. CaughtUp(v)
    BY EngineSplit DEF Reported
  <2>2. Len(output_tokens[v]) = Len(delivered[v]) + 0
    BY <1>3, <1>9, <2>1 DEF CaughtUp
  <2>3. Len(delivered[v]) \in Nat
    <3>1. delivered[v] \in Seq(StepResult)
      BY EngineSplit DEF Reported
    <3> QED BY <3>1
  <2> QED BY <2>2, <2>3
<1>11. ASSUME NEW k \in 1 .. n + 1
       PROVE  LET r == plan'.aborted[k] IN
              /\ state'[r] = "finished" /\ finish_reason'[r] = "aborted"
              /\ Len(output_tokens'[r]) = Len(delivered'[r])
  <2>1. CASE k = n + 1
    BY <1>1, <1>7, <1>8, <1>10, <2>1
  <2>2. CASE k # n + 1
    <3>1. k \in 1 .. n
      BY <2>2
    <3>2. PICK r \in Ids : r = plan.aborted[k] /\ r = plan'.aborted[k]
      BY <1>6, <1>7, <3>1
    <3>3. state[r] = "finished" /\ finish_reason[r] = "aborted" /\ Len(output_tokens[r]) = Len(delivered[r])
      BY <1>6, <3>1, <3>2 DEF LastResults
    <3>4. Frozen(r)
      BY <3>3, FinishedFrozen
    <3> QED BY <3>2, <3>3, <3>4 DEF Frozen
  <2> QED BY <2>1, <2>2
<1>12. DOMAIN results' = {}
  BY <1>1, <1>9
<1> QED BY <1>7, <1>11, <1>12 DEF LastResults

LEMMA LastResultsExecute ==
  ASSUME SchedInv, EngineInv, LastResults, Execute, UNCHANGED delivered
  PROVE  LastResults'
<1>1. /\ UNCHANGED <<plan, state, output_tokens, finish_reason>>
      /\ results' = [i \in 1 .. Len(plan.aborted) |-> AbortResult(plan.aborted[i])]
  BY DEF Execute, requestVars
<1>2. PICK n \in Nat : n = Len(plan.aborted) /\ DOMAIN plan.aborted = 1 .. n /\ plan.aborted \in Seq(Ids)
  BY PlanTypes
<1>3. /\ DOMAIN results' = 1 .. n
      /\ \A k \in 1 .. n : /\ results'[k].request_id = plan.aborted[k]
                           /\ results'[k].finish_reason = "aborted"
  BY <1>1, <1>2 DEF AbortResult
<1>4. \A k \in 1 .. n : LET r == plan.aborted[k] IN
        /\ state[r] = "finished" /\ finish_reason[r] = "aborted" /\ Len(output_tokens[r]) = Len(delivered[r])
  BY <1>2 DEF LastResults
<1>5. ASSUME NEW k \in 1 .. n PROVE Len(delivered[plan.aborted[k]]) \in Nat
  <2>1. plan.aborted[k] \in Ids /\ delivered \in [Ids -> Seq(StepResult)]
    BY <1>2, EngineSplit DEF Reported
  <2>2. delivered[plan.aborted[k]] \in Seq(StepResult)
    BY <2>1
  <2> QED BY <2>2
<1>6. ASSUME NEW k \in 1 .. n
      PROVE  LET r == results'[k].request_id IN
             /\ results'[k].finish_reason = finish_reason'[r]
             /\ Len(output_tokens'[r]) =
                  Len(delivered'[r]) + (IF results'[k].finish_reason = "aborted" THEN 0 ELSE 1)
  <2>1. PICK r : r = plan.aborted[k] /\ r = results'[k].request_id
    BY <1>3
  <2>2. finish_reason[r] = "aborted" /\ Len(output_tokens[r]) = Len(delivered[r]) /\ Len(delivered[r]) \in Nat
    BY <1>4, <1>5, <2>1
  <2>3. results'[k].finish_reason = "aborted"
    BY <1>3
  <2>4. Len(output_tokens'[r]) = Len(delivered'[r]) + 0
    BY <1>1, <2>2
  <2> QED BY <1>1, <2>1, <2>2, <2>3, <2>4
<1>7. \A k \in DOMAIN plan'.aborted : LET r == plan'.aborted[k] IN
        /\ state'[r] = "finished" /\ finish_reason'[r] = "aborted"
        /\ Len(output_tokens'[r]) = Len(delivered'[r])
  BY <1>1, <1>2, <1>4
<1> QED BY <1>3, <1>6, <1>7 DEF LastResults

LEMMA LastResultsSampled ==
  ASSUME SchedInv, EngineInv, LastResults, [EngineNext]_engineVars, UNCHANGED delivered,
         NEW sampled \in Tokens, CompletePrefillFinal(sampled) \/ CompleteDecodeRow(sampled)
  PROVE  LastResults'
<1>1. PICK r \in Ids : /\ state[r] \in {"prefill", "running"} /\ ~HasResult(r)
                       /\ ApplySampledToken(r, sampled) /\ plan' = plan
  BY CommittedRow
<1>2. PICK x \in StepResult :
        /\ x.request_id = r /\ x.finish_reason # "aborted" /\ results' = Append(results, x)
        /\ x.finished => finish_reason'[r] = x.finish_reason
        /\ Len(output_tokens'[r]) = Len(output_tokens[r]) + 1
        /\ \A q \in Ids \ {r} : /\ output_tokens'[q] = output_tokens[q]
                                /\ finish_reason'[q] = finish_reason[q] /\ state'[q] = state[q]
  BY <1>1, SampledReport
<1>3. PICK m \in Nat : m = Len(results) /\ DOMAIN results = 1 .. m /\ results \in Seq(StepResult)
  BY ResultTypes
<1>4. /\ DOMAIN results' = 1 .. m + 1 /\ results'[m + 1] = x
      /\ \A i \in 1 .. m : results'[i] = results[i]
  BY <1>2, <1>3
<1>5. Len(output_tokens'[r]) = Len(delivered'[r]) + 1
  <2>1. CaughtUp(r) /\ delivered[r] \in Seq(StepResult)
    BY EngineSplit DEF Reported
  <2>2. Len(output_tokens[r]) = Len(delivered[r]) + 0 /\ Len(delivered[r]) \in Nat
    BY <1>1, <2>1 DEF CaughtUp
  <2> QED BY <1>2, <2>2
<1>6. ASSUME NEW i \in 1 .. m + 1, results'[i].finished
      PROVE  LET q == results'[i].request_id IN
             /\ results'[i].finish_reason = finish_reason'[q]
             /\ Len(output_tokens'[q]) =
                  Len(delivered'[q]) + (IF results'[i].finish_reason = "aborted" THEN 0 ELSE 1)
  <2>1. CASE i = m + 1
    BY <1>2, <1>4, <1>5, <1>6, <2>1
  <2>2. CASE i # m + 1
    <3>1. i \in 1 .. m
      BY <2>2
    <3>2. PICK y, q : y = results[i] /\ y = results'[i] /\ q = y.request_id
      BY <1>4, <3>1
    <3>3. q \in Ids /\ q # r
      BY <1>1, <1>3, <3>1, <3>2, ResultTypes DEF HasResult
    <3>4. /\ y.finish_reason = finish_reason[q]
          /\ Len(output_tokens[q]) = Len(delivered[q]) + (IF y.finish_reason = "aborted" THEN 0 ELSE 1)
      <4>1. i \in DOMAIN results /\ results[i].finished
        BY <1>3, <1>6, <3>1, <3>2
      <4> QED BY <3>2, <4>1, ResultSays
    <3> QED BY <1>2, <3>2, <3>3, <3>4
  <2> QED BY <2>1, <2>2
<1>7. ASSUME NEW k \in DOMAIN plan'.aborted
      PROVE  LET q == plan'.aborted[k] IN
             /\ state'[q] = "finished" /\ finish_reason'[q] = "aborted"
             /\ Len(output_tokens'[q]) = Len(delivered'[q])
  <2>1. PICK q \in Ids : q = plan.aborted[k] /\ q = plan'.aborted[k]
    BY <1>1, <1>7, PlanTypes
  <2>2. state[q] = "finished" /\ finish_reason[q] = "aborted" /\ Len(output_tokens[q]) = Len(delivered[q])
    BY <1>1, <1>7, <2>1 DEF LastResults
  <2>3. Frozen(q)
    BY <2>2, FinishedFrozen
  <2> QED BY <2>1, <2>2, <2>3 DEF Frozen
<1> QED BY <1>4, <1>6, <1>7 DEF LastResults

LEMMA LastResultsNext ==
  ASSUME AdmissionPolicy = "reserve_full" \/ MaxThrows = 0,
         SchedInv, EngineInv, LastResults, [EngineNext]_engineVars
  PROVE  LastResults'
<1>1. plan \in [prefill : Ids \union {nullptr}, begin : Nat, end : Nat,
                decode : Seq(Ids), aborted : Seq(Ids)]
  BY InvSplit DEF StepType
<1>2. CASE \/ UNCHANGED engineVars \/ \E p \in Workload : EngineAddRequest(p)
  BY <1>2, LastResultsQuiet DEF engineVars, schedVars, stepVars, EngineAddRequest, AddRequest
<1>3. CASE EngineStepInternal
  <2>1. UNCHANGED delivered
    BY <1>3 DEF EngineStepInternal
  <2>2. CASE \/ StepBegin \/ StepEmpty \/ Admit \/ MaterializePrefillBlock \/ PrefillPlanned \/ PlanDecode
             \/ DecodePlanned \/ CompletePrefillChunk \/ CompleteDecode
    <3>1. UNCHANGED <<results, plan>>
      BY <2>2 DEF StepBegin, StepEmpty, Admit, MaterializePrefillBlock, PrefillPlanned, PlanDecode,
                  DecodePlanned, CompletePrefillChunk, CompleteDecode, stepVars
    <3> QED BY <2>1, <3>1, LastResultsQuiet
  <2>3. CASE PlanPrefill
    <3>1. PICK r, b, e : plan' = [plan EXCEPT !.prefill = r, !.begin = b, !.end = e] /\ UNCHANGED results
      BY <2>3 DEF PlanPrefill
    <3>2. plan'.aborted = plan.aborted
      BY <1>1, <3>1
    <3> QED BY <2>1, <3>1, <3>2, LastResultsQuiet
  <2>4. CASE DecodeRow \/ DecodeRowReserved \/ DecodeRowClaimed
    <3>1. PICK d : plan' = [plan EXCEPT !.decode = d] /\ UNCHANGED results
      BY <2>4 DEF DecodeRow, DecodeRowReserved, DecodeRowClaimed
    <3>2. plan'.aborted = plan.aborted
      BY <1>1, <3>1
    <3> QED BY <2>1, <3>1, <3>2, LastResultsQuiet
  <2>5. CASE AbortYoungestRunning
    BY <2>1, <2>5, LastResultsAbort
  <2>6. CASE Execute
    BY <2>1, <2>6, LastResultsExecute
  <2>7. ASSUME NEW sampled \in Tokens, CompletePrefillFinal(sampled) \/ CompleteDecodeRow(sampled)
        PROVE  LastResults'
    BY <2>1, <2>7, LastResultsSampled
  <2> QED BY <1>3, <2>2, <2>3, <2>4, <2>5, <2>6, <2>7 DEF EngineStepInternal, PlanStep, CompleteStep
<1>4. CASE EngineStepThrows \/ EngineStepReturns
  <2>1. plan' = EmptyPlan /\ (UNCHANGED results \/ results' = <<>>)
    BY <1>4 DEF EngineStepThrows, ExecutorThrows, EngineStepReturns, StepReturn
  <2>2. results' = <<>>
    <3>1. CASE EngineStepThrows
      <4>1. pc = "planned" /\ UNCHANGED results
        BY <3>1 DEF EngineStepThrows, ExecutorThrows
      <4> QED BY <4>1, NoResults
    <3>2. CASE EngineStepReturns
      BY <3>2 DEF EngineStepReturns, StepReturn
    <3> QED BY <1>4, <3>1, <3>2
  <2>3. DOMAIN results' = {} /\ DOMAIN plan'.aborted = {}
    BY <2>1, <2>2 DEF EmptyPlan
  <2> QED BY <2>3 DEF LastResults
<1> QED BY <1>2, <1>3, <1>4 DEF EngineNext

-----------------------------------------------------------------------------
(***************************************************************************)
(* The call: the loop over the results, then every step of generate.       *)
(***************************************************************************)
\* What one result makes of its completion.
Updated(c, x) ==
  [tokens |-> IF x.finish_reason = "aborted" THEN c.tokens ELSE Append(c.tokens, x.token),
   finish_reason |-> IF x.finished THEN x.finish_reason ELSE c.finish_reason]

LEMMA UpdatedType ==
  ASSUME NEW c \in Completion, NEW x \in StepResult
  PROVE  /\ Updated(c, x) \in Completion
         /\ Updated(c, x).finish_reason = IF x.finished THEN x.finish_reason ELSE c.finish_reason
         /\ Len(Updated(c, x).tokens) = Len(c.tokens) + (IF x.finish_reason = "aborted" THEN 0 ELSE 1)
<1>1. c.tokens \in Seq(Tokens) /\ c.finish_reason \in FinishReasons /\ Len(c.tokens) \in Nat
  BY DEF Completion
<1>2. x.token \in Tokens /\ x.finish_reason \in FinishReasons
  BY DEF StepResult
<1>3. /\ Append(c.tokens, x.token) \in Seq(Tokens)
      /\ Len(Append(c.tokens, x.token)) = Len(c.tokens) + 1
  BY <1>1, <1>2
<1>4. PICK t \in Seq(Tokens) : /\ t = IF x.finish_reason = "aborted" THEN c.tokens ELSE Append(c.tokens, x.token)
                               /\ Len(t) = Len(c.tokens) + (IF x.finish_reason = "aborted" THEN 0 ELSE 1)
  <2>1. CASE x.finish_reason = "aborted"
    BY <1>1, <2>1
  <2>2. CASE x.finish_reason # "aborted"
    BY <1>3, <2>2
  <2> QED BY <2>1, <2>2
<1>5. PICK w \in FinishReasons : w = IF x.finished THEN x.finish_reason ELSE c.finish_reason
  BY <1>1, <1>2
<1>6. Updated(c, x) = [tokens |-> t, finish_reason |-> w]
  BY <1>4, <1>5 DEF Updated
<1> QED BY <1>4, <1>5, <1>6 DEF Completion

LEMMA CollectOne ==
  ASSUME NEW K, NEW c \in [K -> Completion], NEW x \in StepResult, x.request_id \in K
  PROVE  /\ Collect(c, x) \in [K -> Completion]
         /\ Collect(c, x)[x.request_id] = Updated(c[x.request_id], x)
         /\ \A r \in K \ {x.request_id} : Collect(c, x)[r] = c[r]
<1>1. PICK q \in K : q = x.request_id
  OBVIOUS
<1>2. Collect(c, x) = [c EXCEPT ![q] = Updated(c[q], x)]
  BY <1>1 DEF Collect, Updated
<1>3. Updated(c[q], x) \in Completion
  BY UpdatedType
<1> QED BY <1>1, <1>2, <1>3

\* Completions is the last of the maps the loop goes through.
LEMMA CompletionsRecursion ==
  ASSUME NEW K, by_id \in [K -> Completion], NEW res \in Seq(StepResult), NEW N \in Nat, N = Len(res),
         \A i \in 1 .. N : res[i].request_id \in K
  PROVE  \E c : /\ Completions(res) = c[N] /\ c[0] = by_id
                /\ \A i \in 1 .. N : c[i] = Collect(c[i - 1], res[i])
<1> DEFINE D == [K -> Completion]
           step == [i \in 1 .. N |-> [m \in D |-> Collect(m, res[i])]]
           Body(p) == [i \in 0 .. N |-> IF i = 0 THEN by_id ELSE Collect(p[i - 1], res[i])]
<1>1. \A i \in 1 .. N : res[i] \in StepResult /\ res[i].request_id \in K
  OBVIOUS
<1>2. \A m \in D : \A i \in 1 .. N : Collect(m, res[i]) \in D
  BY <1>1, CollectOne
<1>3. step \in [1 .. N -> [D -> D]] /\ by_id \in D
  <2>1. by_id \in D
    OBVIOUS
  <2> HIDE DEF D
  <2> QED BY <1>2, <2>1
<1>4. PICK f \in [0 .. N -> D] : f[0] = by_id /\ \A i \in 1 .. N : f[i] = step[i][f[i - 1]]
  <2> HIDE DEF D, step
  <2>1. \E f : Solves(f, N, D, by_id, step)
    BY <1>3, RecursionExists
  <2> QED BY <2>1 DEF Solves
<1>5. \A i \in 1 .. N : f[i] = Collect(f[i - 1], res[i])
  <2> SUFFICES ASSUME NEW i \in 1 .. N PROVE f[i] = Collect(f[i - 1], res[i])
    OBVIOUS
  <2> HIDE DEF D
  <2>1. f[i - 1] \in D
    <3>1. i - 1 \in 0 .. N
      OBVIOUS
    <3> QED BY <3>1
  <2>2. f[i] = step[i][f[i - 1]]
    BY <1>4
  <2> QED BY <2>1, <2>2
<1>6. f = Body(f)
  <2>1. \A i \in 0 .. N : f[i] = IF i = 0 THEN by_id ELSE Collect(f[i - 1], res[i])
    BY <1>4, <1>5
  <2>2. f = [i \in 0 .. N |-> f[i]]
    OBVIOUS
  <2> QED BY <2>1, <2>2
<1>7. PICK c : c = (CHOOSE p : p = Body(p)) /\ Completions(res) = c[N]
  BY Zenon DEF Completions
<1>8. c = Body(c)
  <2> HIDE DEF Body
  <2> QED BY <1>6, <1>7
<1>9. \A i \in 0 .. N : c[i] = IF i = 0 THEN by_id ELSE Collect(c[i - 1], res[i])
  <2> HIDE <1>7
  <2> QED BY <1>8
<1> HIDE DEF Body
<1>10. c[0] = by_id
  <2>1. 0 \in 0 .. N
    OBVIOUS
  <2> QED BY <1>9, <2>1, Zenon
<1>11. ASSUME NEW i \in 1 .. N PROVE c[i] = Collect(c[i - 1], res[i])
  <2>1. i \in 0 .. N /\ i # 0
    OBVIOUS
  <2> QED BY <1>9, <2>1, Zenon
<1> QED BY <1>7, <1>10, <1>11, Zenon

\* With one result for a request at most, each completion takes its own.
LEMMA CompletionsAre ==
  ASSUME NEW K, by_id \in [K -> Completion], NEW res \in Seq(StepResult),
         \A i \in DOMAIN res : res[i].request_id \in K,
         \A i, j \in DOMAIN res : res[i].request_id = res[j].request_id => i = j
  PROVE  /\ Completions(res) \in [K -> Completion]
         /\ \A i \in DOMAIN res :
              Completions(res)[res[i].request_id] = Updated(by_id[res[i].request_id], res[i])
         /\ \A r \in K : (\A i \in DOMAIN res : res[i].request_id # r) => Completions(res)[r] = by_id[r]
<1>1. PICK N \in Nat : N = Len(res) /\ DOMAIN res = 1 .. N /\ \A i \in 1 .. N : res[i] \in StepResult
  OBVIOUS
<1>2. PICK c : /\ Completions(res) = c[N] /\ c[0] = by_id
               /\ \A i \in 1 .. N : c[i] = Collect(c[i - 1], res[i])
  <2>1. \A i \in 1 .. N : res[i].request_id \in K
    BY <1>1
  <2> QED BY <1>1, <2>1, CompletionsRecursion
<1> DEFINE After(n) ==
             /\ c[n] \in [K -> Completion]
             /\ \A i \in 1 .. n : c[n][res[i].request_id] = Updated(by_id[res[i].request_id], res[i])
             /\ \A r \in K : (\A i \in 1 .. n : res[i].request_id # r) => c[n][r] = by_id[r]
           S == {n \in 0 .. N : After(n)}
<1>3. 0 \in S
  <2>1. 1 .. 0 = {} /\ 0 \in 0 .. N
    OBVIOUS
  <2> QED BY <1>2, <2>1
<1>4. \A n \in 0 .. N - 1 : n \in S => n + 1 \in S
  <2> SUFFICES ASSUME NEW n \in 0 .. N - 1, n \in S PROVE n + 1 \in S
    OBVIOUS
  <2>1. After(n)
    OBVIOUS
  <2>2. PICK m \in 1 .. N : m = n + 1 /\ m - 1 = n
    OBVIOUS
  <2>3. PICK x \in StepResult : x = res[m] /\ x.request_id \in K
    BY <1>1, <2>2
  <2>4. PICK q \in K : q = x.request_id
    BY <2>3
  <2>5. c[m] = Collect(c[n], x)
    BY <1>2, <2>2, <2>3
  <2>6. /\ c[m] \in [K -> Completion] /\ c[m][q] = Updated(c[n][q], x)
        /\ \A r \in K \ {q} : c[m][r] = c[n][r]
    <3>1. PICK d \in [K -> Completion] : d = c[n]
      BY <2>1
    <3>2. /\ Collect(d, x) \in [K -> Completion]
          /\ Collect(d, x)[x.request_id] = Updated(d[x.request_id], x)
          /\ \A r \in K \ {x.request_id} : Collect(d, x)[r] = d[r]
      BY <2>3, CollectOne
    <3> QED BY <2>4, <2>5, <3>1, <3>2, Zenon
  <2>7. \A i \in 1 .. n : i \in 1 .. N /\ i # m /\ res[i].request_id \in K /\ res[i].request_id # q
    BY <1>1, <2>2, <2>3, <2>4
  <2>8. c[n][q] = by_id[q]
    BY <2>1, <2>4, <2>7
  <2>9. ASSUME NEW i \in 1 .. m PROVE c[m][res[i].request_id] = Updated(by_id[res[i].request_id], res[i])
    <3>1. CASE i = m
      BY <2>3, <2>4, <2>6, <2>8, <3>1
    <3>2. CASE i # m
      <4>1. i \in 1 .. n
        BY <2>2, <3>2
      <4> QED BY <2>1, <2>6, <2>7, <4>1
    <3> QED BY <3>1, <3>2
  <2>10. ASSUME NEW r \in K, \A i \in 1 .. m : res[i].request_id # r PROVE c[m][r] = by_id[r]
    <3>1. m \in 1 .. m /\ \A i \in 1 .. n : i \in 1 .. m
      BY <2>2
    <3>2. r # q /\ \A i \in 1 .. n : res[i].request_id # r
      BY <2>3, <2>4, <2>10, <3>1
    <3> QED BY <2>1, <2>6, <3>2
  <2> QED BY <2>2, <2>6, <2>9, <2>10
<1>5. N \in S
  <2> HIDE DEF S
  <2>1. 0 .. N \subseteq S
    BY <1>3, <1>4, UpTo
  <2> QED BY <2>1
<1> QED BY <1>1, <1>2, <1>5

Calling == {"submit", "step", "returned"}

\* The parts of the call that count what it waits for.
CallBooks ==
  /\ call \in Calling => unfinished = Cardinality(Awaited) /\ \A r \in DOMAIN by_id : UpToDate(r)
  /\ ~failed_before /\ call \notin Errors =>
       \A r \in Ids : state[r] # "none" /\ ~Service!Closed(delivered[r]) => r \in DOMAIN by_id
  /\ call \in {"unknown_id", "after_finish"} => failed_before

LEMMA GenerateSplit ==
  /\ GenerateInv <=> CallShape /\ LastResults /\ CallBooks
  /\ GenerateInv' <=> CallShape' /\ LastResults' /\ CallBooks'
BY DEF GenerateInv, CallBooks, Calling

LEMMA PromptsTyped ==
  ASSUME CallShape
  PROVE  prompts \in Seq(Workload)
<1>1. prompts \in Batches \/ prompts = <<>>
  BY DEF CallShape
<1>2. CASE prompts \in Batches
  BY <1>2, GenerateAssumption, Zenon
<1>3. CASE prompts = <<>>
  BY <1>3
<1> QED BY <1>1, <1>2, <1>3

\* The numbers of a call: its requests are the last ones the engine has accepted.
LEMMA CallTypes ==
  ASSUME SchedInv, CallShape
  PROVE  \E n \in Nat, k \in Nat, len \in Nat :
           /\ n = next_request_id /\ k = next_index /\ len = Len(prompts)
           /\ 1 <= k /\ k <= n /\ k <= len + 1 /\ n <= MaxRequests + 1
           /\ DOMAIN by_id = n - k + 1 .. n - 1 /\ DOMAIN by_id \subseteq Ids
           /\ by_id \in [DOMAIN by_id -> Completion]
           /\ \A r \in Ids : state[r] # "none" <=> r < n
           /\ IsFiniteSet(DOMAIN by_id) /\ Cardinality(DOMAIN by_id) = k - 1
           /\ IsFiniteSet(Awaited) /\ Cardinality(Awaited) \in Nat
<1>1. PICK n \in Nat : n = next_request_id /\ n <= MaxRequests + 1 /\ MaxRequests \in Nat
  <2>1. next_request_id \in 1 .. MaxRequests + 1
    BY InvSplit DEF Core, CoreType
  <2>2. MaxRequests \in Nat
    BY SchedulerAssumption
  <2> QED BY <2>1, <2>2
<1>2. PICK len \in Nat : len = Len(prompts)
  <2>1. prompts \in Seq(Workload)
    BY PromptsTyped
  <2> QED BY <2>1
<1>3. PICK k \in Nat : k = next_index /\ 1 <= k /\ k <= n /\ k <= len + 1
  BY <1>1, <1>2 DEF CallShape
<1>4. /\ DOMAIN by_id = n - k + 1 .. n - 1 /\ by_id \in [DOMAIN by_id -> Completion]
  BY <1>1, <1>3 DEF CallShape
<1>5. DOMAIN by_id \subseteq Ids
  BY <1>1, <1>3, <1>4 DEF Ids
<1>6. \A r \in Ids : state[r] # "none" <=> r < n
  BY <1>1, InvSplit DEF Core, AcceptedValid
<1>7. IsFiniteSet(DOMAIN by_id) /\ Cardinality(DOMAIN by_id) = k - 1
  <2>1. PICK a \in Int, b \in Int : a = n - k + 1 /\ b = n - 1
    OBVIOUS
  <2>2. /\ IsFiniteSet(a .. b) /\ Cardinality(a .. b) = IF a > b THEN 0 ELSE b - a + 1
    BY FS_Interval
  <2>3. Cardinality(a .. b) = k - 1
    BY <1>3, <2>1, <2>2
  <2> QED BY <1>4, <2>1, <2>2, <2>3
<1>8. IsFiniteSet(Awaited) /\ Cardinality(Awaited) \in Nat
  <2>1. Awaited \in SUBSET DOMAIN by_id
    BY DEF Awaited
  <2> QED BY <1>7, <2>1, FS_Subset, FS_CardinalityType
<1> QED BY <1>1, <1>2, <1>3, <1>4, <1>5, <1>6, <1>7, <1>8

\* generate uses the engine as any client may.
LEMMA GenerateIsEngine ==
  ASSUME SchedInv, CallShape, [GenerateNext]_genVars
  PROVE  [EngineNext]_engineVars
<1>1. CASE UNCHANGED genVars
  BY <1>1 DEF genVars
<1>2. CASE SubmitPrompt
  <2>1. EngineAddRequest(prompts[next_index]) /\ next_index <= Len(prompts)
    BY <1>2 DEF SubmitPrompt, PromptWanted
  <2>2. prompts \in Seq(Workload)
    BY PromptsTyped
  <2>3. next_index \in 1 .. Len(prompts)
    BY <2>1, CallTypes
  <2>4. prompts[next_index] \in Workload
    BY <2>2, <2>3
  <2> QED BY <2>1, <2>4 DEF EngineNext
<1>3. CASE \/ \E batch \in Batches : CallGenerate(batch)
           \/ PromptRejected \/ PromptsSubmitted \/ Finished
  BY <1>3 DEF CallGenerate, PromptRejected, PromptsSubmitted, Finished, genVars
<1>4. CASE CallSteps \/ CallStepReturns \/ CallStepRaises
  BY <1>4 DEF CallSteps, CallStepReturns, CallStepRaises, EngineNext
<1> QED BY <1>1, <1>2, <1>3, <1>4 DEF GenerateNext

\* What the engine has not told the client anything new about.
LEMMA StaysUpToDate ==
  ASSUME SchedInv, EngineInv, [EngineNext]_engineVars, NEW r \in Ids, UpToDate(r),
         by_id'[r] = by_id[r], delivered'[r] = delivered[r]
  PROVE  UpToDate(r)'
<1>1. Service!Closed(delivered[r])' <=> Service!Closed(delivered[r])
  BY DEF Service!Closed
<1>2. ASSUME Service!Closed(delivered[r])
      PROVE  finish_reason'[r] = finish_reason[r] /\ output_tokens'[r] = output_tokens[r]
  <2>1. CaughtUp(r)
    BY EngineSplit DEF Reported
  <2>2. state[r] = "finished"
    BY <1>2, <2>1 DEF CaughtUp
  <2> QED BY <2>2, FinishedFrozen DEF Frozen
<1> QED BY <1>1, <1>2 DEF UpToDate

\* A step that takes no result and no prompt, or the last of a call that fails.
LEMMA CallQuiet ==
  ASSUME SchedInv, SchedInv', EngineInv, GenerateInv, [EngineNext]_engineVars,
         UNCHANGED <<by_id, prompts, failed_before, next_index, unfinished, next_request_id>>,
         call' \in Errors \/ UNCHANGED delivered,
         call' = call \/ call' \in Calling \cup Errors,
         call' \in Calling => call \in Calling,
         call' # "step" => pc' = "idle",
         call' = "returned" => next_index > Len(prompts) /\ unfinished <= 0,
         call' \in {"unknown_id", "after_finish"} => failed_before
  PROVE  CallShape' /\ CallBooks'
<1>1. CallShape /\ CallBooks
  BY GenerateSplit
<1>2. call' \in {"none", "submit", "step", "returned"} \cup Errors
  BY <1>1 DEF CallShape, Calling
<1>3. call' = "none" => next_request_id' = 1
  BY <1>1 DEF CallShape, Calling, Errors
<1>4. CallShape'
  BY <1>1, <1>2, <1>3 DEF CallShape
<1>5. Awaited' = Awaited
  BY DEF Awaited
<1>6. DOMAIN by_id \subseteq Ids
  BY <1>1, CallTypes
<1>7. ASSUME call' \in Calling PROVE unfinished' = Cardinality(Awaited)' /\ \A r \in DOMAIN by_id' : UpToDate(r)'
  <2>1. call' \notin Errors /\ UNCHANGED delivered
    BY <1>7 DEF Calling, Errors
  <2>2. ASSUME NEW r \in DOMAIN by_id PROVE UpToDate(r)'
    <3>1. UpToDate(r) /\ r \in Ids
      BY <1>1, <1>6, <1>7 DEF CallBooks
    <3> QED BY <2>1, <3>1, StaysUpToDate
  <2> QED BY <1>1, <1>5, <1>7, <2>2 DEF CallBooks
<1>8. ASSUME ~failed_before', call' \notin Errors,
             NEW r \in Ids, state'[r] # "none", ~Service!Closed(delivered[r])'
      PROVE  r \in DOMAIN by_id'
  <2>1. UNCHANGED delivered /\ call \notin Errors
    BY <1>8 DEF Calling, Errors
  <2>2. state[r] # "none"
    <3>1. r < next_request_id'
      BY <1>8, InvSplitNext DEF Core, AcceptedValid
    <3>2. r < next_request_id
      BY <3>1
    <3> QED BY <3>2, InvSplit DEF Core, AcceptedValid
  <2>3. ~Service!Closed(delivered[r])
    BY <1>8, <2>1 DEF Service!Closed
  <2> QED BY <1>1, <1>8, <2>1, <2>2, <2>3 DEF CallBooks
<1>9. CallBooks'
  BY <1>7, <1>8 DEF CallBooks
<1> QED BY <1>4, <1>9

\* A new call; when none has failed before it the engine has no request left.
LEMMA CallStarts ==
  ASSUME SchedInv, EngineInv, GenerateInv, NEW batch \in Batches, CallGenerate(batch)
  PROVE  CallShape' /\ CallBooks'
<1>1. CallShape /\ CallBooks
  BY GenerateSplit
<1>2. /\ call \in {"none", "returned"} \cup Errors /\ prompts' = batch /\ call' = "submit"
      /\ failed_before' = (failed_before \/ call \in Errors)
      /\ next_index' = 1 /\ unfinished' = 0 /\ by_id' = <<>>
      /\ UNCHANGED <<pc, next_request_id, state, delivered>>
  BY DEF CallGenerate, engineVars, schedVars, stepVars, requestVars
<1>3. PICK n \in Nat, k \in Nat : /\ n = next_request_id /\ 1 <= k /\ k <= n
                                 /\ \A r \in Ids : state[r] # "none" <=> r < n
  BY <1>1, CallTypes
<1>4. by_id' \in [n - 1 + 1 .. n - 1 -> Completion] /\ DOMAIN by_id' = {}
  <2>1. n - 1 + 1 .. n - 1 = {}
    OBVIOUS
  <2>2. by_id' \in [{} -> Completion] /\ DOMAIN by_id' = {}
    BY <1>2
  <2> QED BY <2>1, <2>2
<1>5. batch \in Seq(Workload)
  BY GenerateAssumption, Zenon
<1>6. next_index' \in 1 .. Len(prompts') + 1
  <2>1. Len(prompts') \in Nat
    BY <1>2, <1>5
  <2> QED BY <1>2, <2>1
<1>7. pc' = "idle"
  <2>1. call # "step"
    BY <1>2 DEF Errors
  <2> QED BY <1>1, <1>2, <2>1 DEF CallShape
<1>8. failed_before' \in BOOLEAN /\ next_index' <= next_request_id'
  BY <1>1, <1>2, <1>3 DEF CallShape
<1>9. by_id' \in [next_request_id' - next_index' + 1 .. next_request_id' - 1 -> Completion]
  BY <1>2, <1>3, <1>4
<1>10. CallShape'
  BY <1>2, <1>6, <1>7, <1>8, <1>9 DEF CallShape
<1>11. unfinished' = Cardinality(Awaited)'
  <2>1. Awaited' = {}
    BY <1>4 DEF Awaited
  <2> QED BY <1>2, <2>1, FS_EmptySet
<1>12. ASSUME ~failed_before', NEW r \in Ids, state'[r] # "none"
       PROVE  Service!Closed(delivered[r])'
  <2>1. ~failed_before /\ call \in {"none", "returned"} /\ call \notin Errors
    BY <1>2, <1>12 DEF Errors
  <2>2. state[r] # "none"
    BY <1>2, <1>12
  <2>3. CASE call = "none"
    <3>1. n = 1
      BY <1>1, <1>3, <2>3 DEF CallShape
    <3>2. r < 1
      BY <1>3, <2>2, <3>1
    <3> QED BY <3>2 DEF Ids
  <2>4. CASE call = "returned"
    <3>1. unfinished = Cardinality(Awaited) /\ unfinished <= 0 /\ \A q \in DOMAIN by_id : UpToDate(q)
      BY <1>1, <2>4 DEF CallShape, CallBooks, Calling
    <3>2. Awaited = {}
      <4>1. PICK m \in Nat : m = Cardinality(Awaited) /\ IsFiniteSet(Awaited)
        BY <1>1, CallTypes
      <4>2. m = unfinished /\ unfinished <= 0
        BY <3>1, <4>1
      <4>3. m = 0
        BY <4>2
      <4> QED BY <4>1, <4>3, FS_EmptySet, Zenon
    <3>3. ASSUME ~Service!Closed(delivered[r]) PROVE FALSE
      <4>1. r \in DOMAIN by_id
        BY <1>1, <2>1, <2>2, <3>3 DEF CallBooks
      <4>2. by_id[r].finish_reason = "none"
        BY <3>1, <3>3, <4>1 DEF UpToDate
      <4> QED BY <3>2, <4>1, <4>2 DEF Awaited
    <3>4. Service!Closed(delivered[r])
      BY <3>3
    <3> QED BY <1>2, <3>4 DEF Service!Closed
  <2> QED BY <2>1, <2>3, <2>4
<1>13. CallBooks'
  BY <1>2, <1>4, <1>11, <1>12 DEF CallBooks
<1> QED BY <1>10, <1>13

LEMMA PromptSubmitted ==
  ASSUME SchedInv, EngineInv, GenerateInv, [EngineNext]_engineVars, SubmitPrompt
  PROVE  CallShape' /\ CallBooks'
<1>1. CallShape /\ CallBooks
  BY GenerateSplit
<1>2. /\ call = "submit" /\ next_index <= Len(prompts)
      /\ unfinished' = unfinished + 1 /\ next_index' = next_index + 1
      /\ UNCHANGED <<prompts, call, failed_before>>
      /\ UNCHANGED <<delivered, pc>> /\ next_request_id \in Ids
      /\ state' = [state EXCEPT ![next_request_id] = "waiting"]
      /\ next_request_id' = next_request_id + 1
  BY DEF SubmitPrompt, PromptWanted, EngineAddRequest, AddRequest, Enqueue, stepVars
<1>3. PICK n \in Nat, k \in Nat, len \in Nat :
        /\ n = next_request_id /\ k = next_index /\ len = Len(prompts)
        /\ 1 <= k /\ k <= n /\ k <= len + 1
        /\ DOMAIN by_id = n - k + 1 .. n - 1 /\ DOMAIN by_id \subseteq Ids
        /\ by_id \in [DOMAIN by_id -> Completion]
        /\ \A r \in Ids : state[r] # "none" <=> r < n
        /\ IsFiniteSet(Awaited) /\ Cardinality(Awaited) \in Nat
  BY <1>1, CallTypes
<1>4. PICK fresh \in Completion : fresh = [tokens |-> <<>>, finish_reason |-> "none"]
  <2>1. <<>> \in Seq(Tokens) /\ "none" \in FinishReasons
    BY DEF FinishReasons
  <2> QED BY <2>1 DEF Completion
<1>5. by_id' = [r \in DOMAIN by_id \cup {n} |-> IF r = n THEN fresh ELSE by_id[r]]
  BY <1>3, <1>4 DEF SubmitPrompt
<1>6. n \notin DOMAIN by_id /\ n \in Ids /\ DOMAIN by_id' = DOMAIN by_id \cup {n}
  BY <1>2, <1>3, <1>5
<1>7. /\ by_id'[n] = fresh /\ \A r \in DOMAIN by_id : by_id'[r] = by_id[r]
      /\ fresh.finish_reason = "none" /\ fresh.tokens = <<>>
  BY <1>4, <1>5, <1>6
<1>8. by_id' \in [next_request_id' - next_index' + 1 .. next_request_id' - 1 -> Completion]
  <2>1. (n - k + 1 .. n - 1) \cup {n} = (n + 1) - (k + 1) + 1 .. (n + 1) - 1
    BY <1>3
  <2>2. by_id' \in [DOMAIN by_id \cup {n} -> Completion]
    BY <1>3, <1>5
  <2> QED BY <1>2, <1>3, <2>1, <2>2
<1>9. CallShape'
  <2>1. next_index' \in 1 .. Len(prompts') + 1 /\ next_index' <= next_request_id'
    BY <1>2, <1>3
  <2>2. pc' = "idle"
    BY <1>1, <1>2 DEF CallShape
  <2> QED BY <1>1, <1>2, <1>8, <2>1, <2>2 DEF CallShape
<1>10. unfinished' = Cardinality(Awaited)'
  <2>1. Awaited' = Awaited \cup {n} /\ n \notin Awaited
    BY <1>6, <1>7 DEF Awaited
  <2>2. Cardinality(Awaited \cup {n}) = Cardinality(Awaited) + 1
    BY <1>3, <2>1, FS_AddElement
  <2>3. unfinished = Cardinality(Awaited)
    BY <1>1, <1>2 DEF CallBooks, Calling
  <2> QED BY <1>2, <2>1, <2>2, <2>3
<1>11. delivered[n] = <<>>
  <2>1. state[n] = "none"
    BY <1>3, <1>6
  <2>2. output_tokens[n] = <<>>
    BY <1>6, <2>1, InvSplit DEF Core, ProgressMatchesState
  <2>3. CaughtUp(n)
    BY <1>6, EngineSplit DEF Reported
  <2> QED BY <2>2, <2>3 DEF CaughtUp
<1>12. ASSUME NEW r \in DOMAIN by_id' PROVE UpToDate(r)'
  <2>1. CASE r = n
    <3>1. ~Service!Closed(delivered[r])' /\ Len(delivered'[r]) = 0
      BY <1>2, <1>11, <2>1 DEF Service!Closed
    <3>2. by_id'[r].finish_reason = "none" /\ Len(by_id'[r].tokens) = 0
      BY <1>7, <2>1
    <3> QED BY <3>1, <3>2 DEF UpToDate
  <2>2. CASE r # n
    <3>1. r \in DOMAIN by_id /\ r \in Ids /\ by_id'[r] = by_id[r] /\ delivered'[r] = delivered[r]
      BY <1>2, <1>3, <1>6, <1>7, <2>2
    <3>2. UpToDate(r)
      BY <1>1, <1>2, <3>1 DEF CallBooks, Calling
    <3> QED BY <3>1, <3>2, StaysUpToDate
  <2> QED BY <2>1, <2>2
<1>13. ASSUME ~failed_before', NEW r \in Ids, state'[r] # "none", ~Service!Closed(delivered[r])'
       PROVE  r \in DOMAIN by_id'
  <2>1. CASE r = n
    BY <1>6, <2>1
  <2>2. CASE r # n
    <3>1. state \in [Ids -> States]
      BY InvSplit DEF Core, CoreType
    <3>2. state[r] # "none"
      BY <1>2, <1>3, <1>13, <2>2, <3>1
    <3>3. ~Service!Closed(delivered[r])
      BY <1>2, <1>13 DEF Service!Closed
    <3>4. r \in DOMAIN by_id
      BY <1>1, <1>2, <1>13, <3>2, <3>3 DEF CallBooks, Errors
    <3> QED BY <1>6, <3>4
  <2> QED BY <2>1, <2>2
<1>14. call' = "submit"
  BY <1>2
<1>15. CallBooks'
  BY <1>10, <1>12, <1>13, <1>14 DEF CallBooks
<1> QED BY <1>9, <1>15

LEMMA EmptyStep ==
  ASSUME SchedInv, EngineStepInternal, pc' = "idle"
  PROVE  results = <<>>
<1>1. pc \notin {"commit", "return"}
  <2>1. CASE PlanStep \/ StepBegin \/ StepEmpty \/ Execute
    BY <2>1 DEF PlanStep, Admit, PlanPrefill, MaterializePrefillBlock, PrefillPlanned, PlanDecode, DecodeRow,
                DecodeRowReserved, DecodeRowClaimed, AbortYoungestRunning, DecodePlanned, StepBegin, StepEmpty,
                Execute
  <2>2. CASE CompleteStep
    BY <2>2 DEF CompleteStep, CompletePrefillChunk, CompletePrefillFinal, CompleteDecodeRow, CompleteDecode
  <2> QED BY <2>1, <2>2 DEF EngineStepInternal
<1> QED BY <1>1, NoResults

\* A result with a reason is the last one.
LEMMA ReasonTold ==
  ASSUME NEW r, NEW x \in Service!NextResults(r)
  PROVE  x.finished <=> x.finish_reason # "none"
<1>1. CASE x = Service!AbortNotice(r)
  BY <1>1 DEF Service!AbortNotice
<1>2. ASSUME NEW token \in Tokens, x = Service!TokenResult(r, token)
      PROVE  x.finished <=> x.finish_reason # "none"
  <2>1. PICK why : x = [request_id |-> r, token |-> token, finished |-> why # "none", finish_reason |-> why]
    BY <1>2 DEF Service!TokenResult
  <2> QED BY <2>1
<1> QED BY <1>1, <1>2 DEF Service!NextResults

\* The results of a step go to the completions they belong to.
LEMMA ResultsPlaced ==
  ASSUME SchedInv, EngineInv, GenerateInv, results # <<>>, ResultError(results) = "none", HandleResults(results)
  PROVE  /\ DOMAIN by_id \subseteq Ids /\ by_id \in [DOMAIN by_id -> Completion]
         /\ by_id' \in [DOMAIN by_id -> Completion]
         /\ \A i \in DOMAIN results :
              /\ results[i] \in StepResult /\ results[i].request_id \in DOMAIN by_id
              /\ by_id[results[i].request_id].finish_reason = "none"
              /\ ResultAllowed(results[i])
              /\ \A j \in DOMAIN results : results[i].request_id = results[j].request_id => i = j
              /\ by_id'[results[i].request_id] = Updated(by_id[results[i].request_id], results[i])
         /\ \A r \in DOMAIN by_id : ~HasResult(r) => by_id'[r] = by_id[r]
<1>1. CallShape
  BY GenerateSplit
<1>2. by_id' = Completions(results)
  BY DEF HandleResults
<1>3. PICK K : K = DOMAIN by_id /\ K \subseteq Ids /\ by_id \in [K -> Completion]
  BY <1>1, CallTypes
<1>4. ASSUME NEW i \in DOMAIN results
      PROVE  /\ results[i] \in StepResult /\ results[i].request_id \in K
             /\ by_id[results[i].request_id].finish_reason = "none"
             /\ ResultAllowed(results[i])
             /\ \A j \in DOMAIN results : results[i].request_id = results[j].request_id => i = j
  <2>1. results[i].request_id \in DOMAIN by_id /\ by_id[results[i].request_id].finish_reason = "none"
    BY DEF ResultError
  <2>2. /\ ResultAllowed(results[i])
        /\ \A j \in DOMAIN results : results[i].request_id = results[j].request_id => i = j
    BY EngineSplit DEF Reported, ResultsAllowed
  <2> QED BY <1>3, <2>1, <2>2, ResultTypes
<1>5. results \in Seq(StepResult)
  BY ResultTypes
<1>6. /\ Completions(results) \in [K -> Completion]
      /\ \A i \in DOMAIN results :
           Completions(results)[results[i].request_id] = Updated(by_id[results[i].request_id], results[i])
      /\ \A r \in K : (\A i \in DOMAIN results : results[i].request_id # r)
                        => Completions(results)[r] = by_id[r]
  BY <1>3, <1>4, <1>5, CompletionsAre
<1> QED BY <1>2, <1>3, <1>4, <1>6 DEF HasResult

LEMMA ResultsTaken ==
  ASSUME SchedInv, SchedInv', EngineInv, EngineInv', GenerateInv, [EngineNext]_engineVars, EngineStepReturns,
         call = "step", results # <<>>, ResultError(results) = "none", HandleResults(results)
  PROVE  CallShape' /\ CallBooks'
<1>1. CallShape /\ CallBooks /\ LastResults
  BY GenerateSplit
<1>2. /\ unfinished' = unfinished - Cardinality({i \in DOMAIN results : results[i].finished})
      /\ call' = "submit" /\ UNCHANGED <<prompts, failed_before, next_index>>
  BY DEF HandleResults
<1>3. /\ pc' = "idle" /\ Deliver
      /\ UNCHANGED <<next_request_id, state, output_tokens, finish_reason>>
  BY DEF EngineStepReturns, StepReturn, requestVars
<1>4. PICK K : /\ K = DOMAIN by_id /\ K \subseteq Ids /\ by_id \in [K -> Completion]
               /\ IsFiniteSet(Awaited) /\ Cardinality(Awaited) \in Nat
  BY <1>1, CallTypes
<1>5. ASSUME NEW i \in DOMAIN results
      PROVE  /\ results[i] \in StepResult /\ results[i].request_id \in K
             /\ by_id[results[i].request_id].finish_reason = "none"
             /\ ResultAllowed(results[i])
             /\ \A j \in DOMAIN results : results[i].request_id = results[j].request_id => i = j
  BY <1>4, ResultsPlaced
<1>6. /\ by_id' \in [K -> Completion]
      /\ \A i \in DOMAIN results :
           by_id'[results[i].request_id] = Updated(by_id[results[i].request_id], results[i])
      /\ \A r \in K : ~HasResult(r) => by_id'[r] = by_id[r]
  BY <1>4, ResultsPlaced
<1>7. CallShape'
  <2>1. by_id \in [next_request_id - next_index + 1 .. next_request_id - 1 -> Completion]
    BY <1>1 DEF CallShape
  <2>2. K = next_request_id - next_index + 1 .. next_request_id - 1
    BY <1>4, <2>1
  <2>3. by_id' \in [next_request_id' - next_index' + 1 .. next_request_id' - 1 -> Completion]
    BY <1>2, <1>3, <1>6, <2>2
  <2> QED BY <1>1, <1>2, <1>3, <2>3 DEF CallShape
\* What a result does to its completion.
<1>8. ASSUME NEW i \in DOMAIN results, NEW r \in K, r = results[i].request_id
      PROVE  UpToDate(r)' /\ (by_id'[r].finish_reason = "none" <=> ~results[i].finished)
  <2>1. PICK x \in StepResult : x = results[i] /\ ResultAllowed(x) /\ x.request_id = r
    BY <1>5, <1>8
  <2>2. r \in Ids /\ by_id[r] \in Completion /\ delivered[r] \in Seq(StepResult)
    BY <1>4, EngineSplit DEF Reported
  <2>3. ~Service!Closed(delivered[r]) /\ (x.finished <=> x.finish_reason # "none")
    BY <2>1, ReasonTold DEF ResultAllowed
  <2>4. delivered'[r] = Append(delivered[r], x)
    BY <1>3, <2>1, <2>2, DeliveredTo
  <2>5. Service!Closed(delivered'[r]) <=> x.finished
    BY <2>2, <2>3, <2>4, ClosedAppend
  <2>6. Service!Closed(delivered[r])' <=> x.finished
    BY <2>5 DEF Service!Closed
  <2>7. PICK len \in Nat : len = Len(delivered[r]) /\ Len(delivered'[r]) = len + 1
    BY <2>2, <2>4
  <2>8. UpToDate(r) /\ by_id[r].finish_reason = "none" /\ Len(by_id[r].tokens) = len
    <3>1. UpToDate(r)
      BY <1>1, <1>4 DEF CallBooks, Calling
    <3>2. by_id[r].finish_reason = "none"
      BY <1>5, <1>8
    <3> QED BY <2>3, <2>7, <3>1, <3>2 DEF UpToDate
  <2>9. by_id'[r] = Updated(by_id[r], x)
    BY <1>6, <1>8, <2>1
  <2>10. /\ by_id'[r].finish_reason = IF x.finished THEN x.finish_reason ELSE "none"
         /\ Len(by_id'[r].tokens) = len + (IF x.finish_reason = "aborted" THEN 0 ELSE 1)
    <3>1. PICK c \in Completion : c = by_id[r]
      BY <2>2
    <3>2. /\ Updated(c, x).finish_reason = IF x.finished THEN x.finish_reason ELSE c.finish_reason
          /\ Len(Updated(c, x).tokens) = Len(c.tokens) + (IF x.finish_reason = "aborted" THEN 0 ELSE 1)
      BY UpdatedType
    <3> QED BY <2>8, <2>9, <3>1, <3>2
  <2>11. CASE x.finished
    <3>1. /\ x.finish_reason = finish_reason[r]
          /\ Len(output_tokens[r]) = len + (IF x.finish_reason = "aborted" THEN 0 ELSE 1)
      BY <1>1, <2>1, <2>7, <2>11 DEF LastResults
    <3>2. by_id'[r].finish_reason = finish_reason'[r] /\ by_id'[r].finish_reason # "none"
      BY <1>3, <2>3, <2>10, <2>11, <3>1
    <3>3. Len(by_id'[r].tokens) = Len(output_tokens'[r])
      BY <1>3, <2>10, <3>1
    <3> QED BY <2>1, <2>6, <2>11, <3>2, <3>3 DEF UpToDate
  <2>12. CASE ~x.finished
    <3>1. x.finish_reason # "aborted" /\ by_id'[r].finish_reason = "none"
      BY <2>3, <2>10, <2>12
    <3>2. Len(by_id'[r].tokens) = Len(delivered'[r])
      BY <2>7, <2>10, <3>1
    <3> QED BY <2>1, <2>6, <2>12, <3>1, <3>2 DEF UpToDate
  <2> QED BY <2>11, <2>12
<1>9. ASSUME NEW r \in K, ~HasResult(r)
      PROVE  UpToDate(r)' /\ by_id'[r].finish_reason = by_id[r].finish_reason
  <2>1. r \in Ids /\ UpToDate(r) /\ by_id'[r] = by_id[r]
    BY <1>1, <1>4, <1>6, <1>9 DEF CallBooks, Calling
  <2>2. delivered'[r] = delivered[r]
    BY <1>3, <1>9, <2>1, DeliveredTo
  <2> QED BY <2>1, <2>2, StaysUpToDate
<1>10. DOMAIN by_id' = K
  BY <1>6
<1>11. \A r \in DOMAIN by_id' : UpToDate(r)'
  <2> SUFFICES ASSUME NEW r \in K PROVE UpToDate(r)'
    BY <1>10
  <2>1. CASE HasResult(r)
    <3>1. PICK i \in DOMAIN results : results[i].request_id = r
      BY <2>1 DEF HasResult
    <3> QED BY <1>8, <3>1
  <2> QED BY <1>9, <2>1
\* The call waits for those that had no last result.
<1> DEFINE last == {i \in DOMAIN results : results[i].finished}
           done == {results[i].request_id : i \in last}
<1>12. Awaited' = Awaited \ done /\ done \subseteq Awaited
  <2>1. ASSUME NEW r \in K PROVE r \in Awaited' <=> r \in Awaited /\ r \notin done
    <3>1. CASE HasResult(r)
      <4>1. PICK i \in DOMAIN results : results[i].request_id = r
        BY <3>1 DEF HasResult
      <4>2. r \in done <=> results[i].finished
        BY <1>5, <4>1
      <4>3. r \in Awaited /\ (r \in Awaited' <=> ~results[i].finished)
        BY <1>4, <1>5, <1>8, <1>10, <4>1 DEF Awaited
      <4> QED BY <4>2, <4>3
    <3>2. CASE ~HasResult(r)
      <4>1. r \notin done
        BY <3>2 DEF HasResult
      <4> QED BY <1>4, <1>9, <1>10, <3>2, <4>1 DEF Awaited
    <3> QED BY <3>1, <3>2
  <2>2. Awaited \subseteq K /\ Awaited' \subseteq K
    BY <1>4, <1>10 DEF Awaited
  <2>3. done \subseteq Awaited
    BY <1>4, <1>5 DEF Awaited
  <2> QED BY <2>1, <2>2, <2>3
<1>13. IsFiniteSet(last) /\ IsFiniteSet(done) /\ Cardinality(done) = Cardinality(last)
  <2>1. PICK N \in Nat : N = Len(results) /\ DOMAIN results = 1 .. N
    BY ResultTypes
  <2>2. IsFiniteSet(last)
    <3>1. IsFiniteSet(1 .. N) /\ last \in SUBSET (1 .. N)
      BY <2>1, FS_Interval
    <3> QED BY <3>1, FS_Subset
  <2> DEFINE f == [i \in last |-> results[i].request_id]
  <2>3. f \in Surjection(last, done)
    BY DEF Surjection
  <2>4. \A i, j \in last : f[i] = f[j] => i = j
    BY <1>5
  <2>5. f \in Injection(last, done)
    <3> HIDE DEF f, last, done
    <3> QED BY <2>3, <2>4 DEF Surjection, Injection, IsInjective
  <2> HIDE DEF f, last, done
  <2>6. /\ IsFiniteSet(done) /\ Cardinality(done) <= Cardinality(last)
        /\ Cardinality(done) = Cardinality(last) <=> f \in Injection(last, done)
    BY <2>2, <2>3, FS_Surjection
  <2> QED BY <2>2, <2>5, <2>6
<1>14. unfinished' = Cardinality(Awaited)'
  <2>1. unfinished = Cardinality(Awaited) /\ unfinished' = unfinished - Cardinality(last)
    BY <1>1, <1>2 DEF CallBooks, Calling
  <2> HIDE DEF last, done
  <2>2. Cardinality(Awaited \ done) = Cardinality(Awaited) - Cardinality(Awaited \cap done)
    BY <1>4, FS_Difference
  <2>3. Awaited \cap done = done
    BY <1>12
  <2> QED BY <1>12, <1>13, <2>1, <2>2, <2>3
<1>15. ASSUME ~failed_before', NEW r \in Ids, state'[r] # "none", ~Service!Closed(delivered[r])'
       PROVE  r \in DOMAIN by_id'
  <2>1. state[r] # "none" /\ ~failed_before /\ call \notin Errors
    BY <1>2, <1>3, <1>15 DEF Errors
  <2>2. ~Service!Closed(delivered[r])
    <3>1. CASE HasResult(r)
      <4>1. PICK i \in DOMAIN results : results[i].request_id = r
        BY <3>1 DEF HasResult
      <4>2. ResultAllowed(results[i])
        BY <1>5
      <4> QED BY <4>1, <4>2 DEF ResultAllowed
    <3>2. CASE ~HasResult(r)
      <4>1. delivered'[r] = delivered[r]
        BY <1>3, <3>2, DeliveredTo
      <4> QED BY <1>15, <4>1 DEF Service!Closed
    <3> QED BY <3>1, <3>2
  <2>3. r \in DOMAIN by_id
    BY <1>1, <2>1, <2>2 DEF CallBooks
  <2> QED BY <1>4, <1>10, <2>3
<1>16. CallBooks'
  BY <1>2, <1>11, <1>14, <1>15 DEF CallBooks
<1> QED BY <1>7, <1>16

\* A step whose results cannot be placed, or that has none.
LEMMA ResultsRefused ==
  ASSUME SchedInv, SchedInv', EngineInv, EngineInv', GenerateInv, [EngineNext]_engineVars,
         EngineStepReturns \/ (EngineStepInternal /\ pc' = "idle"), call = "step",
         results = <<>> \/ ResultError(results) # "none", HandleResults(results)
  PROVE  CallShape' /\ CallBooks'
<1>1. CallShape /\ CallBooks
  BY GenerateSplit
<1>2. pc' = "idle" /\ UNCHANGED next_request_id /\ (EngineStepReturns => Deliver)
  <2>1. CASE EngineStepReturns
    BY <2>1 DEF EngineStepReturns, StepReturn, requestVars
  <2>2. CASE EngineStepInternal /\ pc' = "idle" /\ ~EngineStepReturns
    <3>1. UNCHANGED next_request_id
      BY <2>2 DEF EngineStepInternal, CompleteStep, PlanStep, StepBegin, Admit, PlanPrefill,
                  MaterializePrefillBlock, PrefillPlanned, PlanDecode, DecodeRow, DecodeRowReserved,
                  DecodeRowClaimed, AbortYoungestRunning, DecodePlanned, StepEmpty, Execute,
                  CompletePrefillChunk, CompletePrefillFinal, CompleteDecodeRow, CompleteDecode,
                  ApplySampledToken, requestVars
    <3> QED BY <2>2, <3>1
  <2> QED BY <2>1, <2>2
<1>3. CASE results = <<>>
  <2>1. UNCHANGED delivered
    <3>1. CASE EngineStepReturns
      <4>1. \A r : ~HasResult(r)
        BY <1>3 DEF HasResult
      <4>2. \A r \in Ids : delivered'[r] = delivered[r]
        BY <1>2, <3>1, <4>1, DeliveredTo
      <4>3. delivered \in [Ids -> Seq(StepResult)] /\ delivered' \in [Ids -> Seq(StepResult)]
        BY EngineSplit, EngineSplitNext DEF Reported
      <4> QED BY <4>2, <4>3
    <3>2. CASE EngineStepInternal
      BY <3>2 DEF EngineStepInternal
    <3> QED BY <3>1, <3>2
  <2>2. /\ call' \in {"submit", "no_progress"}
        /\ UNCHANGED <<by_id, prompts, failed_before, next_index, unfinished>>
    BY <1>3 DEF HandleResults, IdleStep, Raise
  <2>3. /\ call' # "returned" /\ call' \notin {"unknown_id", "after_finish"}
        /\ call' \in Calling \cup Errors /\ call \in Calling
    BY <2>2 DEF Calling, Errors
  <2> QED BY <1>2, <2>1, <2>2, <2>3, CallQuiet
<1>4. CASE results # <<>>
  <2>1. EngineStepReturns
    BY <1>4, EmptyStep
  <2>2. /\ call' = ResultError(results) /\ ResultError(results) # "none"
        /\ UNCHANGED <<by_id, prompts, failed_before, next_index, unfinished>>
    BY <1>4 DEF HandleResults, Raise
  <2>3. call' \in {"unknown_id", "after_finish"}
    BY <2>2 DEF ResultError
  <2>4. DOMAIN by_id \subseteq Ids
    BY <1>1, CallTypes
  <2>5. ASSUME NEW i \in DOMAIN results
        PROVE  LET r == results[i].request_id IN
               r \in Ids /\ ~Service!Closed(delivered[r]) /\ state[r] # "none"
    <3>1. ResultAllowed(results[i]) /\ results[i].request_id \in Ids
      BY ResultTypes, EngineSplit DEF Reported, ResultsAllowed
    <3> QED BY <3>1 DEF ResultAllowed
  <2>6. failed_before
    <3> SUFFICES ASSUME ~failed_before PROVE FALSE
      BY <1>1 DEF CallShape
    <3>1. \A r \in Ids : state[r] # "none" /\ ~Service!Closed(delivered[r]) => r \in DOMAIN by_id
      BY <1>1 DEF CallBooks, Errors
    <3>2. \A r \in DOMAIN by_id : UpToDate(r)
      BY <1>1 DEF CallBooks, Calling
    <3>3. \A i \in DOMAIN results : /\ results[i].request_id \in DOMAIN by_id
                                    /\ by_id[results[i].request_id].finish_reason = "none"
      BY <2>5, <3>1, <3>2 DEF UpToDate
    <3> QED BY <2>2, <3>3 DEF ResultError
  <2>7. /\ call' # "returned" /\ call' \in Errors /\ call' \notin Calling
    BY <2>3 DEF Calling, Errors
  <2> QED BY <1>2, <2>2, <2>6, <2>7, CallQuiet
<1> QED BY <1>3, <1>4

LEMMA GenerateInvNext ==
  ASSUME AdmissionPolicy = "reserve_full" \/ MaxThrows = 0,
         SchedInv, EngineInv, GenerateInv, [GenerateNext]_genVars
  PROVE  SchedInv' /\ EngineInv' /\ GenerateInv'
<1>1. CallShape /\ CallBooks /\ LastResults
  BY GenerateSplit
<1>2. [EngineNext]_engineVars
  BY <1>1, GenerateIsEngine
<1>3. SchedInv' /\ EngineInv'
  BY <1>2, EngineInvNext, EngineIsSched, InvNext
<1>4. LastResults'
  BY <1>1, <1>2, LastResultsNext
<1> SUFFICES CallShape' /\ CallBooks'
  BY <1>3, <1>4, GenerateSplit
<1>5. CASE UNCHANGED genVars
  <2>1. UNCHANGED <<call, by_id, prompts, failed_before, next_index, unfinished, next_request_id, delivered, pc>>
    BY <1>5 DEF genVars, callVars, engineVars, schedVars, stepVars, requestVars
  <2>2. /\ call # "step" => pc = "idle"
        /\ call = "returned" => next_index > Len(prompts) /\ unfinished <= 0
        /\ call \in {"unknown_id", "after_finish"} => failed_before
    BY <1>1 DEF CallShape, CallBooks
  <2> QED BY <1>2, <1>3, <2>1, <2>2, CallQuiet
<1>6. CASE \E batch \in Batches : CallGenerate(batch)
  BY <1>6, CallStarts
<1>7. CASE SubmitPrompt
  BY <1>2, <1>7, PromptSubmitted
<1>8. CASE PromptRejected
  <2>1. /\ call' = "rejected" /\ call = "submit"
        /\ UNCHANGED <<by_id, prompts, failed_before, next_index, unfinished, next_request_id, delivered, pc>>
    BY <1>8 DEF PromptRejected, Raise, engineVars, schedVars, stepVars, requestVars
  <2>2. pc = "idle"
    BY <1>1, <2>1 DEF CallShape
  <2>3. call' \in Errors /\ call' \notin Calling
    BY <2>1 DEF Calling, Errors
  <2> QED BY <1>2, <1>3, <2>1, <2>2, <2>3, CallQuiet
<1>9. CASE PromptsSubmitted
  <2>1. /\ call = "submit" /\ call' = (IF MoreToDo THEN "step" ELSE "returned")
        /\ UNCHANGED <<by_id, prompts, failed_before, next_index, unfinished, next_request_id, delivered, pc>>
    BY <1>9 DEF PromptsSubmitted, engineVars, schedVars, stepVars, requestVars
  <2>2. pc = "idle"
    BY <1>1, <2>1 DEF CallShape
  <2>3. call' = "returned" => next_index > Len(prompts) /\ unfinished <= 0
    <3>1. next_index \in Int /\ Len(prompts) \in Int /\ unfinished \in Int
      <4>1. unfinished = Cardinality(Awaited)
        BY <1>1, <2>1 DEF CallBooks, Calling
      <4> QED BY <1>1, <4>1, CallTypes
    <3> QED BY <2>1, <3>1 DEF MoreToDo
  <2>4. call' \in Calling /\ call \in Calling /\ call' \notin {"unknown_id", "after_finish"}
    BY <2>1 DEF Calling
  <2> QED BY <1>2, <1>3, <2>1, <2>2, <2>3, <2>4, CallQuiet
<1>10. CASE CallSteps
  <2>1. call = "step" /\ EngineStepInternal /\ UNCHANGED callVars
    BY <1>10 DEF CallSteps
  <2>2. UNCHANGED <<delivered, next_request_id>>
    BY <2>1 DEF EngineStepInternal, CompleteStep, PlanStep, StepBegin, Admit, PlanPrefill,
                MaterializePrefillBlock, PrefillPlanned, PlanDecode, DecodeRow, DecodeRowReserved,
                DecodeRowClaimed, AbortYoungestRunning, DecodePlanned, StepEmpty, Execute,
                CompletePrefillChunk, CompletePrefillFinal, CompleteDecodeRow, CompleteDecode,
                ApplySampledToken, requestVars
  <2>3. UNCHANGED <<call, by_id, prompts, failed_before, next_index, unfinished>>
    BY <2>1 DEF callVars
  <2>4. call' = "step"
    BY <2>1, <2>3
  <2> QED BY <1>2, <1>3, <2>2, <2>3, <2>4, CallQuiet
<1>11. CASE CallStepRaises
  <2>1. /\ call = "step" /\ call' = "step_raised" /\ pc' = "idle"
        /\ UNCHANGED <<by_id, prompts, failed_before, next_index, unfinished, next_request_id>>
    BY <1>11 DEF CallStepRaises, Raise, EngineStepThrows, ExecutorThrows, requestVars
  <2>2. call' \in Errors /\ call' \notin Calling
    BY <2>1 DEF Calling, Errors
  <2> QED BY <1>2, <1>3, <2>1, <2>2, CallQuiet
<1>12. CASE CallStepReturns
  <2>1. /\ call = "step" /\ HandleResults(results)
        /\ EngineStepReturns \/ (EngineStepInternal /\ pc' = "idle")
    BY <1>12 DEF CallStepReturns
  <2>2. CASE results = <<>> \/ ResultError(results) # "none"
    BY <1>2, <1>3, <2>1, <2>2, ResultsRefused
  <2>3. CASE results # <<>> /\ ResultError(results) = "none"
    <3>1. EngineStepReturns
      BY <2>1, <2>3, EmptyStep
    <3> QED BY <1>2, <1>3, <2>1, <2>3, <3>1, ResultsTaken
  <2> QED BY <2>2, <2>3
<1>13. CASE Finished
  BY <1>5, <1>13 DEF Finished
<1> QED BY <1>5, <1>6, <1>7, <1>8, <1>9, <1>10, <1>11, <1>12, <1>13 DEF GenerateNext

-----------------------------------------------------------------------------
(***************************************************************************)
(* The tokens of the completions are those of the requests.                *)
(***************************************************************************)

\* What r has produced so far stays, and grows by one token at most.
Grows(r) ==
  \/ output_tokens'[r] = output_tokens[r]
  \/ \E t \in Tokens : output_tokens'[r] = Append(output_tokens[r], t)

\* A sampled token is the request's newest, and the newest result's.
LEMMA SampledTold ==
  ASSUME SchedInv, EngineInv, NothingForced, NewestTold,
         NEW sampled \in Tokens, CompletePrefillFinal(sampled) \/ CompleteDecodeRow(sampled)
  PROVE  NewestTold' /\ \A q \in Ids : Grows(q)
<1>1. PICK r \in Ids : /\ state[r] \in {"prefill", "running"} /\ ~HasResult(r)
                       /\ ApplySampledToken(r, sampled)
  BY CommittedRow
<1>2. output_tokens \in [Ids -> Seq(Tokens)]
  BY InvSplit DEF Core, CoreType
<1>3. Appended(r, sampled) = sampled
  <2>1. PICK n \in Nat : n = Len(output_tokens[r])
    BY <1>2
  <2>2. Len(param[r].forced) = 0
    BY DEF NothingForced
  <2> QED BY <2>1, <2>2 DEF Appended
<1>4. output_tokens' = [output_tokens EXCEPT ![r] = Append(output_tokens[r], sampled)]
  BY <1>1, <1>3 DEF ApplySampledToken
<1>5. PICK x : x.request_id = r /\ x.token = sampled /\ results' = Append(results, x)
  BY <1>1, SampledReport
<1>6. PICK m \in Nat : m = Len(results) /\ DOMAIN results = 1 .. m /\ results \in Seq(StepResult)
  <2>1. results \in Seq(StepResult) /\ Len(results) \in Nat /\ DOMAIN results = 1 .. Len(results)
    BY ResultTypes
  <2> QED BY <2>1
<1>7. /\ DOMAIN results' = 1 .. m + 1 /\ results'[m + 1] = x
      /\ \A i \in 1 .. m : results'[i] = results[i]
  BY <1>5, <1>6
<1>8. /\ output_tokens'[r] = Append(output_tokens[r], sampled)
      /\ \A q \in Ids \ {r} : output_tokens'[q] = output_tokens[q]
  BY <1>2, <1>4
<1>9. output_tokens'[r] # <<>> /\ Last(output_tokens'[r]) = sampled
  <2>1. output_tokens[r] \in Seq(Tokens)
    BY <1>2
  <2> QED BY <1>8, <2>1 DEF Last
<1>10. ASSUME NEW i \in 1 .. m + 1, results'[i].finish_reason # "aborted"
       PROVE  LET produced == output_tokens'[results'[i].request_id] IN
              produced # <<>> /\ results'[i].token = Last(produced)
  <2>1. CASE i = m + 1
    BY <1>5, <1>7, <1>9, <2>1
  <2>2. CASE i # m + 1
    <3>1. i \in 1 .. m
      BY <2>2
    <3>2. PICK y, q : y = results[i] /\ y = results'[i] /\ q = y.request_id
      BY <1>7, <3>1
    <3>3. q \in Ids \ {r}
      BY <1>1, <1>6, <3>1, <3>2, ResultTypes DEF HasResult
    <3>4. output_tokens[q] # <<>> /\ y.token = Last(output_tokens[q])
      BY <1>6, <1>10, <3>1, <3>2 DEF NewestTold
    <3> QED BY <1>8, <3>2, <3>3, <3>4
  <2> QED BY <2>1, <2>2
<1>11. NewestTold'
  BY <1>7, <1>10 DEF NewestTold
<1>12. \A q \in Ids : Grows(q)
  BY <1>8 DEF Grows
<1> QED BY <1>11, <1>12

LEMMA OutputsGrow ==
  ASSUME SchedInv, EngineInv, NothingForced, NewestTold, [EngineNext]_engineVars
  PROVE  NewestTold' /\ \A q \in Ids : Grows(q)
<1>1. ASSUME UNCHANGED <<output_tokens, results>> PROVE NewestTold' /\ \A q \in Ids : Grows(q)
  BY <1>1 DEF NewestTold, Grows
<1>2. ASSUME UNCHANGED output_tokens, \A i \in DOMAIN results' : results'[i].finish_reason = "aborted"
      PROVE  NewestTold' /\ \A q \in Ids : Grows(q)
  BY <1>2 DEF NewestTold, Grows
<1>3. CASE \/ UNCHANGED engineVars \/ \E p \in Workload : EngineAddRequest(p)
           \/ StepBegin \/ StepEmpty \/ PlanStep \/ EngineStepThrows
           \/ CompletePrefillChunk \/ CompleteDecode
  <2>1. UNCHANGED <<output_tokens, results>>
    BY <1>3 DEF engineVars, schedVars, stepVars, requestVars, EngineAddRequest, AddRequest, StepBegin, StepEmpty,
                PlanStep, Admit, PlanPrefill, MaterializePrefillBlock, PrefillPlanned, PlanDecode, DecodeRow,
                DecodeRowReserved, DecodeRowClaimed, AbortYoungestRunning, DecodePlanned, EngineStepThrows,
                ExecutorThrows, CompletePrefillChunk, CompleteDecode
  <2> QED BY <1>1, <2>1
<1>4. CASE Execute
  <2>1. /\ UNCHANGED output_tokens
        /\ results' = [i \in 1 .. Len(plan.aborted) |-> AbortResult(plan.aborted[i])]
    BY <1>4 DEF Execute, requestVars
  <2>2. \A i \in DOMAIN results' : results'[i].finish_reason = "aborted"
    BY <2>1 DEF AbortResult
  <2> QED BY <1>2, <2>1, <2>2
<1>5. CASE EngineStepReturns
  <2>1. UNCHANGED output_tokens /\ results' = <<>>
    BY <1>5 DEF EngineStepReturns, StepReturn, requestVars
  <2> QED BY <1>2, <2>1
<1>6. ASSUME NEW sampled \in Tokens, CompletePrefillFinal(sampled) \/ CompleteDecodeRow(sampled)
      PROVE  NewestTold' /\ \A q \in Ids : Grows(q)
  BY <1>6, SampledTold
<1> QED BY <1>3, <1>4, <1>5, <1>6 DEF EngineNext, EngineStepInternal, CompleteStep

\* What is collected stays collected.
LEMMA StaysCollected ==
  ASSUME SchedInv, NEW r \in Ids, Grows(r), Collected(r), by_id[r] \in Completion,
         by_id'[r] = by_id[r]
  PROVE  Collected(r)'
<1>1. PICK out \in Seq(Tokens), c \in Seq(Tokens) : out = output_tokens[r] /\ c = by_id[r].tokens
  <2>1. output_tokens[r] \in Seq(Tokens)
    BY InvSplit DEF Core, CoreType
  <2> QED BY <2>1 DEF Completion
<1>2. Len(c) <= Len(out) /\ \A k \in DOMAIN c : c[k] = out[k]
  BY <1>1 DEF Collected
<1>3. PICK grown : grown = output_tokens'[r] /\ (grown = out \/ \E t \in Tokens : grown = Append(out, t))
  BY <1>1 DEF Grows
<1>4. Len(c) <= Len(grown) /\ \A k \in DOMAIN c : c[k] = grown[k]
  <2>1. CASE grown = out
    BY <1>2, <2>1
  <2>2. ASSUME NEW t \in Tokens, grown = Append(out, t)
        PROVE  Len(c) <= Len(grown) /\ \A k \in DOMAIN c : c[k] = grown[k]
    <3>1. PICK m \in Nat, n \in Nat : m = Len(c) /\ n = Len(out) /\ m <= n /\ DOMAIN c = 1 .. m
      BY <1>2
    <3>2. Len(grown) = n + 1 /\ \A k \in 1 .. n : grown[k] = out[k]
      BY <2>2, <3>1
    <3>3. \A k \in 1 .. m : k \in 1 .. n
      BY <3>1
    <3> QED BY <1>2, <3>1, <3>2, <3>3
  <2> QED BY <1>3, <2>1, <2>2
<1> QED BY <1>1, <1>3, <1>4 DEF Collected

\* A result that is taken adds the newest token of its request to the completion.
LEMMA TokensTaken ==
  ASSUME SchedInv, EngineInv, GenerateInv, TokensInv, EngineStepReturns,
         call = "step", results # <<>>, ResultError(results) = "none", HandleResults(results),
         NEW i \in DOMAIN results, NEW r, r = results[i].request_id
  PROVE  Collected(r)'
<1>1. PICK x \in StepResult :
        /\ x = results[i] /\ x.request_id = r /\ ResultAllowed(x)
        /\ r \in DOMAIN by_id /\ r \in Ids /\ by_id[r] \in Completion
        /\ by_id'[r] = Updated(by_id[r], x)
  BY ResultsPlaced
<1>2. PICK c \in Seq(Tokens), out \in Seq(Tokens), given \in Seq(StepResult) :
        c = by_id[r].tokens /\ out = output_tokens[r] /\ given = delivered[r]
  <2>1. output_tokens[r] \in Seq(Tokens) /\ delivered[r] \in Seq(StepResult)
    BY <1>1, InvSplit, EngineSplit DEF Core, CoreType, Reported
  <2> QED BY <1>1, <2>1 DEF Completion
<1>3. output_tokens'[r] = out
  BY <1>2 DEF EngineStepReturns, StepReturn, requestVars
<1>4. by_id'[r].tokens = IF x.finish_reason = "aborted" THEN c ELSE Append(c, x.token)
  BY <1>1, <1>2 DEF Updated
<1>5. PICK len \in Nat, m \in Nat : len = Len(c) /\ m = Len(out) /\ DOMAIN c = 1 .. len /\ DOMAIN out = 1 .. m
  OBVIOUS
<1>6. len <= m /\ \A k \in 1 .. len : c[k] = out[k]
  BY <1>1, <1>2, <1>5 DEF TokensInv, Collected
<1>7. CASE x.finish_reason = "aborted"
  BY <1>2, <1>3, <1>4, <1>5, <1>6, <1>7 DEF Collected
<1>8. CASE x.finish_reason # "aborted"
  <2>1. out # <<>> /\ x.token = Last(out)
    BY <1>1, <1>2, <1>8 DEF TokensInv, NewestTold
  <2>2. UpToDate(r) /\ CaughtUp(r) /\ ~Service!Closed(delivered[r]) /\ HasResult(r)
    <3>1. UpToDate(r)
      BY <1>1, GenerateSplit DEF CallBooks, Calling
    <3> QED BY <1>1, <3>1, EngineSplit DEF Reported, ResultAllowed, HasResult
  <2>3. len = Len(given)
    BY <1>2, <1>5, <2>2 DEF UpToDate
  <2>4. m = len + 1
    <3>1. CASE state[r] # "finished"
      BY <1>2, <1>5, <2>2, <2>3, <3>1 DEF CaughtUp
    <3>2. CASE state[r] = "finished"
      <4>1. x.finished
        BY <1>1, <3>2 DEF ResultAllowed
      <4>2. LastResults
        BY GenerateSplit
      <4>3. Len(output_tokens[r]) = Len(delivered[r]) + 1
        BY <1>1, <1>8, <4>1, <4>2, ResultSays
      <4> QED BY <1>2, <1>5, <2>3, <4>3
    <3> QED BY <3>1, <3>2
  <2>5. x.token = out[m] /\ x.token \in Tokens
    <3>1. Last(out) = out[m]
      BY <1>5 DEF Last
    <3>2. x.token \in Tokens
      BY DEF StepResult
    <3> QED BY <2>1, <3>1, <3>2
  <2>6. PICK d : d = Append(c, x.token)
    OBVIOUS
  <2>7. /\ Len(d) = m /\ DOMAIN d = 1 .. m /\ d[m] = x.token
        /\ \A k \in 1 .. len : d[k] = c[k]
    BY <1>5, <2>4, <2>5, <2>6
  <2>8. ASSUME NEW k \in 1 .. m PROVE d[k] = out[k]
    <3>1. CASE k = m
      BY <2>5, <2>7, <3>1
    <3>2. CASE k # m
      <4>1. k \in 1 .. len
        BY <2>4, <3>2
      <4> QED BY <1>6, <2>7, <4>1
    <3> QED BY <3>1, <3>2
  <2>9. by_id'[r].tokens = d
    BY <1>4, <1>8, <2>6
  <2> QED BY <1>3, <1>5, <2>7, <2>8, <2>9 DEF Collected
<1> QED BY <1>7, <1>8

LEMMA NothingForcedNext ==
  ASSUME SchedInv, CallShape, NothingForced, [GenerateNext]_genVars
  PROVE  NothingForced'
<1>1. ASSUME UNCHANGED param PROVE NothingForced'
  BY <1>1 DEF NothingForced
<1>2. CASE SubmitPrompt
  <2>1. /\ param' = [param EXCEPT ![next_request_id] = prompts[next_index]]
        /\ next_index <= Len(prompts)
    BY <1>2 DEF SubmitPrompt, PromptWanted, EngineAddRequest, AddRequest
  <2>2. prompts \in Seq(Workload) /\ next_index \in Nat /\ 1 <= next_index
    BY PromptsTyped, CallTypes
  <2>3. next_index \in DOMAIN prompts /\ prompts # <<>>
    BY <2>1, <2>2
  <2>4. prompts[next_index].forced = <<>>
    <3>1. prompts \in Batches
      BY <2>3 DEF CallShape
    <3> QED BY <2>3, <3>1, GenerateAssumption, Zenon
  <2>5. param \in [Ids -> RequestParams]
    BY InvSplit DEF Core, CoreType
  <2>6. ASSUME NEW r \in Ids PROVE param'[r].forced = <<>>
    <3>1. param'[r] = param[r] \/ param'[r] = prompts[next_index]
      BY <2>1, <2>5
    <3> QED BY <2>4, <3>1 DEF NothingForced
  <2> QED BY <2>6 DEF NothingForced
<1>3. CASE \/ UNCHANGED genVars \/ \E batch \in Batches : CallGenerate(batch)
           \/ PromptRejected \/ PromptsSubmitted \/ Finished
  <2>1. UNCHANGED param
    BY <1>3 DEF CallGenerate, PromptRejected, PromptsSubmitted, Finished, genVars, engineVars, schedVars, requestVars
  <2> QED BY <1>1, <2>1
<1>4. CASE CallSteps \/ CallStepReturns \/ CallStepRaises
  <2>1. EngineStepInternal \/ EngineStepReturns \/ EngineStepThrows
    BY <1>4 DEF CallSteps, CallStepReturns, CallStepRaises
  <2>2. UNCHANGED param
    BY <2>1 DEF EngineStepInternal, EngineStepReturns, EngineStepThrows, ExecutorThrows, StepReturn,
                CompleteStep, PlanStep, StepBegin, Admit, PlanPrefill, MaterializePrefillBlock,
                PrefillPlanned, PlanDecode, DecodeRow, DecodeRowReserved, DecodeRowClaimed,
                AbortYoungestRunning, DecodePlanned, StepEmpty, Execute, CompletePrefillChunk,
                CompletePrefillFinal, CompleteDecodeRow, CompleteDecode, requestVars
  <2> QED BY <1>1, <2>2
<1> QED BY <1>2, <1>3, <1>4 DEF GenerateNext

LEMMA TokensNext ==
  ASSUME AdmissionPolicy = "reserve_full" \/ MaxThrows = 0,
         SchedInv, EngineInv, GenerateInv, TokensInv, [GenerateNext]_genVars
  PROVE  TokensInv'
<1>1. CallShape /\ SchedInv'
  BY GenerateSplit, GenerateInvNext
<1>2. NothingForced'
  BY <1>1, NothingForcedNext DEF TokensInv
<1>3. NewestTold' /\ \A r \in Ids : Grows(r)
  <2>1. [EngineNext]_engineVars
    BY <1>1, GenerateIsEngine
  <2> QED BY <2>1, OutputsGrow DEF TokensInv
<1> SUFFICES \A r \in DOMAIN by_id' : Collected(r)'
  BY <1>2, <1>3 DEF TokensInv
<1>4. ASSUME NEW r \in DOMAIN by_id, by_id'[r] = by_id[r] PROVE Collected(r)'
  <2>1. r \in Ids /\ by_id[r] \in Completion
    BY <1>1, CallTypes
  <2>2. Grows(r) /\ Collected(r)
    BY <1>3, <2>1 DEF TokensInv
  <2> QED BY <1>4, <2>1, <2>2, StaysCollected
<1>5. CASE UNCHANGED by_id
  BY <1>4, <1>5
<1>6. CASE \E batch \in Batches : CallGenerate(batch)
  <2>1. by_id' = <<>>
    BY <1>6 DEF CallGenerate
  <2>2. DOMAIN by_id' = {}
    BY <2>1
  <2> QED BY <2>2
<1>7. CASE SubmitPrompt
  <2>1. PICK n : n = next_request_id
    OBVIOUS
  <2>2. /\ DOMAIN by_id' = DOMAIN by_id \cup {n} /\ by_id'[n].tokens = <<>>
        /\ \A r \in DOMAIN by_id : r # n => by_id'[r] = by_id[r]
    BY <1>7, <2>1 DEF SubmitPrompt
  <2>3. Collected(n)'
    <3>1. n \in Ids
      BY <1>7, <2>1 DEF SubmitPrompt, EngineAddRequest, AddRequest
    <3>2. PICK out \in Seq(Tokens) : out = output_tokens'[n]
      BY <1>1, <3>1, InvSplitNext DEF Core, CoreType
    <3>3. Len(out) \in Nat /\ Len(<<>>) = 0 /\ DOMAIN <<>> = {}
      BY <3>2
    <3> QED BY <2>2, <3>2, <3>3 DEF Collected
  <2> QED BY <1>4, <2>2, <2>3
<1>8. CASE CallStepReturns
  <2>1. CASE results # <<>> /\ ResultError(results) = "none"
    <3>1. call = "step" /\ HandleResults(results) /\ EngineStepReturns
      BY <1>1, <1>8, <2>1, EmptyStep DEF CallStepReturns
    <3>2. DOMAIN by_id' = DOMAIN by_id /\ \A r \in DOMAIN by_id : ~HasResult(r) => by_id'[r] = by_id[r]
      BY <2>1, <3>1, ResultsPlaced
    <3>3. ASSUME NEW r \in DOMAIN by_id, HasResult(r) PROVE Collected(r)'
      <4>1. PICK i \in DOMAIN results : results[i].request_id = r
        BY <3>3 DEF HasResult
      <4> QED BY <2>1, <3>1, <4>1, TokensTaken
    <3> QED BY <1>4, <3>2, <3>3
  <2>2. CASE ~(results # <<>> /\ ResultError(results) = "none")
    <3>1. UNCHANGED by_id
      BY <1>8, <2>2 DEF CallStepReturns, HandleResults, IdleStep, Raise
    <3> QED BY <1>5, <3>1
  <2> QED BY <2>1, <2>2
<1>9. CASE \/ UNCHANGED genVars \/ PromptRejected \/ PromptsSubmitted \/ CallSteps
           \/ CallStepRaises \/ Finished
  <2>1. UNCHANGED by_id
    BY <1>9 DEF PromptRejected, PromptsSubmitted, CallSteps, CallStepRaises, Finished, Raise, genVars, callVars
  <2> QED BY <1>5, <2>1
<1> QED BY <1>6, <1>7, <1>8, <1>9 DEF GenerateNext

LEMMA TokensInit == GenerateInit => TokensInv
<1> SUFFICES ASSUME GenerateInit PROVE TokensInv
  OBVIOUS
<1>1. /\ by_id = <<>> /\ results = <<>> /\ param = [r \in Ids |-> NoParams]
  BY DEF GenerateInit, EngineInit, SchedInit
<1>2. DOMAIN by_id = {} /\ DOMAIN results = {}
  BY <1>1
<1>3. NothingForced
  BY <1>1 DEF NothingForced, NoParams
<1> QED BY <1>2, <1>3 DEF TokensInv, NewestTold

-----------------------------------------------------------------------------
(***************************************************************************)
(* The idle count: the plans a step makes, and the step that has none.     *)
(***************************************************************************)

LEMMA HeadProgress ==
  ASSUME SchedInv, prefill_queue # <<>>
  PROVE  \E r \in Ids, p \in Nat :
           r = Head(prefill_queue) /\ p = prefill_progress[r] /\ state[r] = "prefill"
BY InvSplit, HeadPrefill

LEMMA PlansNext ==
  ASSUME SchedInv, PlansAreWork, EmptyPlans, [EngineNext]_engineVars
  PROVE  PlansAreWork' /\ EmptyPlans'
<1>1. PlanMatchesQueues /\ plan \in [prefill : Ids \union {nullptr}, begin : Nat, end : Nat,
                                     decode : Seq(Ids), aborted : Seq(Ids)]
  BY InvSplit DEF StepType
<1>2. ASSUME pc' \in {"idle", "admit", "return"} PROVE PlansAreWork' /\ EmptyPlans'
  BY <1>2 DEF PlansAreWork, EmptyPlans
<1>3. ASSUME pc' \in {"prefill", "planned", "commit"}, UNCHANGED <<plan, param>>, is_prefill,
             pc \in {"prefill", "planned", "commit"}
      PROVE  PlansAreWork' /\ EmptyPlans'
  BY <1>3 DEF PlansAreWork, EmptyPlans, plan_empty, is_prefill, num_prompt_tokens
<1>4. CASE \/ \E p \in Workload : EngineAddRequest(p)
           \/ StepBegin \/ Admit \/ StepEmpty \/ EngineStepThrows \/ EngineStepReturns
           \/ CompletePrefillChunk \/ (\E sampled \in Tokens : CompletePrefillFinal(sampled)) \/ CompleteDecode
  <2>1. pc' \in {"idle", "admit", "return"}
    BY <1>4 DEF EngineAddRequest, AddRequest, StepBegin, Admit, StepEmpty, EngineStepThrows, ExecutorThrows,
                EngineStepReturns, StepReturn, CompletePrefillChunk, CompletePrefillFinal, CompleteDecode, stepVars
  <2> QED BY <1>2, <2>1
<1>5. CASE UNCHANGED engineVars
  <2>1. UNCHANGED <<plan, pc, param, prefill_queue, running, waiting, free_list, reserved>>
    BY <1>5 DEF engineVars, schedVars, stepVars, requestVars, queueVars, allocVars
  <2>2. CanAdmitHead' <=> CanAdmitHead
    BY <2>1 DEF CanAdmitHead, num_running, CanAdmit, CanReserve, AboveFloor, num_prompt_tokens
  <2> QED BY <2>1, <2>2 DEF PlansAreWork, EmptyPlans, plan_empty, is_prefill, num_prompt_tokens
<1>6. CASE PlanPrefill
  <2>1. pc' = "prefill" /\ UNCHANGED param
    BY <1>6 DEF PlanPrefill, requestVars
  <2>2. PICK r \in Ids, p \in Nat : r = Head(prefill_queue) /\ p = prefill_progress[r]
    BY <1>6, HeadProgress DEF PlanPrefill
  <2>3. /\ plan'.prefill = r /\ plan'.begin = p
        /\ plan'.end = IF p + PrefillChunk < num_prompt_tokens(r) THEN p + PrefillChunk ELSE num_prompt_tokens(r)
    BY <1>1, <1>6, <2>2 DEF PlanPrefill
  <2>4. num_prompt_tokens(r)' = num_prompt_tokens(r) /\ num_prompt_tokens(r) \in Nat
    BY <1>6, <2>1, <2>2, InvSplit, HeadPrefill DEF PlanPrefill, num_prompt_tokens
  <2>5. plan'.end < num_prompt_tokens(r)' => plan'.end = plan'.begin + PrefillChunk
    BY <2>3, <2>4
  <2>6. num_prompt_tokens(plan.prefill)' = num_prompt_tokens(r)'
    BY <2>3 DEF num_prompt_tokens
  <2> QED BY <2>1, <2>5, <2>6 DEF PlansAreWork, EmptyPlans
<1>7. CASE MaterializePrefillBlock \/ PrefillPlanned
  <2>1. /\ pc = "prefill" /\ pc' \in {"prefill", "planned"} /\ UNCHANGED <<plan, param>>
    BY <1>7 DEF MaterializePrefillBlock, PrefillPlanned, stepVars, requestVars
  <2>2. is_prefill
    BY <1>1, <2>1 DEF PlanMatchesQueues
  <2> QED BY <1>3, <2>1, <2>2
<1>8. CASE PlanDecode
  <2>1. /\ pc' = "decode" /\ prefill_queue = <<>> /\ ~CanAdmitHead
        /\ UNCHANGED <<plan, param, prefill_queue, running, waiting, free_list, reserved>>
    BY <1>8 DEF PlanDecode, requestVars, queueVars, allocVars
  <2>2. CanAdmitHead' <=> CanAdmitHead
    BY <2>1 DEF CanAdmitHead, num_running, CanAdmit, CanReserve, AboveFloor, num_prompt_tokens
  <2> QED BY <2>1, <2>2 DEF PlansAreWork, EmptyPlans
<1>9. CASE DecodeRow \/ DecodeRowReserved \/ DecodeRowClaimed \/ AbortYoungestRunning
  <2>1. /\ pc' = "decode"
        /\ \/ plan' = [plan EXCEPT !.decode = Append(@, Candidate)]
           \/ plan' = [plan EXCEPT !.aborted = Append(@, Victim)]
    BY <1>9 DEF DecodeRow, DecodeRowReserved, DecodeRowClaimed, AbortYoungestRunning
  <2>2. plan'.decode # <<>> \/ plan'.aborted # <<>>
    BY <1>1, <2>1
  <2> QED BY <2>1, <2>2 DEF PlansAreWork, EmptyPlans, plan_empty
<1>10. CASE DecodePlanned
  <2>1. /\ pc = "decode" /\ pc' = "planned" /\ ~DecodeLoop
        /\ UNCHANGED <<plan, param, prefill_queue, running, waiting, free_list, reserved>>
    BY <1>10 DEF DecodePlanned, requestVars, queueVars, allocVars
  <2>2. CanAdmitHead' <=> CanAdmitHead
    BY <2>1 DEF CanAdmitHead, num_running, CanAdmit, CanReserve, AboveFloor, num_prompt_tokens
  <2>3. ~is_prefill
    BY <1>1, <2>1 DEF PlanMatchesQueues
  <2>4. plan.decode = <<>> => running = <<>>
    <3> SUFFICES ASSUME plan.decode = <<>> PROVE running = <<>>
      OBVIOUS
    <3>1. Len(plan.decode) = 0 /\ MaxBatch \in Nat \ {0}
      BY SchedulerAssumption
    <3>2. running \in Seq(Ids) /\ ~(0 < Len(running))
      BY <2>1, <3>1, PlanTypes DEF DecodeLoop
    <3> QED BY <3>2, EmptySeq
  <2> QED BY <2>1, <2>2, <2>3, <2>4 DEF PlansAreWork, EmptyPlans, plan_empty, is_prefill
<1>11. CASE Execute
  <2>1. pc = "planned" /\ pc' = "commit" /\ ~plan_empty /\ UNCHANGED <<plan, param>>
    BY <1>11 DEF Execute, requestVars
  <2> QED BY <2>1 DEF PlansAreWork, EmptyPlans, plan_empty, is_prefill, num_prompt_tokens
<1>12. ASSUME NEW sampled \in Tokens, CompleteDecodeRow(sampled) PROVE PlansAreWork' /\ EmptyPlans'
  <2>1. pc = "commit" /\ ~is_prefill /\ UNCHANGED <<pc, plan, param>>
    BY <1>12 DEF CompleteDecodeRow
  <2> QED BY <2>1 DEF PlansAreWork, EmptyPlans, plan_empty, is_prefill
<1> QED BY <1>4, <1>5, <1>6, <1>7, <1>8, <1>9, <1>10, <1>11, <1>12
     DEF EngineNext, EngineStepInternal, PlanStep, CompleteStep

\* Step finds something to do as long as somebody is to be served.
LEMMA NeverEmpty ==
  ASSUME SchedInv, SomebodyServed, EmptyPlans, call = "step", StepEmpty
  PROVE  FALSE
<1>1. pc = "planned" /\ plan_empty
  BY DEF StepEmpty
<1>2. /\ prefill_queue = <<>> /\ running = <<>> /\ ~CanAdmitHead /\ Live # {}
  BY <1>1 DEF SomebodyServed, EmptyPlans, plan_empty
<1>3. num_running = 0
  BY <1>2 DEF num_running
<1>4. waiting = <<>>
  BY <1>2, <1>3, IdlePoolFits
<1>5. Range(<<>>) = {}
  BY DEF Range
<1>6. \A r \in Ids : state[r] \notin {"waiting", "prefill", "running"}
  BY <1>2, <1>4, <1>5, InvSplit DEF Core, AdmissionOrder
<1> QED BY <1>2, <1>6 DEF Live

\* When generate steps, its requests or those that fill the waiting queue are live.
LEMMA WorkLeft ==
  ASSUME SchedInv, EngineInv, GenerateInv, PromptsSubmitted, call' = "step"
  PROVE  Live # {}
<1>1. CallShape /\ CallBooks /\ call = "submit" /\ pc = "idle"
  BY GenerateSplit DEF PromptsSubmitted, CallShape
<1>2. MoreToDo /\ ~PromptWanted
  BY DEF PromptsSubmitted
<1>3. CASE unfinished > 0
  <2>1. unfinished = Cardinality(Awaited) /\ \A r \in DOMAIN by_id : UpToDate(r)
    BY <1>1 DEF CallBooks, Calling
  <2>2. Awaited # {}
    BY <1>3, <2>1, FS_EmptySet
  <2>3. PICK r \in DOMAIN by_id : by_id[r].finish_reason = "none"
    BY <2>2 DEF Awaited
  <2>4. r \in Ids /\ state[r] # "none" /\ state[r] \in States
    <3>1. PICK n \in Nat, k \in Nat : /\ DOMAIN by_id = n - k + 1 .. n - 1 /\ DOMAIN by_id \subseteq Ids
                                     /\ \A q \in Ids : state[q] # "none" <=> q < n
      BY <1>1, CallTypes
    <3>2. r \in Ids /\ r < n
      BY <3>1
    <3>3. state \in [Ids -> States]
      BY InvSplit DEF Core, CoreType
    <3> QED BY <3>1, <3>2, <3>3
  <2>5. state[r] # "finished"
    <3>1. ~Service!Closed(delivered[r]) /\ CaughtUp(r)
      BY <2>1, <2>3, <2>4, EngineSplit DEF UpToDate, Reported
    <3>2. Unreported = {}
      BY <1>1, NoAborts
    <3> QED BY <3>1, <3>2 DEF CaughtUp
  <2> QED BY <2>4, <2>5 DEF Live, States
<1>4. CASE ~(unfinished > 0)
  <2>1. ~HasCapacity
    BY <1>2, <1>4 DEF MoreToDo, PromptWanted
  <2>2. waiting # <<>>
    BY <2>1, EngineAssumption DEF HasCapacity
  <2>3. Core
    BY InvSplit
  <2>4. PICK r \in Ids : state[r] = "waiting"
    BY <2>2, <2>3, PopOldest DEF Core, CoreType, AdmissionOrder
  <2> QED BY <2>4 DEF Live
<1> QED BY <1>3, <1>4

\* Inside a step of generate the oldest prefill stays, until its chunk is committed.
LEMMA CallStepsIdle ==
  ASSUME SchedInv, IdleInv, CallSteps
  PROVE  IdleCount' /\ SomebodyServed'
<1>1. /\ call = "step" /\ call' = "step" /\ idle_steps' = idle_steps /\ pc' # "idle"
      /\ StepBegin \/ PlanStep \/ StepEmpty \/ Execute \/ CompleteStep
  BY DEF CallSteps, EngineStepInternal, callVars
<1>2. /\ idle_steps \in Nat /\ PrefillChunk \in Nat
      /\ pc # "return" /\ idle_steps > 0 => HeadHasCome(idle_steps)
  BY <1>1, SchedulerAssumption DEF IdleInv, IdleCount
<1>3. PlanMatchesQueues /\ Core
      /\ plan \in [prefill : Ids \union {nullptr}, begin : Nat, end : Nat,
                   decode : Seq(Ids), aborted : Seq(Ids)]
  BY InvSplit DEF StepType
\* Nobody leaves before the commit but an abort, which the plan tells of.
<1>4. ASSUME pc \notin {"commit", "return"}, pc' # "return", UNCHANGED prefill_progress,
             prefill_queue # <<>> => prefill_queue' # <<>> /\ Head(prefill_queue') = Head(prefill_queue),
             pc' = "commit" \/ Live' # {} \/ plan'.aborted # <<>>
      PROVE  IdleCount' /\ SomebodyServed'
  BY <1>1, <1>2, <1>4 DEF IdleCount, SomebodyServed, HeadHasCome
<1>5. pc \notin {"commit", "return"} => Live # {} \/ plan.aborted # <<>>
  BY <1>1 DEF IdleInv, SomebodyServed
<1>6. CASE StepBegin \/ MaterializePrefillBlock \/ PrefillPlanned \/ PlanDecode \/ DecodePlanned
  <2>1. /\ pc \notin {"commit", "return"} /\ pc' # "return"
        /\ UNCHANGED <<plan, state, prefill_queue, prefill_progress>>
    BY <1>6 DEF StepBegin, MaterializePrefillBlock, PrefillPlanned, PlanDecode, DecodePlanned,
                requestVars, queueVars, stepVars
  <2>2. Live' = Live
    BY <2>1 DEF Live
  <2> QED BY <1>4, <1>5, <2>1, <2>2
<1>7. CASE PlanPrefill \/ DecodeRow \/ DecodeRowReserved \/ DecodeRowClaimed
  <2>1. /\ pc \notin {"commit", "return"} /\ pc' # "return"
        /\ UNCHANGED <<state, prefill_queue, prefill_progress>>
    BY <1>7 DEF PlanPrefill, DecodeRow, DecodeRowReserved, DecodeRowClaimed, requestVars, queueVars
  <2>2. plan'.aborted = plan.aborted
    BY <1>3, <1>7 DEF PlanPrefill, DecodeRow, DecodeRowReserved, DecodeRowClaimed
  <2>3. Live' = Live
    BY <2>1 DEF Live
  <2> QED BY <1>4, <1>5, <2>1, <2>2, <2>3
<1>8. CASE Admit
  <2>1. PICK r : /\ r = Head(waiting) /\ waiting # <<>> /\ pc = "admit" /\ pc' = "admit"
                 /\ state' = [state EXCEPT ![r] = "prefill"]
                 /\ prefill_queue' = Append(prefill_queue, r) /\ UNCHANGED prefill_progress
    BY <1>8 DEF Admit, CanAdmitHead, stepVars
  <2>2. r \in Ids /\ state \in [Ids -> States] /\ prefill_queue \in Seq(Ids)
    BY <1>3, <2>1, PopOldest DEF Core, CoreType, AdmissionOrder
  <2>3. state'[r] = "prefill"
    BY <2>1, <2>2
  <2>4. Live' # {}
    BY <2>2, <2>3 DEF Live
  <2>5. prefill_queue # <<>> => prefill_queue' # <<>> /\ Head(prefill_queue') = Head(prefill_queue)
    BY <2>1, <2>2
  <2> QED BY <1>4, <2>1, <2>4, <2>5
<1>9. CASE AbortYoungestRunning
  <2>1. /\ pc = "decode" /\ pc' = "decode" /\ UNCHANGED <<prefill_queue, prefill_progress>>
        /\ plan' = [plan EXCEPT !.aborted = Append(@, Victim)]
    BY <1>9 DEF AbortYoungestRunning
  <2>2. plan'.aborted # <<>>
    BY <1>3, <2>1
  <2> QED BY <1>4, <2>1, <2>2
<1>10. CASE StepEmpty
  BY <1>1, <1>10 DEF StepEmpty
<1>11. CASE Execute
  <2>1. pc = "planned" /\ pc' = "commit" /\ UNCHANGED <<prefill_queue, prefill_progress>>
    BY <1>11 DEF Execute, requestVars, queueVars
  <2> QED BY <1>4, <2>1
<1>12. CASE CompletePrefillChunk
  <2>1. /\ pc = "commit" /\ is_prefill /\ pc' = "return" /\ UNCHANGED <<prefill_queue, results>>
        /\ plan.end < num_prompt_tokens(plan.prefill)
        /\ prefill_progress' = [prefill_progress EXCEPT ![plan.prefill] = plan.end]
    BY <1>12 DEF CompletePrefillChunk, queueVars
  <2>2. plan.end = plan.begin + PrefillChunk
    BY <2>1 DEF IdleInv, PlansAreWork
  <2>3. PICK r \in Ids, p \in Nat :
          /\ prefill_queue # <<>> /\ r = Head(prefill_queue) /\ p = prefill_progress[r]
          /\ plan.prefill = r /\ plan.begin = p
    BY <1>3, <2>1, HeadProgress DEF PlanMatchesQueues
  <2>4. prefill_progress'[r] = p + PrefillChunk
    BY <1>3, <2>1, <2>2, <2>3 DEF Core, CoreType
  <2>5. PICK n \in Nat, c \in Nat, q \in Nat : n = idle_steps /\ c = PrefillChunk /\ q = n * c
    BY <1>2
  <2>6. p >= q
    <3>1. CASE n = 0
      BY <2>5, <3>1
    <3>2. CASE n > 0
      BY <1>2, <2>1, <2>3, <2>5, <3>2 DEF HeadHasCome
    <3> QED BY <3>1, <3>2
  <2>7. (n + 1) * c = q + c
    BY <2>5
  <2>8. prefill_progress'[r] >= (n + 1) * c
    BY <2>4, <2>5, <2>6, <2>7
  <2> QED BY <1>1, <1>2, <2>1, <2>3, <2>5, <2>8 DEF IdleCount, SomebodyServed, HeadHasCome
<1>13. ASSUME pc' = "return", results' # <<>> PROVE IdleCount' /\ SomebodyServed'
  BY <1>1, <1>2, <1>13 DEF IdleCount, SomebodyServed
<1>14. ASSUME NEW sampled \in Tokens, CompletePrefillFinal(sampled) PROVE IdleCount' /\ SomebodyServed'
  <2>1. PICK r \in Ids : state[r] \in {"prefill", "running"} /\ ApplySampledToken(r, sampled)
    <3>1. is_prefill /\ pc = "commit" /\ ApplySampledToken(plan.prefill, sampled)
      BY <1>14 DEF CompletePrefillFinal
    <3> QED BY <3>1, CommittedPrefill
  <2>2. PICK x : results' = Append(results, x)
    BY <2>1, SampledReport
  <2>3. results \in Seq(StepResult) /\ pc' = "return"
    BY <1>14, ResultTypes DEF CompletePrefillFinal
  <2>4. Len(results') = Len(results) + 1 /\ Len(results) \in Nat
    BY <2>2, <2>3
  <2>5. results' # <<>>
    BY <2>4
  <2> QED BY <1>13, <2>3, <2>5
<1>15. ASSUME NEW sampled \in Tokens, CompleteDecodeRow(sampled) PROVE IdleCount' /\ SomebodyServed'
  <2>1. pc = "commit" /\ pc' = "commit" /\ UNCHANGED <<prefill_queue, prefill_progress>>
    BY <1>15 DEF CompleteDecodeRow
  <2> QED BY <1>1, <1>2, <2>1 DEF IdleCount, SomebodyServed, HeadHasCome
<1>16. CASE CompleteDecode
  <2>1. /\ pc = "commit" /\ ~is_prefill /\ RowsDone = Len(plan.decode)
        /\ pc' = "return" /\ UNCHANGED results
    BY <1>16 DEF CompleteDecode
  <2>2. plan.decode # <<>> \/ plan.aborted # <<>>
    BY <2>1 DEF IdleInv, PlansAreWork, plan_empty
  <2>3. Len(plan.decode) > 0 \/ Len(plan.aborted) > 0
    BY <1>3, <2>2, EmptySeq
  <2>4. PICK d \in Nat, a \in Nat, m \in Nat : d = Len(plan.decode) /\ a = Len(plan.aborted) /\ m = Len(results)
    <3>1. Len(plan.decode) \in Nat /\ Len(plan.aborted) \in Nat /\ Len(results) \in Nat
      BY PlanTypes, ResultTypes
    <3> QED BY <3>1
  <2>5. m > 0
    <3>1. m - a = d
      BY <2>1, <2>4 DEF RowsDone
    <3>2. d > 0 \/ a > 0
      BY <2>3, <2>4
    <3> QED BY <3>1, <3>2
  <2>6. results' # <<>>
    BY <2>1, <2>4, <2>5
  <2> QED BY <1>13, <2>1, <2>6
<1> QED BY <1>1, <1>6, <1>7, <1>8, <1>9, <1>10, <1>11, <1>12, <1>14, <1>15, <1>16 DEF PlanStep, CompleteStep

\* An empty result counts, and too many of them are the chunks of one long prompt.
LEMMA CallStepReturnsIdle ==
  ASSUME SchedInv, GenerateInv, IdleInv, CallStepReturns
  PROVE  IdleCount' /\ SomebodyServed' /\ GivesUpOnLongPrompt'
<1>1. /\ call = "step" /\ HandleResults(results)
      /\ EngineStepReturns \/ (EngineStepInternal /\ pc' = "idle")
  BY DEF CallStepReturns
<1>2. PICK n \in Nat, c \in Nat : n = idle_steps /\ c = PrefillChunk /\ c > 0
  BY SchedulerAssumption DEF IdleInv, IdleCount
<1>3. pc' = "idle"
  BY <1>1 DEF EngineStepReturns, StepReturn
<1>4. CASE results # <<>>
  <2>1. \/ call' \in {"unknown_id", "after_finish"} /\ idle_steps' = n
        \/ call' = "submit" /\ idle_steps' = 0
    BY <1>1, <1>2, <1>4 DEF HandleResults, Raise, ResultError
  <2> QED BY <1>3, <2>1 DEF IdleCount, SomebodyServed, GivesUpOnLongPrompt
<1>5. CASE results = <<>>
  <2>1. EngineStepReturns
    <3> SUFFICES ASSUME EngineStepInternal, pc' = "idle" PROVE FALSE
      BY <1>1
    <3>1. StepEmpty
      BY DEF EngineStepInternal, StepBegin, PlanStep, Admit, PlanPrefill, MaterializePrefillBlock, PrefillPlanned,
             PlanDecode, DecodeRow, DecodeRowReserved, DecodeRowClaimed, AbortYoungestRunning, DecodePlanned,
             Execute, CompleteStep, CompletePrefillChunk, CompletePrefillFinal, CompleteDecodeRow, CompleteDecode,
             stepVars
    <3> QED BY <1>1, <3>1, NeverEmpty DEF IdleInv
  <2>2. pc = "return" /\ UNCHANGED <<prefill_queue, prefill_progress, state>>
    BY <2>1 DEF EngineStepReturns, StepReturn, requestVars, queueVars
  <2>3. prefill_queue # <<>> /\ prefill_progress[Head(prefill_queue)] >= (n + 1) * c
    BY <1>1, <1>2, <1>5, <2>2 DEF IdleInv, IdleCount, HeadHasCome
  <2>4. PICK r \in Ids, p \in Nat :
          /\ r = Head(prefill_queue) /\ p = prefill_progress[r] /\ state[r] = "prefill" /\ p >= (n + 1) * c
    BY <2>3, HeadProgress
  <2>5. CASE n + 1 > MAX_IDLE_STEPS
    <3>1. call' = "no_progress" /\ idle_steps' = n
      BY <1>1, <1>2, <1>5, <2>5 DEF HandleResults, IdleStep, Raise
    <3>2. MAX_IDLE_STEPS \in Nat
      BY GenerateAssumption
    <3>3. n * c >= MAX_IDLE_STEPS * c /\ (n + 1) * c = n * c + c
      <4>1. PICK d \in Nat : n = MAX_IDLE_STEPS + d
        BY <2>5, <3>2
      <4>2. n * c = MAX_IDLE_STEPS * c + d * c /\ d * c \in Nat /\ MAX_IDLE_STEPS * c \in Nat
        BY <3>2, <4>1
      <4> QED BY <4>2
    <3>4. p > MAX_IDLE_STEPS * c
      <4>1. PICK u \in Nat, v \in Nat : u = n * c /\ v = MAX_IDLE_STEPS * c
        BY <3>2
      <4> QED BY <1>2, <2>4, <3>3, <4>1
    <3>5. state'[r] = "prefill" /\ prefill_progress'[r] > MAX_IDLE_STEPS * PrefillChunk
      BY <1>2, <2>2, <2>4, <3>4
    <3> QED BY <1>2, <1>3, <3>1, <3>5 DEF IdleCount, SomebodyServed, GivesUpOnLongPrompt
  <2>6. CASE ~(n + 1 > MAX_IDLE_STEPS)
    <3>1. call' = "submit" /\ idle_steps' = n + 1
      BY <1>1, <1>2, <1>5, <2>6 DEF HandleResults, IdleStep, Raise
    <3>2. HeadHasCome(idle_steps)'
      BY <1>2, <2>2, <2>3, <3>1 DEF HeadHasCome
    <3> QED BY <1>3, <3>1, <3>2 DEF IdleCount, SomebodyServed, GivesUpOnLongPrompt
  <2> QED BY <2>5, <2>6
<1> QED BY <1>4, <1>5

LEMMA IdleNext ==
  ASSUME SchedInv, EngineInv, GenerateInv, IdleInv, [GenerateNext]_genVars
  PROVE  IdleInv'
<1>1. CallShape
  BY GenerateSplit
<1>2. PlansAreWork' /\ EmptyPlans'
  <2>1. [EngineNext]_engineVars
    BY <1>1, GenerateIsEngine
  <2> QED BY <2>1, PlansNext DEF IdleInv
<1> SUFFICES IdleCount' /\ SomebodyServed' /\ GivesUpOnLongPrompt'
  BY <1>2 DEF IdleInv
<1>3. IdleCount /\ SomebodyServed /\ GivesUpOnLongPrompt /\ idle_steps \in Nat
  BY DEF IdleInv, IdleCount
<1>4. CASE UNCHANGED genVars \/ Finished
  <2>1. UNCHANGED <<call, pc, idle_steps, prefill_queue, prefill_progress, state, plan, results>>
    BY <1>4 DEF Finished, genVars, callVars, engineVars, schedVars, stepVars, requestVars, queueVars
  <2>2. Live' = Live
    BY <2>1 DEF Live
  <2> QED BY <1>3, <2>1, <2>2 DEF IdleCount, SomebodyServed, GivesUpOnLongPrompt, HeadHasCome
<1>5. CASE \E batch \in Batches : CallGenerate(batch)
  <2>1. call' = "submit" /\ idle_steps' = 0 /\ pc' = pc
    BY <1>5 DEF CallGenerate, engineVars, schedVars, stepVars
  <2>2. call # "step"
    BY <1>5 DEF CallGenerate, Errors
  <2> QED BY <1>1, <2>1, <2>2 DEF CallShape, IdleCount, SomebodyServed, GivesUpOnLongPrompt
<1>6. CASE SubmitPrompt
  <2>1. /\ call = "submit" /\ call' = "submit" /\ UNCHANGED <<idle_steps, pc, prefill_queue, prefill_progress>>
    BY <1>6 DEF SubmitPrompt, EngineAddRequest, AddRequest, stepVars
  <2> QED BY <1>1, <1>3, <2>1 DEF CallShape, IdleCount, SomebodyServed, GivesUpOnLongPrompt, HeadHasCome
<1>7. CASE PromptRejected
  <2>1. call = "submit" /\ call' = "rejected" /\ UNCHANGED <<idle_steps, pc>>
    BY <1>7 DEF PromptRejected, Raise, engineVars, schedVars, stepVars
  <2> QED BY <1>3, <2>1 DEF IdleCount, SomebodyServed, GivesUpOnLongPrompt
<1>8. CASE PromptsSubmitted
  <2>1. /\ call = "submit" /\ call' \in {"step", "returned"}
        /\ UNCHANGED <<idle_steps, pc, prefill_queue, prefill_progress, state>>
    BY <1>8 DEF PromptsSubmitted, engineVars, schedVars, stepVars, requestVars, queueVars
  <2>2. pc = "idle"
    BY <1>1, <2>1 DEF CallShape
  <2>3. call' = "step" => Live' # {}
    <3>1. Live' = Live
      BY <2>1 DEF Live
    <3> QED BY <1>8, <3>1, WorkLeft
  <2> QED BY <1>3, <2>1, <2>2, <2>3 DEF IdleCount, SomebodyServed, GivesUpOnLongPrompt, HeadHasCome
<1>9. CASE CallSteps
  <2>1. call' = "step"
    BY <1>9 DEF CallSteps, callVars
  <2> QED BY <1>9, <2>1, CallStepsIdle DEF GivesUpOnLongPrompt
<1>10. CASE CallStepReturns
  BY <1>10, CallStepReturnsIdle
<1>11. CASE CallStepRaises
  <2>1. call' = "step_raised" /\ idle_steps' = idle_steps
    BY <1>11 DEF CallStepRaises, Raise
  <2> QED BY <1>3, <2>1 DEF IdleCount, SomebodyServed, GivesUpOnLongPrompt
<1> QED BY <1>4, <1>5, <1>6, <1>7, <1>8, <1>9, <1>10, <1>11 DEF GenerateNext

LEMMA IdleInit == GenerateInit => IdleInv
<1> SUFFICES ASSUME GenerateInit PROVE IdleInv
  OBVIOUS
<1>1. call = "none" /\ idle_steps = 0 /\ pc = "idle"
  BY DEF GenerateInit, EngineInit, SchedInit
<1> QED BY <1>1 DEF IdleInv, IdleCount, PlansAreWork, SomebodyServed, EmptyPlans, GivesUpOnLongPrompt

LEMMA GenerateInitInv == GenerateInit => SchedInv /\ EngineInv /\ GenerateInv
<1> SUFFICES ASSUME GenerateInit PROVE SchedInv /\ EngineInv /\ GenerateInv
  OBVIOUS
<1>1. /\ EngineInit /\ prompts = <<>> /\ call = "none" /\ failed_before = FALSE
      /\ next_index = 1 /\ by_id = <<>>
  BY DEF GenerateInit
<1>2. SchedInv /\ EngineInv
  BY <1>1, EngineInitInv, InvInit DEF EngineInit
<1>3. /\ pc = "idle" /\ next_request_id = 1 /\ results = <<>> /\ plan.aborted = <<>>
      /\ state = [r \in Ids |-> "none"]
  BY <1>1 DEF EngineInit, SchedInit, EmptyPlan
<1>4. CallShape
  <2>1. by_id \in [{} -> Completion] /\ Len(prompts) = 0
    BY <1>1
  <2>2. next_request_id - next_index + 1 .. next_request_id - 1 = {}
    BY <1>1, <1>3
  <2>3. by_id \in [next_request_id - next_index + 1 .. next_request_id - 1 -> Completion]
    BY <2>1, <2>2
  <2>4. next_index \in 1 .. Len(prompts) + 1 /\ next_index <= next_request_id
    BY <1>1, <1>3, <2>1
  <2> QED BY <1>1, <1>3, <2>3, <2>4 DEF CallShape
<1>5. LastResults
  BY <1>3 DEF LastResults
<1>6. CallBooks
  BY <1>1, <1>3 DEF CallBooks, Calling, Errors
<1> QED BY <1>2, <1>4, <1>5, <1>6, GenerateSplit

LEMMA GenerateInvSound ==
  ASSUME SchedInv, EngineInv, GenerateInv, TokensInv
  PROVE  GenerateSound
<1>1. CallShape /\ CallBooks
  BY GenerateSplit
<1>2. ASSUME call = "returned"
      PROVE  /\ Cardinality(DOMAIN by_id) = Len(prompts)
             /\ \A r \in DOMAIN by_id :
                  /\ by_id[r].finish_reason = finish_reason[r] /\ state[r] = "finished"
                  /\ by_id[r].tokens = output_tokens[r]
  <2>1. /\ next_index > Len(prompts) /\ unfinished <= 0 /\ unfinished = Cardinality(Awaited)
        /\ \A r \in DOMAIN by_id : UpToDate(r)
    BY <1>1, <1>2 DEF CallShape, CallBooks, Calling
  <2>2. PICK k \in Nat, len \in Nat :
          /\ k = next_index /\ len = Len(prompts) /\ k <= len + 1
          /\ DOMAIN by_id \subseteq Ids /\ Cardinality(DOMAIN by_id) = k - 1
    BY <1>1, CallTypes
  <2>3. Cardinality(DOMAIN by_id) = Len(prompts)
    BY <2>1, <2>2
  <2>4. Awaited = {}
    <3>1. PICK m \in Nat : m = Cardinality(Awaited) /\ IsFiniteSet(Awaited)
      BY <1>1, CallTypes
    <3>2. m = 0
      BY <2>1, <3>1
    <3> QED BY <3>1, <3>2, FS_EmptySet, Zenon
  <2>5. ASSUME NEW r \in DOMAIN by_id
        PROVE  /\ by_id[r].finish_reason = finish_reason[r] /\ state[r] = "finished"
               /\ by_id[r].tokens = output_tokens[r]
    <3>1. UpToDate(r) /\ by_id[r].finish_reason # "none" /\ r \in Ids
      BY <2>1, <2>2, <2>4 DEF Awaited
    <3>2. Service!Closed(delivered[r]) /\ CaughtUp(r)
      BY <3>1, EngineSplit DEF UpToDate, Reported
    <3>3. /\ by_id[r].finish_reason = finish_reason[r] /\ state[r] = "finished"
          /\ Len(by_id[r].tokens) = Len(output_tokens[r])
      BY <3>1, <3>2 DEF UpToDate, CaughtUp
    <3>4. PICK c \in Seq(Tokens), out \in Seq(Tokens) : c = by_id[r].tokens /\ out = output_tokens[r]
      <4>1. by_id[r] \in Completion /\ output_tokens[r] \in Seq(Tokens)
        BY <1>1, <3>1, CallTypes, InvSplit DEF Core, CoreType
      <4> QED BY <4>1 DEF Completion
    <3>5. Len(c) = Len(out) /\ \A i \in 1 .. Len(c) : c[i] = out[i]
      BY <3>3, <3>4 DEF TokensInv, Collected
    <3>6. c = out
      BY <3>5
    <3> QED BY <3>3, <3>4, <3>6
  <2> QED BY <2>3, <2>5
<1>3. call \in {"unknown_id", "after_finish"} => failed_before
  BY <1>1 DEF CallBooks
<1> QED BY <1>2, <1>3 DEF GenerateSound

-----------------------------------------------------------------------------
(***************************************************************************)
(* The queues and pools inside Engine are the scheduler's own: everything  *)
(* proved of the scheduler holds inside the engine.                        *)
(***************************************************************************)
THEOREM EngineImplementsScheduler == EngineSpec => SchedSpec
<1>1. EngineInit => SchedInit
  BY DEF EngineInit
<1> QED BY <1>1, EngineIsSched, PTL DEF EngineSpec, SchedSpec

(***************************************************************************)
(* The inductive invariant of Engine, for any number of requests, tokens,  *)
(* blocks and buckets. The hypothesis is needed: a step that has aborted a *)
(* request and is then thrown away by the executor loses the abort's       *)
(* notice (Scheduler::PlanStep has already finished the request).          *)
(***************************************************************************)
THEOREM EngineInvariant ==
  ASSUME AdmissionPolicy = "reserve_full" \/ MaxThrows = 0
  PROVE  EngineSpec => [](SchedInv /\ EngineInv)
<1>1. EngineInit => SchedInv /\ EngineInv
  BY EngineInitInv, InvInit DEF EngineInit
<1>2. SchedInv /\ EngineInv /\ [EngineNext]_engineVars => (SchedInv /\ EngineInv)'
  BY EngineInvNext, EngineIsSched, InvNext
<1> QED BY <1>1, <1>2, PTL DEF EngineSpec

(***************************************************************************)
(* Between two calls requests_ holds the live requests and nothing else,   *)
(* so "the map stays bounded across a long-serving process".               *)
(***************************************************************************)
THEOREM LiveRequestsExact ==
  ASSUME AdmissionPolicy = "reserve_full" \/ MaxThrows = 0
  PROVE  EngineSpec => []LiveMapExact
<1>1. SchedInv /\ EngineInv => LiveMapExact
  <2> SUFFICES ASSUME SchedInv, EngineInv, pc = "idle" PROVE requests = Live
    BY DEF LiveMapExact
  <2>1. Unreported = {}
    BY NoAborts
  <2>2. requests = Live \union Unreported
    BY DEF EngineInv
  <2> QED BY <2>1, <2>2
<1> QED BY <1>1, EngineInvariant, PTL

(***************************************************************************)
(* Engine implements RequestService: whatever Step queues, chunks, batches *)
(* or pads, each client gets its tokens one by one, one finish with the    *)
(* reason its tokens give, first come first served, and only the youngest  *)
(* is given up.                                                            *)
(***************************************************************************)
THEOREM EngineServesItsClients ==
  ASSUME AdmissionPolicy = "reserve_full" \/ MaxThrows = 0
  PROVE  EngineSpec => ImplementsService
<1>1. (SchedInv /\ EngineInv) /\ (SchedInv /\ EngineInv)' /\ [EngineNext]_engineVars
        => [Service!ServiceNext]_(Service!serviceVars)
  BY ServiceSteps
<1> QED BY <1>1, ServiceStarts, EngineInvariant, PTL
     DEF EngineSpec, ImplementsService, Service!ServiceSafety

(***************************************************************************)
(* Between two calls the token and abort counters of Engine::Stats are     *)
(* exactly what the requests show, whichever steps failed in between, and  *)
(* the decode steps it counts are as many as the padded ones at least and  *)
(* as the decoded tokens at most.  The hypothesis is needed for aborts: a  *)
(* step that is thrown away after an abort never counts it.                *)
(***************************************************************************)
THEOREM StatisticsExact ==
  ASSUME AdmissionPolicy = "reserve_full" \/ MaxThrows = 0
  PROVE  EngineSpec => []StatsExact
<1>1. EngineInit => StatsInv
  BY StatsInitInv
<1>2. (SchedInv /\ EngineInv) /\ StatsInv /\ [EngineNext]_engineVars => StatsInv'
  BY StatsNext
<1>3. (SchedInv /\ EngineInv) /\ StatsInv => StatsExact
  <2> SUFFICES ASSUME SchedInv, StatsInv, pc = "idle" PROVE StatsExact
    BY DEF StatsExact
  <2>1. plan.aborted = <<>>
    BY InvSplit DEF PlanMatchesQueues, EmptyPlan
  <2>2. RowsUncounted = 0 /\ PromptUncounted = 0
    BY DEF RowsUncounted, PromptUncounted
  <2>3. StatsTypeOK
    BY DEF StatsInv
  <2> QED BY <2>1, <2>2, <2>3 DEF StatsInv, StatsTypeOK, StatsExact
<1> QED BY <1>1, <1>2, <1>3, EngineInvariant, PTL DEF EngineSpec

(***************************************************************************)
(* generate() keeps its promise for any batches, any number of calls and   *)
(* any idle limit: what it returns holds one completion for every prompt,  *)
(* with the finish reason and exactly the tokens the engine produced for   *)
(* it, and its two "should not happen" errors come only after a call that  *)
(* raised.  A completion is a prefix of its request's tokens all along     *)
(* (TokensInv), and no shorter once its last result is in.                 *)
(* The hypothesis is the one of EngineInvariant, on which this rests.      *)
(***************************************************************************)
THEOREM GenerateIsSound ==
  ASSUME AdmissionPolicy = "reserve_full" \/ MaxThrows = 0
  PROVE  GenerateSpec => []GenerateSound
<1>1. GenerateInit => SchedInv /\ EngineInv /\ GenerateInv /\ TokensInv
  BY GenerateInitInv, TokensInit
<1>2. SchedInv /\ EngineInv /\ GenerateInv /\ TokensInv /\ [GenerateNext]_genVars
        => (SchedInv /\ EngineInv /\ GenerateInv /\ TokensInv)'
  BY GenerateInvNext, TokensNext
<1>3. SchedInv /\ EngineInv /\ GenerateInv /\ TokensInv => GenerateSound
  BY GenerateInvSound
<1> QED BY <1>1, <1>2, <1>3, PTL DEF GenerateSpec

(***************************************************************************)
(* The "made no progress" error of generate() means a prompt that has more *)
(* than _MAX_IDLE_STEPS chunks and nothing else, for any limit, batches,   *)
(* pool and left-over requests.  Every empty result in a row committed one *)
(* more whole chunk of the prompt at the head of prefill_queue, and Step   *)
(* is never without a plan while generate calls it (IdleInv).              *)
(***************************************************************************)
THEOREM GivesUpOnlyOnLongPrompts ==
  ASSUME AdmissionPolicy = "reserve_full" \/ MaxThrows = 0
  PROVE  GenerateSpec => []GivesUpOnLongPrompt
<1>1. GenerateInit => SchedInv /\ EngineInv /\ GenerateInv /\ IdleInv
  BY GenerateInitInv, IdleInit
<1>2. SchedInv /\ EngineInv /\ GenerateInv /\ IdleInv /\ [GenerateNext]_genVars
        => (SchedInv /\ EngineInv /\ GenerateInv /\ IdleInv)'
  BY GenerateInvNext, IdleNext
<1>3. IdleInv => GivesUpOnLongPrompt
  BY DEF IdleInv
<1> QED BY <1>1, <1>2, <1>3, PTL DEF GenerateSpec

(***************************************************************************)
(* generate() uses the engine as the engine's specification allows, so all *)
(* that is proved of Engine holds while generate() drives it.              *)
(***************************************************************************)
THEOREM GenerateImplementsEngine ==
  ASSUME AdmissionPolicy = "reserve_full" \/ MaxThrows = 0
  PROVE  GenerateSpec => EngineSpec
<1>1. GenerateInit => EngineInit /\ SchedInv /\ EngineInv /\ GenerateInv
  BY GenerateInitInv DEF GenerateInit
<1>2. SchedInv /\ EngineInv /\ GenerateInv /\ [GenerateNext]_genVars => (SchedInv /\ EngineInv /\ GenerateInv)'
  BY GenerateInvNext
<1>3. SchedInv /\ EngineInv /\ GenerateInv /\ [GenerateNext]_genVars => [EngineNext]_engineVars
  BY GenerateIsEngine, GenerateSplit
<1> QED BY <1>1, <1>2, <1>3, PTL DEF GenerateSpec, EngineSpec
===============================================================================
