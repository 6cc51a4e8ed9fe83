---------------------------- MODULE RequestService ----------------------------
(***************************************************************************)
(* What Engine promises its clients (core/engine.hpp, StepResult in        *)
(* core/types.hpp), without queues, blocks, batches or steps that fail:    *)
(* requests are accepted one by one, and now and then a batch of results   *)
(* is returned, at most one for each open request.                         *)
(***************************************************************************)
EXTENDS Integers, Sequences, FiniteSets

CONSTANTS
  Ids,                        \* request ids, 1 .. n, in order of acceptance
  Params,                     \* what clients ask for
  Tokens,
  MaxBatch,                   \* results in one batch
  MayAbort                    \* the watermark policy may give up a request

VARIABLES
  accepted,                   \* requests 1 .. accepted have been accepted
  request,                    \* id -> member of Params
  stream                      \* id -> results returned for it, oldest first

serviceVars == <<accepted, request, stream>>

-----------------------------------------------------------------------------
Closed(s) == \E i \in DOMAIN s : s[i].finished

Open == {r \in 1 .. accepted : ~Closed(stream[r])}

\* The token the n-th result stands for: the scripted one while there is one.
Meant(p, n, token) == IF n <= Len(p.forced) THEN p.forced[n] ELSE token

Reason(p, n, token) ==
  IF ~p.ignore_eos /\ Meant(p, n, token) = "eos" THEN "eos"
  ELSE IF n >= p.max_new THEN "length" ELSE "none"

\* The next token of r, the last one if it ends the request.
TokenResult(r, token) ==
  LET reason == Reason(request[r], Len(stream[r]) + 1, token) IN
  [request_id |-> r, token |-> token, finished |-> reason # "none", finish_reason |-> reason]

\* The notice that r was given up, after its first token at the earliest.
AbortNotice(r) ==
  [request_id |-> r, token |-> "tok", finished |-> TRUE, finish_reason |-> "aborted"]

NextResults(r) ==
  {TokenResult(r, token) : token \in Tokens}
    \cup (IF MayAbort /\ stream[r] # <<>> THEN {AbortNotice(r)} ELSE {})

ServiceInit ==
  /\ accepted = 0
  /\ request \in [Ids -> {[prompt |-> 0, max_new |-> 0, ignore_eos |-> FALSE, forced |-> <<>>]}]
  /\ stream = [r \in Ids |-> <<>>]

Accept(p) ==
  /\ accepted + 1 \in Ids
  /\ accepted' = accepted + 1
  /\ request' = [request EXCEPT ![accepted + 1] = p]
  /\ UNCHANGED stream

\* Nobody has a first token before an older request has one.
FirstComeFirstServed == \A r, s \in Ids : r < s /\ stream[s] # <<>> => stream[r] # <<>>

\* A request is given up only if no younger one that has started goes on.
GivesUpYoungest(batch, result) ==
  \A r \in batch, s \in Ids :
    result[r].finish_reason = "aborted" /\ s > r /\ stream[s] # <<>> => Closed(stream'[s])

Return(batch) ==
  /\ batch # {} /\ Cardinality(batch) <= MaxBatch
  /\ \E result \in [batch -> UNION {NextResults(r) : r \in batch}] :
       /\ \A r \in batch : result[r] \in NextResults(r)
       /\ stream' = [r \in Ids |-> IF r \in batch THEN Append(stream[r], result[r]) ELSE stream[r]]
       /\ GivesUpYoungest(batch, result)
  /\ FirstComeFirstServed'
  /\ UNCHANGED <<accepted, request>>

ServiceNext ==
  \/ \E p \in Params : Accept(p)
  \/ \E batch \in SUBSET Open : Return(batch)

\* Every accepted request is brought to an end that its client is told of.
EveryRequestAnswered == \A r \in Ids : (r \in Open) ~> (r \in 1 .. accepted /\ Closed(stream[r]))

ServiceSafety == ServiceInit /\ [][ServiceNext]_serviceVars

ServiceSpec == ServiceSafety /\ EveryRequestAnswered
===============================================================================
