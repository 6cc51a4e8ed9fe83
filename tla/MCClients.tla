------------------------------ MODULE MCClients -------------------------------
(***************************************************************************)
(* The two programs that drive an Engine in one thread, the C++ benchmark  *)
(* driver and the Python generate().  A process runs one of them; the      *)
(* other's variables rest.                                                 *)
(***************************************************************************)
EXTENDS BenchDriver, Generate

VARIABLE program

Cli(prompt, gen, n, ignore) ==
  [prompt_len |-> prompt, gen_len |-> gen, requests |-> n, ignore_eos |-> ignore]

\* Waves larger than the batch and the waiting queue, with prompts of one and
\* of two chunks, that the pool holds two at a time; one request no pool of
\* this size takes; and a usage error.
MCCliOptions ==
  {Cli(3, 2, 3, TRUE), Cli(3, 2, 3, FALSE), Cli(1, 3, 3, FALSE), Cli(2, 1, 3, TRUE),
   Cli(9, 2, 1, TRUE), Cli(1, 0, 1, TRUE)}

Req(prompt, max_new) ==
  [prompt |-> prompt, max_new |-> max_new, ignore_eos |-> FALSE, forced |-> <<>>]

\* Two that outgrow the pool together, two prompts of as many chunks as generate
\* tolerates, one that has a chunk more, and a batch whose second prompt is
\* rejected.
MCBatches ==
  {<<Req(3, 4), Req(2, 5)>>, <<Req(4, 2), Req(3, 1)>>, <<Req(1, 1), Req(5, 1)>>,
   <<Req(1, 2), Req(11, 1)>>}

MCWorkload == UNION {Range(b) : b \in MCBatches}

-----------------------------------------------------------------------------
BenchRests ==
  /\ opt = Cli(1, 1, 1, FALSE) /\ at = "exited" /\ ended = "not_run"
  /\ submitted = 0 /\ finished = 0 /\ index_by_id = <<>> /\ traces = <<NoTrace>>
  /\ step_calls = 0 /\ warmup_tokens = 0

CallRests ==
  /\ prompts = <<>> /\ call = "none" /\ calls = 0 /\ failed_before = FALSE
  /\ next_index = 1 /\ unfinished = 0 /\ idle_steps = 0 /\ by_id = <<>>

ClientsInit ==
  \/ program = "bench" /\ BenchInit /\ CallRests
  \/ program = "generate" /\ GenerateInit /\ BenchRests

BenchRuns == program = "bench" /\ Progress /\ UNCHANGED <<callVars, program>>

ClientsNext ==
  \/ BenchRuns
  \/ program = "bench" /\ (StepThrows \/ Exited) /\ UNCHANGED <<callVars, program>>
  \/ program = "generate" /\ GenerateNext /\ UNCHANGED <<opt, driverVars, program>>

clientsVars == <<benchVars, callVars, program>>

\* One thread runs the program and the engine, and nothing makes it wait.
ClientsSpec == ClientsInit /\ [][ClientsNext]_clientsVars /\ WF_clientsVars(BenchRuns)
===============================================================================
