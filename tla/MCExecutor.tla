------------------------------ MODULE MCExecutor ------------------------------
(* Small request mixes for Executor. *)
EXTENDS Executor

Req(prompt, max_new, ignore_eos) ==
  [prompt |-> prompt, max_new |-> max_new, ignore_eos |-> ignore_eos, forced |-> <<>>]

\* Prompts of one and two chunks; outputs that cross a block boundary; and the
\* rejected shapes: an empty prompt, no output, too long a sequence.
CacheWorkload ==
  {Req(1, 3, FALSE), Req(3, 2, FALSE), Req(2, 4, FALSE),
   Req(0, 2, FALSE), Req(2, 0, FALSE), Req(5, 9, FALSE)}

\* Requests that outgrow the pool together, one that outgrows it alone, and one
\* whose prompt fits the pool but not above the free floor (rejected).
GrowingWorkload ==
  {Req(3, 2, FALSE), Req(2, 8, FALSE), Req(1, 2, TRUE), Req(7, 1, FALSE)}
===============================================================================
