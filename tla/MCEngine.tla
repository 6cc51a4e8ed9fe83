------------------------------- MODULE MCEngine -------------------------------
(* Small request mixes for Engine. *)
EXTENDS Engine

Req(prompt, max_new, ignore_eos, forced) ==
  [prompt |-> prompt, max_new |-> max_new, ignore_eos |-> ignore_eos, forced |-> forced]

\* Teacher forcing in its three relations to the output (shorter, as long,
\* stopping on a forced EOS), an ignored EOS, and a plain request.
ForcedWorkload ==
  {Req(1, 3, FALSE, <<"tok">>), Req(1, 2, FALSE, <<"tok", "eos">>),
   Req(3, 2, TRUE, <<>>), Req(2, 3, FALSE, <<>>)}

\* Requests that outgrow the pool together, one that outgrows it alone.
GrowingWorkload ==
  {Req(1, 1, FALSE, <<>>), Req(2, 4, FALSE, <<>>), Req(1, 8, FALSE, <<>>)}
===============================================================================
