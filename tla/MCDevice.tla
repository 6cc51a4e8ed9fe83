------------------------------- MODULE MCDevice -------------------------------
(***************************************************************************)
(* What runs on the device, at three grains: the launches of a forward     *)
(* pass over the slab and the pool, the warps of one CTA of the decode     *)
(* attention, and the reduction of one row of logits.  A behaviour         *)
(* exercises one `grain` and the other two rest.                           *)
(***************************************************************************)
EXTENDS ForwardPass, PagedAttention, ArgmaxReduce

VARIABLE grain

\* A prompt of two chunks and one of a single token, on blocks that alternate.
MCPromptLen == <<3, 1>>
MCTableOf == <<<<3, 1>>, <<2, 4>>>>

\* Tile -> block, in no order and with a gap.
MCTableRow == (0 :> 3) @@ (1 :> 1) @@ (2 :> 4)

-----------------------------------------------------------------------------
\* A part at rest: no call, a launch over an empty sequence, no row launched.
ForwardRests ==
  /\ mem = <<>> /\ kv_pool = <<>> /\ program = <<>> /\ step = Idle /\ files = <<>>
  /\ cached = [s \in Sequences |-> 0] /\ dump_pending = FALSE
AttentionRests == cp_async = FALSE /\ launched_len = 0 /\ AttentionInit
ArgmaxRests == row = <<0>> /\ token = NotLaunched

DeviceInit ==
  \/ grain = "launches" /\ AttentionRests /\ ArgmaxRests /\ ForwardInit
  \/ grain = "warps" /\ ForwardRests /\ ArgmaxRests /\ AttentionInit
  \/ grain = "row" /\ ForwardRests /\ AttentionRests /\ ArgmaxInit

DeviceNext ==
  \/ grain = "launches" /\ ForwardNext /\ UNCHANGED <<attentionVars, argmaxVars, grain>>
  \/ grain = "warps" /\ AttentionNext /\ UNCHANGED <<forwardVars, argmaxVars, grain>>
  \/ grain = "row" /\ ArgmaxNext /\ UNCHANGED <<forwardVars, attentionVars, grain>>

DeviceSpec == DeviceInit /\ [][DeviceNext]_<<forwardVars, attentionVars, argmaxVars, grain>>
===============================================================================
