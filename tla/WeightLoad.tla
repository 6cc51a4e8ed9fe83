----------------------------- MODULE WeightLoad -------------------------------
(***************************************************************************)
(* The load of the weights: DeviceWeights of loader/weights.cpp streaming  *)
(* every checkpoint tensor through the two pinned slots of StagedUploader  *)
(* (loader/convert.cpp) on the load stream of Engine's constructor.        *)
(*                                                                         *)
(* The stream is a queue the device works off on its own: a copy reads its *)
(* slot when the device gets to it; an event is reached when everything    *)
(* before it is done.  Element i of tensor t of layer l is <<t, l, i>>.    *)
(***************************************************************************)
EXTENDS WeightsLayout

CONSTANTS
  ChunkElements,              \* chunk_elements(): elements one slot holds
  Checkpoints,                \* the checkpoints to load
  MaxFaults,                  \* bound: failing library calls
  RecordFails                 \* whether cudaEventRecord is one of them

\* A checkpoint has an lm_head of its own or not, and at most one defect: an
\* untied lm_head that is missing, or one at an element of one of its tensors.
ASSUME LoadAssumption ==
  /\ ChunkElements \in Nat \ {0} /\ MaxFaults \in Nat /\ RecordFails \in BOOLEAN
  /\ \A c \in Checkpoints :
       /\ {c.lm_head, c.tied} \subseteq BOOLEAN
       /\ \/ c.defect = "none"
          \/ c.defect \in {"missing", "shape", "dtype"} /\ ~c.lm_head /\ ~c.tied
          \/ /\ c.defect \in {"missing", "shape", "dtype", "overflow"}
             /\ \E k \in DOMAIN BuildWeightMap(c.lm_head) :
                  LET e == BuildWeightMap(c.lm_head)[k] IN
                  \E i \in 0 .. num_elements(e) - 1 : c.at = <<e.name, e.layer, i>>

VARIABLES
  checkpoint,
  stage, entry, offset,       \* DeviceWeights' loop and Upload's
  next_slot, slot_pending,
  staging,                    \* contents of the two slots; "freed"
  stream,                     \* copies and events the device has not reached
  slab,                       \* device memory: whether it is allocated, and its contents
  error,                      \* what the load threw
  faults

loadVars == <<checkpoint, stage, entry, offset, next_slot, slot_pending, staging, stream, slab,
              error, faults>>

-----------------------------------------------------------------------------
NoElement == <<"none", NoLayer, 0>>

NoSlab == [state |-> "none", data |-> <<>>]
FreedSlab == [state |-> "freed", data |-> <<>>]

weight_map == BuildWeightMap(checkpoint.lm_head)

ElementOf(e, i) == <<e.name, e.layer, i>>

IsAt(e) == checkpoint.at[1] = e.name /\ checkpoint.at[2] = e.layer

\* Presence, shape and dtype of one mapped tensor.
ValidateEntry(e) == ~(checkpoint.defect \in {"missing", "shape", "dtype"} /\ IsAt(e))

\* The elements of a chunk that ConvertBf16ToFp16 refuses.
Overflows(e, from, n) ==
  {i \in from .. from + n - 1 : checkpoint.defect = "overflow" /\ checkpoint.at = ElementOf(e, i)}

LoadInit ==
  /\ checkpoint \in Checkpoints
  /\ stage = "validate" /\ entry = 1 /\ offset = 0
  /\ next_slot = 0 /\ slot_pending = [s \in 0 .. 1 |-> FALSE]
  /\ staging = [s \in 0 .. 1 |-> <<>>] /\ stream = <<>> /\ slab = NoSlab
  /\ error = NoElement /\ faults = 0

Fails == faults < MaxFaults /\ faults' = faults + 1 /\ stage' = "drain"

-----------------------------------------------------------------------------
\* The whole inventory is validated before the slab is allocated.
ValidateInventory ==
  /\ stage = "validate"
  /\ IF /\ checkpoint.lm_head \/ checkpoint.tied
        /\ \A i \in DOMAIN weight_map : ValidateEntry(weight_map[i])
     THEN stage' = "alloc" /\ UNCHANGED error
     ELSE stage' = "uploader" /\ error' = checkpoint.at
  /\ UNCHANGED <<checkpoint, entry, offset, next_slot, slot_pending, staging, stream, slab, faults>>

AllocSlab ==
  /\ stage = "alloc"
  /\ \/ /\ slab' = [state |-> "live",
                    data |-> [i \in 0 .. TotalElements(checkpoint.lm_head) - 1 |-> NoElement]]
        /\ stage' = "upload" /\ UNCHANGED faults
     \/ /\ faults < MaxFaults /\ faults' = faults + 1
        /\ stage' = "uploader" /\ UNCHANGED slab
  /\ UNCHANGED <<checkpoint, entry, offset, next_slot, slot_pending, staging, stream, error>>

\* An event is reached when no mark of it is left in the stream.
Reached(slot) == \A i \in DOMAIN stream : stream[i] # <<"event", slot>>

\* Mutant: the second slot is reused without waiting for the copy out of it.
FirstSlotFree(slot) == slot = 0 /\ slot_pending[slot] => Reached(slot)

\* WaitSlot returns: nothing is pending, or the event has been reached.
SlotFree(slot) == slot_pending[slot] => Reached(slot)

ChunkSize == Min({ChunkElements, num_elements(weight_map[entry]) - offset})

\* Mutant: the index is that within the chunk.
ReportInChunk(e, i) == ElementOf(e, i - offset)

\* The tensor-absolute index Fp16OverflowError names.
Report(e, i) == ElementOf(e, i)

\* The rest of a chunk once its copy is enqueued: the event, then the books.
\* When recording the event fails the copy stays, on no one's books.
RecordEvent(copy) ==
  \E recorded \in IF RecordFails THEN BOOLEAN ELSE {TRUE} :
    IF recorded
    THEN /\ stream' = stream \o <<copy, <<"event", next_slot>>>>
         /\ slot_pending' = [slot_pending EXCEPT ![next_slot] = TRUE]
         /\ next_slot' = 1 - next_slot /\ offset' = offset + ChunkSize
         /\ UNCHANGED <<stage, faults>>
    ELSE /\ Fails /\ stream' = Append(stream, copy)
         /\ slot_pending' = [slot_pending EXCEPT ![next_slot] = FALSE]
         /\ UNCHANGED <<next_slot, offset>>

\* One chunk: wait for the slot, convert into it, enqueue the copy and an event.
UploadChunk ==
  LET e   == weight_map[entry]
      bad == Overflows(e, offset, ChunkSize)
      dst == EntryOffset(e, checkpoint.lm_head) + offset
  IN
  /\ stage = "upload" /\ entry <= Len(weight_map) /\ offset < num_elements(e)
  /\ SlotFree(next_slot)
  /\ \/ /\ bad = {}
        /\ staging' = [staging EXCEPT ![next_slot] =
                         [i \in 1 .. ChunkSize |-> ElementOf(e, offset + i - 1)]]
        /\ RecordEvent(<<"copy", next_slot, dst>>)
        /\ UNCHANGED error
     \/ /\ bad # {}
        /\ error' = Report(e, Min(bad)) /\ stage' = "drain"
        /\ slot_pending' = [slot_pending EXCEPT ![next_slot] = FALSE]
        /\ UNCHANGED <<staging, stream, next_slot, offset, faults>>
  /\ UNCHANGED <<checkpoint, entry, slab>>

\* cudaMemcpyAsync fails: the slot was filled and nothing enqueued.
CopyFails ==
  /\ stage = "upload" /\ entry <= Len(weight_map) /\ offset < num_elements(weight_map[entry])
  /\ SlotFree(next_slot) /\ Overflows(weight_map[entry], offset, ChunkSize) = {}
  /\ staging' = [staging EXCEPT ![next_slot] = <<>>]
  /\ slot_pending' = [slot_pending EXCEPT ![next_slot] = FALSE]
  /\ Fails
  /\ UNCHANGED <<checkpoint, entry, offset, next_slot, stream, slab, error>>

\* A wait reports that the device has failed: it runs nothing more.
DeviceLost ==
  /\ stage \in {"upload", "sync"} /\ \E s \in 0 .. 1 : slot_pending[s]
  /\ Fails /\ stream' = <<>>
  /\ UNCHANGED <<checkpoint, entry, offset, next_slot, slot_pending, staging, slab, error>>

NextEntry ==
  /\ stage = "upload" /\ entry <= Len(weight_map) /\ offset = num_elements(weight_map[entry])
  /\ entry' = entry + 1 /\ offset' = 0
  /\ stage' = IF entry = Len(weight_map) THEN "sync" ELSE "upload"
  /\ UNCHANGED <<checkpoint, next_slot, slot_pending, staging, stream, slab, error, faults>>

\* StagedUploader::Synchronize: both slots.
Synchronize == SlotFree(0) /\ SlotFree(1) /\ slot_pending' = [s \in 0 .. 1 |-> FALSE]

\* The weights are resident: the constructor returns.
Resident ==
  /\ stage = "sync" /\ Synchronize /\ stage' = "uploader"
  /\ UNCHANGED <<checkpoint, entry, offset, next_slot, staging, stream, slab, error, faults>>

\* Mutant: frees the slab as soon as the upload has failed.
FreeAtOnce ==
  /\ stage = "drain" /\ slab' = FreedSlab /\ stage' = "uploader"
  /\ UNCHANGED <<slot_pending, checkpoint, entry, offset, next_slot, staging, stream, error, faults>>

\* The handler: drain what is in flight, then free the slab and rethrow.
DrainAndFree ==
  /\ stage = "drain" /\ Synchronize /\ slab' = FreedSlab /\ stage' = "uploader"
  /\ UNCHANGED <<checkpoint, entry, offset, next_slot, staging, stream, error, faults>>

\* ~StagedUploader at the end of the scope: wait, then free the pinned slots.
DestroyUploader ==
  /\ stage = "uploader" /\ Synchronize
  /\ staging' = <<"freed">> /\ stage' = "end"
  /\ UNCHANGED <<checkpoint, entry, offset, next_slot, stream, slab, error, faults>>

\* The load stream is destroyed once the device has run it dry.
Ended == stage = "end" /\ stream = <<>> /\ UNCHANGED loadVars

\* The device: the oldest copy or event.
DeviceStep ==
  /\ stream # <<>> /\ stream' = Tail(stream)
  /\ LET op == Head(stream) IN
     IF op[1] = "copy" /\ stage # "end" /\ slab.state = "live"
     THEN slab' = [slab EXCEPT !.data =
                     [i \in DOMAIN slab.data |->
                        IF i - op[3] + 1 \in DOMAIN staging[op[2]] THEN staging[op[2]][i - op[3] + 1]
                        ELSE slab.data[i]]]
     ELSE UNCHANGED slab
  /\ UNCHANGED <<checkpoint, stage, entry, offset, next_slot, slot_pending, staging, error, faults>>

LoadNext ==
  \/ ValidateInventory \/ AllocSlab \/ UploadChunk \/ CopyFails \/ NextEntry \/ Resident
  \/ DrainAndFree \/ DestroyUploader \/ DeviceLost \/ DeviceStep \/ Ended

LoadSpec == LoadInit /\ [][LoadNext]_loadVars

-----------------------------------------------------------------------------
(***************************************************************************)
(* Properties.                                                             *)
(***************************************************************************)
Loaded == stage \in {"uploader", "end"} /\ slab.state = "live"

\* The checkpoint tensors a fused tensor is made of, in row order, with their
\* element counts.
FusedRows(kind) ==
  CASE kind = "w_qkv" -> <<<<"q_proj.weight", Hidden * Hidden>>, <<"k_proj.weight", KvRows * Hidden>>,
                           <<"v_proj.weight", KvRows * Hidden>>>>
    [] kind = "b_qkv" -> <<<<"q_proj.bias", Hidden>>, <<"k_proj.bias", KvRows>>,
                           <<"v_proj.bias", KvRows>>>>
    [] kind = "w_gateup" -> <<<<"gate_proj", Inter * Hidden>>, <<"up_proj", Inter * Hidden>>>>
    [] kind = "w_o" -> <<<<"o_proj", Hidden * Hidden>>>>
    [] kind = "w_down" -> <<<<"down_proj", Hidden * Inter>>>>
    [] kind = "input_norm" -> <<<<"input_layernorm", Hidden>>>>
    [] kind = "post_attn_norm" -> <<<<"post_attention_layernorm", Hidden>>>>
    [] kind = "final_norm" -> <<<<"norm", Hidden>>>>
    [] kind = "embed" -> <<<<"embed_tokens", Vocab * Hidden>>>>
    [] kind = "lm_head" -> <<<<IF checkpoint.lm_head THEN "lm_head" ELSE "embed_tokens",
                               Vocab * Hidden>>>>

\* Where the j-th of them starts.
FusedStart(kind, j) ==
  (IF j > 1 THEN FusedRows(kind)[1][2] ELSE 0) + (IF j > 2 THEN FusedRows(kind)[2][2] ELSE 0)

\* When the constructor has returned, every fused tensor read at its offset is
\* the concatenation of its checkpoint tensors, element by element: no slot was
\* overwritten under a copy, no copy is missing, no two tensors share a row.
SlabMatchesCheckpoint ==
  Loaded =>
    \A r \in ToSet(Regions(checkpoint.lm_head)) \cup {<<"lm_head", NoLayer, 0>>} :
      \A j \in DOMAIN FusedRows(r[1]) : \A i \in 0 .. FusedRows(r[1])[j][2] - 1 :
        slab.data[OffsetFor(r[1], r[2], checkpoint.lm_head) + FusedStart(r[1], j) + i]
          = <<FusedRows(r[1])[j][1], r[2], i>>

\* No copy is left that would write a freed slab or read freed slots, whatever
\* made the load fail (the handler's "drain them before freeing it", and the
\* destructor of StagedUploader).
DrainedBeforeFree ==
  slab.state = "freed" \/ staging = <<"freed">> => \A i \in DOMAIN stream : stream[i][1] # "copy"

\* A checkpoint with a defect is never loaded, the error names the element it
\* is about, and a wrong inventory is refused before any device memory is held.
DefectRefused ==
  /\ checkpoint.defect # "none" => ~Loaded
  /\ error # NoElement => error = checkpoint.at
  /\ checkpoint.defect \in {"missing", "shape", "dtype"} => slab.state = "none"

-----------------------------------------------------------------------------
(***************************************************************************)
(* What makes the properties inductive.                                    *)
(***************************************************************************)
Ops == ({"copy"} \X (0 .. 1) \X Nat) \cup ({"event"} \X (0 .. 1))

Stages == {"validate", "alloc", "upload", "sync", "drain", "uploader", "end"}

LoadTypeOK ==
  /\ checkpoint \in Checkpoints
  /\ stage \in Stages
  /\ entry \in 1 .. Len(weight_map) + 1 /\ offset \in Nat
  /\ next_slot \in 0 .. 1 /\ slot_pending \in [0 .. 1 -> BOOLEAN]
  /\ IF stage = "end" THEN staging = <<"freed">> ELSE DOMAIN staging = 0 .. 1
  /\ stream \in Seq(Ops)
  /\ DOMAIN slab = {"state", "data"} /\ slab.state \in {"none", "live", "freed"}

\* What the device still has to do is on the uploader's books: a copy is followed
\* by its event, and the slot of an event is pending.
OnTheBooks ==
  /\ \A c \in DOMAIN stream :
       stream[c][1] = "copy" => c + 1 \in DOMAIN stream /\ stream[c + 1] = <<"event", stream[c][2]>>
  /\ \A c \in DOMAIN stream : stream[c][1] = "event" => slot_pending[stream[c][2]]

\* Element i of the k-th tensor: where it goes, and whether the loop is past it.
Target(k, i) == EntryOffset(weight_map[k], checkpoint.lm_head) + i
Element(k, i) == ElementOf(weight_map[k], i)
Elements(k) == 0 .. num_elements(weight_map[k]) - 1
Issued(k, i) == k < entry \/ (k = entry /\ i < offset)

\* A copy still carries the chunk it was issued for.
CarriesChunk(copy) ==
  \E k \in DOMAIN weight_map : \E o \in Elements(k) : \E n \in 1 .. num_elements(weight_map[k]) - o :
    copy[3] = Target(k, o) /\ staging[copy[2]] = [i \in 1 .. n |-> Element(k, o + i - 1)]

\* A copy that has not run will write position t.
WillWrite(t) ==
  \E c \in DOMAIN stream : stream[c][1] = "copy" /\ t - stream[c][3] + 1 \in DOMAIN staging[stream[c][2]]

\* The copies in the stream carry their chunks, and every element the loop is
\* past is in the slab or on its way.
AllCarry == \A c \in DOMAIN stream : stream[c][1] = "copy" => CarriesChunk(stream[c])
OnTheWay ==
  \A k \in DOMAIN weight_map : \A i \in Elements(k) :
    Issued(k, i) => slab.data[Target(k, i)] = Element(k, i) \/ WillWrite(Target(k, i))

Uploading ==
  /\ slab.state = "live" /\ DOMAIN slab.data = 0 .. TotalElements(checkpoint.lm_head) - 1
  /\ entry \in DOMAIN weight_map => offset <= num_elements(weight_map[entry])
  /\ stage = "sync" => entry = Len(weight_map) + 1
  /\ OnTheBooks /\ AllCarry /\ OnTheWay

\* Every tensor is in its place.
Placed ==
  /\ stream = <<>>
  /\ \A k \in DOMAIN weight_map : \A i \in Elements(k) : slab.data[Target(k, i)] = Element(k, i)

\* The inventory passed, and no element the loop is past overflows.
Sound ==
  /\ checkpoint.lm_head \/ checkpoint.tied
  /\ \A k \in DOMAIN weight_map : ValidateEntry(weight_map[k])
  /\ \A k \in DOMAIN weight_map : \A i \in Elements(k) :
       Issued(k, i) /\ checkpoint.defect = "overflow" => checkpoint.at # Element(k, i)

LoadInv ==
  /\ LoadTypeOK
  /\ stage \in {"validate", "alloc"} =>
       slab.state = "none" /\ entry = 1 /\ offset = 0 /\ slot_pending = [s \in 0 .. 1 |-> FALSE]
  /\ slab.state = "none" => stream = <<>>
  /\ slab.state = "freed" => stage \in {"uploader", "end"}
  /\ stage \in {"upload", "sync"} => Uploading
  /\ stage \in {"uploader", "end"} /\ slab.state = "live" => Placed /\ entry = Len(weight_map) + 1
  /\ stage \in {"alloc", "upload", "sync", "drain"} \/ slab.state # "none" => Sound
  /\ ~RecordFails => OnTheBooks /\ (stage \in {"uploader", "end"} => stream = <<>>)
  /\ error # NoElement => error = checkpoint.at
===============================================================================
