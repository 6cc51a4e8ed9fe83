----------------------------- MODULE Safetensors ------------------------------
(***************************************************************************)
(* loader/safetensors.cpp: SafetensorsFile maps a file and checks its      *)
(* header; SafetensorsModel opens a single file or the shards of an index  *)
(* and merges their views.  A mapping is named by the file it maps; the    *)
(* text of the JSON is abstracted to the entries it parses to.             *)
(***************************************************************************)
EXTENDS Integers, Sequences, FiniteSets, SequencesExt

CONSTANTS
  U64Max, I64Max,             \* numeric limits, scaled down
  SingleFile,                 \* the name of model.safetensors
  Directories                 \* the model directories to open

ASSUME LimitsAssumption == I64Max \in Nat /\ U64Max = 2 * I64Max + 1

\* Sizes, and the numbers RequireU64 lets through, are not negative; a file's name is a
\* number, for the order of names.
ASSUME DirectoriesAssumption ==
  \A d \in Directories : \A name \in DOMAIN d.files :
    LET f == d.files[name] IN
    /\ name \in Nat /\ f.size \in Nat /\ f.header_size \in Nat
    /\ \A i \in DOMAIN f.entries :
         LET e == f.entries[i] IN e.shape \in Seq(Nat) /\ e.begin \in Nat /\ e.end \in Nat

VARIABLES
  dir,                        \* its files, whether it has an index, and the weight_map
  phase,
  pending,                    \* shard files still to open, in name order
  shards,                     \* shards_: [name, base, tensors] in that order
  merged,                     \* tensor name -> view
  mapped                      \* live mappings

readerVars == <<dir, phase, pending, shards, merged, mapped>>

Prefix == 8                   \* bytes of the header length
NoBase == -1                  \* nullptr
Overflow == -1
metadata == "__metadata__"

-----------------------------------------------------------------------------
(***************************************************************************)
(* ParseHeader.                                                            *)
(***************************************************************************)
DtypeSize(dtype) ==
  CASE dtype = "U8" -> 1 [] dtype \in {"F16", "BF16"} -> 2
    [] dtype \in {"F32", "I32"} -> 4 [] dtype \in {"F64", "I64"} -> 8

Known == {"U8", "F16", "BF16", "F32", "I32", "F64", "I64"}

Wrap(n) == n % (U64Max + 1)

\* One more dimension of elem_count.
Count(n, dim) ==
  IF n = Overflow \/ dim > I64Max \/ (dim # 0 /\ n > U64Max \div dim) THEN Overflow
  ELSE Wrap(n * dim)

\* The running count over the first i dimensions.
elem_count(shape) ==
  LET count[i \in 0 .. Len(shape)] == IF i = 0 THEN 1 ELSE Count(count[i - 1], shape[i])
  IN count[Len(shape)]

\* What ParseHeader requires of one tensor of the header.
EntryAccepted(e, data_size) ==
  LET n == elem_count(e.shape) IN
  /\ e.dtype \in Known /\ n # Overflow
  /\ e.begin <= e.end /\ e.end <= data_size
  /\ n <= U64Max \div DtypeSize(e.dtype)
  /\ e.end - e.begin = Wrap(n * DtypeSize(e.dtype))

Tensors(f) == {i \in DOMAIN f.entries : f.entries[i].name # metadata}

HeaderAccepted(f) ==
  /\ f.header_size <= f.size - Prefix
  /\ f.json
  /\ \A i, j \in DOMAIN f.entries : f.entries[i].name = f.entries[j].name => i = j
  /\ \A i \in Tensors(f) : EntryAccepted(f.entries[i], f.size - Prefix - f.header_size)

\* The views of a file: tensor name -> where its bytes are.
Views(name) ==
  LET f == dir.files[name] IN
  [t \in {f.entries[i].name : i \in Tensors(f)} |->
    LET e == f.entries[CHOOSE i \in Tensors(f) : f.entries[i].name = t] IN
    [base |-> name, at |-> Prefix + f.header_size + e.begin, nbytes |-> e.end - e.begin,
     dtype |-> e.dtype, shape |-> e.shape]]

-----------------------------------------------------------------------------
ReaderInit ==
  /\ dir \in Directories
  /\ phase = "dir" /\ pending = <<>> /\ shards = <<>> /\ merged = <<>> /\ mapped = {}

\* The bases that destroying these file objects unmaps.
Release(files) == {files[i].base : i \in DOMAIN files}

\* The reader throws: the shards it holds go, and with them their mappings.
Throws ==
  /\ phase' = "failed" /\ shards' = <<>> /\ merged' = <<>>
  /\ mapped' = mapped \ Release(shards)
  /\ UNCHANGED <<dir, pending>>

Fail(condition) == condition /\ Throws

indexed == {dir.index[t] : t \in DOMAIN dir.index}

\* A single file is preferred to an index; the index may be absent or malformed.
OpenDir ==
  /\ phase = "dir"
  /\ \/ /\ SingleFile \in DOMAIN dir.files
        /\ pending' = <<SingleFile>> /\ phase' = "open"
        /\ UNCHANGED <<dir, shards, merged, mapped>>
     \/ /\ SingleFile \notin DOMAIN dir.files /\ dir.has_index = "yes"
        /\ pending' = SetToSortSeq(indexed, <) /\ phase' = "open"
        /\ UNCHANGED <<dir, shards, merged, mapped>>
     \/ Fail(SingleFile \notin DOMAIN dir.files /\ dir.has_index # "yes")

\* Mutant: the source of a move keeps its base.
MovedFromKeeps(file) == file

\* What a move leaves behind.
MovedFrom(file) == [file EXCEPT !.base = NoBase]

\* SafetensorsFile::Open of the next shard, moved into shards_; when the vector
\* grows, its files move too and the moved-from objects are destroyed.
Open ==
  LET name == Head(pending)
      f    == dir.files[name]
      file == [name |-> name, base |-> name, tensors |-> DOMAIN Views(name)]
      left == Append(shards, file)
  IN
  /\ phase = "open" /\ pending # <<>>
  /\ \/ Fail(name \notin DOMAIN dir.files)                 \* open, fstat or mmap
     \/ name \in DOMAIN dir.files /\ Fail(f.size < Prefix \/ ~HeaderAccepted(f))
     \/ /\ name \in DOMAIN dir.files /\ f.size >= Prefix /\ HeaderAccepted(f)
        /\ pending' = Tail(pending)
        /\ shards' = left
        /\ mapped' = (mapped \cup {name})
                       \ Release([i \in DOMAIN left |-> MovedFrom(left[i])])
        /\ UNCHANGED <<dir, phase, merged>>

\* One lookup map; a name in two shards is ambiguous.
Merge ==
  LET clash == \E i, j \in DOMAIN shards : i # j /\ shards[i].tensors \cap shards[j].tensors # {}
      owner(t) == CHOOSE i \in DOMAIN shards : t \in shards[i].tensors
  IN
  /\ phase = "open" /\ pending = <<>>
  /\ \/ Fail(clash)
     \/ /\ ~clash
        /\ merged' = [t \in UNION {shards[i].tensors : i \in DOMAIN shards} |->
                        Views(shards[owner(t)].name)[t]]
        /\ phase' = "resolve" /\ UNCHANGED <<dir, pending, shards, mapped>>

\* Every index entry must be in the shard it names.
ResolveIndex ==
  LET single == SingleFile \in DOMAIN dir.files
      found(t) == \E i \in DOMAIN shards : shards[i].name = dir.index[t] /\ t \in shards[i].tensors
      missing == ~single /\ \E t \in DOMAIN dir.index : ~found(t)
  IN
  /\ phase = "resolve"
  /\ \/ Fail(missing)
     \/ /\ ~missing /\ phase' = "opened" /\ UNCHANGED <<dir, pending, shards, merged, mapped>>

\* The model goes out of scope once the weights are loaded.
Close ==
  /\ phase = "opened" /\ phase' = "closed" /\ shards' = <<>> /\ merged' = <<>>
  /\ mapped' = mapped \ Release(shards)
  /\ UNCHANGED <<dir, pending>>

Stopped == phase \in {"failed", "closed"} /\ UNCHANGED readerVars

ReaderNext == OpenDir \/ Open \/ Merge \/ ResolveIndex \/ Close \/ Stopped

ReaderSpec == ReaderInit /\ [][ReaderNext]_readerVars

-----------------------------------------------------------------------------
Product(shape) ==
  LET product[i \in 0 .. Len(shape)] == IF i = 0 THEN 1 ELSE product[i - 1] * shape[i]
  IN product[Len(shape)]

(***************************************************************************)
(* Every view an opened model hands out points into a mapping that is      *)
(* still there, lies inside its file, is exactly as long as its shape and  *)
(* dtype say in unbounded arithmetic, and comes from the shard the index   *)
(* names; when the model is gone or was never built no mapping is left     *)
(* (SafetensorsFile's checks and moves, OpenIndex's merge).                *)
(***************************************************************************)
ViewsSound ==
  /\ phase = "opened" => \A t \in DOMAIN merged :
       LET v == merged[t] IN
       /\ v.base \in mapped
       /\ v.at + v.nbytes <= dir.files[v.base].size
       /\ v.nbytes = Product(v.shape) * DtypeSize(v.dtype)
       /\ SingleFile \notin DOMAIN dir.files /\ t \in DOMAIN dir.index => v.base = dir.index[t]
  /\ phase \in {"failed", "closed"} => mapped = {}

-----------------------------------------------------------------------------
(***************************************************************************)
(* What makes ViewsSound inductive: the shards held are accepted files,    *)
(* the mappings are theirs, and each merged view is that of the one shard  *)
(* with its tensor.                                                        *)
(***************************************************************************)
OpenFile(name) == [name |-> name, base |-> name, tensors |-> DOMAIN Views(name)]

Accepted(name) ==
  /\ name \in DOMAIN dir.files
  /\ dir.files[name].size >= Prefix /\ HeaderAccepted(dir.files[name])

ShardsAccepted ==
  /\ dir \in Directories
  /\ shards \in Seq({OpenFile(name) : name \in DOMAIN dir.files})
  /\ \A i \in DOMAIN shards : Accepted(shards[i].name)

MergedOnce ==
  /\ \A i, j \in DOMAIN shards : i # j => shards[i].tensors \cap shards[j].tensors = {}
  /\ \A t \in DOMAIN merged : \E i \in DOMAIN shards :
       t \in shards[i].tensors /\ merged[t] = Views(shards[i].name)[t]

IndexResolved ==
  SingleFile \in DOMAIN dir.files \/
  \A t \in DOMAIN dir.index : \E i \in DOMAIN shards :
    shards[i].name = dir.index[t] /\ t \in shards[i].tensors

ReaderInv ==
  /\ ShardsAccepted
  /\ mapped = Release(shards)
  /\ phase \in {"dir", "failed", "closed"} => shards = <<>>
  /\ phase \in {"resolve", "opened"} => MergedOnce
  /\ phase = "opened" => IndexResolved
===============================================================================
