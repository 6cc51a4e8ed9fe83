---------------------------- MODULE BlockAllocator ----------------------------
(***************************************************************************)
(* The KV-cache block pool of core/block_allocator.{hpp,cpp}.              *)
(*                                                                         *)
(* The pool owns the ids 1..TotalBlocks-1; block 0 is the dummy block that *)
(* pads device block tables and never enters the pool.  Admission reserves *)
(* a COUNT of blocks (Reserve); individual ids are popped later against    *)
(* that count (AllocReserved).  The operators below are the effects of the *)
(* C++ methods; what the methods assert of their caller is named           *)
(* separately (Can...), so that a module that composes the allocator can   *)
(* state, and has to show, that its call sites honour it: in a release     *)
(* build the asserts are compiled out.                                     *)
(***************************************************************************)
EXTENDS Integers, Sequences, FiniteSets, SequencesExt

CONSTANT TotalBlocks          \* total_blocks_, dummy block included

\* assert(total_blocks_ >= 1): the pool holds at least the dummy block.
ASSUME TotalBlocksAssumption == TotalBlocks \in Nat \ {0}

VARIABLES
  free_list,                  \* free_list_: a LIFO stack of block ids, back = top
  reserved,                   \* reserved_: blocks promised and not yet popped
  outstanding                 \* outstanding_: the ids currently handed out

allocVars == <<free_list, reserved, outstanding>>

kDummyBlockId == 0

usable_blocks == TotalBlocks - 1

\* The ids the pool manages.
PoolBlocks == 1 .. usable_blocks

\* The constructor pushes TotalBlocks-1 down to 1, so pops hand out 1, 2, ...
AllocInit ==
  /\ free_list = [i \in 1 .. usable_blocks |-> TotalBlocks - i]
  /\ reserved = 0
  /\ outstanding = {}

CanReserve(count) == Len(free_list) - reserved >= count

Reserve(count) ==
  /\ reserved' = reserved + count
  /\ UNCHANGED <<free_list, outstanding>>

CanUnreserve(count) == count <= reserved

Unreserve(count) ==
  /\ reserved' = reserved - count
  /\ UNCHANGED <<free_list, outstanding>>

CanAllocReserved == reserved > 0 /\ free_list # <<>>

\* The id the next AllocReserved returns: the top of the free stack.
NextBlock == Last(free_list)

AllocReserved ==
  /\ free_list' = Front(free_list)
  /\ reserved' = reserved - 1
  /\ outstanding' = outstanding \union {NextBlock}

CanFreeBlock(block) == block \in PoolBlocks /\ block \in outstanding

FreeBlock(block) ==
  /\ outstanding' = outstanding \ {block}
  /\ free_list' = Append(free_list, block)
  /\ UNCHANGED reserved

-----------------------------------------------------------------------------
\* A client that honours every asserted precondition and nothing else.
ReserveStep == \E n \in 0 .. usable_blocks : CanReserve(n) /\ Reserve(n)

UnreserveStep == \E n \in 0 .. usable_blocks : CanUnreserve(n) /\ Unreserve(n)

AllocStep == CanAllocReserved /\ AllocReserved

FreeStep == \E b \in PoolBlocks : CanFreeBlock(b) /\ FreeBlock(b)

AllocNext == ReserveStep \/ UnreserveStep \/ AllocStep \/ FreeStep

AllocSpec == AllocInit /\ [][AllocNext]_allocVars

-----------------------------------------------------------------------------
AllocTypeOK ==
  /\ free_list \in Seq(PoolBlocks)
  /\ reserved \in Nat
  /\ outstanding \in SUBSET PoolBlocks

(***************************************************************************)
(* Every promised block exists: the "free >= reserved" line of             *)
(* DebugCheckInvariant, which is why AllocReserved after a passing         *)
(* CanReserve can never find the free list empty.                          *)
(***************************************************************************)
PromisesCovered == Len(free_list) >= reserved

(***************************************************************************)
(* No id is lost, duplicated or handed out twice: the free stack holds     *)
(* each pool id that is not outstanding exactly once, so AllocReserved     *)
(* never returns an outstanding id and no sequence of legal calls loses    *)
(* capacity ("free list exceeds usable capacity (double free?)").          *)
(***************************************************************************)
FreeListExact ==
  /\ IsInjective(free_list)
  /\ Range(free_list) = PoolBlocks \ outstanding
===============================================================================
