---------------------------- MODULE SchedulerProofs ----------------------------
(***************************************************************************)
(* Safety of the scheduler for every pool size, batch size, chunk size,    *)
(* policy, workload and pattern of executor failures: the block allocator; *)
(* what each step does to requests, queues and resources (Core); SchedInv  *)
(* is inductive, and what it implies; a plan handed to the executor passes *)
(* its checks (PlanInv).                                                   *)
(***************************************************************************)
EXTENDS Scheduler, SequenceTheorems, FiniteSetTheorems, TLAPS

-----------------------------------------------------------------------------
(***************************************************************************)
(* The allocator keeps its promises for every pool size: lemmas on the     *)
(* free stack that the scheduler's proofs use, and the three invariants of *)
(* BlockAllocator.                                                         *)
(***************************************************************************)

\* Popping the stack: Front drops exactly the last element.
LEMMA FrontProperties ==
  ASSUME NEW S, NEW s \in Seq(S), s # <<>>
  PROVE  /\ Len(s) \in Nat \ {0}
         /\ Front(s) \in Seq(S)
         /\ Len(Front(s)) = Len(s) - 1
         /\ \A i \in 1 .. Len(s) - 1 : Front(s)[i] = s[i]
         /\ Last(s) \in S
         /\ Last(s) = s[Len(s)]
<1>1. Len(s) \in Nat \ {0} /\ s \in [1 .. Len(s) -> S]
  BY EmptySeq, LenProperties
<1>2. /\ SubSeq(s, 1, Len(s) - 1) \in Seq(S)
      /\ Len(SubSeq(s, 1, Len(s) - 1)) = Len(s) - 1
      /\ \A i \in 1 .. Len(s) - 1 : SubSeq(s, 1, Len(s) - 1)[i] = s[i]
  BY <1>1
<1> QED BY <1>1, <1>2 DEF Front, Last

\* An injective stack splits into its top and a stack without it.
LEMMA PopRange ==
  ASSUME NEW S, NEW s \in Seq(S), s # <<>>, IsInjective(s)
  PROVE  /\ IsInjective(Front(s))
         /\ Range(Front(s)) = Range(s) \ {Last(s)}
         /\ Last(s) \in Range(s)
<1>1. /\ Len(s) \in Nat \ {0}
      /\ Front(s) \in Seq(S)
      /\ Len(Front(s)) = Len(s) - 1
      /\ \A i \in 1 .. Len(s) - 1 : Front(s)[i] = s[i]
      /\ Last(s) = s[Len(s)]
  BY FrontProperties
<1>2. DOMAIN s = 1 .. Len(s) /\ DOMAIN Front(s) = 1 .. Len(s) - 1
  BY <1>1
<1>3. IsInjective(Front(s))
  BY <1>1, <1>2 DEF IsInjective
<1>4. Last(s) \in Range(s)
  BY <1>1, <1>2 DEF Range
<1>5. Range(Front(s)) = Range(s) \ {Last(s)}
  <2>1. ASSUME NEW x \in Range(Front(s)) PROVE x \in Range(s) \ {Last(s)}
    BY <1>1, <1>2 DEF Range, IsInjective
  <2>2. ASSUME NEW x \in Range(s) \ {Last(s)} PROVE x \in Range(Front(s))
    BY <1>1, <1>2 DEF Range
  <2> QED BY <2>1, <2>2
<1> QED BY <1>3, <1>4, <1>5

\* Pushing a list of ids that are not on the stack.
LEMMA PushRange ==
  ASSUME NEW S, NEW s \in Seq(S), NEW t \in Seq(S),
         IsInjective(s), IsInjective(t), Range(s) \intersect Range(t) = {}
  PROVE  /\ s \o t \in Seq(S)
         /\ Len(s \o t) = Len(s) + Len(t)
         /\ IsInjective(s \o t)
         /\ Range(s \o t) = Range(s) \union Range(t)
<1>1. /\ s \o t \in Seq(S)
      /\ Len(s \o t) = Len(s) + Len(t)
      /\ Len(s) \in Nat /\ Len(t) \in Nat
      /\ DOMAIN s = 1 .. Len(s) /\ DOMAIN t = 1 .. Len(t)
      /\ DOMAIN (s \o t) = 1 .. Len(s) + Len(t)
      /\ \A i \in 1 .. Len(s) : (s \o t)[i] = s[i]
      /\ \A i \in Len(s) + 1 .. Len(s) + Len(t) : (s \o t)[i] = t[i - Len(s)]
  OBVIOUS
<1>2. \A i \in 1 .. Len(s), j \in 1 .. Len(t) : s[i] # t[j]
  BY <1>1 DEF Range
<1>3. IsInjective(s \o t)
  <2> SUFFICES ASSUME NEW i \in 1 .. Len(s) + Len(t), NEW j \in 1 .. Len(s) + Len(t),
                      (s \o t)[i] = (s \o t)[j]
               PROVE  i = j
    BY <1>1 DEF IsInjective
  <2>1. CASE i <= Len(s) /\ j <= Len(s)
    BY <2>1, <1>1 DEF IsInjective
  <2>2. CASE i > Len(s) /\ j > Len(s)
    <3>1. i - Len(s) \in 1 .. Len(t) /\ j - Len(s) \in 1 .. Len(t)
      BY <2>2, <1>1
    <3>2. t[i - Len(s)] = t[j - Len(s)]
      BY <2>2, <1>1
    <3> QED BY <3>1, <3>2, <1>1 DEF IsInjective
  <2>3. CASE i <= Len(s) /\ j > Len(s)
    <3>1. i \in 1 .. Len(s) /\ j - Len(s) \in 1 .. Len(t)
      BY <2>3, <1>1
    <3> QED BY <3>1, <2>3, <1>1, <1>2
  <2>4. CASE i > Len(s) /\ j <= Len(s)
    <3>1. j \in 1 .. Len(s) /\ i - Len(s) \in 1 .. Len(t)
      BY <2>4, <1>1
    <3> QED BY <3>1, <2>4, <1>1, <1>2
  <2> QED BY <2>1, <2>2, <2>3, <2>4, <1>1
<1>4. Range(s \o t) \subseteq Range(s) \union Range(t)
  <2> SUFFICES ASSUME NEW i \in 1 .. Len(s) + Len(t)
               PROVE  (s \o t)[i] \in Range(s) \union Range(t)
    BY <1>1 DEF Range
  <2>1. CASE i <= Len(s)
    BY <2>1, <1>1 DEF Range
  <2>2. CASE i > Len(s)
    <3>1. i - Len(s) \in 1 .. Len(t)
      BY <2>2, <1>1
    <3> QED BY <3>1, <2>2, <1>1 DEF Range
  <2> QED BY <2>1, <2>2, <1>1
<1>5. Range(s) \subseteq Range(s \o t)
  BY <1>1 DEF Range
<1>6. Range(t) \subseteq Range(s \o t)
  <2> SUFFICES ASSUME NEW j \in 1 .. Len(t) PROVE t[j] \in Range(s \o t)
    BY <1>1 DEF Range
  <2>1. j + Len(s) \in 1 .. Len(s) + Len(t) /\ (s \o t)[j + Len(s)] = t[j]
    BY <1>1
  <2> QED BY <2>1, <1>1 DEF Range
<1> QED BY <1>1, <1>3, <1>4, <1>5, <1>6

\* Range of an append, and of an injective one.
LEMMA AppendRange ==
  ASSUME NEW S, NEW s \in Seq(S), NEW e \in S
  PROVE  /\ Append(s, e) \in Seq(S)
         /\ Len(Append(s, e)) = Len(s) + 1
         /\ Range(Append(s, e)) = Range(s) \union {e}
         /\ IsInjective(s) /\ e \notin Range(s) => IsInjective(Append(s, e))
<1>1. /\ Append(s, e) \in Seq(S)
      /\ Len(s) \in Nat /\ Len(Append(s, e)) = Len(s) + 1
      /\ \A i \in 1 .. Len(s) : Append(s, e)[i] = s[i]
      /\ Append(s, e)[Len(s) + 1] = e
      /\ DOMAIN s = 1 .. Len(s) /\ DOMAIN Append(s, e) = 1 .. Len(s) + 1
  BY AppendProperties, LenProperties
<1>2. ASSUME NEW x \in Range(Append(s, e)) PROVE x \in Range(s) \union {e}
  BY <1>1 DEF Range
<1>3. ASSUME NEW x \in Range(s) \union {e} PROVE x \in Range(Append(s, e))
  BY <1>1 DEF Range
<1>4. IsInjective(s) /\ e \notin Range(s) => IsInjective(Append(s, e))
  BY <1>1 DEF IsInjective, Range
<1> QED BY <1>1, <1>2, <1>3, <1>4

\* The initial free stack holds every pool id once.
LEMMA InitialStack ==
  ASSUME NEW n \in Nat
  PROVE  LET s == [i \in 1 .. n |-> n + 1 - i] IN
         /\ s \in Seq(1 .. n)
         /\ Len(s) = n
         /\ IsInjective(s)
         /\ Range(s) = 1 .. n
<1> DEFINE s == [i \in 1 .. n |-> n + 1 - i]
<1>1. s \in Seq(1 .. n) /\ Len(s) = n /\ DOMAIN s = 1 .. n
  OBVIOUS
<1>2. IsInjective(s)
  BY DEF IsInjective
<1>3. Range(s) \subseteq 1 .. n
  BY DEF Range
<1>4. ASSUME NEW b \in 1 .. n PROVE b \in Range(s)
  <2>1. n + 1 - b \in 1 .. n /\ s[n + 1 - b] = b
    OBVIOUS
  <2> QED BY <2>1 DEF Range
<1> QED BY <1>1, <1>2, <1>3, <1>4

-----------------------------------------------------------------------------
AllocInv == AllocTypeOK /\ PromisesCovered /\ FreeListExact

LEMMA AllocInitInv == AllocInit => AllocInv
<1> SUFFICES ASSUME AllocInit PROVE AllocInv
  OBVIOUS
<1>1. usable_blocks \in Nat /\ PoolBlocks = 1 .. usable_blocks
  BY TotalBlocksAssumption DEF usable_blocks, PoolBlocks
<1>2. free_list = [i \in 1 .. usable_blocks |-> usable_blocks + 1 - i]
  BY TotalBlocksAssumption DEF AllocInit, usable_blocks
<1>3. /\ free_list \in Seq(PoolBlocks) /\ Len(free_list) = usable_blocks
      /\ IsInjective(free_list) /\ Range(free_list) = PoolBlocks
  BY <1>1, <1>2, InitialStack
<1> QED
  BY <1>1, <1>3 DEF AllocInit, AllocInv, AllocTypeOK, PromisesCovered, FreeListExact

\* The pop of AllocReserved, with or without a reservation behind it.
LEMMA PopKeepsExact ==
  ASSUME AllocTypeOK, FreeListExact, free_list # <<>>,
         free_list' = Front(free_list),
         outstanding' = outstanding \union {NextBlock}
  PROVE  /\ free_list' \in Seq(PoolBlocks)
         /\ outstanding' \in SUBSET PoolBlocks
         /\ Len(free_list') = Len(free_list) - 1
         /\ NextBlock \in PoolBlocks \ outstanding
         /\ FreeListExact'
<1>1. free_list \in Seq(PoolBlocks) /\ IsInjective(free_list)
  BY DEF AllocTypeOK, FreeListExact
<1>2. /\ free_list' \in Seq(PoolBlocks) /\ Len(free_list') = Len(free_list) - 1
      /\ IsInjective(free_list')
      /\ Range(free_list') = Range(free_list) \ {NextBlock}
      /\ NextBlock \in Range(free_list)
  BY <1>1, FrontProperties, PopRange DEF NextBlock
<1> QED BY <1>2 DEF AllocTypeOK, FreeListExact, PoolBlocks

\* Freeing a list of distinct outstanding ids.
LEMMA PushKeepsExact ==
  ASSUME AllocTypeOK, FreeListExact,
         NEW ids \in Seq(PoolBlocks), IsInjective(ids), Range(ids) \subseteq outstanding,
         free_list' = free_list \o ids,
         outstanding' = outstanding \ Range(ids)
  PROVE  /\ free_list' \in Seq(PoolBlocks)
         /\ outstanding' \in SUBSET PoolBlocks
         /\ Len(free_list') = Len(free_list) + Len(ids)
         /\ FreeListExact'
<1>1. Range(free_list) \intersect Range(ids) = {}
  BY DEF FreeListExact
<1>2. /\ free_list' \in Seq(PoolBlocks)
      /\ Len(free_list') = Len(free_list) + Len(ids)
      /\ IsInjective(free_list')
      /\ Range(free_list') = Range(free_list) \union Range(ids)
  BY <1>1, PushRange DEF AllocTypeOK, FreeListExact
<1> QED BY <1>2 DEF AllocTypeOK, FreeListExact, PoolBlocks

(***************************************************************************)
(* Under every sequence of calls that honours the asserts, the allocator   *)
(* of block_allocator.cpp never loses, duplicates or over-promises a       *)
(* block.                                                                  *)
(***************************************************************************)
THEOREM AllocatorSafe == AllocSpec => [](AllocTypeOK /\ PromisesCovered /\ FreeListExact)
<1>1. AllocInv /\ [AllocNext]_allocVars => AllocInv'
  <2> SUFFICES ASSUME AllocInv, [AllocNext]_allocVars PROVE AllocInv'
    OBVIOUS
  <2>0. /\ free_list \in Seq(PoolBlocks) /\ Len(free_list) \in Nat
        /\ reserved \in Nat /\ usable_blocks \in Nat
    BY TotalBlocksAssumption DEF AllocInv, AllocTypeOK, usable_blocks
  <2>1. CASE ReserveStep
    BY <2>0, <2>1 DEF AllocInv, AllocTypeOK, PromisesCovered, FreeListExact,
                      ReserveStep, Reserve, CanReserve, PoolBlocks
  <2>2. CASE UnreserveStep
    BY <2>0, <2>2 DEF AllocInv, AllocTypeOK, PromisesCovered, FreeListExact,
                      UnreserveStep, Unreserve, CanUnreserve, PoolBlocks
  <2>3. CASE AllocStep
    BY <2>0, <2>3, PopKeepsExact DEF AllocInv, AllocTypeOK, PromisesCovered,
                      AllocStep, CanAllocReserved, AllocReserved
  <2>4. CASE FreeStep
    <3>1. PICK b \in PoolBlocks : CanFreeBlock(b) /\ FreeBlock(b)
      BY <2>4 DEF FreeStep
    <3>2. /\ <<b>> \in Seq(PoolBlocks) /\ Len(<<b>>) = 1
          /\ IsInjective(<<b>>) /\ Range(<<b>>) = {b}
      BY DEF IsInjective, Range
    <3>3. free_list' = free_list \o <<b>> /\ outstanding' = outstanding \ Range(<<b>>)
      BY <2>0, <3>1, <3>2 DEF FreeBlock
    <3>4. AllocTypeOK /\ FreeListExact /\ Range(<<b>>) \subseteq outstanding
      BY <3>1, <3>2 DEF AllocInv, CanFreeBlock
    <3>5. /\ free_list' \in Seq(PoolBlocks) /\ outstanding' \in SUBSET PoolBlocks
          /\ Len(free_list') = Len(free_list) + 1
          /\ FreeListExact'
      BY <3>2, <3>3, <3>4, PushKeepsExact
    <3> QED
      BY <2>0, <3>1, <3>5 DEF AllocInv, AllocTypeOK, PromisesCovered, FreeBlock, PoolBlocks
  <2>5. CASE UNCHANGED allocVars
    BY <2>5 DEF AllocInv, AllocTypeOK, PromisesCovered, FreeListExact, allocVars, PoolBlocks
  <2> QED BY <2>1, <2>2, <2>3, <2>4, <2>5 DEF AllocNext
<1> QED BY <1>1, AllocInitInv, PTL DEF AllocSpec, AllocInv

-----------------------------------------------------------------------------
(***************************************************************************)
(* SchedInv is split into Core (requests, queues and resources) and the    *)
(* plan of the step in progress.  Most steps only move the plan along; the *)
(* others have one lemma each here for what they do to Core.               *)
(***************************************************************************)

-----------------------------------------------------------------------------
(***************************************************************************)
(* The four ways the scheduler moves KV blocks and reservations (Reserve   *)
(* at admission, TakeReservedBlock, the watermark claim, ReleaseResources) *)
(* keep the pool partitioned and the reservations exactly accounted for.   *)
(***************************************************************************)
\* The part of the invariant that is about blocks and reservations only.
Resources ==
  /\ AllocTypeOK
  /\ reserved_blocks \in [Ids -> Nat]
  /\ block_table \in [Ids -> Seq(PoolBlocks)]
  /\ BlockOwnership
  /\ ReservationsExact

LEMMA UsableNat == usable_blocks \in Nat /\ PoolBlocks = 1 .. usable_blocks
BY TotalBlocksAssumption DEF usable_blocks, PoolBlocks

LEMMA PromisesFinite == IsFiniteSet(Promises)
<1>1. IsFiniteSet(Ids) /\ IsFiniteSet(PoolBlocks)
  BY FS_Interval, UsableNat, SchedulerAssumption DEF Ids
<1>2. IsFiniteSet(Ids \X PoolBlocks)
  BY <1>1, FS_Product
<1>3. Promises \in SUBSET (Ids \X PoolBlocks)
  BY DEF Promises
<1> QED BY <1>2, <1>3, FS_Subset

\* The pairs that stand for n promises to r are n many.
LEMMA PromiseCount ==
  ASSUME NEW r, NEW n \in Nat
  PROVE  /\ IsFiniteSet({r} \X (1 .. n))
         /\ Cardinality({r} \X (1 .. n)) = n
<1>1. IsFiniteSet({r}) /\ Cardinality({r}) = 1
  BY FS_Singleton
<1>2. IsFiniteSet(1 .. n) /\ Cardinality(1 .. n) = n
  BY FS_Interval
<1>3. /\ IsFiniteSet({r} \X (1 .. n))
      /\ Cardinality({r} \X (1 .. n)) = Cardinality({r}) * Cardinality(1 .. n)
  BY <1>1, <1>2, FS_Product, Zenon
<1> QED BY <1>1, <1>2, <1>3

\* A request's own promises are among the counted ones.
LEMMA OwnPromises ==
  ASSUME Resources, NEW r \in Ids
  PROVE  /\ {r} \X (1 .. reserved_blocks[r]) \subseteq Promises
         /\ reserved_blocks[r] <= reserved
<1>1. reserved_blocks[r] \in Nat /\ reserved_blocks[r] <= usable_blocks
  BY DEF Resources, ReservationsExact
<1>2. {r} \X (1 .. reserved_blocks[r]) \subseteq Promises
  BY <1>1, UsableNat DEF Promises
<1>3. Cardinality({r} \X (1 .. reserved_blocks[r])) <= Cardinality(Promises)
  BY <1>2, PromisesFinite, FS_Subset
<1>4. Cardinality({r} \X (1 .. reserved_blocks[r])) = reserved_blocks[r]
  BY <1>1, PromiseCount
<1> QED BY <1>2, <1>3, <1>4 DEF Resources, ReservationsExact

-----------------------------------------------------------------------------
LEMMA ResourcesInit == SchedInit => Resources
<1> SUFFICES ASSUME SchedInit PROVE Resources
  OBVIOUS
<1>1. AllocTypeOK /\ FreeListExact /\ PromisesCovered
  BY AllocInitInv DEF SchedInit, AllocInv
<1>2. /\ reserved_blocks \in [Ids -> Nat]
      /\ block_table \in [Ids -> Seq(PoolBlocks)]
      /\ \A r \in Ids : block_table[r] = <<>> /\ reserved_blocks[r] = 0
  BY DEF SchedInit
<1>3. Promises = {}
  BY <1>2, UsableNat DEF Promises
<1>4. IsInjective(<<>>) /\ Range(<<>>) = {}
  BY DEF IsInjective, Range
<1>5. UNION {Range(block_table[r]) : r \in Ids} = {}
  BY <1>2, <1>4
<1>6. BlockOwnership
  BY <1>1, <1>2, <1>4, <1>5 DEF BlockOwnership, SchedInit, AllocInit
<1>7. ReservationsExact
  BY <1>1, <1>2, <1>3, FS_EmptySet, UsableNat DEF ReservationsExact, SchedInit, AllocInit
<1> QED BY <1>1, <1>2, <1>6, <1>7 DEF Resources

LEMMA ResourcesUnchanged ==
  ASSUME Resources, UNCHANGED <<allocVars, reserved_blocks, block_table>>
  PROVE  Resources'
BY DEF Resources, allocVars, AllocTypeOK, BlockOwnership, ReservationsExact,
       FreeListExact, PromisesCovered, Promises, PoolBlocks

\* Admission: n blocks promised to a request that had none.
LEMMA ResourcesReserve ==
  ASSUME Resources, NEW r \in Ids, NEW n \in Nat, n <= usable_blocks,
         reserved_blocks[r] = 0, CanReserve(n), Reserve(n),
         reserved_blocks' = [reserved_blocks EXCEPT ![r] = n],
         UNCHANGED block_table
  PROVE  Resources'
<1>1. /\ free_list \in Seq(PoolBlocks) /\ Len(free_list) \in Nat
      /\ reserved \in Nat /\ reserved' = reserved + n
      /\ free_list' = free_list /\ outstanding' = outstanding
      /\ reserved_blocks \in [Ids -> Nat]
  BY DEF Resources, AllocTypeOK, Reserve
<1>2. AllocTypeOK'
  BY <1>1 DEF AllocTypeOK, Resources, PoolBlocks
<1>3. reserved_blocks' \in [Ids -> Nat] /\ block_table' \in [Ids -> Seq(PoolBlocks)]
  BY <1>1 DEF Resources
<1>4. BlockOwnership'
  BY <1>1 DEF Resources, BlockOwnership, FreeListExact, PoolBlocks
<1>5. ReservationsExact'
  <2>1. Promises' = Promises \union ({r} \X (1 .. n))
    BY <1>1, UsableNat DEF Promises, PoolBlocks
  <2>2. Promises \intersect ({r} \X (1 .. n)) = {}
    BY <1>1, UsableNat DEF Promises
  <2>3. Cardinality(Promises') = Cardinality(Promises) + n
    <3>1. IsFiniteSet(Promises) /\ Cardinality(Promises) \in Nat
      BY PromisesFinite, FS_CardinalityType
    <3>2. IsFiniteSet({r} \X (1 .. n)) /\ Cardinality({r} \X (1 .. n)) = n
      BY PromiseCount
    <3>3. Cardinality(Promises \union ({r} \X (1 .. n)))
            = Cardinality(Promises) + n - Cardinality({})
      BY <2>2, <3>1, <3>2, FS_Union
    <3> QED BY <2>1, <3>1, <3>3, FS_EmptySet
  <2>4. PromisesCovered'
    BY <1>1 DEF CanReserve, PromisesCovered
  <2>5. \A s \in Ids : reserved_blocks'[s] <= usable_blocks'
    BY <1>1 DEF Resources, ReservationsExact, usable_blocks
  <2> QED BY <1>1, <2>3, <2>4, <2>5 DEF Resources, ReservationsExact
<1> QED BY <1>2, <1>3, <1>4, <1>5 DEF Resources

\* A block popped onto one table: ownership, whoever pays for it.
LEMMA OwnershipPop ==
  ASSUME Resources, NEW r \in Ids, free_list # <<>>,
         free_list' = Front(free_list),
         outstanding' = outstanding \union {NextBlock},
         block_table' = [block_table EXCEPT ![r] = Append(@, NextBlock)]
  PROVE  /\ free_list' \in Seq(PoolBlocks)
         /\ outstanding' \in SUBSET PoolBlocks
         /\ Len(free_list') = Len(free_list) - 1
         /\ block_table' \in [Ids -> Seq(PoolBlocks)]
         /\ BlockOwnership'
<1>1. /\ AllocTypeOK /\ FreeListExact
      /\ block_table \in [Ids -> Seq(PoolBlocks)]
      /\ \A s \in Ids : IsInjective(block_table[s])
      /\ \A s, t \in Ids :
           s # t => Range(block_table[s]) \intersect Range(block_table[t]) = {}
      /\ outstanding = UNION {Range(block_table[s]) : s \in Ids}
  BY DEF Resources, BlockOwnership
<1>2. /\ free_list' \in Seq(PoolBlocks)
      /\ outstanding' \in SUBSET PoolBlocks
      /\ Len(free_list') = Len(free_list) - 1
      /\ NextBlock \in PoolBlocks \ outstanding
      /\ FreeListExact'
  BY <1>1, PopKeepsExact
<1> DEFINE b == NextBlock
           t == block_table[r]
<1>3. t \in Seq(PoolBlocks) /\ IsInjective(t) /\ b \in PoolBlocks /\ b \notin Range(t)
  BY <1>1, <1>2
<1>4. /\ Append(t, b) \in Seq(PoolBlocks)
      /\ IsInjective(Append(t, b))
      /\ Range(Append(t, b)) = Range(t) \union {b}
  BY <1>3, AppendRange
<1>5. /\ block_table' \in [Ids -> Seq(PoolBlocks)]
      /\ block_table'[r] = Append(t, b)
      /\ \A s \in Ids \ {r} : block_table'[s] = block_table[s]
  BY <1>1, <1>4
<1> HIDE DEF b, t
<1>6. \A s \in Ids : IsInjective(block_table'[s])
  BY <1>1, <1>4, <1>5
<1>7. \A s \in Ids \ {r} : b \notin Range(block_table[s])
  BY <1>1, <1>2 DEF b
<1>8. \A s, u \in Ids :
        s # u => Range(block_table'[s]) \intersect Range(block_table'[u]) = {}
  BY <1>1, <1>4, <1>5, <1>7 DEF t
<1>9. outstanding' = UNION {Range(block_table'[s]) : s \in Ids}
  <2>1. outstanding' = outstanding \union {b}
    BY DEF b
  <2>2. ASSUME NEW x \in outstanding' PROVE \E s \in Ids : x \in Range(block_table'[s])
    <3>1. CASE x = b
      BY <3>1, <1>4, <1>5
    <3>2. CASE x \in outstanding
      <4>1. PICK s \in Ids : x \in Range(block_table[s])
        BY <3>2, <1>1
      <4>2. CASE s = r
        BY <4>1, <4>2, <1>4, <1>5 DEF t
      <4>3. CASE s # r
        BY <4>1, <4>3, <1>5
      <4> QED BY <4>2, <4>3
    <3> QED BY <2>1, <2>2, <3>1, <3>2
  <2>3. ASSUME NEW s \in Ids, NEW x \in Range(block_table'[s]) PROVE x \in outstanding'
    <3>1. CASE s = r
      BY <3>1, <2>1, <2>3, <1>1, <1>4, <1>5 DEF t
    <3>2. CASE s # r
      BY <3>2, <2>1, <2>3, <1>1, <1>5
    <3> QED BY <3>1, <3>2
  <2> QED BY <2>2, <2>3
<1>10. BlockOwnership'
  BY <1>2, <1>6, <1>8, <1>9 DEF BlockOwnership
<1> QED BY <1>2, <1>5, <1>10

\* Materializing a promised block.
LEMMA ResourcesTake ==
  ASSUME Resources, NEW r \in Ids, reserved_blocks[r] > 0, TakeReservedBlock(r)
  PROVE  /\ CanAllocReserved
         /\ Resources'
<1>1. /\ free_list \in Seq(PoolBlocks) /\ Len(free_list) \in Nat /\ reserved \in Nat
      /\ reserved_blocks \in [Ids -> Nat] /\ Len(free_list) >= reserved
  BY DEF Resources, AllocTypeOK, ReservationsExact, PromisesCovered
<1>2. reserved > 0 /\ free_list # <<>>
  BY <1>1, OwnPromises
<1>3. /\ free_list' = Front(free_list) /\ reserved' = reserved - 1
      /\ outstanding' = outstanding \union {NextBlock}
      /\ block_table' = [block_table EXCEPT ![r] = Append(@, NextBlock)]
      /\ reserved_blocks' = [reserved_blocks EXCEPT ![r] = reserved_blocks[r] - 1]
  BY DEF TakeReservedBlock, AllocReserved
<1>4. /\ free_list' \in Seq(PoolBlocks)
      /\ outstanding' \in SUBSET PoolBlocks
      /\ Len(free_list') = Len(free_list) - 1
      /\ block_table' \in [Ids -> Seq(PoolBlocks)]
      /\ BlockOwnership'
  BY <1>2, <1>3, OwnershipPop
<1>5. AllocTypeOK' /\ reserved_blocks' \in [Ids -> Nat] /\ PromisesCovered'
  BY <1>1, <1>2, <1>3, <1>4 DEF AllocTypeOK, PoolBlocks, usable_blocks, PromisesCovered
<1>6. ReservationsExact'
  <2>0. reserved_blocks[r] <= usable_blocks
    BY DEF Resources, ReservationsExact
  <2>1. Promises' = Promises \ {<<r, reserved_blocks[r]>>}
    BY <1>1, <1>3, <2>0, UsableNat DEF Promises, PoolBlocks
  <2>2. <<r, reserved_blocks[r]>> \in Promises
    BY <1>1, <2>0, UsableNat DEF Promises
  <2>3. Cardinality(Promises') = Cardinality(Promises) - 1
    BY <2>1, <2>2, PromisesFinite, FS_RemoveElement
  <2>4. \A s \in Ids : reserved_blocks'[s] <= usable_blocks'
    BY <1>1, <1>3, UsableNat DEF Resources, ReservationsExact, usable_blocks
  <2> QED BY <1>3, <1>5, <2>3, <2>4 DEF Resources, ReservationsExact
<1> QED BY <1>2, <1>4, <1>5, <1>6 DEF Resources, CanAllocReserved

\* The watermark claim: one uncommitted block.
LEMMA ResourcesClaim ==
  ASSUME Resources, NEW r \in Ids, CanReserve(1),
         free_list' = Front(free_list),
         outstanding' = outstanding \union {NextBlock},
         block_table' = [block_table EXCEPT ![r] = Append(@, NextBlock)],
         UNCHANGED <<reserved, reserved_blocks>>
  PROVE  Resources'
<1>1. /\ free_list \in Seq(PoolBlocks) /\ Len(free_list) \in Nat /\ reserved \in Nat
      /\ reserved_blocks \in [Ids -> Nat] /\ Len(free_list) - reserved >= 1
  BY DEF Resources, AllocTypeOK, CanReserve
<1>2. free_list # <<>>
  BY <1>1
<1>3. /\ free_list' \in Seq(PoolBlocks)
      /\ outstanding' \in SUBSET PoolBlocks
      /\ Len(free_list') = Len(free_list) - 1
      /\ block_table' \in [Ids -> Seq(PoolBlocks)]
      /\ BlockOwnership'
  BY <1>2, OwnershipPop
<1>4. AllocTypeOK' /\ PromisesCovered'
  BY <1>1, <1>3 DEF AllocTypeOK, PoolBlocks, usable_blocks, PromisesCovered
<1>5. ReservationsExact'
  BY <1>4 DEF Resources, ReservationsExact, Promises, PoolBlocks, usable_blocks
<1> QED BY <1>1, <1>3, <1>4, <1>5 DEF Resources

\* Finishing or aborting: everything comes back.
LEMMA ResourcesRelease ==
  ASSUME Resources, NEW r \in Ids, ReleaseResources(r)
  PROVE  /\ Resources'
         /\ block_table' = [block_table EXCEPT ![r] = <<>>]
         /\ reserved_blocks' = [reserved_blocks EXCEPT ![r] = 0]
<1>1. /\ AllocTypeOK /\ FreeListExact
      /\ block_table \in [Ids -> Seq(PoolBlocks)] /\ reserved_blocks \in [Ids -> Nat]
      /\ \A s \in Ids : IsInjective(block_table[s])
      /\ \A s, t \in Ids :
           s # t => Range(block_table[s]) \intersect Range(block_table[t]) = {}
      /\ outstanding = UNION {Range(block_table[s]) : s \in Ids}
  BY DEF Resources, BlockOwnership
<1>2. /\ free_list' = free_list \o block_table[r]
      /\ outstanding' = outstanding \ Range(block_table[r])
      /\ block_table' = [block_table EXCEPT ![r] = <<>>]
      /\ reserved' = reserved - reserved_blocks[r]
      /\ reserved_blocks' = [reserved_blocks EXCEPT ![r] = 0]
  BY DEF ReleaseResources, ReleaseTable, ReleaseReservation, ReleaseSlot
<1>3. block_table[r] \in Seq(PoolBlocks) /\ IsInjective(block_table[r])
      /\ Range(block_table[r]) \subseteq outstanding
  BY <1>1
<1>4. /\ free_list' \in Seq(PoolBlocks)
      /\ outstanding' \in SUBSET PoolBlocks
      /\ Len(free_list') = Len(free_list) + Len(block_table[r])
      /\ FreeListExact'
  BY <1>1, <1>2, <1>3, PushKeepsExact
<1>5. /\ reserved \in Nat /\ reserved_blocks[r] \in Nat /\ reserved_blocks[r] <= reserved
      /\ Len(free_list) \in Nat /\ Len(block_table[r]) \in Nat /\ Len(free_list) >= reserved
  BY <1>1, OwnPromises DEF Resources, AllocTypeOK, ReservationsExact, PromisesCovered
<1>6. AllocTypeOK' /\ PromisesCovered'
  BY <1>2, <1>4, <1>5 DEF AllocTypeOK, PromisesCovered, PoolBlocks, usable_blocks
<1>7. /\ block_table' \in [Ids -> Seq(PoolBlocks)] /\ reserved_blocks' \in [Ids -> Nat]
      /\ block_table'[r] = <<>>
      /\ \A s \in Ids \ {r} : block_table'[s] = block_table[s]
  BY <1>1, <1>2
<1>8. IsInjective(<<>>) /\ Range(<<>>) = {}
  BY DEF IsInjective, Range
<1>9. BlockOwnership'
  <2>1. \A s \in Ids : IsInjective(block_table'[s])
    BY <1>1, <1>7, <1>8
  <2>2. \A s, u \in Ids :
          s # u => Range(block_table'[s]) \intersect Range(block_table'[u]) = {}
    BY <1>1, <1>7, <1>8
  <2>3. ASSUME NEW x \in outstanding' PROVE \E s \in Ids : x \in Range(block_table'[s])
    <3>1. PICK s \in Ids : x \in Range(block_table[s])
      BY <2>3, <1>1, <1>2
    <3>2. s # r
      BY <2>3, <3>1, <1>2
    <3> QED BY <3>1, <3>2, <1>7
  <2>4. ASSUME NEW s \in Ids, NEW x \in Range(block_table'[s]) PROVE x \in outstanding'
    <3>1. s # r
      BY <2>4, <1>7, <1>8
    <3>2. x \in Range(block_table[s])
      BY <3>1, <1>7
    <3> QED BY <3>1, <3>2, <1>1, <1>2
  <2>5. outstanding' = UNION {Range(block_table'[s]) : s \in Ids}
    BY <2>3, <2>4
  <2> QED BY <1>4, <2>1, <2>2, <2>5 DEF BlockOwnership
<1>10. ReservationsExact'
  <2> DEFINE own == {r} \X (1 .. reserved_blocks[r])
  <2>1. own \subseteq Promises /\ IsFiniteSet(own) /\ Cardinality(own) = reserved_blocks[r]
    BY <1>5, OwnPromises, PromiseCount
  <2>2. Promises' = Promises \ own
    BY <1>1, <1>2, UsableNat DEF Promises, PoolBlocks
  <2> HIDE DEF own
  <2>3. Promises \intersect own = own
    BY <2>1
  <2>4. Cardinality(Promises') = Cardinality(Promises) - reserved_blocks[r]
    <3>1. IsFiniteSet(Promises)
      BY PromisesFinite
    <3>2. Cardinality(Promises \ own) = Cardinality(Promises) - Cardinality(Promises \intersect own)
      BY <3>1, FS_Difference, Zenon
    <3> QED BY <2>1, <2>2, <2>3, <3>2
  <2>5. \A s \in Ids : reserved_blocks'[s] <= usable_blocks'
    BY <1>1, <1>2, UsableNat DEF Resources, ReservationsExact, usable_blocks
  <2> QED BY <1>2, <1>6, <2>4, <2>5 DEF Resources, ReservationsExact
<1> QED BY <1>2, <1>6, <1>7, <1>9, <1>10 DEF Resources

-----------------------------------------------------------------------------
(***************************************************************************)
(* Requests, queues and resources together.                                *)
(***************************************************************************)
States == {"none", "waiting", "prefill", "running", "finished"}

CoreType ==
  /\ param \in [Ids -> RequestParams]
  /\ state \in [Ids -> States]
  /\ finish_reason \in [Ids -> FinishReasons]
  /\ output_tokens \in [Ids -> Seq(Tokens)]
  /\ slot \in [Ids -> -1 .. MaxBatch - 1]
  /\ prefill_progress \in [Ids -> Nat]
  /\ waiting \in Seq(Ids) /\ prefill_queue \in Seq(Ids) /\ running \in Seq(Ids)
  /\ free_slots \in Seq(0 .. MaxBatch - 1)
  /\ next_request_id \in 1 .. MaxRequests + 1

StepType ==
  /\ pc \in {"idle", "admit", "prefill", "decode", "planned", "commit", "return"}
  /\ plan \in [prefill : Ids \union {nullptr}, begin : Nat, end : Nat,
               decode : Seq(Ids), aborted : Seq(Ids)]
  /\ results \in Seq([request_id : Ids, token : Tokens, finished : BOOLEAN,
                      finish_reason : FinishReasons])
  /\ throws \in 0 .. MaxThrows

Core ==
  /\ CoreType /\ Resources /\ OnlyAdmittedHold /\ AdmissionOrder
  /\ AcceptedValid /\ ProgressMatchesState /\ Quota /\ SlotCount

LEMMA InvSplit == SchedInv <=> Core /\ StepType /\ PlanMatchesQueues
BY DEF SchedInv, Core, StepType, CoreType, Resources, SchedTypeOK, States

LEMMA InvSplitNext == SchedInv' <=> Core' /\ StepType' /\ PlanMatchesQueues'
BY DEF SchedInv, Core, StepType, CoreType, Resources, SchedTypeOK, States

-----------------------------------------------------------------------------
(***************************************************************************)
(* Block arithmetic.                                                       *)
(***************************************************************************)
LEMMA BlocksBounds ==
  ASSUME NEW n \in Nat
  PROVE  /\ BlocksForTokens(n) \in Nat
         /\ BlocksForTokens(n) * KvBlockSize >= n
         /\ (BlocksForTokens(n) - 1) * KvBlockSize < n
<1>1. KvBlockSize \in Nat \ {0}
  BY SchedulerAssumption
<1>2. /\ (n + KvBlockSize - 1) \div KvBlockSize \in Int
      /\ ((n + KvBlockSize - 1) \div KvBlockSize) * KvBlockSize <= n + KvBlockSize - 1
      /\ n + KvBlockSize - 1 < (((n + KvBlockSize - 1) \div KvBlockSize) + 1) * KvBlockSize
  BY <1>1
<1> QED BY <1>1, <1>2 DEF BlocksForTokens

LEMMA TimesMono ==
  ASSUME NEW x \in Int, NEW y \in Int, x <= y
  PROVE  x * KvBlockSize <= y * KvBlockSize
<1>1. KvBlockSize \in Nat \ {0}
  BY SchedulerAssumption
<1> QED BY <1>1

\* A table of k blocks is too short for n tokens iff it has fewer than needed.
LEMMA CapacityShort ==
  ASSUME NEW n \in Nat, NEW k \in Nat
  PROVE  k * KvBlockSize < n <=> k < BlocksForTokens(n)
<1> DEFINE d == BlocksForTokens(n)
<1>1. d \in Nat /\ d * KvBlockSize >= n /\ (d - 1) * KvBlockSize < n
  BY BlocksBounds
<1>2. KvBlockSize \in Nat \ {0}
  BY SchedulerAssumption
<1> HIDE DEF d
<1>3. CASE k < d
  <2>1. k * KvBlockSize <= (d - 1) * KvBlockSize
    BY <1>1, <1>3, TimesMono
  <2>2. k * KvBlockSize \in Int /\ (d - 1) * KvBlockSize \in Int
    BY <1>1, <1>2
  <2> QED BY <1>1, <1>3, <2>1, <2>2 DEF d
<1>4. CASE k >= d
  <2>1. d * KvBlockSize <= k * KvBlockSize
    BY <1>1, <1>4, TimesMono
  <2>2. k * KvBlockSize \in Int /\ d * KvBlockSize \in Int
    BY <1>1, <1>2
  <2> QED BY <1>1, <1>4, <2>1, <2>2 DEF d
<1> QED BY <1>1, <1>3, <1>4

-----------------------------------------------------------------------------
(***************************************************************************)
(* Queues in arrival order.                                                *)
(***************************************************************************)
LEMMA IncreasingInjective ==
  ASSUME NEW s \in Seq(Ids), IsIncreasing(s)
  PROVE  IsInjective(s)
<1>1. DOMAIN s = 1 .. Len(s) /\ \A i \in 1 .. Len(s) : s[i] \in Int
  BY SchedulerAssumption DEF Ids
<1> QED BY <1>1 DEF IsIncreasing, IsInjective

LEMMA PushYoungest ==
  ASSUME NEW s \in Seq(Ids), IsIncreasing(s), NEW e \in Ids,
         \A x \in Range(s) : x < e
  PROVE  /\ Append(s, e) \in Seq(Ids)
         /\ Len(Append(s, e)) = Len(s) + 1
         /\ IsIncreasing(Append(s, e))
         /\ Range(Append(s, e)) = Range(s) \union {e}
<1>1. /\ Append(s, e) \in Seq(Ids)
      /\ Len(s) \in Nat /\ Len(Append(s, e)) = Len(s) + 1
      /\ \A i \in 1 .. Len(s) : Append(s, e)[i] = s[i]
      /\ Append(s, e)[Len(s) + 1] = e
      /\ DOMAIN s = 1 .. Len(s) /\ DOMAIN Append(s, e) = 1 .. Len(s) + 1
  BY AppendProperties, LenProperties
<1>2. IsIncreasing(Append(s, e))
  BY <1>1 DEF IsIncreasing, Range
<1> QED BY <1>1, <1>2, AppendRange

LEMMA PopOldest ==
  ASSUME NEW s \in Seq(Ids), IsIncreasing(s), s # <<>>
  PROVE  /\ Head(s) \in Range(s) /\ Head(s) \in Ids
         /\ Tail(s) \in Seq(Ids)
         /\ Len(Tail(s)) = Len(s) - 1
         /\ IsIncreasing(Tail(s))
         /\ Range(Tail(s)) = Range(s) \ {Head(s)}
         /\ \A x \in Range(Tail(s)) : Head(s) < x
<1>1. /\ Head(s) = s[1] /\ Head(s) \in Ids
      /\ Tail(s) \in Seq(Ids) /\ Len(s) \in Nat \ {0} /\ Len(Tail(s)) = Len(s) - 1
      /\ \A i \in 1 .. Len(s) - 1 : Tail(s)[i] = s[i + 1]
      /\ DOMAIN s = 1 .. Len(s) /\ DOMAIN Tail(s) = 1 .. Len(s) - 1
      /\ \A i \in 1 .. Len(s) : s[i] \in Int
  BY HeadTailProperties, LenProperties, EmptySeq, SchedulerAssumption DEF Ids
<1>2. IsIncreasing(Tail(s))
  BY <1>1 DEF IsIncreasing
<1>3. \A x \in Range(Tail(s)) : Head(s) < x /\ x \in Range(s)
  <2> SUFFICES ASSUME NEW i \in 1 .. Len(s) - 1
               PROVE  Head(s) < Tail(s)[i] /\ Tail(s)[i] \in Range(s)
    BY <1>1 DEF Range
  <2>1. i + 1 \in 1 .. Len(s) /\ 1 \in 1 .. Len(s) /\ 1 < i + 1
    BY <1>1
  <2> QED BY <1>1, <2>1 DEF IsIncreasing, Range
<1>4. \A x \in Range(s) : x = Head(s) \/ x \in Range(Tail(s))
  <2> SUFFICES ASSUME NEW i \in 1 .. Len(s)
               PROVE  s[i] = Head(s) \/ s[i] \in Range(Tail(s))
    BY <1>1 DEF Range
  <2>1. CASE i = 1
    BY <1>1, <2>1
  <2>2. CASE i # 1
    <3>1. i - 1 \in 1 .. Len(s) - 1 /\ Tail(s)[i - 1] = s[i]
      BY <1>1, <2>2
    <3> QED BY <1>1, <3>1 DEF Range
  <2> QED BY <2>1, <2>2
<1>5. Head(s) \in Range(s)
  BY <1>1 DEF Range
<1>6. Head(s) \in Int
  BY <1>1, SchedulerAssumption DEF Ids
<1>7. Range(Tail(s)) = Range(s) \ {Head(s)}
  BY <1>3, <1>4, <1>6
<1> QED BY <1>1, <1>2, <1>3, <1>5, <1>7

LEMMA PopYoungest ==
  ASSUME NEW s \in Seq(Ids), IsIncreasing(s), s # <<>>
  PROVE  /\ Last(s) \in Range(s) /\ Last(s) \in Ids
         /\ Front(s) \in Seq(Ids)
         /\ Len(Front(s)) = Len(s) - 1
         /\ \A i \in 1 .. Len(s) - 1 : Front(s)[i] = s[i]
         /\ IsIncreasing(Front(s))
         /\ Range(Front(s)) = Range(s) \ {Last(s)}
         /\ \A x \in Range(s) : x <= Last(s)
<1>1. /\ Len(s) \in Nat \ {0} /\ Front(s) \in Seq(Ids)
      /\ Len(Front(s)) = Len(s) - 1
      /\ \A i \in 1 .. Len(s) - 1 : Front(s)[i] = s[i]
      /\ Last(s) \in Ids /\ Last(s) = s[Len(s)]
  BY FrontProperties
<1>2. /\ DOMAIN s = 1 .. Len(s) /\ DOMAIN Front(s) = 1 .. Len(s) - 1
      /\ \A i \in 1 .. Len(s) : s[i] \in Int
  BY <1>1, SchedulerAssumption DEF Ids
<1>3. IsIncreasing(Front(s))
  <2>1. PICK f : f = Front(s) /\ DOMAIN f = 1 .. Len(s) - 1 /\ \A i \in 1 .. Len(s) - 1 : f[i] = s[i]
    BY <1>1, <1>2
  <2>2. ASSUME NEW i \in DOMAIN f, NEW j \in DOMAIN f, i < j PROVE f[i] < f[j]
    <3>1. i \in DOMAIN s /\ j \in DOMAIN s
      BY <1>1, <1>2, <2>1
    <3> QED BY <2>1, <2>2, <3>1 DEF IsIncreasing
  <2> QED BY <2>1, <2>2 DEF IsIncreasing
<1>4. \A x \in Range(s) : x <= Last(s)
  <2> SUFFICES ASSUME NEW i \in 1 .. Len(s) PROVE s[i] <= s[Len(s)]
    BY <1>1, <1>2 DEF Range
  <2>1. Len(s) \in 1 .. Len(s)
    BY <1>1
  <2>2. CASE i = Len(s)
    BY <1>2, <2>1, <2>2
  <2>3. CASE i # Len(s)
    <3>1. i < Len(s)
      BY <1>1, <2>3
    <3> QED BY <1>2, <2>1, <3>1 DEF IsIncreasing
  <2> QED BY <2>2, <2>3
<1> QED BY <1>1, <1>3, <1>4, IncreasingInjective, PopRange

LEMMA EraseOne ==
  ASSUME NEW s \in Seq(Ids), IsIncreasing(s), NEW k \in DOMAIN s
  PROVE  /\ RemoveAt(s, k) \in Seq(Ids)
         /\ Len(RemoveAt(s, k)) = Len(s) - 1
         /\ IsIncreasing(RemoveAt(s, k))
         /\ Range(RemoveAt(s, k)) = Range(s) \ {s[k]}
<1> DEFINE n == Len(s)
           u == RemoveAt(s, k)
           low == SubSeq(s, 1, k - 1)
           high == SubSeq(s, k + 1, n)
<1>1. /\ n \in Nat /\ k \in 1 .. n /\ DOMAIN s = 1 .. n
      /\ \A i \in 1 .. n : s[i] \in Ids /\ s[i] \in Int
  BY LenProperties, ElementOfSeq, SchedulerAssumption DEF Ids
<1>2. /\ low \in Seq(Ids) /\ Len(low) = k - 1
      /\ \A i \in 1 .. k - 1 : low[i] = s[i]
  BY <1>1
<1>3. /\ high \in Seq(Ids) /\ Len(high) = n - k
      /\ \A i \in 1 .. n - k : high[i] = s[i + k]
  <2>1. k + 1 \in Int /\ n \in Int /\ \A i \in k + 1 .. n : s[i] \in Ids
    BY <1>1
  <2>2. /\ high \in Seq(Ids) /\ Len(high) = (IF k + 1 <= n THEN n - (k + 1) + 1 ELSE 0)
        /\ \A i \in 1 .. n - (k + 1) + 1 : high[i] = s[k + 1 + i - 1]
    BY <2>1, SubSeqProperties
  <2> HIDE DEF high, low, u, n
  <2>3. n - (k + 1) + 1 = n - k /\ (k + 1 > n => n - k = 0)
    BY <1>1
  <2>4. ASSUME NEW i \in 1 .. n - k PROVE high[i] = s[i + k]
    <3>1. k + 1 + i - 1 = i + k
      BY <1>1
    <3>2. high[i] = s[k + 1 + i - 1]
      BY <2>2, <2>3
    <3> QED BY <3>1, <3>2
  <2>5. Len(high) = n - k
    BY <1>1, <2>2, <2>3
  <2> QED BY <2>2, <2>4, <2>5
<1>u. u = low \o high
  BY DEF RemoveAt
<1> HIDE DEF n, u, low, high
<1>4. /\ u \in Seq(Ids) /\ Len(u) = n - 1 /\ DOMAIN u = 1 .. n - 1
      /\ \A i \in 1 .. n - 1 : u[i] = IF i < k THEN s[i] ELSE s[i + 1]
  <2>1. /\ u \in Seq(Ids) /\ Len(u) = Len(low) + Len(high)
        /\ \A i \in 1 .. Len(low) + Len(high) :
             u[i] = IF i <= Len(low) THEN low[i] ELSE high[i - Len(low)]
    BY <1>u, <1>2, <1>3, ConcatProperties
  <2>2. Len(u) = n - 1 /\ DOMAIN u = 1 .. n - 1
    BY <1>1, <1>2, <1>3, <2>1, LenProperties
  <2>3. ASSUME NEW i \in 1 .. n - 1, i < k PROVE u[i] = s[i]
    <3>1. i \in 1 .. k - 1 /\ i <= Len(low) /\ i \in 1 .. Len(low) + Len(high)
      BY <1>1, <1>2, <1>3, <2>3
    <3>2. u[i] = low[i]
      BY <2>1, <3>1
    <3> QED BY <1>2, <3>1, <3>2
  <2>4. ASSUME NEW i \in 1 .. n - 1, ~(i < k) PROVE u[i] = s[i + 1]
    <3>1. i - (k - 1) \in 1 .. n - k /\ i - (k - 1) + k = i + 1
      BY <1>1, <2>4
    <3>2. u[i] = high[i - (k - 1)]
      BY <1>1, <1>2, <1>3, <2>1, <2>4
    <3> QED BY <1>3, <3>1, <3>2
  <2> QED BY <2>1, <2>2, <2>3, <2>4
<1>5. IsIncreasing(u)
  <2> SUFFICES ASSUME NEW i \in 1 .. n - 1, NEW j \in 1 .. n - 1, i < j
               PROVE  u[i] < u[j]
    BY <1>4 DEF IsIncreasing
  <2>1. PICK a \in 1 .. n : u[i] = s[a] /\ a = IF i < k THEN i ELSE i + 1
    BY <1>1, <1>4
  <2>2. PICK b \in 1 .. n : u[j] = s[b] /\ b = IF j < k THEN j ELSE j + 1
    BY <1>1, <1>4
  <2>3. a < b
    BY <1>1, <2>1, <2>2
  <2> QED BY <1>1, <2>1, <2>2, <2>3 DEF IsIncreasing
<1>6. \A i \in 1 .. n - 1 : u[i] \in Range(s) \ {s[k]}
  <2> SUFFICES ASSUME NEW i \in 1 .. n - 1 PROVE u[i] \in Range(s) \ {s[k]}
    OBVIOUS
  <2>1. PICK a \in 1 .. n : u[i] = s[a] /\ a # k
    BY <1>1, <1>4
  <2>2. s[a] # s[k]
    BY <1>1, <2>1 DEF IsIncreasing
  <2> QED BY <1>1, <2>1, <2>2 DEF Range
<1>7. \A i \in 1 .. n : i # k => s[i] \in Range(u)
  <2> SUFFICES ASSUME NEW i \in 1 .. n, i # k PROVE s[i] \in Range(u)
    OBVIOUS
  <2>1. CASE i < k
    <3>1. i \in 1 .. n - 1 /\ u[i] = s[i]
      BY <1>1, <1>4, <2>1
    <3> QED BY <1>4, <3>1 DEF Range
  <2>2. CASE i > k
    <3>1. i - 1 \in 1 .. n - 1 /\ u[i - 1] = s[i]
      BY <1>1, <1>4, <2>2
    <3> QED BY <1>4, <3>1 DEF Range
  <2> QED BY <1>1, <2>1, <2>2
<1>8. Range(u) = Range(s) \ {s[k]}
  <2>1. \A x \in Range(u) : x \in Range(s) \ {s[k]}
    BY <1>4, <1>6 DEF Range
  <2>2. \A x \in Range(s) \ {s[k]} : x \in Range(u)
    BY <1>1, <1>7 DEF Range
  <2> QED BY <2>1, <2>2
<1> QED BY <1>4, <1>5, <1>8 DEF n, u

LEMMA StageValues ==
  /\ Stage("none") = 3 /\ Stage("waiting") = 2 /\ Stage("prefill") = 1
  /\ Stage("running") = 0 /\ Stage("finished") = 0
BY DEF Stage

-----------------------------------------------------------------------------
(***************************************************************************)
(* Requests that passed validation.                                        *)
(***************************************************************************)
LEMMA FloorSubsumes ==
  ASSUME NEW u \in Int, NEW n \in Int, AboveFloor(u, n)
  PROVE  n <= u
<1>1. FloorDen \in Nat \ {0} /\ FloorNum \in Nat /\ usable_blocks \in Nat
  BY SchedulerAssumption, UsableNat
<1>2. FloorNum * usable_blocks >= 0 /\ (u - n) * FloorDen >= FloorNum * usable_blocks
  BY <1>1 DEF AboveFloor
<1>3. u - n \in Int /\ (u - n < 0 => (u - n) * FloorDen < 0)
  BY <1>1
<1>4. (u - n) * FloorDen \in Int /\ FloorNum * usable_blocks \in Int
  BY <1>1
<1> QED BY <1>2, <1>3, <1>4

LEMMA ValidBounds ==
  ASSUME NEW r \in Ids, param[r] \in RequestParams, ValidRequest(param[r])
  PROVE  /\ num_prompt_tokens(r) \in Nat \ {0} /\ param[r].max_new \in Nat \ {0}
         /\ BlocksForTokens(num_prompt_tokens(r)) \in Nat \ {0}
         /\ ReservationFor(r) \in Nat /\ ReservationFor(r) <= usable_blocks
<1>1. num_prompt_tokens(r) \in Nat \ {0} /\ param[r].max_new \in Nat \ {0}
  BY DEF RequestParams, ValidRequest, num_prompt_tokens
<1>2. /\ BlocksForTokens(num_prompt_tokens(r)) \in Nat
      /\ BlocksForTokens(num_prompt_tokens(r) + param[r].max_new) \in Nat
  BY <1>1, BlocksBounds
<1>3. BlocksForTokens(num_prompt_tokens(r)) > 0
  <2>1. 0 * KvBlockSize < num_prompt_tokens(r)
    BY <1>1, SchedulerAssumption
  <2> QED BY <1>1, <1>2, <2>1, CapacityShort
<1>4. CASE AdmissionPolicy = "reserve_full"
  BY <1>1, <1>2, <1>3, <1>4 DEF ReservationFor, ValidRequest, num_prompt_tokens
<1>5. CASE AdmissionPolicy # "reserve_full"
  <2>1. AboveFloor(usable_blocks, BlocksForTokens(num_prompt_tokens(r)))
    BY <1>5 DEF ValidRequest, num_prompt_tokens
  <2>2. BlocksForTokens(num_prompt_tokens(r)) <= usable_blocks
    BY <1>2, <2>1, FloorSubsumes, UsableNat
  <2> QED BY <1>1, <1>2, <1>3, <1>5, <2>2 DEF ReservationFor
<1> QED BY <1>4, <1>5

LEMMA LiveBounds ==
  ASSUME Core, NEW r \in Ids, state[r] # "none"
  PROVE  /\ num_prompt_tokens(r) \in Nat \ {0} /\ param[r].max_new \in Nat \ {0}
         /\ BlocksForTokens(num_prompt_tokens(r)) \in Nat \ {0}
         /\ ReservationFor(r) \in Nat /\ ReservationFor(r) <= usable_blocks
BY ValidBounds DEF Core, CoreType, AcceptedValid

\* Enough blocks for the whole reservation means enough for any shorter prefix.
LEMMA ReservationShort ==
  ASSUME Core, NEW r \in Ids, state[r] # "none", NEW k \in Nat, NEW n \in Nat,
         \/ n <= num_prompt_tokens(r)
         \/ AdmissionPolicy = "reserve_full" /\ n <= num_prompt_tokens(r) + param[r].max_new,
         k * KvBlockSize < n
  PROVE  k < ReservationFor(r)
<1>1. num_prompt_tokens(r) \in Nat /\ param[r].max_new \in Nat
  BY LiveBounds
<1>2. k * KvBlockSize \in Int
  BY SchedulerAssumption
<1>3. CASE AdmissionPolicy = "reserve_full"
  <2>1. k * KvBlockSize < num_prompt_tokens(r) + param[r].max_new
    BY <1>1, <1>2, <1>3
  <2> QED BY <1>1, <1>3, <2>1, CapacityShort DEF ReservationFor
<1>4. CASE AdmissionPolicy # "reserve_full"
  <2>1. k * KvBlockSize < num_prompt_tokens(r)
    BY <1>1, <1>2, <1>4
  <2> QED BY <1>1, <1>4, <2>1, CapacityShort DEF ReservationFor
<1> QED BY <1>3, <1>4

-----------------------------------------------------------------------------
(***************************************************************************)
(* Core is preserved: steps that leave it alone, submission, admission.    *)
(***************************************************************************)
LEMMA CoreUnchanged ==
  ASSUME Core, UNCHANGED <<allocVars, requestVars, queueVars, next_request_id>>
  PROVE  Core'
<1>1. Resources'
  BY ResourcesUnchanged DEF Core, requestVars
<1>2. CoreType'
  BY DEF Core, CoreType, requestVars, queueVars, Ids
<1>3. OnlyAdmittedHold' /\ AdmissionOrder' /\ AcceptedValid'
  BY DEF Core, OnlyAdmittedHold, AdmissionOrder, AcceptedValid, requestVars, queueVars,
         Admitted, Ids, ValidRequest
<1>4. ProgressMatchesState' /\ Quota' /\ SlotCount'
  BY DEF Core, ProgressMatchesState, Quota, SlotCount, requestVars, queueVars,
         Admitted, num_prompt_tokens, ReservationFor, num_running
<1> QED BY <1>1, <1>2, <1>3, <1>4 DEF Core

LEMMA CoreAddRequest ==
  ASSUME Core, NEW p \in Workload, AddRequest(p)
  PROVE  Core'
<1> DEFINE r == next_request_id
<1>1. /\ r \in Ids /\ ValidRequest(p) /\ p \in RequestParams
      /\ param' = [param EXCEPT ![r] = p]
      /\ state' = [state EXCEPT ![r] = "waiting"]
      /\ waiting' = Append(waiting, r) /\ next_request_id' = r + 1
      /\ UNCHANGED <<allocVars, finish_reason, output_tokens, slot, reserved_blocks,
                     prefill_progress, block_table, prefill_queue, running, free_slots>>
  BY WorkloadAssumption DEF AddRequest, Enqueue
<1>2. CoreType /\ AdmissionOrder /\ AcceptedValid /\ r \in Int
  BY <1>1, SchedulerAssumption DEF Core, Ids
<1> HIDE DEF r
<1>3. state[r] = "none" /\ \A s \in Ids : state[s] # "none" <=> s < r
  BY <1>1, <1>2 DEF AcceptedValid, r
<1>4. \A s \in Ids : s # r => state'[s] = state[s] /\ param'[s] = param[s]
  BY <1>1, <1>2 DEF CoreType
<1>5. state'[r] = "waiting" /\ param'[r] = p
  BY <1>1, <1>2 DEF CoreType
<1>6. /\ waiting' \in Seq(Ids) /\ IsIncreasing(waiting')
      /\ Range(waiting') = Range(waiting) \union {r}
  <2>1. waiting \in Seq(Ids) /\ IsIncreasing(waiting) /\ \A x \in Range(waiting) : x < r
    BY <1>2, <1>3 DEF CoreType, AdmissionOrder
  <2> QED BY <1>1, <2>1, PushYoungest
<1>7. CoreType'
  <2>1. param' \in [Ids -> RequestParams] /\ state' \in [Ids -> States]
    BY <1>1, <1>2 DEF CoreType, States
  <2>2. next_request_id' \in 1 .. MaxRequests + 1
    BY <1>1, SchedulerAssumption DEF Ids
  <2> QED BY <1>1, <1>2, <1>6, <2>1, <2>2 DEF CoreType
<1>8. Resources'
  BY <1>1, ResourcesUnchanged DEF Core
<1>9. OnlyAdmittedHold'
  BY <1>1, <1>3, <1>4, <1>5 DEF Core, OnlyAdmittedHold, Admitted
<1>10. AdmissionOrder'
  <2>1. /\ Range(running') = {s \in Ids : state'[s] = "running"}
        /\ Range(prefill_queue') = {s \in Ids : state'[s] = "prefill"}
        /\ Range(waiting') = {s \in Ids : state'[s] = "waiting"}
    BY <1>1, <1>2, <1>3, <1>4, <1>5, <1>6 DEF AdmissionOrder
  <2>2. ASSUME NEW s \in Ids, NEW t \in Ids, Stage(state'[s]) < Stage(state'[t])
        PROVE  s < t
    <3>1. state[s] \in States /\ state[t] \in States /\ s \in Int /\ t \in Int
      BY <1>2, SchedulerAssumption DEF CoreType, Ids
    <3>2. CASE s # r /\ t # r
      BY <2>2, <3>2, <1>2, <1>4 DEF AdmissionOrder
    <3>3. CASE s = r
      BY <2>2, <3>1, <3>3, <1>2, <1>3, <1>4, <1>5, StageValues DEF States
    <3>4. CASE t = r /\ s # r
      BY <2>2, <3>1, <3>4, <1>2, <1>3, <1>4, <1>5, StageValues DEF States
    <3> QED BY <3>2, <3>3, <3>4
  <2> QED BY <1>1, <1>2, <1>6, <2>1, <2>2 DEF AdmissionOrder
<1>11. AcceptedValid'
  BY <1>1, <1>2, <1>3, <1>4, <1>5, SchedulerAssumption DEF AcceptedValid, Ids, ValidRequest, r
<1>12. ProgressMatchesState'
  BY <1>1, <1>3, <1>4, <1>5 DEF Core, ProgressMatchesState, num_prompt_tokens
<1>13. Quota'
  BY <1>1, <1>3, <1>4, <1>5 DEF Core, Quota, ReservationFor, num_prompt_tokens
<1>14. SlotCount'
  BY <1>1, <1>3, <1>4, <1>5 DEF Core, SlotCount, Admitted, num_running
<1> QED BY <1>7, <1>8, <1>9, <1>10, <1>11, <1>12, <1>13, <1>14 DEF Core

\* What the admission loop's condition guarantees Admit.
LEMMA AdmitHolds ==
  ASSUME Core, CanAdmitHead
  PROVE  LET r == Head(waiting) IN
         /\ r \in Ids /\ state[r] = "waiting"
         /\ ReservationFor(r) \in Nat /\ ReservationFor(r) <= usable_blocks
         /\ CanReserve(ReservationFor(r))
         /\ free_slots # <<>>
<1> DEFINE r == Head(waiting)
<1>1. r \in Ids /\ state[r] = "waiting"
  BY PopOldest DEF Core, CoreType, AdmissionOrder, CanAdmitHead
<1>2. ReservationFor(r) \in Nat /\ ReservationFor(r) <= usable_blocks
  BY <1>1, LiveBounds
<1>3. Len(free_list) \in Nat /\ reserved \in Nat
  BY DEF Core, Resources, AllocTypeOK
<1>4. CanReserve(ReservationFor(r))
  <2>1. CASE AdmissionPolicy = "reserve_full"
    BY <2>1 DEF CanAdmitHead, CanAdmit, ReservationFor
  <2>2. CASE AdmissionPolicy # "reserve_full"
    <3>1. AboveFloor(Len(free_list) - reserved, ReservationFor(r))
      BY <2>2 DEF CanAdmitHead, CanAdmit, ReservationFor
    <3> QED BY <1>2, <1>3, <3>1, FloorSubsumes DEF CanReserve
  <2> QED BY <2>1, <2>2
<1>5. free_slots # <<>>
  <2>1. Len(free_slots) + num_running = MaxBatch /\ num_running < MaxBatch
    BY DEF Core, SlotCount, CanAdmitHead
  <2>2. num_running \in Nat /\ MaxBatch \in Nat
    BY SchedulerAssumption DEF num_running, Core, CoreType
  <2>3. free_slots = <<>> => Len(free_slots) = 0
    OBVIOUS
  <2> QED BY <2>1, <2>2, <2>3
<1> QED BY <1>1, <1>2, <1>4, <1>5

LEMMA CoreAdmit ==
  ASSUME Core, Admit
  PROVE  Core'
<1>0. PICK r \in Ids : r = Head(waiting)
  BY AdmitHolds DEF Admit
<1>n. PICK n \in Nat : n = ReservationFor(r)
  BY <1>0, AdmitHolds DEF Admit
<1>1. /\ Reserve(n)
      /\ reserved_blocks' = [reserved_blocks EXCEPT ![r] = n]
      /\ slot' = [slot EXCEPT ![r] = Last(free_slots)]
      /\ free_slots' = Front(free_slots)
      /\ state' = [state EXCEPT ![r] = "prefill"]
      /\ waiting' = Tail(waiting) /\ prefill_queue' = Append(prefill_queue, r)
      /\ UNCHANGED <<param, finish_reason, output_tokens, prefill_progress,
                     block_table, running, next_request_id>>
      /\ waiting # <<>>
  BY <1>0, <1>n DEF Admit, CanAdmitHead
<1>2. /\ state[r] = "waiting" /\ n <= usable_blocks
      /\ CanReserve(n) /\ free_slots # <<>>
  BY <1>0, <1>n, AdmitHolds DEF Admit
<1>3. CoreType /\ AdmissionOrder /\ OnlyAdmittedHold
  BY DEF Core
<1>4. reserved_blocks[r] = 0 /\ block_table[r] = <<>> /\ reserved_blocks \in [Ids -> Nat]
  BY <1>2, <1>3 DEF OnlyAdmittedHold, Admitted, Core, Resources
<1>5. Resources'
  BY <1>1, <1>2, <1>4, ResourcesReserve DEF Core
<1>6. /\ Tail(waiting) \in Seq(Ids) /\ IsIncreasing(Tail(waiting))
      /\ Range(Tail(waiting)) = Range(waiting) \ {r}
      /\ \A x \in Range(Tail(waiting)) : r < x
  BY <1>0, <1>1, <1>3, PopOldest DEF CoreType, AdmissionOrder
<1>7. \A s \in Ids : s # r => state'[s] = state[s]
  BY <1>1, <1>3 DEF CoreType
<1>8. state'[r] = "prefill"
  BY <1>1, <1>2, <1>3 DEF CoreType
<1>9. \A s \in Ids : state[s] \in {"running", "finished", "prefill"} => s < r
  BY <1>2, <1>3, StageValues DEF AdmissionOrder
<1>10. \A s \in Ids \ {r} : state[s] \in {"waiting", "none"} => r < s
  BY <1>2, <1>3, <1>6, StageValues DEF AdmissionOrder
<1>11. /\ prefill_queue' \in Seq(Ids) /\ IsIncreasing(prefill_queue')
       /\ Len(prefill_queue') = Len(prefill_queue) + 1
       /\ Range(prefill_queue') = Range(prefill_queue) \union {r}
  <2>1. /\ prefill_queue \in Seq(Ids) /\ IsIncreasing(prefill_queue)
        /\ \A x \in Range(prefill_queue) : x < r
    BY <1>3, <1>9 DEF CoreType, AdmissionOrder
  <2> QED BY <1>1, <1>2, <2>1, PushYoungest
<1>12. /\ Front(free_slots) \in Seq(0 .. MaxBatch - 1)
       /\ Len(Front(free_slots)) = Len(free_slots) - 1
       /\ Last(free_slots) \in 0 .. MaxBatch - 1
  BY <1>2, <1>3, FrontProperties DEF CoreType
<1>s. Last(free_slots) \in -1 .. MaxBatch - 1 /\ Last(free_slots) >= 0
  BY <1>12, SchedulerAssumption
<1>13. CoreType'
  <2>1. state' \in [Ids -> States]
    BY <1>1, <1>3 DEF CoreType, States
  <2>2. slot' \in [Ids -> -1 .. MaxBatch - 1]
    BY <1>1, <1>3, <1>s DEF CoreType
  <2> QED BY <1>1, <1>3, <1>6, <1>11, <1>12, <2>1, <2>2 DEF CoreType
<1>14. OnlyAdmittedHold'
  BY <1>1, <1>3, <1>4, <1>7, <1>8 DEF OnlyAdmittedHold, Admitted, CoreType
<1>15. AdmissionOrder'
  <2>1. /\ Range(running') = {s \in Ids : state'[s] = "running"}
        /\ Range(prefill_queue') = {s \in Ids : state'[s] = "prefill"}
        /\ Range(waiting') = {s \in Ids : state'[s] = "waiting"}
    BY <1>1, <1>2, <1>3, <1>6, <1>7, <1>8, <1>11 DEF AdmissionOrder
  <2>2. ASSUME NEW s \in Ids, NEW t \in Ids, Stage(state'[s]) < Stage(state'[t])
        PROVE  s < t
    <3>1. state[s] \in States /\ state[t] \in States
      BY <1>3 DEF CoreType
    <3>2. CASE s # r /\ t # r
      BY <2>2, <3>2, <1>3, <1>7 DEF AdmissionOrder
    <3>3. CASE s = r
      BY <2>2, <3>1, <3>3, <1>7, <1>8, <1>10, StageValues DEF States
    <3>4. CASE t = r /\ s # r
      BY <2>2, <3>1, <3>4, <1>7, <1>8, <1>9, StageValues DEF States
    <3> QED BY <3>2, <3>3, <3>4
  <2> QED BY <1>1, <1>3, <1>6, <1>11, <2>1, <2>2 DEF AdmissionOrder
<1>16. AcceptedValid'
  BY <1>1, <1>2, <1>7, <1>8 DEF Core, AcceptedValid, ValidRequest
<1>17. ProgressMatchesState'
  <2>1. num_prompt_tokens(r) \in Nat \ {0}
    BY <1>2, LiveBounds
  <2>2. prefill_progress[r] = 0 /\ output_tokens[r] = <<>>
    BY <1>2 DEF Core, ProgressMatchesState
  <2> QED BY <1>1, <1>7, <1>8, <2>1, <2>2 DEF Core, ProgressMatchesState, num_prompt_tokens
<1>18. Quota'
  <2>0. reserved_blocks'[r] = n /\ Len(block_table'[r]) = 0
    BY <1>1, <1>4
  <2>1. reserved_blocks'[r] + Len(block_table'[r]) = ReservationFor(r)'
    BY <1>1, <1>n, <2>0 DEF ReservationFor, num_prompt_tokens
  <2>2. \A s \in Ids : s # r => reserved_blocks'[s] = reserved_blocks[s]
    BY <1>1, <1>4
  <2> QED BY <1>1, <1>7, <1>8, <2>1, <2>2 DEF Core, Quota, ReservationFor, num_prompt_tokens
<1>19. SlotCount'
  <2>1. Len(free_slots') + num_running' = MaxBatch
    <3>1. Len(free_slots) + (Len(prefill_queue) + Len(running)) = MaxBatch
      BY DEF Core, SlotCount, num_running
    <3>2. Len(free_slots) \in Nat /\ Len(prefill_queue) \in Nat /\ Len(running) \in Nat
      BY <1>3 DEF CoreType
    <3> QED BY <1>1, <1>11, <1>12, <3>1, <3>2 DEF num_running
  <2>2. \A s \in Ids : s # r => slot'[s] = slot[s]
    BY <1>1, <1>3 DEF CoreType
  <2>3. slot'[r] >= 0
    BY <1>1, <1>3, <1>s DEF CoreType
  <2> QED BY <1>7, <2>1, <2>2, <2>3 DEF Core, SlotCount, Admitted
<1> QED BY <1>5, <1>13, <1>14, <1>15, <1>16, <1>17, <1>18, <1>19 DEF Core

-----------------------------------------------------------------------------
(***************************************************************************)
(* Growing a table.                                                        *)
(***************************************************************************)

\* Everything of Core that is not about blocks and reservations.
LEMMA CoreResourcesOnly ==
  ASSUME Core, NEW r \in Ids, state[r] \in {"prefill", "running"}, Resources',
         UNCHANGED <<param, state, finish_reason, output_tokens, slot, prefill_progress,
                     queueVars, next_request_id>>,
         \A s \in Ids \ {r} : /\ block_table'[s] = block_table[s]
                              /\ reserved_blocks'[s] = reserved_blocks[s],
         Quota'
  PROVE  Core'
<1>1. CoreType' /\ SlotCount'
  BY DEF Core, CoreType, SlotCount, Admitted, num_running, queueVars
<1>2. AdmissionOrder' /\ AcceptedValid' /\ ProgressMatchesState'
  BY DEF Core, AdmissionOrder, AcceptedValid, ProgressMatchesState, queueVars,
         ValidRequest, num_prompt_tokens
<1>3. OnlyAdmittedHold'
  BY DEF Core, OnlyAdmittedHold, Admitted
<1> QED BY <1>1, <1>2, <1>3 DEF Core

LEMMA CoreTake ==
  ASSUME Core, NEW r \in Ids, reserved_blocks[r] > 0, TakeReservedBlock(r),
         \/ state[r] = "prefill"
         \/ state[r] = "running" /\ AdmissionPolicy = "reserve_full",
         UNCHANGED <<param, state, finish_reason, output_tokens, slot, prefill_progress,
                     queueVars, next_request_id>>
  PROVE  Core' /\ CanAllocReserved
<1>1. Resources' /\ CanAllocReserved
  BY ResourcesTake DEF Core
<1>2. /\ block_table \in [Ids -> Seq(PoolBlocks)] /\ reserved_blocks \in [Ids -> Nat]
      /\ AllocTypeOK
  BY DEF Core, Resources
<1>3. NextBlock \in PoolBlocks
  BY <1>1, <1>2, FrontProperties DEF CanAllocReserved, NextBlock, AllocTypeOK
<1>4. /\ block_table'[r] = Append(block_table[r], NextBlock)
      /\ reserved_blocks'[r] = reserved_blocks[r] - 1
      /\ \A s \in Ids \ {r} : /\ block_table'[s] = block_table[s]
                              /\ reserved_blocks'[s] = reserved_blocks[s]
  BY <1>2 DEF TakeReservedBlock
<1>5. Len(block_table'[r]) = Len(block_table[r]) + 1 /\ block_table'[r] # <<>>
  BY <1>2, <1>3, <1>4, AppendProperties
<1>6. reserved_blocks'[r] + Len(block_table'[r]) = reserved_blocks[r] + Len(block_table[r])
  <2>1. reserved_blocks[r] \in Nat /\ Len(block_table[r]) \in Nat
    BY <1>2
  <2>2. reserved_blocks'[r] = reserved_blocks[r] - 1 /\ Len(block_table'[r]) = Len(block_table[r]) + 1
    BY <1>4, <1>5
  <2> QED BY <2>1, <2>2
<1>7. Quota'
  BY <1>4, <1>5, <1>6 DEF Core, Quota, ReservationFor, num_prompt_tokens
<1> QED BY <1>1, <1>4, <1>7, CoreResourcesOnly

LEMMA CoreClaim ==
  ASSUME Core, NEW r \in Ids, state[r] = "running", AdmissionPolicy = "watermark",
         CanReserve(1),
         free_list' = Front(free_list),
         outstanding' = outstanding \union {NextBlock},
         block_table' = [block_table EXCEPT ![r] = Append(@, NextBlock)],
         UNCHANGED <<reserved, reserved_blocks>>,
         UNCHANGED <<param, state, finish_reason, output_tokens, slot, prefill_progress,
                     queueVars, next_request_id>>
  PROVE  Core'
<1>1. Resources'
  BY ResourcesClaim DEF Core
<1>2. /\ block_table \in [Ids -> Seq(PoolBlocks)] /\ reserved_blocks \in [Ids -> Nat]
      /\ block_table' \in [Ids -> Seq(PoolBlocks)]
  BY <1>1 DEF Core, Resources
<1>3. free_list \in Seq(PoolBlocks) /\ reserved \in Nat /\ Len(free_list) - reserved >= 1
  BY DEF Core, Resources, AllocTypeOK, CanReserve
<1>4. NextBlock \in PoolBlocks
  BY <1>3, FrontProperties DEF NextBlock
<1>5. /\ block_table'[r] = Append(block_table[r], NextBlock)
      /\ \A s \in Ids \ {r} : /\ block_table'[s] = block_table[s]
                              /\ reserved_blocks'[s] = reserved_blocks[s]
  BY <1>2
<1>6. block_table'[r] # <<>>
  BY <1>2, <1>4, <1>5, AppendProperties
<1>7. Quota'
  BY <1>5, <1>6 DEF Core, Quota, ReservationFor, num_prompt_tokens
<1> QED BY <1>1, <1>5, <1>7, CoreResourcesOnly

-----------------------------------------------------------------------------
(***************************************************************************)
(* Leaving the batch, by a stop or an abort.                               *)
(***************************************************************************)
LEMMA CoreFinish ==
  ASSUME Core, NEW r \in Ids, state[r] \in {"prefill", "running"},
         ReleaseResources(r),
         state' = [state EXCEPT ![r] = "finished"],
         finish_reason' \in [Ids -> FinishReasons],
         output_tokens' \in [Ids -> Seq(Tokens)], output_tokens'[r] # <<>>,
         prefill_progress' \in [Ids -> Nat],
         \A s \in Ids \ {r} : /\ output_tokens'[s] = output_tokens[s]
                              /\ prefill_progress'[s] = prefill_progress[s],
         running' \in Seq(Ids), IsIncreasing(running'),
         Range(running') = Range(running) \ {r},
         prefill_queue' \in Seq(Ids), IsIncreasing(prefill_queue'),
         Range(prefill_queue') = Range(prefill_queue) \ {r},
         Len(prefill_queue') + Len(running') = Len(prefill_queue) + Len(running) - 1,
         \A s \in Ids \ {r} : state[s] \in {"prefill", "waiting", "none"} => r < s,
         UNCHANGED <<param, waiting, next_request_id>>
  PROVE  Core'
<1>1. /\ Resources'
      /\ block_table' = [block_table EXCEPT ![r] = <<>>]
      /\ reserved_blocks' = [reserved_blocks EXCEPT ![r] = 0]
  BY ResourcesRelease DEF Core
<1>2. CoreType /\ AdmissionOrder /\ OnlyAdmittedHold /\ SlotCount
  BY DEF Core
<1>3. /\ \A s \in Ids \ {r} : /\ state'[s] = state[s] /\ slot'[s] = slot[s]
                              /\ block_table'[s] = block_table[s]
                              /\ reserved_blocks'[s] = reserved_blocks[s]
      /\ state'[r] = "finished" /\ slot'[r] = -1
      /\ block_table'[r] = <<>> /\ reserved_blocks'[r] = 0
  BY <1>1, <1>2 DEF CoreType, ReleaseResources, ReleaseTable, ReleaseReservation, ReleaseSlot, Core, Resources
<1>4. /\ free_slots' \in Seq(0 .. MaxBatch - 1)
      /\ Len(free_slots') = Len(free_slots) + 1
  <2>1. slot[r] >= 0 /\ slot[r] \in -1 .. MaxBatch - 1
    BY <1>2 DEF SlotCount, Admitted, CoreType
  <2>2. slot[r] \in 0 .. MaxBatch - 1 /\ free_slots' = Append(free_slots, slot[r])
    BY <2>1, SchedulerAssumption DEF ReleaseResources, ReleaseTable, ReleaseReservation, ReleaseSlot
  <2> QED BY <1>2, <2>2, AppendProperties DEF CoreType
<1>5. CoreType'
  <2>1. state' \in [Ids -> States]
    BY <1>2 DEF CoreType, States
  <2>2. slot' \in [Ids -> -1 .. MaxBatch - 1]
    <3>1. -1 \in -1 .. MaxBatch - 1
      BY SchedulerAssumption
    <3> QED BY <1>2, <3>1 DEF CoreType, ReleaseResources, ReleaseTable, ReleaseReservation, ReleaseSlot
  <2> QED BY <1>2, <1>4, <2>1, <2>2 DEF CoreType
<1>6. OnlyAdmittedHold'
  BY <1>2, <1>3 DEF OnlyAdmittedHold, Admitted
<1>7. AdmissionOrder'
  <2>1. /\ Range(running') = {s \in Ids : state'[s] = "running"}
        /\ Range(prefill_queue') = {s \in Ids : state'[s] = "prefill"}
        /\ Range(waiting') = {s \in Ids : state'[s] = "waiting"}
    BY <1>2, <1>3 DEF AdmissionOrder
  <2>2. ASSUME NEW s \in Ids, NEW t \in Ids, Stage(state'[s]) < Stage(state'[t])
        PROVE  s < t
    <3>1. state[s] \in States /\ state[t] \in States
      BY <1>2 DEF CoreType
    <3>2. CASE s # r /\ t # r
      BY <2>2, <3>2, <1>2, <1>3 DEF AdmissionOrder
    <3>3. CASE s = r
      BY <2>2, <3>1, <3>3, <1>3, StageValues DEF States
    <3>4. CASE t = r /\ s # r
      BY <2>2, <3>1, <3>4, <1>3, StageValues DEF States
    <3> QED BY <3>2, <3>3, <3>4
  <2> QED BY <1>2, <2>1, <2>2 DEF AdmissionOrder
<1>8. AcceptedValid'
  BY <1>3 DEF Core, AcceptedValid, ValidRequest
<1>9. ProgressMatchesState'
  <2>1. ProgressMatchesState /\ UNCHANGED param
    BY DEF Core
  <2>2. ASSUME NEW s \in Ids
        PROVE  \/ s = r /\ state'[s] = "finished" /\ output_tokens'[s] # <<>>
               \/ /\ state'[s] = state[s] /\ output_tokens'[s] = output_tokens[s]
                  /\ prefill_progress'[s] = prefill_progress[s]
    BY <1>3
  <2> HIDE <1>1, <1>3
  <2> QED BY <2>1, <2>2 DEF ProgressMatchesState, num_prompt_tokens
<1>10. Quota'
  <2>1. Quota /\ UNCHANGED param
    BY DEF Core
  <2>2. ASSUME NEW s \in Ids
        PROVE  \/ state'[s] = "finished"
               \/ /\ state'[s] = state[s] /\ block_table'[s] = block_table[s]
                  /\ reserved_blocks'[s] = reserved_blocks[s]
    BY <1>3
  <2>3. \A s \in Ids : ReservationFor(s)' = ReservationFor(s)
    BY <2>1 DEF ReservationFor, num_prompt_tokens
  <2> HIDE <1>1, <1>3
  <2>4. ASSUME NEW s \in Ids
        PROVE  /\ state'[s] = "prefill" => reserved_blocks'[s] + Len(block_table'[s]) = ReservationFor(s)'
               /\ state'[s] = "running" =>
                    /\ block_table'[s] # <<>>
                    /\ IF AdmissionPolicy = "reserve_full"
                       THEN reserved_blocks'[s] + Len(block_table'[s]) = ReservationFor(s)'
                       ELSE reserved_blocks'[s] = 0
    <3>1. CASE state'[s] = "finished"
      BY <3>1
    <3>2. CASE /\ state'[s] = state[s] /\ block_table'[s] = block_table[s]
               /\ reserved_blocks'[s] = reserved_blocks[s]
      BY <2>1, <2>3, <3>2 DEF Quota
    <3> QED BY <2>2, <3>1, <3>2
  <2> QED BY <2>4 DEF Quota
<1>11. SlotCount'
  <2>1. /\ Len(free_slots) + (Len(prefill_queue) + Len(running)) = MaxBatch
        /\ Len(free_slots) \in Nat /\ Len(prefill_queue) \in Nat /\ Len(running) \in Nat
    BY <1>2 DEF SlotCount, num_running, CoreType
  <2>2. Len(free_slots') + (Len(prefill_queue') + Len(running')) = MaxBatch
    <3>1. PICK p \in Nat, q \in Nat, f \in Nat :
            p = Len(prefill_queue) /\ q = Len(running) /\ f = Len(free_slots)
      BY <2>1
    <3>2. PICK pp \in Nat, qq \in Nat : pp = Len(prefill_queue') /\ qq = Len(running')
      BY LenProperties
    <3>3. pp + qq = p + q - 1
      BY <3>1, <3>2
    <3>4. f + (p + q) = MaxBatch
      BY <2>1, <3>1
    <3>5. (f + 1) + (pp + qq) = MaxBatch
      BY <3>3, <3>4
    <3> QED BY <1>4, <3>1, <3>2, <3>5
  <2> QED BY <1>2, <1>3, <2>2 DEF SlotCount, Admitted, num_running
<1> QED BY <1>1, <1>5, <1>6, <1>7, <1>8, <1>9, <1>10, <1>11 DEF Core

(***************************************************************************)
(* Staying in the batch with one more token.                               *)
(***************************************************************************)
LEMMA CoreContinue ==
  ASSUME Core, NEW r \in Ids, state[r] \in {"prefill", "running"},
         state' = [state EXCEPT ![r] = "running"],
         output_tokens' \in [Ids -> Seq(Tokens)], output_tokens'[r] # <<>>,
         Len(output_tokens'[r]) < param[r].max_new,
         prefill_progress' \in [Ids -> Nat],
         \A s \in Ids \ {r} : /\ output_tokens'[s] = output_tokens[s]
                              /\ prefill_progress'[s] = prefill_progress[s],
         block_table[r] # <<>>,
         AdmissionPolicy = "reserve_full" \/ reserved_blocks[r] = 0,
         running' \in Seq(Ids), IsIncreasing(running'),
         Range(running') = Range(running) \union {r},
         prefill_queue' \in Seq(Ids), IsIncreasing(prefill_queue'),
         Range(prefill_queue') = Range(prefill_queue) \ {r},
         Len(prefill_queue') + Len(running') = Len(prefill_queue) + Len(running),
         \A s \in Ids \ {r} : state[s] \in {"prefill", "waiting", "none"} => r < s,
         UNCHANGED <<allocVars, param, finish_reason, slot, reserved_blocks,
                     block_table, waiting, free_slots, next_request_id>>
  PROVE  Core'
<1>1. Resources'
  BY ResourcesUnchanged DEF Core
<1>2. CoreType /\ AdmissionOrder /\ OnlyAdmittedHold /\ SlotCount
  BY DEF Core
<1>3. /\ \A s \in Ids \ {r} : state'[s] = state[s]
      /\ state'[r] = "running"
  BY <1>2 DEF CoreType
<1>4. CoreType'
  <2>1. state' \in [Ids -> States]
    BY <1>2 DEF CoreType, States
  <2> QED BY <1>2, <2>1 DEF CoreType
<1>5. OnlyAdmittedHold'
  BY <1>2, <1>3 DEF OnlyAdmittedHold, Admitted
<1>6. AdmissionOrder'
  <2>1. /\ Range(running') = {s \in Ids : state'[s] = "running"}
        /\ Range(prefill_queue') = {s \in Ids : state'[s] = "prefill"}
        /\ Range(waiting') = {s \in Ids : state'[s] = "waiting"}
    BY <1>2, <1>3 DEF AdmissionOrder
  <2>2. ASSUME NEW s \in Ids, NEW t \in Ids, Stage(state'[s]) < Stage(state'[t])
        PROVE  s < t
    <3>1. state[s] \in States /\ state[t] \in States
      BY <1>2 DEF CoreType
    <3>2. CASE s # r /\ t # r
      BY <2>2, <3>2, <1>2, <1>3 DEF AdmissionOrder
    <3>3. CASE s = r
      BY <2>2, <3>1, <3>3, <1>3, StageValues DEF States
    <3>4. CASE t = r /\ s # r
      BY <2>2, <3>1, <3>4, <1>3, StageValues DEF States
    <3> QED BY <3>2, <3>3, <3>4
  <2> QED BY <1>2, <2>1, <2>2 DEF AdmissionOrder
<1>7. AcceptedValid'
  BY <1>3 DEF Core, AcceptedValid, ValidRequest
<1>8. ProgressMatchesState'
  BY <1>3 DEF Core, ProgressMatchesState, num_prompt_tokens
<1>9. Quota'
  <2>1. reserved_blocks[r] + Len(block_table[r]) = ReservationFor(r)
          \/ AdmissionPolicy # "reserve_full"
    BY DEF Core, Quota
  <2> QED BY <1>3, <2>1 DEF Core, Quota, ReservationFor, num_prompt_tokens
<1>10. SlotCount'
  BY <1>2, <1>3 DEF SlotCount, Admitted, num_running
<1> QED BY <1>1, <1>4, <1>5, <1>6, <1>7, <1>8, <1>9, <1>10 DEF Core

-----------------------------------------------------------------------------
(***************************************************************************)
(* SchedInv is inductive (one lemma per step), and what it implies.        *)
(***************************************************************************)
LEMMA InvInit == SchedInit => SchedInv
<1> SUFFICES ASSUME SchedInit PROVE SchedInv
  OBVIOUS
<1>1. Resources
  BY ResourcesInit
<1>2. MaxBatch \in Nat \ {0} /\ MaxRequests \in Nat /\ MaxThrows \in Nat
  BY SchedulerAssumption
<1>3. free_slots \in Seq(0 .. MaxBatch - 1) /\ Len(free_slots) = MaxBatch
  BY <1>2 DEF SchedInit
<1>4. NoParams \in RequestParams
  BY DEF NoParams, RequestParams
<1>5. -1 \in -1 .. MaxBatch - 1 /\ 1 \in 1 .. MaxRequests + 1 /\ 0 \in 0 .. MaxThrows
  BY <1>2
<1>6. /\ param \in [Ids -> RequestParams] /\ state \in [Ids -> States]
      /\ finish_reason \in [Ids -> FinishReasons] /\ output_tokens \in [Ids -> Seq(Tokens)]
      /\ slot \in [Ids -> -1 .. MaxBatch - 1] /\ prefill_progress \in [Ids -> Nat]
  BY <1>4, <1>5 DEF SchedInit, States, FinishReasons
<1>7. CoreType
  BY <1>3, <1>5, <1>6 DEF SchedInit, CoreType
<1>8. \A r \in Ids : /\ state[r] = "none" /\ output_tokens[r] = <<>> /\ prefill_progress[r] = 0
                     /\ block_table[r] = <<>> /\ reserved_blocks[r] = 0 /\ slot[r] = -1
  BY DEF SchedInit
<1>9. OnlyAdmittedHold /\ ProgressMatchesState /\ Quota
  BY <1>8 DEF OnlyAdmittedHold, ProgressMatchesState, Quota
<1>10. AcceptedValid
  BY <1>2, <1>8 DEF AcceptedValid, SchedInit, Ids
<1>11. AdmissionOrder
  <2>1. Range(<<>>) = {} /\ IsIncreasing(<<>>)
    BY DEF Range, IsIncreasing
  <2>2. \A r, s \in Ids : ~(Stage(state[r]) < Stage(state[s]))
    BY <1>8, StageValues
  <2> QED BY <1>8, <2>1, <2>2 DEF AdmissionOrder, SchedInit
<1>12. SlotCount
  <2>1. num_running = 0
    BY DEF num_running, SchedInit
  <2> QED BY <1>2, <1>3, <1>8, <2>1 DEF SlotCount, Admitted
<1>13. StepType
  BY <1>5 DEF StepType, SchedInit, EmptyPlan, nullptr
<1>14. PlanMatchesQueues
  BY DEF PlanMatchesQueues, SchedInit, EmptyPlan, is_prefill, nullptr
<1> QED BY <1>1, <1>7, <1>9, <1>10, <1>11, <1>12, <1>13, <1>14, InvSplit DEF Core

\* The rest of the state of a step that begins, ends or is dropped.
LEMMA NoPlan ==
  ASSUME pc' \in {"idle", "admit"}, plan' = EmptyPlan, results' = <<>>, throws' \in 0 .. MaxThrows
  PROVE  StepType' /\ PlanMatchesQueues'
<1>1. StepType'
  BY DEF StepType, EmptyPlan, nullptr
<1>2. PlanMatchesQueues'
  BY DEF PlanMatchesQueues, EmptyPlan, is_prefill, nullptr
<1> QED BY <1>1, <1>2

LEMMA InvAddRequest ==
  ASSUME SchedInv, NEW p \in Workload, AddRequest(p)
  PROVE  SchedInv'
<1>1. Core' 
  BY CoreAddRequest, InvSplit
<1>2. pc' = "idle" /\ plan' = EmptyPlan /\ results' = <<>> /\ throws' \in 0 .. MaxThrows
  BY InvSplit DEF AddRequest, stepVars, StepType, PlanMatchesQueues
<1> QED BY <1>1, <1>2, NoPlan, InvSplitNext

LEMMA InvStepBegin ==
  ASSUME SchedInv, StepBegin
  PROVE  SchedInv'
<1>1. Core'
  BY CoreUnchanged, InvSplit DEF StepBegin
<1>2. pc' = "admit" /\ plan' = EmptyPlan /\ results' = <<>> /\ throws' \in 0 .. MaxThrows
  BY InvSplit DEF StepBegin, StepType, PlanMatchesQueues
<1> QED BY <1>1, <1>2, NoPlan, InvSplitNext

LEMMA InvAdmit ==
  ASSUME SchedInv, Admit
  PROVE  SchedInv'
<1>1. Core'
  BY CoreAdmit, InvSplit
<1>2. pc' = "admit" /\ plan' = EmptyPlan /\ results' = <<>> /\ throws' \in 0 .. MaxThrows
  BY InvSplit DEF Admit, stepVars, StepType, PlanMatchesQueues
<1> QED BY <1>1, <1>2, NoPlan, InvSplitNext

-----------------------------------------------------------------------------
(***************************************************************************)
(* Planning and executing a prefill chunk.                                 *)
(***************************************************************************)

\* The oldest admitted prefill.
LEMMA HeadPrefill ==
  ASSUME Core, prefill_queue # <<>>
  PROVE  LET r == Head(prefill_queue) IN
         /\ r \in Ids /\ state[r] = "prefill"
         /\ num_prompt_tokens(r) \in Nat /\ prefill_progress[r] \in Nat
         /\ prefill_progress[r] < num_prompt_tokens(r)
         /\ \A s \in Ids \ {r} : state[s] \in {"prefill", "waiting", "none"} => r < s
<1>0. CoreType /\ AdmissionOrder /\ ProgressMatchesState
  BY DEF Core
<1>1. PICK r \in Ids : r = Head(prefill_queue) /\ r \in Range(prefill_queue)
                       /\ Range(Tail(prefill_queue)) = Range(prefill_queue) \ {r}
                       /\ \A x \in Range(Tail(prefill_queue)) : r < x
  BY <1>0, PopOldest DEF CoreType, AdmissionOrder
<1>2. state[r] = "prefill"
  BY <1>0, <1>1 DEF AdmissionOrder
<1>3. /\ num_prompt_tokens(r) \in Nat /\ prefill_progress[r] \in Nat
      /\ prefill_progress[r] < num_prompt_tokens(r)
  BY <1>0, <1>2, LiveBounds DEF CoreType, ProgressMatchesState
<1>4. ASSUME NEW s \in Ids \ {r}, state[s] \in {"prefill", "waiting", "none"}
      PROVE  r < s
  <2>1. CASE state[s] = "prefill"
    BY <1>0, <1>1, <2>1 DEF AdmissionOrder
  <2>2. CASE state[s] \in {"waiting", "none"}
    BY <1>0, <1>2, <2>2, StageValues DEF AdmissionOrder
  <2> QED BY <1>4, <2>1, <2>2
<1> QED BY <1>1, <1>2, <1>3, <1>4

LEMMA InvPlanPrefill ==
  ASSUME SchedInv, PlanPrefill
  PROVE  SchedInv'
<1>1. Core /\ StepType /\ PlanMatchesQueues
  BY InvSplit
<1>2. Core'
  BY <1>1, CoreUnchanged DEF PlanPrefill
<1>3. plan = EmptyPlan /\ results = <<>> /\ prefill_queue # <<>>
  BY <1>1 DEF PlanPrefill, PlanMatchesQueues
<1>4. PICK r \in Ids : r = Head(prefill_queue)
  BY <1>1, <1>3, HeadPrefill
<1>5. /\ num_prompt_tokens(r) \in Nat /\ prefill_progress[r] \in Nat
      /\ prefill_progress[r] < num_prompt_tokens(r)
  BY <1>1, <1>3, <1>4, HeadPrefill
<1>6. PICK e \in Nat : /\ plan' = [plan EXCEPT !.prefill = r, !.begin = prefill_progress[r], !.end = e]
                       /\ prefill_progress[r] < e /\ e <= num_prompt_tokens(r)
  <2>1. PrefillChunk \in Nat \ {0}
    BY SchedulerAssumption
  <2> DEFINE chunk == prefill_progress[r] + PrefillChunk
             e == IF chunk < num_prompt_tokens(r) THEN chunk ELSE num_prompt_tokens(r)
  <2>2. e \in Nat /\ prefill_progress[r] < e /\ e <= num_prompt_tokens(r)
    BY <1>5, <2>1
  <2>3. plan' = [plan EXCEPT !.prefill = r, !.begin = prefill_progress[r], !.end = e]
    BY <1>4 DEF PlanPrefill
  <2> HIDE DEF e
  <2> QED BY <2>2, <2>3
<1>7. plan' = [prefill |-> r, begin |-> prefill_progress[r], end |-> e,
               decode |-> <<>>, aborted |-> <<>>]
  BY <1>3, <1>6 DEF EmptyPlan
<1>8. r # nullptr
  BY SchedulerAssumption DEF Ids, nullptr
<1>9. /\ pc' = "prefill" /\ results' = <<>> /\ UNCHANGED <<throws, prefill_queue, prefill_progress>>
      /\ num_prompt_tokens(r)' = num_prompt_tokens(r)
  BY <1>3 DEF PlanPrefill, queueVars, requestVars, num_prompt_tokens
<1>10. StepType'
  <2>1. plan' \in [prefill : Ids \union {nullptr}, begin : Nat, end : Nat,
                   decode : Seq(Ids), aborted : Seq(Ids)]
    BY <1>5, <1>7
  <2> QED BY <1>1, <1>9, <2>1 DEF StepType
<1>11. PlanMatchesQueues'
  <2>1. /\ plan'.prefill = r /\ plan'.begin = prefill_progress[r] /\ plan'.end = e
        /\ plan'.decode = <<>> /\ plan'.aborted = <<>>
    BY <1>7
  <2>2. num_prompt_tokens(plan.prefill)' = num_prompt_tokens(r)'
    BY <2>1 DEF num_prompt_tokens
  <2> QED BY <1>3, <1>4, <1>6, <1>8, <1>9, <2>1, <2>2 DEF PlanMatchesQueues, is_prefill
<1> QED BY <1>2, <1>10, <1>11, InvSplitNext

LEMMA PrefillReserved ==
  ASSUME SchedInv, pc = "prefill", PrefillNeedsBlock
  PROVE  /\ plan.prefill \in Ids /\ state[plan.prefill] = "prefill"
         /\ reserved_blocks[plan.prefill] > 0
<1>1. Core /\ StepType /\ PlanMatchesQueues
  BY InvSplit
<1>2. /\ prefill_queue # <<>> /\ plan.prefill = Head(prefill_queue)
      /\ plan.end <= num_prompt_tokens(plan.prefill) /\ plan.end \in Nat
  BY <1>1 DEF PlanMatchesQueues, StepType
<1>3. PICK r \in Ids : r = plan.prefill /\ state[r] = "prefill"
  BY <1>1, <1>2, HeadPrefill
<1>4. /\ Len(block_table[r]) \in Nat /\ reserved_blocks[r] \in Nat
      /\ reserved_blocks[r] + Len(block_table[r]) = ReservationFor(r)
  BY <1>1, <1>3 DEF Core, Resources, Quota
<1>5. Len(block_table[r]) * KvBlockSize < plan.end
  BY <1>3 DEF PrefillNeedsBlock, token_capacity
<1>6. Len(block_table[r]) < ReservationFor(r)
  BY <1>1, <1>2, <1>3, <1>4, <1>5, ReservationShort
<1>7. reserved_blocks[r] > 0
  BY <1>4, <1>6
<1> QED BY <1>3, <1>7

LEMMA InvMaterializePrefillBlock ==
  ASSUME SchedInv, MaterializePrefillBlock
  PROVE  SchedInv'
<1>1. Core /\ StepType /\ PlanMatchesQueues
  BY InvSplit
<1>2. PICK r \in Ids : r = plan.prefill /\ state[r] = "prefill" /\ reserved_blocks[r] > 0
  BY PrefillReserved DEF MaterializePrefillBlock
<1>3. Core'
  BY <1>1, <1>2, CoreTake DEF MaterializePrefillBlock
<1>4. UNCHANGED <<pc, plan, results, throws, prefill_queue, param, prefill_progress>> /\ pc = "prefill"
  BY DEF MaterializePrefillBlock, stepVars, queueVars
<1>5. StepType'
  BY <1>1, <1>4 DEF StepType
<1>6. PlanMatchesQueues'
  BY <1>1, <1>4 DEF PlanMatchesQueues, is_prefill, num_prompt_tokens
<1> QED BY <1>3, <1>5, <1>6, InvSplitNext

LEMMA InvPrefillPlanned ==
  ASSUME SchedInv, PrefillPlanned
  PROVE  SchedInv'
<1>1. Core /\ StepType /\ PlanMatchesQueues
  BY InvSplit
<1>2. Core'
  BY <1>1, CoreUnchanged DEF PrefillPlanned
<1>3. /\ UNCHANGED <<plan, results, throws, prefill_queue, param, prefill_progress, block_table>>
      /\ pc = "prefill" /\ pc' = "planned" /\ ~PrefillNeedsBlock
  BY DEF PrefillPlanned, requestVars, queueVars
<1>4. StepType'
  BY <1>1, <1>3 DEF StepType
<1>5. is_prefill /\ plan.decode = <<>>
  BY <1>1, <1>3 DEF PlanMatchesQueues
<1>6. IsInjective(<<>>)
  BY DEF IsInjective
<1>7. PlanMatchesQueues'
  BY <1>1, <1>3, <1>5, <1>6
     DEF PlanMatchesQueues, is_prefill, num_prompt_tokens, PrefillNeedsBlock, token_capacity
<1> QED BY <1>2, <1>4, <1>7, InvSplitNext
-----------------------------------------------------------------------------
(***************************************************************************)
(* Planning a decode batch.                                                *)
(***************************************************************************)
LEMMA InvPlanDecode ==
  ASSUME SchedInv, PlanDecode
  PROVE  SchedInv'
<1>1. Core /\ StepType /\ PlanMatchesQueues
  BY InvSplit
<1>2. Core'
  BY <1>1, CoreUnchanged DEF PlanDecode
<1>3. /\ UNCHANGED <<plan, results, throws, running, prefill_queue>>
      /\ pc = "admit" /\ pc' = "decode" /\ prefill_queue = <<>>
  BY DEF PlanDecode, queueVars
<1>4. StepType'
  BY <1>1, <1>3 DEF StepType
<1>5. /\ plan'.prefill = nullptr /\ plan'.begin = 0 /\ plan'.end = 0
      /\ plan'.decode = <<>> /\ results' = <<>>
  BY <1>1, <1>3 DEF PlanMatchesQueues, EmptyPlan
<1>6. Len(<<>>) = 0 /\ Len(running) \in Nat /\ DOMAIN <<>> = {}
  BY <1>1 DEF Core, CoreType
<1>7. PlanMatchesQueues'
  BY <1>3, <1>5, <1>6 DEF PlanMatchesQueues, is_prefill
<1> QED BY <1>2, <1>4, <1>7, InvSplitNext

\* The sequence under the decode loop's cursor is a running one.
LEMMA CandidateRuns ==
  ASSUME SchedInv, pc = "decode", DecodeLoop
  PROVE  /\ Candidate \in Ids /\ state[Candidate] = "running"
         /\ running # <<>> /\ Len(plan.decode) \in Nat
         /\ Len(plan.decode) + 1 \in 1 .. Len(running)
<1>1. Core /\ StepType
  BY InvSplit
<1>2. running \in Seq(Ids) /\ plan.decode \in Seq(Ids) /\ Len(plan.decode) < Len(running)
  BY <1>1 DEF Core, CoreType, StepType, DecodeLoop
<1>3. Len(plan.decode) + 1 \in 1 .. Len(running) /\ running # <<>> /\ Len(plan.decode) \in Nat
  BY <1>2
<1>4. Candidate \in Ids /\ Candidate \in Range(running)
  BY <1>2, <1>3 DEF Candidate, Range
<1>5. state[Candidate] = "running"
  BY <1>1, <1>4 DEF Core, AdmissionOrder
<1> QED BY <1>3, <1>4, <1>5

\* What appending the candidate does to the plan, whichever way it got its block.
LEMMA PlanRow ==
  ASSUME SchedInv, pc = "decode", DecodeLoop,
         plan' = [plan EXCEPT !.decode = Append(@, Candidate)],
         UNCHANGED <<pc, results, throws, running, prefill_queue>>
  PROVE  StepType' /\ PlanMatchesQueues'
<1>1. Core /\ StepType /\ PlanMatchesQueues
  BY InvSplit
<1>2. PICK c \in Ids : c = Candidate
  BY CandidateRuns
<1>3. PICK n \in Nat : n = Len(plan.decode) /\ n + 1 \in 1 .. Len(running)
  BY CandidateRuns
<1>4. plan.decode \in Seq(Ids) /\ running \in Seq(Ids)
  BY <1>1 DEF StepType, Core, CoreType
<1>5. /\ plan'.decode = Append(plan.decode, c)
      /\ plan'.prefill = plan.prefill /\ plan'.begin = plan.begin
      /\ plan'.end = plan.end /\ plan'.aborted = plan.aborted
      /\ plan' \in [prefill : Ids \union {nullptr}, begin : Nat, end : Nat,
                   decode : Seq(Ids), aborted : Seq(Ids)]
  <2>1. plan \in [prefill : Ids \union {nullptr}, begin : Nat, end : Nat,
                  decode : Seq(Ids), aborted : Seq(Ids)]
    BY <1>1 DEF StepType
  <2>2. Append(plan.decode, c) \in Seq(Ids)
    BY <1>4
  <2>3. plan' = [plan EXCEPT !.decode = Append(plan.decode, c)]
    BY <1>2
  <2> QED BY <2>1, <2>2, <2>3
<1>6. /\ Len(Append(plan.decode, c)) = n + 1
      /\ DOMAIN Append(plan.decode, c) = 1 .. n + 1
      /\ \A k \in 1 .. n : Append(plan.decode, c)[k] = plan.decode[k]
      /\ Append(plan.decode, c)[n + 1] = c
      /\ DOMAIN plan.decode = 1 .. n
  BY <1>3, <1>4, AppendProperties
<1>7. c = running[n + 1]
  BY <1>2, <1>3 DEF Candidate
<1>8. /\ ~is_prefill /\ prefill_queue = <<>> /\ plan.begin = 0 /\ plan.end = 0
      /\ \A k \in 1 .. n : plan.decode[k] = running[k]
      /\ results = <<>>
  BY <1>1, <1>6 DEF PlanMatchesQueues
<1>9. \A k \in 1 .. n + 1 : Append(plan.decode, c)[k] = running[k]
  <2> SUFFICES ASSUME NEW k \in 1 .. n + 1 PROVE Append(plan.decode, c)[k] = running[k]
    OBVIOUS
  <2>1. k \in 1 .. n \/ k = n + 1
    OBVIOUS
  <2> QED BY <1>6, <1>7, <1>8, <2>1
<1>10. n + 1 <= Len(running)
  BY <1>3
<1>11. StepType'
  BY <1>1, <1>5 DEF StepType
<1>12. PlanMatchesQueues'
  BY <1>5, <1>6, <1>8, <1>9, <1>10 DEF PlanMatchesQueues, is_prefill
<1> QED BY <1>11, <1>12

LEMMA InvDecodeRow ==
  ASSUME SchedInv, DecodeRow
  PROVE  SchedInv'
<1>1. Core'
  BY InvSplit, CoreUnchanged DEF DecodeRow
<1>2. StepType' /\ PlanMatchesQueues'
  BY PlanRow DEF DecodeRow, queueVars
<1> QED BY <1>1, <1>2, InvSplitNext

\* Under reserve_full the candidate's reservation still covers the block it needs.
LEMMA DecodeReserved ==
  ASSUME SchedInv, pc = "decode", DecodeLoop, NeedsBlock(Candidate),
         AdmissionPolicy = "reserve_full"
  PROVE  reserved_blocks[Candidate] > 0
<1>1. Core
  BY InvSplit
<1>2. PICK r \in Ids : r = Candidate /\ state[r] = "running"
  BY CandidateRuns
<1>3. /\ Len(block_table[r]) \in Nat /\ reserved_blocks[r] \in Nat
      /\ reserved_blocks[r] + Len(block_table[r]) = ReservationFor(r)
  BY <1>1, <1>2 DEF Core, Resources, Quota
<1>4. /\ num_prompt_tokens(r) \in Nat \ {0} /\ param[r].max_new \in Nat \ {0}
      /\ Len(output_tokens[r]) \in Nat /\ Len(output_tokens[r]) < param[r].max_new
  BY <1>1, <1>2, LiveBounds DEF Core, CoreType, ProgressMatchesState
<1>5. seq_len(r) \in Nat /\ seq_len(r) <= num_prompt_tokens(r) + param[r].max_new
  BY <1>4 DEF seq_len
<1>6. Len(block_table[r]) * KvBlockSize < seq_len(r)
  <2>1. seq_len(r) - 1 >= Len(block_table[r]) * KvBlockSize
    BY <1>2 DEF NeedsBlock, token_capacity
  <2>2. Len(block_table[r]) * KvBlockSize \in Int
    BY <1>3, SchedulerAssumption
  <2> QED BY <1>5, <2>1, <2>2
<1>7. Len(block_table[r]) < ReservationFor(r)
  BY <1>1, <1>2, <1>3, <1>5, <1>6, ReservationShort
<1>8. reserved_blocks[r] > 0
  BY <1>3, <1>7
<1> QED BY <1>2, <1>8

LEMMA InvDecodeRowReserved ==
  ASSUME SchedInv, DecodeRowReserved
  PROVE  SchedInv'
<1>1. PICK r \in Ids : r = Candidate /\ state[r] = "running" /\ reserved_blocks[r] > 0
  BY CandidateRuns, DecodeReserved DEF DecodeRowReserved
<1>2. Core'
  BY <1>1, InvSplit, CoreTake DEF DecodeRowReserved
<1>3. StepType' /\ PlanMatchesQueues'
  BY PlanRow DEF DecodeRowReserved, queueVars
<1> QED BY <1>2, <1>3, InvSplitNext

LEMMA InvDecodeRowClaimed ==
  ASSUME SchedInv, DecodeRowClaimed
  PROVE  SchedInv'
<1>1. PICK r \in Ids : r = Candidate /\ state[r] = "running"
  BY CandidateRuns DEF DecodeRowClaimed
<1>2. Core'
  BY <1>1, InvSplit, CoreClaim DEF DecodeRowClaimed
<1>3. StepType' /\ PlanMatchesQueues'
  BY PlanRow DEF DecodeRowClaimed, queueVars
<1> QED BY <1>2, <1>3, InvSplitNext

LEMMA InvAbortYoungestRunning ==
  ASSUME SchedInv, AbortYoungestRunning
  PROVE  SchedInv'
<1>1. Core /\ StepType /\ PlanMatchesQueues
  BY InvSplit
<1>2. pc = "decode" /\ DecodeLoop
  BY DEF AbortYoungestRunning
<1>3. running # <<>> /\ Len(plan.decode) \in Nat /\ Len(plan.decode) + 1 \in 1 .. Len(running)
  BY <1>2, CandidateRuns
<1>4. CoreType /\ AdmissionOrder /\ ProgressMatchesState
  BY <1>1 DEF Core
<1>5. PICK v \in Ids : v = Last(running) /\ v \in Range(running)
  BY <1>3, <1>4, PopYoungest DEF CoreType, AdmissionOrder
<1>6. /\ Front(running) \in Seq(Ids) /\ Len(Front(running)) = Len(running) - 1
      /\ \A i \in 1 .. Len(running) - 1 : Front(running)[i] = running[i]
      /\ IsIncreasing(Front(running))
      /\ Range(Front(running)) = Range(running) \ {v}
  BY <1>3, <1>4, <1>5, PopYoungest DEF CoreType, AdmissionOrder
<1>7. state[v] = "running"
  BY <1>4, <1>5 DEF AdmissionOrder
<1>8. /\ running' = Front(running)
      /\ state' = [state EXCEPT ![v] = "finished"]
      /\ finish_reason' = [finish_reason EXCEPT ![v] = "aborted"]
      /\ ReleaseResources(v)
      /\ plan' = [plan EXCEPT !.aborted = Append(@, v)]
      /\ UNCHANGED <<param, output_tokens, prefill_progress, waiting, prefill_queue,
                     next_request_id, pc, results, throws>>
  BY <1>5 DEF AbortYoungestRunning, Victim
<1>9. \A s \in Ids \ {v} : state[s] \in {"prefill", "waiting", "none"} => v < s
  BY <1>4, <1>7, StageValues DEF AdmissionOrder
<1>10. prefill_queue = <<>> /\ Range(<<>>) = {}
  BY <1>1, <1>2 DEF PlanMatchesQueues, Range
<1>11. Len(prefill_queue') + Len(running') = Len(prefill_queue) + Len(running) - 1
  <2>1. Len(prefill_queue) \in Nat /\ Len(running) \in Nat
    BY <1>4 DEF CoreType
  <2> QED BY <1>6, <1>8, <2>1
<1>12. finish_reason' \in [Ids -> FinishReasons]
  BY <1>4, <1>8 DEF CoreType, FinishReasons
<1>13. /\ output_tokens' \in [Ids -> Seq(Tokens)] /\ prefill_progress' \in [Ids -> Nat]
       /\ output_tokens'[v] # <<>>
  BY <1>4, <1>7, <1>8 DEF CoreType, ProgressMatchesState
<1>14. /\ prefill_queue' \in Seq(Ids) /\ IsIncreasing(prefill_queue')
       /\ Range(prefill_queue') = Range(prefill_queue) \ {v}
  BY <1>4, <1>8, <1>10 DEF CoreType, AdmissionOrder
<1>15. Core'
  BY <1>1, <1>6, <1>7, <1>8, <1>9, <1>11, <1>12, <1>13, <1>14, CoreFinish
<1>16. /\ plan'.aborted = Append(plan.aborted, v)
       /\ plan'.decode = plan.decode /\ plan'.prefill = plan.prefill
       /\ plan'.begin = plan.begin /\ plan'.end = plan.end
       /\ plan' \in [prefill : Ids \union {nullptr}, begin : Nat, end : Nat,
                    decode : Seq(Ids), aborted : Seq(Ids)]
  <2>1. plan \in [prefill : Ids \union {nullptr}, begin : Nat, end : Nat,
                  decode : Seq(Ids), aborted : Seq(Ids)]
    BY <1>1 DEF StepType
  <2>2. Append(plan.aborted, v) \in Seq(Ids)
    BY <2>1
  <2>3. plan' = [plan EXCEPT !.aborted = Append(plan.aborted, v)]
    BY <1>8
  <2> QED BY <2>1, <2>2, <2>3
<1>17. StepType'
  BY <1>1, <1>8, <1>16 DEF StepType
<1>18. PlanMatchesQueues'
  <2>1. DOMAIN plan.decode = 1 .. Len(plan.decode) /\ Len(running) \in Nat
    BY <1>1, <1>4 DEF StepType, CoreType
  <2>2. Len(plan.decode) <= Len(running')
    BY <1>3, <1>6, <1>8, <2>1
  <2>3. \A k \in DOMAIN plan.decode : plan.decode[k] = running[k]
    BY <1>1, <1>2 DEF PlanMatchesQueues
  <2>4. \A k \in DOMAIN plan.decode : k \in 1 .. Len(running) - 1
    BY <1>3, <2>1
  <2>5. \A k \in DOMAIN plan.decode : plan.decode[k] = running'[k]
    BY <1>6, <1>8, <2>3, <2>4
  <2> QED BY <1>1, <1>2, <1>8, <1>10, <1>16, <2>2, <2>5 DEF PlanMatchesQueues, is_prefill
<1> QED BY <1>15, <1>17, <1>18, InvSplitNext

LEMMA InvDecodePlanned ==
  ASSUME SchedInv, DecodePlanned
  PROVE  SchedInv'
<1>1. Core /\ StepType /\ PlanMatchesQueues
  BY InvSplit
<1>2. Core'
  BY <1>1, CoreUnchanged DEF DecodePlanned
<1>3. /\ UNCHANGED <<plan, results, throws, running, prefill_queue, state>>
      /\ pc = "decode" /\ pc' = "planned"
  BY DEF DecodePlanned, queueVars, requestVars
<1>4. StepType'
  BY <1>1, <1>3 DEF StepType
<1>5. /\ ~is_prefill /\ plan.begin = 0 /\ plan.end = 0 /\ results = <<>>
      /\ Len(plan.decode) <= Len(running)
      /\ \A k \in DOMAIN plan.decode : plan.decode[k] = running[k]
  BY <1>1, <1>3 DEF PlanMatchesQueues
<1>6. running \in Seq(Ids) /\ plan.decode \in Seq(Ids) /\ IsInjective(running)
  BY <1>1, IncreasingInjective DEF Core, CoreType, StepType, AdmissionOrder
<1>7. \A k \in DOMAIN plan.decode : k \in DOMAIN running
  BY <1>5, <1>6
<1>8. IsInjective(plan.decode)
  BY <1>5, <1>6, <1>7 DEF IsInjective
<1>9. \A k \in DOMAIN plan.decode : state[plan.decode[k]] = "running"
  BY <1>1, <1>5, <1>7 DEF Core, AdmissionOrder, Range
<1>10. PlanMatchesQueues'
  BY <1>3, <1>5, <1>8, <1>9 DEF PlanMatchesQueues, is_prefill
<1> QED BY <1>2, <1>4, <1>10, InvSplitNext
-----------------------------------------------------------------------------
(***************************************************************************)
(* Between planning and committing.                                        *)
(***************************************************************************)
LEMMA InvStepEmpty ==
  ASSUME SchedInv, StepEmpty
  PROVE  SchedInv'
<1>1. Core'
  BY InvSplit, CoreUnchanged DEF StepEmpty
<1>2. /\ plan.prefill = nullptr /\ plan.decode = <<>> /\ plan.aborted = <<>>
      /\ plan.begin = 0 /\ plan.end = 0 /\ results = <<>> /\ throws \in 0 .. MaxThrows
  BY InvSplit DEF StepEmpty, plan_empty, is_prefill, PlanMatchesQueues, StepType
<1>3. plan = EmptyPlan
  BY <1>2, InvSplit DEF StepType, EmptyPlan
<1> QED BY <1>1, <1>2, <1>3, NoPlan, InvSplitNext DEF StepEmpty

LEMMA InvExecutorThrows ==
  ASSUME SchedInv, ExecutorThrows
  PROVE  SchedInv'
<1>1. Core'
  BY InvSplit, CoreUnchanged DEF ExecutorThrows
<1>2. results = <<>> /\ throws \in 0 .. MaxThrows
  BY InvSplit DEF ExecutorThrows, PlanMatchesQueues, StepType
<1>3. throws' \in 0 .. MaxThrows
  BY <1>2, SchedulerAssumption DEF ExecutorThrows
<1> QED BY <1>1, <1>2, <1>3, NoPlan, InvSplitNext DEF ExecutorThrows

LEMMA InvExecute ==
  ASSUME SchedInv, Execute
  PROVE  SchedInv'
<1>1. Core /\ StepType /\ PlanMatchesQueues
  BY InvSplit
<1>2. Core'
  BY <1>1, CoreUnchanged DEF Execute
<1>3. /\ UNCHANGED <<plan, throws, prefill_queue, state, param, prefill_progress, block_table>>
      /\ pc = "planned" /\ pc' = "commit"
      /\ results' = [i \in 1 .. Len(plan.aborted) |-> AbortResult(plan.aborted[i])]
  BY DEF Execute, queueVars, requestVars
<1>4. plan.aborted \in Seq(Ids) /\ plan.decode \in Seq(Ids)
  BY <1>1 DEF StepType
<1>5. /\ results' \in Seq([request_id : Ids, token : Tokens, finished : BOOLEAN,
                            finish_reason : FinishReasons])
      /\ Len(results') = Len(plan.aborted)
  <2>1. \A r \in Ids : AbortResult(r) \in [request_id : Ids, token : Tokens,
                                          finished : BOOLEAN, finish_reason : FinishReasons]
    BY DEF AbortResult, Tokens, FinishReasons
  <2> QED BY <1>3, <1>4, <2>1
<1>6. StepType'
  BY <1>1, <1>3, <1>5 DEF StepType
<1>7. RowsDone' = 0 /\ Len(plan.decode) \in Nat /\ DOMAIN plan.decode = 1 .. Len(plan.decode)
  <2>1. Len(plan.aborted) \in Nat
    BY <1>4
  <2> QED BY <1>3, <1>4, <1>5, <2>1 DEF RowsDone
<1>8. RowsDone' \in 0 .. Len(plan.decode) /\ RowsDone' + 1 = 1
  BY <1>7
<1>9. \A k \in 1 .. Len(plan.decode) : state[plan.decode[k]] = "running"
  BY <1>1, <1>3, <1>7 DEF PlanMatchesQueues
<1>10. PlanMatchesQueues'
  BY <1>1, <1>3, <1>8, <1>9
     DEF PlanMatchesQueues, is_prefill, num_prompt_tokens, PrefillNeedsBlock, token_capacity
<1> QED BY <1>2, <1>6, <1>10, InvSplitNext

LEMMA InvCompleteDecode ==
  ASSUME SchedInv, CompleteDecode
  PROVE  SchedInv'
<1>1. Core'
  BY InvSplit, CoreUnchanged DEF CompleteDecode
<1>2. StepType'
  BY InvSplit DEF CompleteDecode, StepType
<1>3. PlanMatchesQueues'
  BY InvSplit DEF CompleteDecode, PlanMatchesQueues, is_prefill
<1> QED BY <1>1, <1>2, <1>3, InvSplitNext

LEMMA InvStepReturn ==
  ASSUME SchedInv, StepReturn
  PROVE  SchedInv'
<1>1. Core'
  BY InvSplit, CoreUnchanged DEF StepReturn
<1>2. throws' \in 0 .. MaxThrows
  BY InvSplit DEF StepReturn, StepType
<1> QED BY <1>1, <1>2, NoPlan, InvSplitNext DEF StepReturn

-----------------------------------------------------------------------------
(***************************************************************************)
(* Committing.                                                             *)
(***************************************************************************)
LEMMA CommittedPrefill ==
  ASSUME SchedInv, pc = "commit", is_prefill
  PROVE  /\ plan.prefill \in Ids /\ prefill_queue # <<>> /\ plan.prefill = Head(prefill_queue)
         /\ state[plan.prefill] = "prefill" /\ plan.end \in Nat
         /\ token_capacity(plan.prefill) >= plan.end
<1>1. Core /\ StepType /\ PlanMatchesQueues
  BY InvSplit
<1>2. /\ prefill_queue # <<>> /\ plan.prefill = Head(prefill_queue)
      /\ ~PrefillNeedsBlock /\ plan.end \in Nat
  BY <1>1 DEF PlanMatchesQueues, StepType
<1>3. PICK r \in Ids : r = plan.prefill /\ state[r] = "prefill"
  BY <1>1, <1>2, HeadPrefill
<1>4. token_capacity(r) \in Int
  BY <1>1, SchedulerAssumption DEF token_capacity, Core, Resources
<1> QED BY <1>2, <1>3, <1>4 DEF PrefillNeedsBlock

LEMMA InvCompletePrefillChunk ==
  ASSUME SchedInv, CompletePrefillChunk
  PROVE  SchedInv'
<1>1. Core /\ StepType /\ PlanMatchesQueues
  BY InvSplit
<1>2. PICK r \in Ids : r = plan.prefill /\ state[r] = "prefill"
  BY CommittedPrefill DEF CompletePrefillChunk
<1>3. plan.end \in Nat
  BY <1>1 DEF StepType
<1>4. /\ prefill_progress' = [prefill_progress EXCEPT ![r] = plan.end]
      /\ plan.end < num_prompt_tokens(r)
      /\ pc' = "return" /\ UNCHANGED <<plan, results, throws>>
      /\ UNCHANGED <<allocVars, param, state, finish_reason, output_tokens, slot,
                     reserved_blocks, block_table, queueVars, next_request_id>>
  BY <1>2 DEF CompletePrefillChunk
<1>5. CoreType'
  <2>1. prefill_progress' \in [Ids -> Nat]
    BY <1>1, <1>3, <1>4 DEF Core, CoreType
  <2> QED BY <1>1, <1>4, <2>1 DEF Core, CoreType, queueVars
<1>6. Resources'
  BY <1>1, <1>4, ResourcesUnchanged DEF Core
<1>7. OnlyAdmittedHold' /\ AdmissionOrder' /\ AcceptedValid'
  BY <1>1, <1>4 DEF Core, OnlyAdmittedHold, AdmissionOrder, AcceptedValid, Admitted,
                    queueVars, ValidRequest
<1>8. Quota' /\ SlotCount'
  BY <1>1, <1>4 DEF Core, Quota, SlotCount, Admitted, num_running, queueVars,
                    ReservationFor, num_prompt_tokens
<1>9. ProgressMatchesState'
  <2>1. prefill_progress'[r] = plan.end /\ \A s \in Ids \ {r} : prefill_progress'[s] = prefill_progress[s]
    BY <1>1, <1>4 DEF Core, CoreType
  <2> QED BY <1>1, <1>2, <1>4, <2>1 DEF Core, ProgressMatchesState, num_prompt_tokens
<1>10. StepType'
  BY <1>1, <1>4 DEF StepType
<1>11. PlanMatchesQueues'
  BY <1>1, <1>4 DEF PlanMatchesQueues, is_prefill
<1> QED BY <1>5, <1>6, <1>7, <1>8, <1>9, <1>10, <1>11, InvSplitNext DEF Core
Result == [request_id : Ids, token : Tokens, finished : BOOLEAN, finish_reason : FinishReasons]

\* What a sampled token does to an admitted request, apart from the queues.
LEMMA SampledToken ==
  ASSUME Core, results \in Seq(Result), NEW r \in Ids, state[r] \in {"prefill", "running"},
         NEW sampled \in Tokens, ApplySampledToken(r, sampled)
  PROVE  /\ output_tokens' \in [Ids -> Seq(Tokens)] /\ output_tokens'[r] # <<>>
         /\ Len(output_tokens'[r]) = Len(output_tokens[r]) + 1
         /\ \A s \in Ids \ {r} : output_tokens'[s] = output_tokens[s]
         /\ results' \in Seq(Result) /\ Len(results') = Len(results) + 1
         /\ \/ /\ Len(output_tokens'[r]) < param[r].max_new
               /\ state' = [state EXCEPT ![r] = "running"]
               /\ running' = IF state[r] = "prefill" THEN Append(running, r) ELSE running
               /\ UNCHANGED <<allocVars, finish_reason, slot, reserved_blocks, block_table, free_slots>>
            \/ /\ state' = [state EXCEPT ![r] = "finished"]
               /\ finish_reason' \in [Ids -> FinishReasons]
               /\ running' = IF state[r] = "prefill" THEN running ELSE EraseRunning(r)
               /\ ReleaseResources(r)
<1>1. /\ CoreType /\ param[r] \in RequestParams /\ param[r].max_new \in Nat
      /\ output_tokens[r] \in Seq(Tokens) /\ Len(output_tokens[r]) \in Nat
  <2>1. CoreType
    BY DEF Core
  <2>2. param[r].max_new \in Nat
    BY LiveBounds
  <2> QED BY <2>1, <2>2 DEF CoreType
<1>2. PICK a \in Tokens : a = Appended(r, sampled)
  <2>1. param[r].forced \in Seq(Tokens)
    BY <1>1 DEF RequestParams
  <2> QED BY <1>1, <2>1 DEF Appended
<1>3. PICK why \in FinishReasons : why = StopReason(r, a)
  BY DEF StopReason, FinishReasons
<1>4. /\ output_tokens' = [output_tokens EXCEPT ![r] = Append(output_tokens[r], a)]
      /\ results' = Append(results, [request_id |-> r, token |-> sampled,
                                     finished |-> why # "none", finish_reason |-> why])
      /\ \/ /\ why = "none"
            /\ state' = [state EXCEPT ![r] = "running"]
            /\ running' = IF state[r] = "prefill" THEN Append(running, r) ELSE running
            /\ UNCHANGED <<allocVars, finish_reason, slot, reserved_blocks, block_table, free_slots>>
         \/ /\ why # "none"
            /\ state' = [state EXCEPT ![r] = "finished"]
            /\ finish_reason' = [finish_reason EXCEPT ![r] = why]
            /\ running' = IF state[r] = "prefill" THEN running ELSE EraseRunning(r)
            /\ ReleaseResources(r)
  BY <1>2, <1>3 DEF ApplySampledToken
<1>5. /\ Append(output_tokens[r], a) \in Seq(Tokens)
      /\ Len(Append(output_tokens[r], a)) = Len(output_tokens[r]) + 1
      /\ Append(output_tokens[r], a) # <<>>
  BY <1>1, AppendProperties
<1>6. /\ output_tokens' \in [Ids -> Seq(Tokens)]
      /\ output_tokens'[r] = Append(output_tokens[r], a)
      /\ \A s \in Ids \ {r} : output_tokens'[s] = output_tokens[s]
  BY <1>1, <1>4, <1>5 DEF CoreType
<1>7. results' \in Seq(Result) /\ Len(results') = Len(results) + 1
  <2>1. [request_id |-> r, token |-> sampled, finished |-> why # "none",
         finish_reason |-> why] \in Result
    BY DEF Result
  <2> QED BY <1>4, <2>1, AppendProperties
<1>8. why = "none" => Len(output_tokens'[r]) < param[r].max_new
  BY <1>1, <1>3, <1>5, <1>6 DEF StopReason
<1>9. finish_reason' = [finish_reason EXCEPT ![r] = why] => finish_reason' \in [Ids -> FinishReasons]
  BY <1>1 DEF CoreType
<1> QED BY <1>4, <1>5, <1>6, <1>7, <1>8, <1>9

LEMMA InvCompletePrefillFinal ==
  ASSUME SchedInv, NEW sampled \in Tokens, CompletePrefillFinal(sampled)
  PROVE  SchedInv'
<1>1. Core /\ StepType /\ PlanMatchesQueues
  BY InvSplit
<1>2. PICK r \in Ids : /\ r = plan.prefill /\ prefill_queue # <<>> /\ r = Head(prefill_queue)
                       /\ state[r] = "prefill"
                       /\ plan.end \in Nat /\ token_capacity(r) >= plan.end
  BY CommittedPrefill DEF CompletePrefillFinal
<1>3. /\ ApplySampledToken(r, sampled) /\ plan.end >= num_prompt_tokens(r)
      /\ prefill_progress' = [prefill_progress EXCEPT ![r] = plan.end]
      /\ prefill_queue' = Tail(prefill_queue)
      /\ pc' = "return"
      /\ UNCHANGED <<param, waiting, next_request_id, plan, throws>>
  BY <1>2 DEF CompletePrefillFinal
<1>4. CoreType /\ AdmissionOrder /\ Quota
  BY <1>1 DEF Core
<1>5. \A s \in Ids \ {r} : state[s] \in {"prefill", "waiting", "none"} => r < s
  BY <1>1, <1>2, HeadPrefill
<1>6. /\ prefill_queue' \in Seq(Ids) /\ IsIncreasing(prefill_queue')
      /\ Len(prefill_queue') = Len(prefill_queue) - 1
      /\ Range(prefill_queue') = Range(prefill_queue) \ {r}
  BY <1>2, <1>3, <1>4, PopOldest DEF CoreType, AdmissionOrder
<1>7. /\ Append(running, r) \in Seq(Ids) /\ Len(Append(running, r)) = Len(running) + 1
      /\ IsIncreasing(Append(running, r)) /\ Range(Append(running, r)) = Range(running) \union {r}
  <2>1. running \in Seq(Ids) /\ IsIncreasing(running) /\ \A x \in Range(running) : x < r
    BY <1>2, <1>4, StageValues DEF CoreType, AdmissionOrder
  <2> QED BY <2>1, PushYoungest
<1>8. Len(prefill_queue) \in Nat /\ Len(running) \in Nat
  BY <1>4 DEF CoreType
<1>9. /\ prefill_progress' \in [Ids -> Nat]
      /\ \A s \in Ids \ {r} : prefill_progress'[s] = prefill_progress[s]
  BY <1>2, <1>3, <1>4 DEF CoreType
<1>10. /\ block_table[r] # <<>>
       /\ AdmissionPolicy = "reserve_full" \/ reserved_blocks[r] = 0
  <2>1. /\ num_prompt_tokens(r) \in Nat /\ BlocksForTokens(num_prompt_tokens(r)) \in Nat \ {0}
        /\ Len(block_table[r]) \in Nat /\ reserved_blocks[r] \in Nat
    BY <1>1, <1>2, LiveBounds DEF Core, Resources
  <2>2. ~(Len(block_table[r]) * KvBlockSize < num_prompt_tokens(r))
    <3>1. Len(block_table[r]) * KvBlockSize >= plan.end /\ Len(block_table[r]) * KvBlockSize \in Int
      BY <1>2, <2>1, SchedulerAssumption DEF token_capacity
    <3> QED BY <1>2, <1>3, <2>1, <3>1
  <2>3. Len(block_table[r]) >= BlocksForTokens(num_prompt_tokens(r))
    BY <2>1, <2>2, CapacityShort
  <2>4. Len(block_table[r]) # 0
    BY <2>1, <2>3
  <2>5. reserved_blocks[r] + Len(block_table[r]) = ReservationFor(r)
    BY <1>2, <1>4 DEF Quota
  <2>6. AdmissionPolicy # "reserve_full" => reserved_blocks[r] = 0
    BY <2>1, <2>3, <2>5 DEF ReservationFor
  <2> QED BY <2>4, <2>6
<1>11. r \notin Range(running)
  BY <1>2, <1>4 DEF AdmissionOrder
<1>12. results \in Seq(Result)
  BY <1>1 DEF StepType, Result
<1>13. /\ output_tokens' \in [Ids -> Seq(Tokens)] /\ output_tokens'[r] # <<>>
       /\ \A s \in Ids \ {r} : output_tokens'[s] = output_tokens[s]
       /\ results' \in Seq(Result)
       /\ \/ /\ Len(output_tokens'[r]) < param[r].max_new
             /\ state' = [state EXCEPT ![r] = "running"]
             /\ running' = Append(running, r)
             /\ UNCHANGED <<allocVars, finish_reason, slot, reserved_blocks, block_table, free_slots>>
          \/ /\ state' = [state EXCEPT ![r] = "finished"]
             /\ finish_reason' \in [Ids -> FinishReasons]
             /\ running' = running
             /\ ReleaseResources(r)
  BY <1>1, <1>2, <1>3, <1>12, SampledToken
<1>14. Core'
  <2>1. CASE /\ Len(output_tokens'[r]) < param[r].max_new
             /\ state' = [state EXCEPT ![r] = "running"]
             /\ running' = Append(running, r)
             /\ UNCHANGED <<allocVars, finish_reason, slot, reserved_blocks, block_table, free_slots>>
    <3>1. Len(prefill_queue') + Len(running') = Len(prefill_queue) + Len(running)
      BY <1>6, <1>7, <1>8, <2>1
    <3> QED BY <1>1, <1>2, <1>3, <1>5, <1>6, <1>7, <1>9, <1>10, <1>13, <2>1, <3>1, CoreContinue
  <2>2. CASE /\ state' = [state EXCEPT ![r] = "finished"]
             /\ finish_reason' \in [Ids -> FinishReasons]
             /\ running' = running
             /\ ReleaseResources(r)
    <3>1. Len(prefill_queue') + Len(running') = Len(prefill_queue) + Len(running) - 1
      BY <1>6, <1>8, <2>2
    <3>2. running' \in Seq(Ids) /\ IsIncreasing(running') /\ Range(running') = Range(running) \ {r}
      BY <1>4, <1>11, <2>2 DEF CoreType, AdmissionOrder
    <3> QED BY <1>1, <1>2, <1>3, <1>5, <1>6, <1>9, <1>13, <2>2, <3>1, <3>2, CoreFinish
  <2> QED BY <1>13, <2>1, <2>2
<1>15. StepType'
  BY <1>1, <1>3, <1>13 DEF StepType, Result
<1>16. PlanMatchesQueues'
  BY <1>1, <1>3 DEF PlanMatchesQueues, is_prefill
<1> QED BY <1>14, <1>15, <1>16, InvSplitNext

LEMMA InvCompleteDecodeRow ==
  ASSUME SchedInv, NEW sampled \in Tokens, CompleteDecodeRow(sampled)
  PROVE  SchedInv'
<1>1. Core /\ StepType /\ PlanMatchesQueues
  BY InvSplit
<1>2. /\ pc = "commit" /\ ~is_prefill /\ RowsDone < Len(plan.decode)
      /\ UNCHANGED <<param, prefill_progress, waiting, prefill_queue,
                     next_request_id, pc, plan, throws>>
  BY DEF CompleteDecodeRow
<1>3. /\ plan.decode \in Seq(Ids) /\ IsInjective(plan.decode)
      /\ RowsDone \in 0 .. Len(plan.decode)
      /\ \A k \in RowsDone + 1 .. Len(plan.decode) : state[plan.decode[k]] = "running"
      /\ plan.begin = 0 /\ plan.end = 0
  BY <1>1, <1>2 DEF StepType, PlanMatchesQueues
<1>4. PICK n \in Nat : /\ n = RowsDone + 1 /\ n \in 1 .. Len(plan.decode)
                       /\ n \in RowsDone + 1 .. Len(plan.decode)
  <2>1. Len(plan.decode) \in Nat
    BY <1>3
  <2> QED BY <1>2, <1>3, <2>1
<1>5. PICK r \in Ids : r = plan.decode[n] /\ state[r] = "running"
  BY <1>3, <1>4
<1>6. ApplySampledToken(r, sampled)
  BY <1>4, <1>5 DEF CompleteDecodeRow
<1>7. CoreType /\ AdmissionOrder /\ Quota
  BY <1>1 DEF Core
<1>8. \A s \in Ids \ {r} : state[s] \in {"prefill", "waiting", "none"} => r < s
  BY <1>5, <1>7, StageValues DEF AdmissionOrder
<1>9. /\ prefill_queue' \in Seq(Ids) /\ IsIncreasing(prefill_queue')
      /\ Range(prefill_queue') = Range(prefill_queue) \ {r}
      /\ r \in Range(running)
  BY <1>2, <1>5, <1>7 DEF CoreType, AdmissionOrder
<1>10. /\ EraseRunning(r) \in Seq(Ids) /\ Len(EraseRunning(r)) = Len(running) - 1
       /\ IsIncreasing(EraseRunning(r)) /\ Range(EraseRunning(r)) = Range(running) \ {r}
  <2>1. \E i \in DOMAIN running : running[i] = r
    BY <1>9 DEF Range
  <2>2. PICK k \in DOMAIN running : k = (CHOOSE i \in DOMAIN running : running[i] = r) /\ running[k] = r
    BY <2>1
  <2>3. EraseRunning(r) = RemoveAt(running, k)
    BY <2>2 DEF EraseRunning
  <2>4. running \in Seq(Ids) /\ IsIncreasing(running)
    BY <1>7 DEF CoreType, AdmissionOrder
  <2>5. /\ RemoveAt(running, k) \in Seq(Ids) /\ Len(RemoveAt(running, k)) = Len(running) - 1
        /\ IsIncreasing(RemoveAt(running, k))
        /\ Range(RemoveAt(running, k)) = Range(running) \ {running[k]}
    BY <2>4, EraseOne
  <2> QED BY <2>2, <2>3, <2>5
<1>11. Len(prefill_queue) \in Nat /\ Len(running) \in Nat /\ prefill_progress' \in [Ids -> Nat]
  BY <1>2, <1>7 DEF CoreType
<1>12. block_table[r] # <<>> /\ (AdmissionPolicy = "reserve_full" \/ reserved_blocks[r] = 0)
  BY <1>5, <1>7 DEF Quota
<1>13. results \in Seq(Result)
  BY <1>1 DEF StepType, Result
<1>14. /\ output_tokens' \in [Ids -> Seq(Tokens)] /\ output_tokens'[r] # <<>>
       /\ \A s \in Ids \ {r} : output_tokens'[s] = output_tokens[s]
       /\ results' \in Seq(Result) /\ Len(results') = Len(results) + 1
       /\ \/ /\ Len(output_tokens'[r]) < param[r].max_new
             /\ state' = [state EXCEPT ![r] = "running"]
             /\ running' = running
             /\ UNCHANGED <<allocVars, finish_reason, slot, reserved_blocks, block_table, free_slots>>
          \/ /\ state' = [state EXCEPT ![r] = "finished"]
             /\ finish_reason' \in [Ids -> FinishReasons]
             /\ running' = EraseRunning(r)
             /\ ReleaseResources(r)
  BY <1>1, <1>5, <1>6, <1>13, SampledToken
<1>15. Core'
  <2>1. CASE /\ Len(output_tokens'[r]) < param[r].max_new
             /\ state' = [state EXCEPT ![r] = "running"]
             /\ running' = running
             /\ UNCHANGED <<allocVars, finish_reason, slot, reserved_blocks, block_table, free_slots>>
    <3>1. Len(prefill_queue') + Len(running') = Len(prefill_queue) + Len(running)
      BY <1>2, <2>1
    <3>2. running' \in Seq(Ids) /\ IsIncreasing(running') /\ Range(running') = Range(running) \union {r}
      BY <1>7, <1>9, <2>1 DEF CoreType, AdmissionOrder
    <3> QED BY <1>1, <1>2, <1>5, <1>8, <1>9, <1>11, <1>12, <1>14, <2>1, <3>1, <3>2, CoreContinue
  <2>2. CASE /\ state' = [state EXCEPT ![r] = "finished"]
             /\ finish_reason' \in [Ids -> FinishReasons]
             /\ running' = EraseRunning(r)
             /\ ReleaseResources(r)
    <3>1. Len(prefill_queue') + Len(running') = Len(prefill_queue) + Len(running) - 1
      BY <1>2, <1>10, <1>11, <2>2
    <3> QED BY <1>1, <1>2, <1>5, <1>8, <1>9, <1>10, <1>11, <1>14, <2>2, <3>1, CoreFinish
  <2> QED BY <1>14, <2>1, <2>2
<1>16. StepType'
  BY <1>1, <1>2, <1>14 DEF StepType, Result
<1>17. RowsDone' = n
  <2>1. Len(results) \in Nat /\ Len(plan.aborted) \in Nat
    BY <1>1, <1>13 DEF StepType
  <2>2. Len(results') = Len(results) + 1 /\ plan' = plan
    BY <1>2, <1>14
  <2> QED BY <1>4, <2>1, <2>2 DEF RowsDone
<1>18. \A k \in n + 1 .. Len(plan.decode) : state'[plan.decode[k]] = "running"
  <2> SUFFICES ASSUME NEW k \in n + 1 .. Len(plan.decode)
               PROVE  state'[plan.decode[k]] = "running"
    OBVIOUS
  <2>1. k \in 1 .. Len(plan.decode) /\ k # n /\ k \in RowsDone + 1 .. Len(plan.decode)
    BY <1>3, <1>4
  <2>2. plan.decode[k] # r /\ plan.decode[k] \in Ids /\ state[plan.decode[k]] = "running"
    BY <1>3, <1>4, <1>5, <2>1 DEF IsInjective
  <2>3. \A s \in Ids \ {r} : state'[s] = state[s]
    BY <1>7, <1>14 DEF CoreType
  <2> QED BY <2>2, <2>3
<1>19. RowsDone' \in 0 .. Len(plan.decode)
  BY <1>3, <1>4, <1>17
<1>20. PlanMatchesQueues'
  BY <1>2, <1>3, <1>17, <1>18, <1>19 DEF PlanMatchesQueues, is_prefill
<1> QED BY <1>15, <1>16, <1>20, InvSplitNext
-----------------------------------------------------------------------------
(***************************************************************************)
(* The induction.                                                          *)
(***************************************************************************)
LEMMA InvNext == SchedInv /\ [SchedNext]_schedVars => SchedInv'
<1> SUFFICES ASSUME SchedInv, [SchedNext]_schedVars PROVE SchedInv'
  OBVIOUS
<1>1. ASSUME NEW p \in Workload, AddRequest(p) PROVE SchedInv'
  BY <1>1, InvAddRequest
<1>2. CASE StepBegin BY <1>2, InvStepBegin
<1>3. CASE PlanStep
  BY <1>3, InvAdmit, InvPlanPrefill, InvMaterializePrefillBlock, InvPrefillPlanned,
     InvPlanDecode, InvDecodeRow, InvDecodeRowReserved, InvDecodeRowClaimed,
     InvAbortYoungestRunning, InvDecodePlanned DEF PlanStep
<1>4. CASE StepEmpty BY <1>4, InvStepEmpty
<1>5. CASE Execute BY <1>5, InvExecute
<1>6. CASE CompleteStep
  BY <1>6, InvCompletePrefillChunk, InvCompletePrefillFinal, InvCompleteDecodeRow,
     InvCompleteDecode DEF CompleteStep
<1>7. CASE StepReturn BY <1>7, InvStepReturn
<1>8. CASE ExecutorThrows BY <1>8, InvExecutorThrows
<1>9. CASE UNCHANGED schedVars
  <2>1. UNCHANGED <<allocVars, requestVars, queueVars, next_request_id, pc, plan, results, throws>>
    BY <1>9 DEF schedVars, stepVars
  <2>2. Core'
    BY <2>1, InvSplit, CoreUnchanged
  <2>3. StepType'
    BY <2>1, InvSplit DEF StepType
  <2>4. UNCHANGED <<state, prefill_queue, running, param, prefill_progress, block_table>>
    BY <2>1 DEF requestVars, queueVars
  <2>5. PlanMatchesQueues'
    BY <2>1, <2>4, InvSplit DEF PlanMatchesQueues, is_prefill, num_prompt_tokens,
       PrefillNeedsBlock, token_capacity, RowsDone
  <2> QED BY <2>2, <2>3, <2>5, InvSplitNext
<1> QED BY <1>1, <1>2, <1>3, <1>4, <1>5, <1>6, <1>7, <1>8, <1>9 DEF SchedNext, StepActions

(***************************************************************************)
(* The invariant of the scheduler: what makes everything below provable.   *)
(***************************************************************************)
THEOREM SchedulerInvariant == SchedSpec => []SchedInv
<1>1. SchedInit => SchedInv
  BY InvInit
<1>2. SchedInv /\ [SchedNext]_schedVars => SchedInv'
  BY InvNext
<1> QED BY <1>1, <1>2, PTL DEF SchedSpec

(***************************************************************************)
(* No KV block is shared, duplicated or leaked by any interleaving of      *)
(* submissions, admissions, chunks, decode steps, stops, aborts and failed *)
(* steps, for every pool size and workload.                                *)
(***************************************************************************)
THEOREM BlocksOwnedOnce == SchedSpec => []BlockOwnership
<1>1. SchedInv => BlockOwnership
  BY DEF SchedInv
<1> QED BY <1>1, SchedulerInvariant, PTL

(***************************************************************************)
(* reserved_ is always the sum of what the admitted requests may still     *)
(* draw, and is covered by free blocks.                                    *)
(***************************************************************************)
THEOREM ReservationsAddUp == SchedSpec => []ReservationsExact
<1>1. SchedInv => ReservationsExact
  BY DEF SchedInv
<1> QED BY <1>1, SchedulerInvariant, PTL

(***************************************************************************)
(* A request out of the batch holds no block, reservation or slot.         *)
(***************************************************************************)
THEOREM FinishedHoldNothing == SchedSpec => []OnlyAdmittedHold
<1>1. SchedInv => OnlyAdmittedHold
  BY DEF SchedInv
<1> QED BY <1>1, SchedulerInvariant, PTL

(***************************************************************************)
(* Queues hold their requests oldest first and nobody overtakes, so        *)
(* running_.back() is the youngest.                                        *)
(***************************************************************************)
THEOREM NobodyOvertakes == SchedSpec => []AdmissionOrder
<1>1. SchedInv => AdmissionOrder
  BY DEF SchedInv
<1> QED BY <1>1, SchedulerInvariant, PTL

LEMMA FirstTokens == SchedInv => FirstTokenFCFS
<1> SUFFICES ASSUME SchedInv, NEW r \in Ids, NEW s \in Ids, r < s, output_tokens[s] # <<>>
             PROVE  output_tokens[r] # <<>>
  BY DEF FirstTokenFCFS
<1>1. Core
  BY InvSplit
<1>2. state[r] \in States /\ state[s] \in States /\ r \in Int /\ s \in Int
  BY <1>1, SchedulerAssumption DEF Core, CoreType, Ids
<1>3. state[s] \in {"running", "finished"}
  BY <1>1, <1>2 DEF Core, ProgressMatchesState, States
<1>4. state[r] \notin {"prefill", "waiting", "none"}
  <2>1. state[r] \in {"prefill", "waiting", "none"} => Stage(state[s]) < Stage(state[r])
    BY <1>3, StageValues
  <2> QED BY <1>1, <1>2, <2>1 DEF Core, AdmissionOrder
<1> QED BY <1>1, <1>2, <1>4 DEF Core, ProgressMatchesState, States

(***************************************************************************)
(* First tokens appear in arrival order.                                   *)
(***************************************************************************)
THEOREM FirstTokensInOrder == SchedSpec => []FirstTokenFCFS
BY FirstTokens, SchedulerInvariant, PTL

(***************************************************************************)
(* The asserts at the allocator's call sites hold whenever they are        *)
(* reached: reservations never run dry, AllocReserved never finds the free *)
(* list empty, admission always finds a slot, and every watermark abort    *)
(* frees a block.                                                          *)
(***************************************************************************)
THEOREM AllocationNeverFails == SchedSpec => []NoExhaustion
<1>1. ASSUME SchedInv PROVE NoExhaustion
  <2>1. Core
    BY <1>1, InvSplit
  <2>2. pc = "admit" /\ CanAdmitHead =>
          CanReserve(ReservationFor(Head(waiting))) /\ free_slots # <<>>
    BY <2>1, AdmitHolds
  <2>3. ASSUME NEW r \in Ids, reserved_blocks[r] > 0 PROVE CanAllocReserved
    <3>1. Resources /\ reserved_blocks[r] \in Nat /\ reserved \in Nat
      BY <2>1 DEF Core, Resources, AllocTypeOK
    <3>2. reserved_blocks[r] <= reserved /\ Len(free_list) >= reserved /\ Len(free_list) \in Nat
      BY <3>1, OwnPromises DEF Resources, ReservationsExact, PromisesCovered, AllocTypeOK
    <3> QED BY <2>3, <3>1, <3>2 DEF CanAllocReserved
  <2>4. pc = "prefill" /\ PrefillNeedsBlock =>
          reserved_blocks[plan.prefill] > 0 /\ CanAllocReserved
    BY <1>1, <2>3, PrefillReserved
  <2>5. ASSUME pc = "decode", DecodeLoop, NeedsBlock(Candidate)
        PROVE  IF AdmissionPolicy = "reserve_full"
               THEN reserved_blocks[Candidate] > 0 /\ CanAllocReserved
               ELSE ~CanReserve(1) => block_table[Last(running)] # <<>>
    <3>1. Candidate \in Ids /\ running # <<>>
      BY <1>1, <2>5, CandidateRuns
    <3>2. CASE AdmissionPolicy = "reserve_full"
      BY <1>1, <2>3, <2>5, <3>1, <3>2, DecodeReserved
    <3>3. CASE AdmissionPolicy # "reserve_full"
      <4>1. Last(running) \in Range(running) /\ Last(running) \in Ids
        BY <2>1, <3>1, PopYoungest DEF Core, CoreType, AdmissionOrder
      <4>2. block_table[Last(running)] # <<>>
        BY <2>1, <4>1 DEF Core, AdmissionOrder, Quota
      <4> QED BY <3>3, <4>2
    <3> QED BY <3>2, <3>3
  <2> QED BY <2>2, <2>4, <2>5 DEF NoExhaustion
<1> QED BY <1>1, SchedulerInvariant, PTL

-----------------------------------------------------------------------------
(***************************************************************************)
(* A plan handed to the executor passes its checks: PlanInv is inductive   *)
(* relative to SchedInv (one lemma per step that moves blocks, tokens or   *)
(* the plan), and with it come the promises the scheduler makes to the     *)
(* executor, to waiting requests and to the victims of an abort.           *)
(***************************************************************************)

-----------------------------------------------------------------------------
(***************************************************************************)
(* Block arithmetic.                                                       *)
(***************************************************************************)
LEMMA BlocksMono ==
  ASSUME NEW m \in Nat, NEW n \in Nat, m <= n
  PROVE  BlocksForTokens(m) <= BlocksForTokens(n)
<1>1. /\ BlocksForTokens(m) \in Nat /\ BlocksForTokens(n) \in Nat
      /\ BlocksForTokens(n) * KvBlockSize >= n
  BY BlocksBounds
<1>2. BlocksForTokens(n) * KvBlockSize \in Int
  BY <1>1, SchedulerAssumption
<1>3. ~(BlocksForTokens(n) * KvBlockSize < m)
  BY <1>1, <1>2
<1> QED BY <1>1, <1>3, CapacityShort

\* One more token needs at most one more block.
LEMMA BlocksStep ==
  ASSUME NEW n \in Nat
  PROVE  BlocksForTokens(n + 1) <= BlocksForTokens(n) + 1
<1>1. BlocksForTokens(n) \in Nat /\ BlocksForTokens(n) * KvBlockSize >= n
  BY BlocksBounds
<1>2. BlocksForTokens(n + 1) \in Nat
  BY BlocksBounds
<1>3. PICK d \in Nat, K \in Nat \ {0} : d = BlocksForTokens(n) /\ K = KvBlockSize
  BY <1>1, SchedulerAssumption
<1>4. (d + 1) * K = d * K + K /\ d * K \in Int
  OBVIOUS
<1>5. ~((d + 1) * KvBlockSize < n + 1)
  BY <1>1, <1>3, <1>4
<1>6. ~(d + 1 < BlocksForTokens(n + 1))
  BY <1>5, CapacityShort
<1> QED BY <1>1, <1>2, <1>3, <1>6

-----------------------------------------------------------------------------
(***************************************************************************)
(* The quantities PlanInv compares.                                        *)
(***************************************************************************)
LEMMA Quantities ==
  ASSUME SchedInv, NEW r \in Ids
  PROVE  /\ Len(block_table[r]) \in Nat /\ prefill_progress[r] \in Nat
         /\ Len(output_tokens[r]) \in Nat /\ PrefillChunk \in Nat \ {0}
         /\ state[r] # "none" =>
              num_prompt_tokens(r) \in Nat \ {0} /\ seq_len(r) \in Nat \ {0}
<1>1. Core
  BY InvSplit
<1>2. Len(block_table[r]) \in Nat /\ prefill_progress[r] \in Nat /\ Len(output_tokens[r]) \in Nat
  BY <1>1 DEF Core, Resources, CoreType
<1>3. PrefillChunk \in Nat \ {0}
  BY SchedulerAssumption
<1>4. state[r] # "none" => num_prompt_tokens(r) \in Nat \ {0}
  BY <1>1, LiveBounds
<1> QED BY <1>2, <1>3, <1>4 DEF seq_len

\* A request the step does not touch keeps its fit.
LEMMA FitsFrame ==
  ASSUME NEW r \in Ids, TableFits(r),
         state'[r] = state[r], block_table'[r] = block_table[r], param'[r] = param[r],
         output_tokens'[r] = output_tokens[r], prefill_progress'[r] = prefill_progress[r]
  PROVE  TableFits(r)'
BY DEF TableFits, seq_len, num_prompt_tokens, BlocksForTokens

LEMMA RowFrame ==
  ASSUME NEW r \in Ids, RowFits(r),
         block_table'[r] = block_table[r], param'[r] = param[r], output_tokens'[r] = output_tokens[r]
  PROVE  RowFits(r)'
BY DEF RowFits, seq_len, num_prompt_tokens, BlocksForTokens

\* Steps that change no request.
LEMMA FitsQuiet ==
  ASSUME PlanInv, UNCHANGED requestVars
  PROVE  /\ \A r \in Ids : TableFits(r)'
         /\ \A r \in Ids : RowFits(r) => RowFits(r)'
<1>1. UNCHANGED <<param, state, output_tokens, prefill_progress, block_table>>
  BY DEF requestVars
<1>2. ASSUME NEW r \in Ids PROVE TableFits(r)'
  BY <1>1, FitsFrame DEF PlanInv
<1>3. ASSUME NEW r \in Ids, RowFits(r) PROVE RowFits(r)'
  BY <1>1, <1>3, RowFrame
<1> QED BY <1>2, <1>3

\* A state between two plans promises nothing about one.
LEMMA FitsNoPlan ==
  ASSUME pc' \notin {"prefill", "decode", "planned", "commit"}
  PROVE  PlanFits'
BY DEF PlanFits

LEMMA FitsInit == SchedInit => PlanInv
<1> SUFFICES ASSUME SchedInit PROVE PlanInv
  OBVIOUS
<1>1. \A r \in Ids : state[r] = "none"
  BY DEF SchedInit
<1>2. PlanFits
  BY DEF PlanFits, SchedInit
<1> QED BY <1>1, <1>2 DEF PlanInv, TableFits

-----------------------------------------------------------------------------
(***************************************************************************)
(* Submission and admission.                                               *)
(***************************************************************************)
LEMMA FitsAddRequest ==
  ASSUME SchedInv, PlanInv, NEW p \in Workload, AddRequest(p)
  PROVE  PlanInv'
<1>1. Core
  BY InvSplit
<1>2. CoreType
  BY <1>1 DEF Core
<1>3. PICK r \in Ids : r = next_request_id
  BY DEF AddRequest
<1>4. /\ state'[r] = "waiting" /\ pc' = "idle"
      /\ UNCHANGED <<output_tokens, prefill_progress, block_table>>
      /\ \A s \in Ids \ {r} : state'[s] = state[s] /\ param'[s] = param[s]
  BY <1>2, <1>3 DEF AddRequest, Enqueue, CoreType, stepVars
<1>5. TableFits(r)'
  BY <1>4 DEF TableFits
<1>6. ASSUME NEW s \in Ids \ {r} PROVE TableFits(s)'
  BY <1>4, FitsFrame DEF PlanInv
<1> QED BY <1>4, <1>5, <1>6, FitsNoPlan DEF PlanInv

\* An admitted request starts with an empty table and nothing prefilled.
LEMMA FitsAdmit ==
  ASSUME SchedInv, PlanInv, Admit
  PROVE  PlanInv'
<1>1. Core
  BY InvSplit
<1>2. CoreType /\ AdmissionOrder /\ OnlyAdmittedHold /\ ProgressMatchesState
  BY <1>1 DEF Core
<1>3. waiting # <<>>
  BY DEF Admit, CanAdmitHead
<1>4. PICK r \in Ids : r = Head(waiting) /\ r \in Range(waiting)
  BY <1>2, <1>3, PopOldest DEF CoreType, AdmissionOrder
<1>5. state[r] = "waiting"
  BY <1>2, <1>4 DEF AdmissionOrder
<1>6. block_table[r] = <<>> /\ prefill_progress[r] = 0
  BY <1>2, <1>5 DEF OnlyAdmittedHold, Admitted, ProgressMatchesState
<1>7. /\ state'[r] = "prefill" /\ pc' = "admit"
      /\ UNCHANGED <<param, output_tokens, prefill_progress, block_table>>
      /\ \A s \in Ids \ {r} : state'[s] = state[s]
  BY <1>2, <1>4 DEF Admit, CoreType, stepVars
<1>8. TableFits(r)'
  <2>1. Len(block_table'[r]) = 0 /\ prefill_progress'[r] = 0
    BY <1>6, <1>7
  <2>2. num_prompt_tokens(r) \in Nat /\ PrefillChunk \in Nat
    BY <1>1, <1>5, LiveBounds, SchedulerAssumption
  <2>3. /\ BlocksForTokens(0) \in Nat /\ BlocksForTokens(PrefillChunk) \in Nat
        /\ BlocksForTokens(num_prompt_tokens(r)) \in Nat
    BY <2>2, BlocksBounds
  <2>4. ~(0 * KvBlockSize < 0)
    BY SchedulerAssumption
  <2>5. BlocksForTokens(0) = 0
    BY <2>3, <2>4, CapacityShort
  <2>6. num_prompt_tokens(r)' = num_prompt_tokens(r) /\ 0 + PrefillChunk = PrefillChunk
    BY <1>7, <2>2 DEF num_prompt_tokens
  <2> QED BY <1>7, <2>1, <2>3, <2>5, <2>6 DEF TableFits, BlocksForTokens
<1>9. ASSUME NEW s \in Ids \ {r} PROVE TableFits(s)'
  BY <1>7, FitsFrame DEF PlanInv
<1> QED BY <1>7, <1>8, <1>9, FitsNoPlan DEF PlanInv

-----------------------------------------------------------------------------
(***************************************************************************)
(* Planning a chunk.                                                       *)
(***************************************************************************)
LEMMA FitsPlanPrefill ==
  ASSUME SchedInv, PlanInv, PlanPrefill
  PROVE  PlanInv'
<1>1. Core /\ StepType /\ PlanMatchesQueues
  BY InvSplit
<1>2. \A r \in Ids : TableFits(r)'
  BY FitsQuiet DEF PlanPrefill
<1>3. plan = EmptyPlan /\ prefill_queue # <<>> /\ pc' = "prefill"
  BY <1>1 DEF PlanPrefill, PlanMatchesQueues
<1>4. PICK r \in Ids : r = Head(prefill_queue)
  BY <1>1, <1>3, HeadPrefill
<1>5. num_prompt_tokens(r) \in Nat /\ prefill_progress[r] \in Nat /\ PrefillChunk \in Nat
  BY <1>1, <1>3, <1>4, HeadPrefill, SchedulerAssumption
<1>6. plan'.begin = prefill_progress[r] /\ plan'.end <= prefill_progress[r] + PrefillChunk
  <2> DEFINE chunk == prefill_progress[r] + PrefillChunk
             e == IF chunk < num_prompt_tokens(r) THEN chunk ELSE num_prompt_tokens(r)
  <2>1. e <= chunk
    BY <1>5
  <2>2. plan' = [EmptyPlan EXCEPT !.prefill = r, !.begin = prefill_progress[r], !.end = e]
    BY <1>3, <1>4 DEF PlanPrefill
  <2> HIDE DEF e
  <2> QED BY <2>1, <2>2 DEF EmptyPlan
<1>7. PlanFits'
  BY <1>3, <1>6 DEF PlanFits
<1> QED BY <1>2, <1>7 DEF PlanInv

\* A block is taken only while the table is too short for the chunk.
LEMMA FitsMaterializePrefillBlock ==
  ASSUME SchedInv, PlanInv, MaterializePrefillBlock
  PROVE  PlanInv'
<1>1. Core /\ StepType /\ PlanMatchesQueues
  BY InvSplit
<1>2. PICK r \in Ids : r = plan.prefill /\ state[r] = "prefill" /\ reserved_blocks[r] > 0
  BY PrefillReserved DEF MaterializePrefillBlock
<1>3. /\ pc = "prefill" /\ PrefillNeedsBlock
      /\ UNCHANGED <<param, state, output_tokens, prefill_progress, pc, plan>>
      /\ TakeReservedBlock(r)
  BY <1>2 DEF MaterializePrefillBlock, stepVars
<1>4. /\ Len(block_table'[r]) = Len(block_table[r]) + 1
      /\ \A s \in Ids \ {r} : block_table'[s] = block_table[s]
  <2>1. Core' /\ CanAllocReserved
    BY <1>1, <1>2, CoreTake DEF MaterializePrefillBlock
  <2>2. block_table \in [Ids -> Seq(PoolBlocks)] /\ NextBlock \in PoolBlocks
    BY <1>1, <2>1, FrontProperties DEF Core, Resources, CanAllocReserved, NextBlock, AllocTypeOK
  <2>3. block_table' = [block_table EXCEPT ![r] = Append(block_table[r], NextBlock)]
    BY <1>3 DEF TakeReservedBlock
  <2> QED BY <2>2, <2>3, AppendProperties
<1>5. /\ Len(block_table[r]) \in Nat /\ prefill_progress[r] \in Nat
      /\ PrefillChunk \in Nat /\ num_prompt_tokens(r) \in Nat
  BY <1>2, Quantities
<1>6. /\ plan.end \in Nat /\ plan.end <= num_prompt_tokens(r)
      /\ plan.end <= prefill_progress[r] + PrefillChunk
  <2>1. is_prefill /\ plan.begin = prefill_progress[r] /\ plan.end <= num_prompt_tokens(r)
    BY <1>1, <1>2, <1>3 DEF PlanMatchesQueues
  <2>2. plan.end <= plan.begin + PrefillChunk /\ plan.end \in Nat
    BY <1>1, <1>3, <2>1 DEF PlanInv, PlanFits, StepType
  <2> QED BY <2>1, <2>2
<1>7. Len(block_table[r]) < BlocksForTokens(plan.end)
  BY <1>2, <1>3, <1>5, <1>6, CapacityShort DEF PrefillNeedsBlock, token_capacity
<1>8. /\ BlocksForTokens(plan.end) <= BlocksForTokens(num_prompt_tokens(r))
      /\ BlocksForTokens(plan.end) <= BlocksForTokens(prefill_progress[r] + PrefillChunk)
  BY <1>5, <1>6, BlocksMono
<1>9. /\ BlocksForTokens(plan.end) \in Nat /\ BlocksForTokens(prefill_progress[r]) \in Nat
      /\ BlocksForTokens(num_prompt_tokens(r)) \in Nat
      /\ BlocksForTokens(prefill_progress[r] + PrefillChunk) \in Nat
  <2>1. prefill_progress[r] + PrefillChunk \in Nat
    BY <1>5
  <2> QED BY <1>5, <1>6, <2>1, BlocksBounds
<1>10. TableFits(r)'
  <2>1. /\ Len(block_table'[r]) >= BlocksForTokens(prefill_progress[r])
        /\ Len(block_table'[r]) <= BlocksForTokens(prefill_progress[r] + PrefillChunk)
        /\ Len(block_table'[r]) <= BlocksForTokens(num_prompt_tokens(r))
    <3>1. Len(block_table[r]) >= BlocksForTokens(prefill_progress[r])
      BY <1>2 DEF PlanInv, TableFits
    <3> QED BY <1>4, <1>5, <1>7, <1>8, <1>9, <3>1
  <2>2. state'[r] = "prefill" /\ prefill_progress' = prefill_progress
        /\ num_prompt_tokens(r)' = num_prompt_tokens(r)
    BY <1>2, <1>3 DEF num_prompt_tokens
  <2> QED BY <2>1, <2>2 DEF TableFits, BlocksForTokens
<1>11. ASSUME NEW s \in Ids \ {r} PROVE TableFits(s)'
  BY <1>3, <1>4, FitsFrame DEF PlanInv
<1>12. PlanFits'
  BY <1>3 DEF PlanInv, PlanFits, is_prefill
<1> QED BY <1>10, <1>11, <1>12 DEF PlanInv

LEMMA FitsPrefillPlanned ==
  ASSUME SchedInv, PlanInv, PrefillPlanned
  PROVE  PlanInv'
<1>1. Core /\ StepType /\ PlanMatchesQueues
  BY InvSplit
<1>2. \A r \in Ids : TableFits(r)'
  BY FitsQuiet DEF PrefillPlanned
<1>3. pc = "prefill" /\ pc' = "planned" /\ plan' = plan
  BY DEF PrefillPlanned
<1>4. /\ is_prefill /\ plan.decode = <<>> /\ plan.aborted = <<>>
      /\ plan.end <= plan.begin + PrefillChunk
  BY <1>1, <1>3 DEF PlanMatchesQueues, PlanInv, PlanFits
<1>5. Len(<<>>) <= MaxBatch /\ DOMAIN <<>> = {}
  BY SchedulerAssumption
<1>6. PlanFits'
  BY <1>3, <1>4, <1>5 DEF PlanFits
<1> QED BY <1>2, <1>6 DEF PlanInv

-----------------------------------------------------------------------------
(***************************************************************************)
(* Planning a decode batch.                                                *)
(***************************************************************************)
LEMMA FitsPlanDecode ==
  ASSUME SchedInv, PlanInv, PlanDecode
  PROVE  PlanInv'
<1>1. \A r \in Ids : TableFits(r)'
  BY FitsQuiet DEF PlanDecode
<1>2. plan = EmptyPlan /\ pc' = "decode" /\ plan' = plan
  BY InvSplit DEF PlanDecode, PlanMatchesQueues
<1>3. Len(<<>>) <= MaxBatch /\ DOMAIN <<>> = {}
  BY SchedulerAssumption
<1>4. PlanFits'
  BY <1>2, <1>3 DEF PlanFits, EmptyPlan
<1> QED BY <1>1, <1>4 DEF PlanInv

\* Appending a candidate whose table has room for the position it feeds.
LEMMA FitsRow ==
  ASSUME SchedInv, PlanInv, pc = "decode", DecodeLoop, pc' = "decode",
         NEW c \in Ids, c = Candidate, RowFits(c)',
         plan' = [plan EXCEPT !.decode = Append(@, c)],
         state' = state,
         \A r \in Ids : RowFits(r) => RowFits(r)'
  PROVE  PlanFits'
<1>1. StepType
  BY InvSplit
<1>2. PICK n \in Nat : n = Len(plan.decode) /\ n < MaxBatch
  BY CandidateRuns DEF DecodeLoop
<1>3. plan.decode \in Seq(Ids) /\ plan \in [prefill : Ids \union {nullptr}, begin : Nat,
                                       end : Nat, decode : Seq(Ids), aborted : Seq(Ids)]
  BY <1>1 DEF StepType
<1>4. plan'.decode = Append(plan.decode, c) /\ plan'.aborted = plan.aborted
  BY <1>3
<1>5. /\ Len(plan'.decode) = n + 1 /\ DOMAIN plan'.decode = 1 .. n + 1
      /\ \A k \in 1 .. n : plan'.decode[k] = plan.decode[k] /\ plan.decode[k] \in Ids
      /\ plan'.decode[n + 1] = c
      /\ DOMAIN plan.decode = 1 .. n
  BY <1>2, <1>3, <1>4, AppendProperties
<1>6. ASSUME NEW k \in 1 .. n + 1 PROVE RowFits(plan.decode[k])'
  <2>1. PICK r \in Ids : r = plan'.decode[k] /\ RowFits(r)'
    <3>1. CASE k \in 1 .. n
      BY <1>5, <3>1 DEF PlanInv, PlanFits
    <3>2. CASE k = n + 1
      BY <1>5, <3>2
    <3>3. k \in 1 .. n \/ k = n + 1
      OBVIOUS
    <3> QED BY <3>1, <3>2, <3>3
  <2> QED BY <2>1 DEF RowFits, seq_len, num_prompt_tokens
<1>7. Len(plan'.decode) <= MaxBatch
  BY <1>2, <1>5, SchedulerAssumption
<1>8. \A k \in DOMAIN plan'.aborted : state'[plan'.aborted[k]] = "finished"
  BY <1>4 DEF PlanInv, PlanFits
<1> QED BY <1>5, <1>6, <1>7, <1>8 DEF PlanFits

LEMMA FitsDecodeRow ==
  ASSUME SchedInv, PlanInv, DecodeRow
  PROVE  PlanInv'
<1>1. pc = "decode" /\ DecodeLoop /\ pc' = "decode"
  BY DEF DecodeRow
<1>2. PICK c \in Ids : c = Candidate /\ state[c] = "running"
  BY <1>1, CandidateRuns
<1>3. /\ (\A r \in Ids : TableFits(r)') /\ (\A r \in Ids : RowFits(r) => RowFits(r)')
      /\ state' = state
  BY FitsQuiet DEF DecodeRow, requestVars
<1>4. RowFits(c)
  <2>1. Len(block_table[c]) \in Nat /\ seq_len(c) \in Nat
    BY <1>2, Quantities
  <2>2. ~(Len(block_table[c]) * KvBlockSize < seq_len(c))
    <3>1. ~(seq_len(c) - 1 >= Len(block_table[c]) * KvBlockSize)
      BY <1>2 DEF DecodeRow, NeedsBlock, token_capacity
    <3>2. Len(block_table[c]) * KvBlockSize \in Int
      BY <2>1, SchedulerAssumption
    <3> QED BY <2>1, <3>1, <3>2
  <2>3. ~(Len(block_table[c]) < BlocksForTokens(seq_len(c)))
    BY <2>1, <2>2, CapacityShort
  <2>4. BlocksForTokens(seq_len(c)) \in Nat
    BY <2>1, BlocksBounds
  <2> QED BY <2>1, <2>3, <2>4 DEF RowFits
<1>5. plan' = [plan EXCEPT !.decode = Append(@, c)]
  BY <1>2 DEF DecodeRow
<1>6. PlanFits'
  BY <1>1, <1>2, <1>3, <1>4, <1>5, FitsRow
<1> QED BY <1>3, <1>6 DEF PlanInv

\* A candidate that crosses into a new block and gets exactly one.
LEMMA FitsGrow ==
  ASSUME SchedInv, PlanInv, pc = "decode", DecodeLoop, pc' = "decode",
         NEW c \in Ids, c = Candidate, NeedsBlock(c),
         NEW b \in PoolBlocks,
         block_table' = [block_table EXCEPT ![c] = Append(@, b)],
         plan' = [plan EXCEPT !.decode = Append(@, c)],
         UNCHANGED <<param, state, output_tokens, prefill_progress>>
  PROVE  PlanInv'
<1>1. state[c] = "running"
  BY CandidateRuns
<1>2. block_table \in [Ids -> Seq(PoolBlocks)]
  BY InvSplit DEF Core, Resources
<1>3. /\ Len(block_table'[c]) = Len(block_table[c]) + 1
      /\ \A s \in Ids \ {c} : block_table'[s] = block_table[s]
  BY <1>2, AppendProperties
<1>4. Len(block_table[c]) \in Nat /\ seq_len(c) \in Nat \ {0}
  BY <1>1, Quantities
<1>5. PICK n \in Nat : n = seq_len(c) - 1 /\ seq_len(c) = n + 1
  BY <1>4
<1>6. Len(block_table[c]) < BlocksForTokens(n + 1)
  <2>1. n >= Len(block_table[c]) * KvBlockSize
    BY <1>5 DEF NeedsBlock, token_capacity
  <2>2. Len(block_table[c]) * KvBlockSize \in Int
    BY <1>4, SchedulerAssumption
  <2>3. Len(block_table[c]) * KvBlockSize < n + 1
    BY <2>1, <2>2
  <2> QED BY <1>4, <2>3, CapacityShort
<1>7. Len(block_table[c]) >= BlocksForTokens(n)
  BY <1>1, <1>5 DEF PlanInv, TableFits
<1>8. Len(block_table'[c]) = BlocksForTokens(n + 1) /\ Len(block_table'[c]) >= BlocksForTokens(n)
  <2>1. BlocksForTokens(n) \in Nat /\ BlocksForTokens(n + 1) \in Nat
    BY BlocksBounds
  <2>2. BlocksForTokens(n + 1) <= BlocksForTokens(n) + 1
    BY BlocksStep
  <2> QED BY <1>3, <1>4, <1>6, <1>7, <2>1, <2>2
<1>9. seq_len(c)' = n + 1 /\ state'[c] = "running"
  BY <1>1, <1>5 DEF seq_len, num_prompt_tokens
<1>10. BlocksForTokens(n + 1) \in Nat /\ (n + 1) - 1 = n
  BY BlocksBounds
<1>11. TableFits(c)' /\ RowFits(c)'
  <2>1. BlocksForTokens(seq_len(c))' = BlocksForTokens(n + 1)
        /\ BlocksForTokens(seq_len(c) - 1)' = BlocksForTokens(n)
    BY <1>9, <1>10 DEF BlocksForTokens
  <2>2. Len(block_table'[c]) <= BlocksForTokens(n + 1) /\ Len(block_table'[c]) >= BlocksForTokens(n + 1)
    BY <1>8, <1>10
  <2> QED BY <1>8, <1>9, <2>1, <2>2 DEF TableFits, RowFits
<1>12. ASSUME NEW s \in Ids \ {c} PROVE TableFits(s)' /\ (RowFits(s) => RowFits(s)')
  BY <1>3, FitsFrame, RowFrame DEF PlanInv
<1>13. PlanFits'
  BY <1>11, <1>12, FitsRow
<1> QED BY <1>11, <1>12, <1>13 DEF PlanInv

LEMMA FitsDecodeRowReserved ==
  ASSUME SchedInv, PlanInv, DecodeRowReserved
  PROVE  PlanInv'
<1>1. PICK c \in Ids : c = Candidate /\ state[c] = "running" /\ reserved_blocks[c] > 0
  BY CandidateRuns, DecodeReserved DEF DecodeRowReserved
<1>2. CanAllocReserved
  BY <1>1, InvSplit, CoreTake DEF DecodeRowReserved
<1>3. NextBlock \in PoolBlocks
  BY <1>2, InvSplit, FrontProperties DEF Core, Resources, CanAllocReserved, NextBlock, AllocTypeOK
<1> QED BY <1>1, <1>3, FitsGrow DEF DecodeRowReserved, TakeReservedBlock

LEMMA FitsDecodeRowClaimed ==
  ASSUME SchedInv, PlanInv, DecodeRowClaimed
  PROVE  PlanInv'
<1>1. PICK c \in Ids : c = Candidate
  BY CandidateRuns DEF DecodeRowClaimed
<1>2. NextBlock \in PoolBlocks
  <2>1. free_list \in Seq(PoolBlocks) /\ reserved \in Nat /\ Len(free_list) - reserved >= 1
    BY InvSplit DEF Core, Resources, AllocTypeOK, CanReserve, DecodeRowClaimed
  <2> QED BY <2>1, FrontProperties DEF NextBlock
<1> QED BY <1>1, <1>2, FitsGrow DEF DecodeRowClaimed

\* The victim is not a planned row: it is behind the cursor in running_.
LEMMA FitsAbortYoungestRunning ==
  ASSUME SchedInv, PlanInv, AbortYoungestRunning
  PROVE  PlanInv'
<1>1. Core /\ StepType /\ PlanMatchesQueues
  BY InvSplit
<1>2. pc = "decode" /\ DecodeLoop /\ pc' = "decode"
  BY DEF AbortYoungestRunning
<1>3. running # <<>> /\ Len(plan.decode) \in Nat /\ Len(plan.decode) + 1 \in 1 .. Len(running)
  BY <1>2, CandidateRuns
<1>4. CoreType /\ AdmissionOrder
  BY <1>1 DEF Core
<1>5. PICK v \in Ids : v = Last(running) /\ v = running[Len(running)]
  BY <1>3, <1>4, FrontProperties DEF CoreType
<1>6. /\ state'[v] = "finished"
      /\ \A s \in Ids \ {v} : state'[s] = state[s] /\ block_table'[s] = block_table[s]
      /\ plan' = [plan EXCEPT !.aborted = Append(@, v)]
      /\ UNCHANGED <<param, output_tokens, prefill_progress>>
  <2>1. block_table \in [Ids -> Seq(PoolBlocks)]
    BY <1>1 DEF Core, Resources
  <2> QED BY <1>4, <1>5, <2>1 DEF AbortYoungestRunning, Victim, ReleaseResources, ReleaseTable,
       ReleaseReservation, ReleaseSlot, CoreType
<1>7. ASSUME NEW s \in Ids \ {v} PROVE TableFits(s)' /\ (RowFits(s) => RowFits(s)')
  BY <1>6, FitsFrame, RowFrame DEF PlanInv
<1>8. TableFits(v)'
  BY <1>6 DEF TableFits
<1>9. /\ plan'.decode = plan.decode /\ plan'.aborted = Append(plan.aborted, v)
      /\ plan.decode \in Seq(Ids) /\ plan.aborted \in Seq(Ids)
  <2>1. plan \in [prefill : Ids \union {nullptr}, begin : Nat, end : Nat,
                  decode : Seq(Ids), aborted : Seq(Ids)]
    BY <1>1 DEF StepType
  <2> QED BY <1>6, <2>1
<1>10. ASSUME NEW k \in DOMAIN plan.decode PROVE plan.decode[k] \in Ids \ {v}
  <2>1. k \in 1 .. Len(plan.decode) /\ plan.decode[k] \in Ids /\ plan.decode[k] = running[k]
    BY <1>1, <1>2, <1>9 DEF PlanMatchesQueues
  <2>2. k \in 1 .. Len(running) /\ Len(running) \in 1 .. Len(running) /\ k # Len(running)
    <3>1. Len(running) \in Nat
      BY <1>4 DEF CoreType
    <3> QED BY <1>3, <2>1, <3>1
  <2>3. IsInjective(running) /\ DOMAIN running = 1 .. Len(running)
    BY <1>4, IncreasingInjective DEF CoreType, AdmissionOrder
  <2> QED BY <1>5, <2>1, <2>2, <2>3 DEF IsInjective
<1>11. ASSUME NEW k \in DOMAIN plan'.decode PROVE RowFits(plan.decode[k])'
  <2>1. PICK r \in Ids \ {v} : r = plan.decode[k] /\ r = plan'.decode[k]
    BY <1>9, <1>10
  <2>2. RowFits(r)
    BY <1>2, <1>9, <2>1 DEF PlanInv, PlanFits
  <2> QED BY <1>7, <2>1, <2>2 DEF RowFits, seq_len, num_prompt_tokens
<1>12. ASSUME NEW k \in DOMAIN plan'.aborted PROVE state'[plan'.aborted[k]] = "finished"
  <2> DEFINE m == Len(plan.aborted)
  <2>1. /\ m \in Nat /\ DOMAIN plan'.aborted = 1 .. m + 1 /\ DOMAIN plan.aborted = 1 .. m
        /\ \A i \in 1 .. m : plan'.aborted[i] = plan.aborted[i] /\ plan.aborted[i] \in Ids
        /\ plan'.aborted[m + 1] = v
    BY <1>9, AppendProperties
  <2>2. CASE k = m + 1
    BY <1>6, <2>1, <2>2
  <2>3. CASE k \in 1 .. m
    <3>1. state[plan.aborted[k]] = "finished"
      BY <1>2, <2>1, <2>3 DEF PlanInv, PlanFits
    <3> QED BY <1>6, <2>1, <2>3, <3>1
  <2>4. k \in 1 .. m \/ k = m + 1
    BY <2>1
  <2> QED BY <2>2, <2>3, <2>4
<1>13. Len(plan'.decode) <= MaxBatch
  BY <1>2, <1>9 DEF PlanInv, PlanFits
<1>14. PlanFits'
  BY <1>2, <1>11, <1>12, <1>13 DEF PlanFits
<1> QED BY <1>7, <1>8, <1>14 DEF PlanInv

LEMMA FitsDecodePlanned ==
  ASSUME SchedInv, PlanInv, DecodePlanned
  PROVE  PlanInv'
<1>1. StepType /\ PlanMatchesQueues
  BY InvSplit
<1>2. (\A r \in Ids : TableFits(r)') /\ (\A r \in Ids : RowFits(r) => RowFits(r)')
  BY FitsQuiet DEF DecodePlanned
<1>3. pc = "decode" /\ pc' = "planned" /\ plan' = plan /\ state' = state
  BY DEF DecodePlanned, requestVars
<1>4. ~is_prefill /\ plan.decode \in Seq(Ids)
  BY <1>1, <1>3 DEF PlanMatchesQueues, StepType
<1>5. ASSUME NEW k \in DOMAIN plan'.decode PROVE RowFits(plan.decode[k])'
  <2>1. PICK r \in Ids : r = plan.decode[k] /\ r = plan'.decode[k] /\ RowFits(r)'
    BY <1>2, <1>3, <1>4 DEF PlanInv, PlanFits
  <2> QED BY <2>1 DEF RowFits, seq_len, num_prompt_tokens
<1>6. PlanFits'
  BY <1>3, <1>4, <1>5 DEF PlanInv, PlanFits, is_prefill
<1> QED BY <1>2, <1>6 DEF PlanInv

-----------------------------------------------------------------------------
(***************************************************************************)
(* Executing and committing.                                               *)
(***************************************************************************)
LEMMA FitsExecute ==
  ASSUME SchedInv, PlanInv, Execute
  PROVE  PlanInv'
<1>1. Core /\ StepType /\ PlanMatchesQueues
  BY InvSplit
<1>2. (\A r \in Ids : TableFits(r)') /\ (\A r \in Ids : RowFits(r) => RowFits(r)')
  BY FitsQuiet DEF Execute
<1>3. pc = "planned" /\ pc' = "commit" /\ plan' = plan
  BY DEF Execute
<1>4. plan.decode \in Seq(Ids) /\ plan.aborted \in Seq(Ids)
  BY <1>1 DEF StepType
<1>5. RowsDone' = 0
  <2>1. results' = [i \in 1 .. Len(plan.aborted) |-> AbortResult(plan.aborted[i])]
    BY DEF Execute
  <2>2. Len(results') = Len(plan.aborted) /\ Len(plan.aborted) \in Nat
    BY <1>4, <2>1
  <2> QED BY <1>3, <2>2 DEF RowsDone
<1>6. ASSUME NEW k \in RowsDone' + 1 .. Len(plan'.decode) PROVE RowFits(plan.decode[k])'
  <2>1. k \in DOMAIN plan.decode
    BY <1>3, <1>4, <1>5
  <2>2. PICK r \in Ids : r = plan.decode[k] /\ r = plan'.decode[k] /\ RowFits(r)'
    BY <1>2, <1>3, <1>4, <2>1 DEF PlanInv, PlanFits
  <2> QED BY <2>2 DEF RowFits, seq_len, num_prompt_tokens
<1>7. PlanFits'
  BY <1>3, <1>6 DEF PlanFits
<1> QED BY <1>2, <1>7 DEF PlanInv

\* Steps that end, drop or do not have a plan.
LEMMA FitsEnd ==
  ASSUME SchedInv, PlanInv, StepBegin \/ StepEmpty \/ ExecutorThrows \/ CompleteDecode \/ StepReturn
  PROVE  PlanInv'
<1>1. UNCHANGED requestVars /\ pc' \in {"idle", "admit", "return"}
  BY DEF StepBegin, StepEmpty, ExecutorThrows, CompleteDecode, StepReturn
<1>2. \A r \in Ids : TableFits(r)'
  BY <1>1, FitsQuiet
<1>3. PlanFits'
  BY <1>1, FitsNoPlan
<1> QED BY <1>2, <1>3 DEF PlanInv

LEMMA FitsCompletePrefillChunk ==
  ASSUME SchedInv, PlanInv, CompletePrefillChunk
  PROVE  PlanInv'
<1>1. Core /\ StepType /\ PlanMatchesQueues
  BY InvSplit
<1>2. pc = "commit" /\ is_prefill /\ pc' = "return"
  BY DEF CompletePrefillChunk
<1>3. PICK r \in Ids : /\ r = plan.prefill /\ state[r] = "prefill"
                       /\ plan.end \in Nat /\ token_capacity(r) >= plan.end
  BY <1>2, CommittedPrefill
<1>4. /\ Len(block_table[r]) \in Nat /\ prefill_progress[r] \in Nat
      /\ PrefillChunk \in Nat /\ num_prompt_tokens(r) \in Nat
  BY <1>3, Quantities
<1>5. prefill_progress[r] < plan.end
  BY <1>1, <1>2, <1>3 DEF PlanMatchesQueues
<1>6. /\ prefill_progress'[r] = plan.end
      /\ \A s \in Ids \ {r} : prefill_progress'[s] = prefill_progress[s]
      /\ UNCHANGED <<param, state, output_tokens, block_table>>
  BY <1>1, <1>3 DEF CompletePrefillChunk, Core, CoreType
<1>7. Len(block_table[r]) >= BlocksForTokens(plan.end)
  <2>1. ~(Len(block_table[r]) * KvBlockSize < plan.end)
    <3>1. Len(block_table[r]) * KvBlockSize \in Int
      BY <1>4, SchedulerAssumption
    <3> QED BY <1>3, <3>1 DEF token_capacity
  <2> QED BY <1>3, <1>4, <2>1, CapacityShort, BlocksBounds
<1>8. Len(block_table[r]) <= BlocksForTokens(plan.end + PrefillChunk)
  <2>1. Len(block_table[r]) <= BlocksForTokens(prefill_progress[r] + PrefillChunk)
    BY <1>3 DEF PlanInv, TableFits
  <2>2. /\ prefill_progress[r] + PrefillChunk \in Nat /\ plan.end + PrefillChunk \in Nat
        /\ prefill_progress[r] + PrefillChunk <= plan.end + PrefillChunk
    BY <1>3, <1>4, <1>5
  <2>3. BlocksForTokens(prefill_progress[r] + PrefillChunk) <= BlocksForTokens(plan.end + PrefillChunk)
    BY <2>2, BlocksMono
  <2>4. /\ BlocksForTokens(prefill_progress[r] + PrefillChunk) \in Nat
        /\ BlocksForTokens(plan.end + PrefillChunk) \in Nat
    BY <2>2, BlocksBounds
  <2> QED BY <1>4, <2>1, <2>3, <2>4
<1>9. TableFits(r)'
  <2>1. Len(block_table[r]) <= BlocksForTokens(num_prompt_tokens(r))
    BY <1>3 DEF PlanInv, TableFits
  <2>2. state'[r] = "prefill" /\ num_prompt_tokens(r)' = num_prompt_tokens(r)
    BY <1>3, <1>6 DEF num_prompt_tokens
  <2> QED BY <1>6, <1>7, <1>8, <2>1, <2>2 DEF TableFits, BlocksForTokens
<1>10. ASSUME NEW s \in Ids \ {r} PROVE TableFits(s)'
  BY <1>6, FitsFrame DEF PlanInv
<1> QED BY <1>2, <1>9, <1>10, FitsNoPlan DEF PlanInv

\* A sampled token leaves the table exactly full enough, or the request done.
LEMMA FitsSampled ==
  ASSUME SchedInv, PlanInv, NEW r \in Ids, state[r] \in {"prefill", "running"},
         Len(block_table[r]) = BlocksForTokens(seq_len(r)),
         NEW sampled \in Tokens, ApplySampledToken(r, sampled),
         param' = param,
         \A s \in Ids \ {r} : prefill_progress'[s] = prefill_progress[s]
  PROVE  /\ \A s \in Ids : TableFits(s)'
         /\ \A s \in Ids \ {r} : RowFits(s) => RowFits(s)'
         /\ Len(results') = Len(results) + 1
<1>1. Core /\ StepType
  BY InvSplit
<1>2. results \in Seq(Result)
  BY <1>1 DEF StepType, Result
<1>3. /\ output_tokens' \in [Ids -> Seq(Tokens)]
      /\ Len(output_tokens'[r]) = Len(output_tokens[r]) + 1
      /\ \A s \in Ids \ {r} : output_tokens'[s] = output_tokens[s]
      /\ Len(results') = Len(results) + 1
      /\ \/ state' = [state EXCEPT ![r] = "running"] /\ block_table' = block_table
         \/ state' = [state EXCEPT ![r] = "finished"] /\ ReleaseResources(r)
  BY <1>1, <1>2, SampledToken
<1>4. /\ \A s \in Ids \ {r} : state'[s] = state[s] /\ block_table'[s] = block_table[s]
      /\ \/ state'[r] = "running" /\ block_table' = block_table
         \/ state'[r] = "finished"
  BY <1>1, <1>3 DEF Core, CoreType, Resources, ReleaseResources, ReleaseTable
<1>5. ASSUME NEW s \in Ids \ {r} PROVE TableFits(s)' /\ (RowFits(s) => RowFits(s)')
  BY <1>3, <1>4, FitsFrame, RowFrame DEF PlanInv
<1>6. TableFits(r)'
  <2>1. CASE state'[r] = "running" /\ block_table' = block_table
    <3>1. /\ seq_len(r) \in Nat /\ num_prompt_tokens(r) \in Nat /\ Len(output_tokens[r]) \in Nat
          /\ Len(block_table[r]) \in Nat
      BY Quantities
    <3>2. seq_len(r)' = seq_len(r) + 1
      <4>1. num_prompt_tokens(r)' = num_prompt_tokens(r)
        BY DEF num_prompt_tokens
      <4>2. seq_len(r)' = num_prompt_tokens(r) + (Len(output_tokens[r]) + 1)
        BY <1>3, <4>1 DEF seq_len
      <4> QED BY <3>1, <4>2 DEF seq_len
    <3>3. BlocksForTokens(seq_len(r)) <= BlocksForTokens(seq_len(r) + 1)
      BY <3>1, BlocksMono
    <3>4. (seq_len(r) + 1) - 1 = seq_len(r)
      BY <3>1
    <3>5. /\ BlocksForTokens(seq_len(r) - 1)' = BlocksForTokens(seq_len(r))
          /\ BlocksForTokens(seq_len(r))' = BlocksForTokens(seq_len(r) + 1)
      BY <3>2, <3>4 DEF BlocksForTokens
    <3>6. Len(block_table[r]) >= BlocksForTokens(seq_len(r))
      BY <3>1
    <3> QED BY <2>1, <3>3, <3>5, <3>6 DEF TableFits
  <2>2. CASE state'[r] = "finished"
    BY <2>2 DEF TableFits
  <2> QED BY <1>4, <2>1, <2>2
<1> QED BY <1>3, <1>5, <1>6

LEMMA FitsCompletePrefillFinal ==
  ASSUME SchedInv, PlanInv, NEW sampled \in Tokens, CompletePrefillFinal(sampled)
  PROVE  PlanInv'
<1>1. Core /\ StepType /\ PlanMatchesQueues
  BY InvSplit
<1>2. pc = "commit" /\ is_prefill /\ pc' = "return"
  BY DEF CompletePrefillFinal
<1>3. PICK r \in Ids : /\ r = plan.prefill /\ state[r] = "prefill"
                       /\ plan.end \in Nat /\ token_capacity(r) >= plan.end
  BY <1>2, CommittedPrefill
<1>4. Len(block_table[r]) \in Nat /\ num_prompt_tokens(r) \in Nat
  BY <1>3, Quantities
<1>5. seq_len(r) = num_prompt_tokens(r)
  <2>1. output_tokens[r] = <<>>
    BY <1>1, <1>3 DEF Core, ProgressMatchesState
  <2> QED BY <1>4, <2>1 DEF seq_len
<1>6. Len(block_table[r]) = BlocksForTokens(seq_len(r))
  <2>1. Len(block_table[r]) <= BlocksForTokens(num_prompt_tokens(r))
    BY <1>3 DEF PlanInv, TableFits
  <2>2. ~(Len(block_table[r]) * KvBlockSize < num_prompt_tokens(r))
    <3>1. Len(block_table[r]) * KvBlockSize \in Int
      BY <1>4, SchedulerAssumption
    <3>2. plan.end >= num_prompt_tokens(r) /\ Len(block_table[r]) * KvBlockSize >= plan.end
      BY <1>3 DEF CompletePrefillFinal, token_capacity
    <3> QED BY <1>3, <1>4, <3>1, <3>2
  <2>3. ~(Len(block_table[r]) < BlocksForTokens(num_prompt_tokens(r)))
    BY <1>4, <2>2, CapacityShort
  <2>4. BlocksForTokens(num_prompt_tokens(r)) \in Nat
    BY <1>4, BlocksBounds
  <2> QED BY <1>4, <1>5, <2>1, <2>3, <2>4
<1>7. \A s \in Ids \ {r} : prefill_progress'[s] = prefill_progress[s]
  BY <1>1, <1>3 DEF CompletePrefillFinal, Core, CoreType
<1>8. \A s \in Ids : TableFits(s)'
  BY <1>3, <1>6, <1>7, FitsSampled DEF CompletePrefillFinal
<1> QED BY <1>2, <1>8, FitsNoPlan DEF PlanInv

LEMMA FitsCompleteDecodeRow ==
  ASSUME SchedInv, PlanInv, NEW sampled \in Tokens, CompleteDecodeRow(sampled)
  PROVE  PlanInv'
<1>1. Core /\ StepType /\ PlanMatchesQueues
  BY InvSplit
<1>2. /\ pc = "commit" /\ ~is_prefill /\ RowsDone < Len(plan.decode)
      /\ UNCHANGED <<param, prefill_progress, pc, plan>>
  BY DEF CompleteDecodeRow
<1>3. /\ plan.decode \in Seq(Ids) /\ IsInjective(plan.decode) /\ plan.aborted \in Seq(Ids)
      /\ RowsDone \in 0 .. Len(plan.decode)
      /\ \A k \in RowsDone + 1 .. Len(plan.decode) : state[plan.decode[k]] = "running"
  BY <1>1, <1>2 DEF StepType, PlanMatchesQueues
<1>4. PICK n \in Nat : /\ n = RowsDone + 1 /\ n \in 1 .. Len(plan.decode)
                       /\ n \in RowsDone + 1 .. Len(plan.decode)
  <2>1. Len(plan.decode) \in Nat
    BY <1>3
  <2> QED BY <1>2, <1>3, <2>1
<1>5. PICK r \in Ids : r = plan.decode[n] /\ state[r] = "running"
  BY <1>3, <1>4
<1>6. Len(block_table[r]) = BlocksForTokens(seq_len(r))
  <2>1. RowFits(r)
    BY <1>2, <1>4, <1>5 DEF PlanInv, PlanFits
  <2>2. Len(block_table[r]) <= BlocksForTokens(seq_len(r))
    BY <1>5 DEF PlanInv, TableFits
  <2>3. Len(block_table[r]) \in Nat /\ seq_len(r) \in Nat
    BY <1>5, Quantities
  <2>4. BlocksForTokens(seq_len(r)) \in Nat
    BY <2>3, BlocksBounds
  <2> QED BY <2>1, <2>2, <2>3, <2>4 DEF RowFits
<1>7. ApplySampledToken(r, sampled)
  BY <1>4, <1>5 DEF CompleteDecodeRow
<1>8. /\ \A s \in Ids : TableFits(s)'
      /\ \A s \in Ids \ {r} : RowFits(s) => RowFits(s)'
      /\ Len(results') = Len(results) + 1
  BY <1>2, <1>5, <1>6, <1>7, FitsSampled
<1>9. RowsDone' = n
  <2>1. Len(results) \in Nat /\ Len(plan.aborted) \in Nat
    BY <1>1, <1>3 DEF StepType
  <2> QED BY <1>2, <1>4, <1>8, <2>1 DEF RowsDone
<1>10. ASSUME NEW k \in RowsDone' + 1 .. Len(plan'.decode) PROVE RowFits(plan.decode[k])'
  <2>1. k \in 1 .. Len(plan.decode) /\ k # n /\ k \in RowsDone + 1 .. Len(plan.decode)
    <3>1. Len(plan.decode) \in Nat /\ RowsDone \in Nat
      BY <1>3
    <3> QED BY <1>2, <1>4, <1>9, <3>1
  <2>2. PICK s \in Ids \ {r} : s = plan.decode[k] /\ s = plan'.decode[k] /\ RowFits(s)
    BY <1>2, <1>3, <1>4, <1>5, <2>1 DEF IsInjective, PlanInv, PlanFits
  <2> QED BY <1>8, <2>2 DEF RowFits, seq_len, num_prompt_tokens
<1>11. PlanFits'
  BY <1>2, <1>10 DEF PlanFits
<1> QED BY <1>8, <1>11 DEF PlanInv

-----------------------------------------------------------------------------
(***************************************************************************)
(* The induction.                                                          *)
(***************************************************************************)
LEMMA FitsNext == SchedInv /\ PlanInv /\ [SchedNext]_schedVars => PlanInv'
<1> SUFFICES ASSUME SchedInv, PlanInv, [SchedNext]_schedVars PROVE PlanInv'
  OBVIOUS
<1>1. ASSUME NEW p \in Workload, AddRequest(p) PROVE PlanInv'
  BY <1>1, FitsAddRequest
<1>2. CASE PlanStep
  BY <1>2, FitsAdmit, FitsPlanPrefill, FitsMaterializePrefillBlock, FitsPrefillPlanned,
     FitsPlanDecode, FitsDecodeRow, FitsDecodeRowReserved, FitsDecodeRowClaimed,
     FitsAbortYoungestRunning, FitsDecodePlanned DEF PlanStep
<1>3. CASE Execute BY <1>3, FitsExecute
<1>4. CASE CompleteStep
  BY <1>4, FitsCompletePrefillChunk, FitsCompletePrefillFinal, FitsCompleteDecodeRow, FitsEnd
     DEF CompleteStep
<1>5. CASE StepBegin \/ StepEmpty \/ ExecutorThrows \/ StepReturn
  BY <1>5, FitsEnd
<1>6. CASE UNCHANGED schedVars
  <2>1. UNCHANGED requestVars /\ UNCHANGED <<pc, plan, results>>
    BY <1>6 DEF schedVars, stepVars
  <2>2. UNCHANGED <<param, state, output_tokens, block_table>>
    BY <2>1 DEF requestVars
  <2>3. \A r \in Ids : TableFits(r)'
    BY <2>1, FitsQuiet
  <2>4. PlanFits'
    BY <2>1, <2>2 DEF PlanInv, PlanFits, is_prefill, RowsDone, RowFits, seq_len,
       num_prompt_tokens, BlocksForTokens
  <2> QED BY <2>3, <2>4 DEF PlanInv
<1> QED BY <1>1, <1>2, <1>3, <1>4, <1>5, <1>6 DEF SchedNext, StepActions

(***************************************************************************)
(* Tables and plans fit each other in every reachable state.               *)
(***************************************************************************)
THEOREM PlansFit == SchedSpec => []PlanInv
<1>1. SchedInit => PlanInv
  BY FitsInit
<1>2. SchedInv /\ PlanInv /\ [SchedNext]_schedVars => PlanInv'
  BY FitsNext
<1> QED BY <1>1, <1>2, SchedulerInvariant, PTL DEF SchedSpec

(***************************************************************************)
(* Lazy materialization never takes a block early, even when the step that *)
(* took one is thrown away and planned again.                              *)
(***************************************************************************)
THEOREM MaterializationIsLazy == SchedSpec => []NoOverAllocation
<1>1. ASSUME SchedInv, PlanInv PROVE NoOverAllocation
  <2>1. AdmissionOrder
    BY <1>1 DEF SchedInv
  <2>2. /\ \A r \in Range(running) : r \in Ids /\ state[r] = "running"
        /\ \A r \in Range(prefill_queue) : r \in Ids /\ state[r] = "prefill"
    BY <2>1 DEF AdmissionOrder
  <2> QED BY <1>1, <2>2 DEF NoOverAllocation, PlanInv, TableFits
<1> QED BY <1>1, SchedulerInvariant, PlansFit, PTL

\* No table outgrows the row the executor has for it.
LEMMA TableBounded ==
  ASSUME SchedInv, PlanInv, NEW r \in Ids
  PROVE  /\ Len(block_table[r]) <= BlocksForTokens(MaxSeqLen)
         /\ state[r] = "running" => seq_len(r) <= MaxSeqLen
<1>1. Core
  BY InvSplit
<1>2. MaxSeqLen \in Nat /\ BlocksForTokens(MaxSeqLen) \in Nat
  BY SchedulerAssumption, BlocksBounds
<1>3. Len(block_table[r]) \in Nat
  BY Quantities
<1>4. ASSUME NEW n \in Nat, n <= MaxSeqLen, Len(block_table[r]) <= BlocksForTokens(n)
      PROVE  Len(block_table[r]) <= BlocksForTokens(MaxSeqLen)
  <2>1. BlocksForTokens(n) \in Nat
    BY BlocksBounds
  <2>2. BlocksForTokens(n) <= BlocksForTokens(MaxSeqLen)
    BY <1>2, <1>4, BlocksMono
  <2> QED BY <1>2, <1>3, <1>4, <2>1, <2>2
<1>5. ASSUME state[r] \in {"prefill", "running"}
      PROVE  /\ num_prompt_tokens(r) \in Nat /\ param[r].max_new \in Nat
             /\ num_prompt_tokens(r) + param[r].max_new <= MaxSeqLen
  <2>1. ValidRequest(param[r])
    BY <1>1, <1>5 DEF Core, AcceptedValid
  <2>2. num_prompt_tokens(r) \in Nat /\ param[r].max_new \in Nat
    BY <1>1, <1>5, LiveBounds
  <2> QED BY <2>1, <2>2 DEF ValidRequest, num_prompt_tokens
<1>6. CASE state[r] = "prefill"
  <2>1. num_prompt_tokens(r) \in Nat /\ num_prompt_tokens(r) <= MaxSeqLen
    BY <1>2, <1>5, <1>6
  <2>2. Len(block_table[r]) <= BlocksForTokens(num_prompt_tokens(r))
    BY <1>6 DEF PlanInv, TableFits
  <2> QED BY <1>4, <1>6, <2>1, <2>2
<1>7. CASE state[r] = "running"
  <2>1. Len(output_tokens[r]) \in Nat /\ Len(output_tokens[r]) < param[r].max_new
    BY <1>1, <1>7, Quantities DEF Core, ProgressMatchesState
  <2>2. seq_len(r) \in Nat /\ seq_len(r) <= MaxSeqLen
    BY <1>2, <1>5, <1>7, <2>1 DEF seq_len
  <2>3. Len(block_table[r]) <= BlocksForTokens(seq_len(r))
    BY <1>7 DEF PlanInv, TableFits
  <2> QED BY <1>4, <2>2, <2>3
<1>8. CASE state[r] \notin {"prefill", "running"}
  <2>1. block_table[r] = <<>>
    BY <1>1, <1>8 DEF Core, OnlyAdmittedHold, Admitted
  <2> QED BY <1>2, <1>8, <2>1
<1> QED BY <1>6, <1>7, <1>8

LEMMA AcceptedPlan == SchedInv /\ PlanInv => ExecutorAccepts
<1>1. ASSUME SchedInv, PlanInv PROVE ExecutorAccepts
  <2> SUFFICES ASSUME pc = "planned"
               PROVE  ExecutorAccepts
    BY DEF ExecutorAccepts
  <2>1. Core /\ StepType /\ PlanMatchesQueues
    BY <1>1, InvSplit
  <2>2. ASSUME is_prefill
        PROVE  LET r == plan.prefill IN
               /\ plan.decode = <<>> /\ plan.aborted = <<>>
               /\ state[r] = "prefill" /\ plan.begin = prefill_progress[r]
               /\ plan.begin < plan.end /\ plan.end <= num_prompt_tokens(r)
               /\ plan.end - plan.begin <= PrefillChunk
               /\ Len(block_table[r]) >= BlocksForTokens(plan.end)
    <3>1. /\ prefill_queue # <<>> /\ plan.prefill = Head(prefill_queue)
          /\ plan.begin = prefill_progress[plan.prefill]
          /\ plan.begin < plan.end /\ plan.end <= num_prompt_tokens(plan.prefill)
          /\ plan.decode = <<>> /\ plan.aborted = <<>>
          /\ ~PrefillNeedsBlock
      BY <2>1, <2>2 DEF PlanMatchesQueues
    <3>2. PICK r \in Ids : r = plan.prefill /\ state[r] = "prefill"
      BY <2>1, <3>1, HeadPrefill
    <3>3. /\ plan.end <= plan.begin + PrefillChunk /\ plan.end \in Nat /\ plan.begin \in Nat
          /\ PrefillChunk \in Nat
      BY <1>1, <2>1, <2>2, SchedulerAssumption DEF PlanInv, PlanFits, StepType
    <3>4. plan.end - plan.begin <= PrefillChunk
      BY <3>3
    <3>5. Len(block_table[r]) \in Nat /\ BlocksForTokens(plan.end) \in Nat
      BY <1>1, <3>3, Quantities, BlocksBounds
    <3>6. ~(Len(block_table[r]) * KvBlockSize < plan.end)
      BY <3>1, <3>2 DEF PrefillNeedsBlock, token_capacity
    <3>7. Len(block_table[r]) >= BlocksForTokens(plan.end)
      BY <3>3, <3>5, <3>6, CapacityShort
    <3> QED BY <3>1, <3>2, <3>4, <3>7
  <2>3. Len(plan.decode) <= MaxBatch /\ IsInjective(plan.decode)
    BY <1>1, <2>1 DEF PlanInv, PlanFits, PlanMatchesQueues
  <2>4. ASSUME NEW r \in Range(plan.decode)
        PROVE  /\ r \in Ids /\ state[r] = "running"
               /\ output_tokens[r] # <<>>
               /\ seq_len(r) <= MaxSeqLen
               /\ Len(block_table[r]) >= BlocksForTokens(seq_len(r))
    <3>1. PICK k \in DOMAIN plan.decode : r = plan.decode[k]
      BY DEF Range
    <3>2. r \in Ids /\ state[r] = "running"
      BY <2>1, <3>1 DEF StepType, PlanMatchesQueues
    <3>3. RowFits(r)
      BY <1>1, <3>1 DEF PlanInv, PlanFits
    <3>4. output_tokens[r] # <<>>
      BY <2>1, <3>2 DEF Core, ProgressMatchesState
    <3> QED BY <1>1, <3>2, <3>3, <3>4, TableBounded DEF RowFits
  <2>5. \A r \in Ids : Len(block_table[r]) <= BlocksForTokens(MaxSeqLen)
    BY <1>1, TableBounded
  <2>6. ASSUME NEW r \in Range(plan.decode) PROVE r \notin Range(plan.aborted)
    <3>1. \A k \in DOMAIN plan.aborted : state[plan.aborted[k]] = "finished"
      BY <1>1 DEF PlanInv, PlanFits
    <3> QED BY <2>4, <3>1 DEF Range
  <2> QED BY <2>2, <2>3, <2>4, <2>5, <2>6 DEF ExecutorAccepts
<1> QED BY <1>1

(***************************************************************************)
(* Every plan the scheduler hands over passes the checks of                *)
(* FillPrefillMirrors and FillDecodeMirrors, for every block size, chunk   *)
(* size, batch size and sequence limit: no queue is wedged by a plan the   *)
(* executor would reject again and again.                                  *)
(***************************************************************************)
THEOREM PlansAreAccepted == SchedSpec => []ExecutorAccepts
BY AcceptedPlan, SchedulerInvariant, PlansFit, PTL

-----------------------------------------------------------------------------
(***************************************************************************)
(* Waiting requests and victims.                                           *)
(***************************************************************************)
LEMMA NoPromises ==
  ASSUME Resources, \A r \in Ids : reserved_blocks[r] = 0
  PROVE  reserved = 0
<1>1. Promises = {}
  BY UsableNat DEF Promises
<1> QED BY <1>1, FS_EmptySet DEF Resources, ReservationsExact

\* A pool with nothing handed out is whole again.
LEMMA WholePool ==
  ASSUME Resources, \A r \in Ids : block_table[r] = <<>>
  PROVE  Len(free_list) = usable_blocks
<1>1. outstanding = {}
  <2>1. \A r \in Ids : Range(block_table[r]) = {}
    BY DEF Range
  <2> QED BY <2>1 DEF Resources, BlockOwnership
<1>2. /\ free_list \in Seq(PoolBlocks) /\ Len(free_list) \in Nat
      /\ IsInjective(free_list) /\ Range(free_list) = PoolBlocks
  <2>1. free_list \in Seq(PoolBlocks) /\ Len(free_list) \in Nat
    BY DEF Resources, AllocTypeOK
  <2>2. FreeListExact
    BY DEF Resources, BlockOwnership
  <2>3. PoolBlocks \ {} = PoolBlocks
    OBVIOUS
  <2> QED BY <1>1, <2>1, <2>2, <2>3 DEF FreeListExact
<1>3. free_list \in Surjection(1 .. Len(free_list), PoolBlocks)
  BY <1>2 DEF Surjection, Range
<1>4. free_list \in Injection(1 .. Len(free_list), PoolBlocks)
  BY <1>2 DEF Injection
<1>5. /\ IsFiniteSet(1 .. Len(free_list)) /\ Cardinality(1 .. Len(free_list)) = Len(free_list)
      /\ Cardinality(PoolBlocks) = usable_blocks
  <2>1. \A n \in Nat : IsFiniteSet(1 .. n) /\ Cardinality(1 .. n) = n
    BY FS_Interval
  <2> QED BY <1>2, <2>1, UsableNat
<1>6. Cardinality(PoolBlocks) = Cardinality(1 .. Len(free_list))
  BY <1>3, <1>4, <1>5, FS_Surjection
<1> QED BY <1>5, <1>6

\* A pool with nothing admitted has everything free, and takes any valid request.
LEMMA IdlePoolFits ==
  ASSUME SchedInv, num_running = 0, waiting # <<>>
  PROVE  CanAdmitHead
<1>1. Core /\ CoreType /\ Resources
  BY InvSplit DEF Core
<1>2. PICK r \in Ids : r = Head(waiting) /\ state[r] = "waiting"
  BY <1>1, PopOldest DEF Core, CoreType, AdmissionOrder
<1>3. prefill_queue = <<>> /\ running = <<>>
  <2>1. Len(prefill_queue) \in Nat /\ Len(running) \in Nat
    BY <1>1 DEF CoreType
  <2>2. Len(prefill_queue) = 0 /\ Len(running) = 0
    BY <2>1 DEF num_running
  <2> QED BY <1>1, <2>2, EmptySeq DEF CoreType
<1>4. ASSUME NEW s \in Ids PROVE block_table[s] = <<>> /\ reserved_blocks[s] = 0
  <2>1. Range(<<>>) = {}
    BY DEF Range
  <2>2. state[s] # "running" /\ state[s] # "prefill"
    BY <1>1, <1>3, <2>1 DEF Core, AdmissionOrder
  <2> QED BY <1>1, <2>2 DEF Core, OnlyAdmittedHold, Admitted
<1>5. reserved = 0 /\ Len(free_list) = usable_blocks
  BY <1>1, <1>4, NoPromises, WholePool
<1>6. usable_blocks \in Nat /\ Len(free_list) - reserved = usable_blocks
  BY <1>5, UsableNat
<1>7. ValidRequest(param[r]) /\ ReservationFor(r) \in Nat
  BY <1>1, <1>2, LiveBounds DEF Core, AcceptedValid
<1>8. CanAdmit(r)
  <2>1. CASE AdmissionPolicy = "reserve_full"
    BY <1>6, <1>7, <2>1 DEF CanAdmit, CanReserve, ValidRequest, num_prompt_tokens, ReservationFor
  <2>2. CASE AdmissionPolicy # "reserve_full"
    BY <1>6, <1>7, <2>2 DEF CanAdmit, ValidRequest, num_prompt_tokens, AboveFloor
  <2> QED BY <2>1, <2>2
<1>9. num_running < MaxBatch
  BY SchedulerAssumption
<1> QED BY <1>2, <1>8, <1>9 DEF CanAdmitHead

(***************************************************************************)
(* With nothing admitted, the head of the waiting queue gets in: a request *)
(* that passed ValidateRequest never waits for a pool that cannot take it, *)
(* under both policies and for every free floor.                           *)
(***************************************************************************)
THEOREM IdlePoolTakesTheHead == SchedSpec => []IdlePoolAdmits
<1>1. SchedInv => IdlePoolAdmits
  BY IdlePoolFits DEF IdlePoolAdmits
<1> QED BY <1>1, SchedulerInvariant, PTL

\* A stop is never an abort.
LEMMA StopsAreNoAborts ==
  ASSUME SchedInv, NEW r \in Ids, NEW sampled \in Tokens, ApplySampledToken(r, sampled),
         NEW s \in Ids, finish_reason[s] # "aborted"
  PROVE  finish_reason'[s] # "aborted"
<1>1. finish_reason \in [Ids -> FinishReasons]
  BY InvSplit DEF Core, CoreType
<1>2. PICK why : why = StopReason(r, Appended(r, sampled))
  OBVIOUS
<1>3. why # "aborted"
  BY <1>2 DEF StopReason
<1>4. finish_reason' = finish_reason \/ finish_reason' = [finish_reason EXCEPT ![r] = why]
  BY <1>2 DEF ApplySampledToken
<1> QED BY <1>1, <1>3, <1>4

LEMMA AbortTakesYoungest ==
  ASSUME SchedInv, AbortYoungestRunning,
         NEW r \in Ids, finish_reason[r] # "aborted", finish_reason'[r] = "aborted"
  PROVE  /\ AdmissionPolicy = "watermark"
         /\ Len(free_list) = 0
         /\ \A s \in Admitted : s <= r
<1>1. Core /\ PlanMatchesQueues
  BY InvSplit
<1>2. CoreType /\ AdmissionOrder /\ Resources
  BY <1>1 DEF Core
<1>3. pc = "decode" /\ DecodeLoop /\ AdmissionPolicy = "watermark" /\ ~CanReserve(1)
  BY DEF AbortYoungestRunning
<1>4. running # <<>> /\ prefill_queue = <<>>
  BY <1>1, <1>3, CandidateRuns DEF PlanMatchesQueues
<1>5. \A s \in Ids : state[s] # "prefill"
  <2>1. Range(<<>>) = {}
    BY DEF Range
  <2> QED BY <1>2, <1>4, <2>1 DEF AdmissionOrder
<1>6. \A s \in Ids : reserved_blocks[s] = 0
  <2> SUFFICES ASSUME NEW s \in Ids PROVE reserved_blocks[s] = 0
    OBVIOUS
  <2>1. CASE state[s] = "running"
    BY <1>1, <1>3, <2>1 DEF Core, Quota
  <2>2. CASE state[s] # "running"
    BY <1>1, <1>5, <2>2 DEF Core, OnlyAdmittedHold, Admitted
  <2> QED BY <2>1, <2>2
<1>7. Len(free_list) = 0
  <2>1. reserved = 0
    BY <1>2, <1>6, NoPromises
  <2>2. Len(free_list) \in Nat
    BY <1>2 DEF Resources, AllocTypeOK
  <2> QED BY <1>3, <2>1, <2>2 DEF CanReserve
<1>8. r = Last(running)
  <2>1. finish_reason' = [finish_reason EXCEPT ![Last(running)] = "aborted"]
    BY DEF AbortYoungestRunning, Victim
  <2> QED BY <1>2, <2>1 DEF CoreType
<1>9. \A s \in Admitted : s <= r
  <2>1. \A s \in Range(running) : s <= Last(running)
    BY <1>2, <1>4, PopYoungest DEF CoreType, AdmissionOrder
  <2>2. \A s \in Admitted : s \in Range(running)
    BY <1>2, <1>5 DEF Admitted, AdmissionOrder
  <2> QED BY <1>8, <2>1, <2>2
<1> QED BY <1>3, <1>7, <1>9

(***************************************************************************)
(* Only the watermark policy aborts, only with an empty free list, and     *)
(* only ever the youngest admitted request.                                *)
(***************************************************************************)
THEOREM OnlyTheYoungestIsAborted == SchedSpec => AbortsYoungest
<1>1. SchedInv /\ [SchedNext]_schedVars =>
        [\A r \in Ids :
           finish_reason[r] # "aborted" /\ finish_reason'[r] = "aborted" =>
             /\ AdmissionPolicy = "watermark"
             /\ Len(free_list) = 0
             /\ \A s \in Admitted : s <= r]_schedVars
  <2> SUFFICES ASSUME SchedInv, SchedNext, NEW r \in Ids,
                      finish_reason[r] # "aborted", finish_reason'[r] = "aborted"
               PROVE  /\ AdmissionPolicy = "watermark"
                      /\ Len(free_list) = 0
                      /\ \A s \in Admitted : s <= r
    OBVIOUS
  <2>1. CASE AbortYoungestRunning
    BY <2>1, AbortTakesYoungest
  <2>2. ASSUME NEW sampled \in Tokens, CompletePrefillFinal(sampled) \/ CompleteDecodeRow(sampled)
        PROVE  FALSE
    <3>1. CASE CompletePrefillFinal(sampled)
      <4>1. ApplySampledToken(plan.prefill, sampled) /\ plan.prefill \in Ids
        BY <3>1, CommittedPrefill DEF CompletePrefillFinal
      <4> QED BY <4>1, StopsAreNoAborts
    <3>2. CASE CompleteDecodeRow(sampled)
      <4>1. ApplySampledToken(plan.decode[RowsDone + 1], sampled)
        BY <3>2 DEF CompleteDecodeRow
      <4>2. plan.decode[RowsDone + 1] \in Ids
        <5>1. /\ plan.decode \in Seq(Ids) /\ RowsDone \in 0 .. Len(plan.decode)
              /\ RowsDone < Len(plan.decode)
          BY <3>2, InvSplit DEF CompleteDecodeRow, StepType, PlanMatchesQueues
        <5>2. RowsDone + 1 \in 1 .. Len(plan.decode)
          <6>1. Len(plan.decode) \in Nat
            BY <5>1
          <6> QED BY <5>1, <6>1
        <5> QED BY <5>1, <5>2
      <4> QED BY <4>1, <4>2, StopsAreNoAborts
    <3> QED BY <2>2, <3>1, <3>2
  <2>3. CASE finish_reason' = finish_reason
    BY <2>3
  <2>4. ASSUME SchedNext, ~AbortYoungestRunning,
               \A sampled \in Tokens : ~CompletePrefillFinal(sampled) /\ ~CompleteDecodeRow(sampled)
        PROVE  finish_reason' = finish_reason
    <3>1. CASE \E p \in Workload : AddRequest(p)
      BY <3>1 DEF AddRequest
    <3>2. CASE PlanStep
      BY <2>4, <3>2 DEF PlanStep, Admit, PlanPrefill, MaterializePrefillBlock, PrefillPlanned,
         PlanDecode, DecodeRow, DecodeRowReserved, DecodeRowClaimed, DecodePlanned, requestVars
    <3>3. CASE StepBegin \/ StepEmpty \/ Execute \/ StepReturn \/ ExecutorThrows
      BY <3>3 DEF StepBegin, StepEmpty, Execute, StepReturn, ExecutorThrows, requestVars
    <3>4. CASE CompleteStep
      BY <2>4, <3>4 DEF CompleteStep, CompletePrefillChunk, CompleteDecode, requestVars
    <3> QED BY <2>4, <3>1, <3>2, <3>3, <3>4 DEF SchedNext, StepActions
  <2> QED BY <2>1, <2>2, <2>3, <2>4
<1> QED BY <1>1, SchedulerInvariant, PTL DEF SchedSpec, AbortsYoungest
================================================================================
