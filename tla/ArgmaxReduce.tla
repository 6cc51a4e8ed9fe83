----------------------------- MODULE ArgmaxReduce -----------------------------
(***************************************************************************)
(* One row of kernels/argmax.cu: the strided scan of every thread, the     *)
(* xor-shuffle tree of every warp, and thread 0's pass over the warps, in  *)
(* the vector kernel of either block size and in the scalar one.           *)
(***************************************************************************)
EXTENDS Integers, Sequences, SequencesExt

CONSTANTS
  kBlockThreadsSm80, kBlockThreads,     \* threads of a block
  WarpSize, VecWidth,                   \* lanes of a warp; columns of a vector load
  Logits,                               \* finite logits
  MaxVocab                              \* bound: columns of a row

ASSUME ArgmaxAssumption ==
  \A n \in {kBlockThreadsSm80, kBlockThreads} : n % WarpSize = 0 /\ n >= WarpSize

MinusInf == -1000
NaN == -2000
Values == Logits \cup {MinusInf, NaN}

VARIABLES
  row,                        \* the logits of a row, from column 0
  token                       \* out_tokens[row], NotLaunched before the launch

argmaxVars == <<row, token>>

NotLaunched == -1
vocab_size == Len(row)
Column(c) == row[c + 1]
Sentinel == [v |-> MinusInf, i |-> vocab_size]

-----------------------------------------------------------------------------
\* Mutant: of two equal values the incumbent stays.
BetterValue(x, best) == x.v # NaN /\ x.v > best.v

\* Does x beat best?  Equal values resolve to the lower index; a NaN never wins.
Better(x, best) == x.v # NaN /\ (x.v > best.v \/ (x.v = best.v /\ x.i < best.i))

Adopt(best, x) == IF Better(x, best) THEN x ELSE best

\* A thread's champion over its columns, in ascending order.
Scan(columns) ==
  FoldLeft(LAMBDA best, c : Adopt(best, [v |-> Column(c), i |-> c]), Sentinel, columns)

Strided(tid, threads, n) == [k \in 1 .. (n - tid + threads - 1) \div threads |-> tid + (k - 1) * threads]

\* Columns of thread tid: whole vector words, or single columns.
VecColumns(tid, threads) ==
  LET words == Strided(tid, threads, vocab_size \div VecWidth) IN
  FlattenSeq([k \in DOMAIN words |-> [j \in 1 .. VecWidth |-> words[k] * VecWidth + j - 1]])

ScalarColumns(tid, threads) == Strided(tid, threads, vocab_size)

\* One __shfl_xor_sync exchange: every lane meets the one `offset` away in its warp.
Exchange(champions, offset) ==
  [t \in DOMAIN champions |->
    LET lane  == t % WarpSize
        other == IF (lane \div offset) % 2 = 0 THEN t + offset ELSE t - offset
    IN Adopt(champions[t], champions[other])]

Offsets == LET Half[n \in 0 .. WarpSize] == IF n <= 1 THEN <<>> ELSE <<n \div 2>> \o Half[n \div 2]
           IN Half[WarpSize]

\* The shuffle tree, then the champions of the warps in ascending order.
BlockReduceArgmax(champions, threads) ==
  LET reduced == FoldLeft(Exchange, champions, Offsets)
      leaders == [w \in 1 .. threads \div WarpSize |-> reduced[(w - 1) * WarpSize]]
  IN FoldLeft(Adopt, Head(leaders), Tail(leaders))

Selected(best) == IF best.i >= vocab_size THEN 0 ELSE best.i

GreedyArgmaxVecKernel(threads) ==
  Selected(BlockReduceArgmax([t \in 0 .. threads - 1 |-> Scan(VecColumns(t, threads))], threads))

GreedyArgmaxKernel ==
  Selected(BlockReduceArgmax(
    [t \in 0 .. kBlockThreads - 1 |-> Scan(ScalarColumns(t, kBlockThreads))], kBlockThreads))

-----------------------------------------------------------------------------
ArgmaxInit ==
  /\ row \in UNION {[1 .. n -> Values] : n \in 1 .. MaxVocab}
  /\ token = NotLaunched

\* The scalar kernel takes rows that are no whole number of words, or an
\* unaligned base; the block size depends on the architecture.
LaunchGreedyArgmax(sm80, aligned) ==
  /\ token = NotLaunched
  /\ token' = IF vocab_size % VecWidth = 0 /\ aligned
              THEN GreedyArgmaxVecKernel(IF sm80 THEN kBlockThreadsSm80 ELSE kBlockThreads)
              ELSE GreedyArgmaxKernel
  /\ UNCHANGED row

Launched == token # NotLaunched /\ UNCHANGED argmaxVars

ArgmaxNext == Launched \/ \E sm80, aligned \in BOOLEAN : LaunchGreedyArgmax(sm80, aligned)

ArgmaxSpec == ArgmaxInit /\ [][ArgmaxNext]_argmaxVars

-----------------------------------------------------------------------------
(***************************************************************************)
(* Whatever the launch, the token is the first column that holds the       *)
(* largest logit of the row; NaN columns are ignored, a row of -inf still  *)
(* selects its first one, and a row of NaN selects token 0                 *)
(* (LaunchGreedyArgmax).                                                   *)
(***************************************************************************)
FirstMaximum ==
  LET numbers == {c \in 0 .. vocab_size - 1 : Column(c) # NaN} IN
  token # NotLaunched =>
    IF numbers = {} THEN token = 0
    ELSE /\ token \in numbers
         /\ \A c \in numbers : Column(c) <= Column(token) /\ (Column(c) = Column(token) => token <= c)
===============================================================================
