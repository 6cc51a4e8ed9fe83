------------------------- MODULE PagedAttentionProofs -------------------------
(***************************************************************************)
(* The decode attention is exact for every number of warps, heads, slots   *)
(* and tiles, every block table and both stagings, however the warps and   *)
(* their copies interleave.                                                *)
(***************************************************************************)
EXTENDS PagedAttention, FiniteSetTheorems, TLAPS

-----------------------------------------------------------------------------
(***************************************************************************)
(* Tiles and positions.                                                    *)
(***************************************************************************)
\* What the assumption says of the sizes.
LEMMA Sizes ==
  /\ NumWarps \in Nat /\ NumWarps > 0 /\ GroupSize \in Nat /\ GroupSize > 0
  /\ BlockSize \in Nat /\ BlockSize > 0 /\ HeadsPerWarp \in Nat /\ HeadsPerWarp > 0
  /\ HeadStride \in Nat /\ HeadStride > 0 /\ MaxBlocks \in Nat
  /\ DOMAIN TableRow = 0 .. MaxBlocks - 1 /\ GroupSize <= NumWarps * HeadsPerWarp
  BY AttentionAssumption

\* The smaller of two numbers.
LEMMA MinOfTwo ==
  ASSUME NEW a \in Int, NEW b \in Int
  PROVE  Min({a, b}) = IF a <= b THEN a ELSE b
<1> DEFINE x == IF a <= b THEN a ELSE b
<1>1. x \in {a, b} /\ \A y \in {a, b} : x <= y
  OBVIOUS
<1>2. \A z \in {a, b} : (\A y \in {a, b} : z <= y) => z = x
  OBVIOUS
<1> HIDE DEF x
<1>3. Min({a, b}) = x
  BY <1>1, <1>2 DEF Min
<1> QED BY <1>3 DEF x

\* Multiplying keeps the order.
LEMMA TimesMono ==
  ASSUME NEW a \in Nat, NEW b \in Nat, NEW c \in Nat, a <= b
  PROVE  a * c <= b * c
<1>1. PICK d \in Nat : b = a + d
  <2>1. b - a \in Nat /\ b = a + (b - a)
    OBVIOUS
  <2> QED BY <2>1
<1>2. d * c \in Nat /\ (a + d) * c = a * c + d * c
  OBVIOUS
<1> QED BY <1>1, <1>2

\* A tile is one of the sequence's exactly when its first position is.
LEMMA TileCount ==
  ASSUME AttentionTypeOK
  PROVE  /\ seq_len \in Nat /\ num_tiles \in Nat /\ num_tiles <= MaxBlocks
         /\ \A i \in Nat : i < num_tiles <=> i * BlockSize < seq_len
<1> USE Sizes
<1>1. launched_len \in Nat /\ MaxBlocks * BlockSize \in Nat
  BY DEF AttentionTypeOK
<1>2. seq_len = IF launched_len <= MaxBlocks * BlockSize THEN launched_len ELSE MaxBlocks * BlockSize
  BY <1>1, MinOfTwo DEF seq_len
<1>3. seq_len \in Nat /\ seq_len <= MaxBlocks * BlockSize
  BY <1>1, <1>2
<1>4. PICK s \in Nat : s = seq_len
  BY <1>3
<1>5. PICK n : n = num_tiles /\ n = (s + BlockSize - 1) \div BlockSize
  BY <1>4 DEF num_tiles
<1>6. n \in Nat /\ n * BlockSize <= s + BlockSize - 1 /\ s + BlockSize - 1 < n * BlockSize + BlockSize
  BY <1>5
<1>7. ASSUME NEW i \in Nat PROVE i < n <=> i * BlockSize < s
  <2>1. CASE i < n
    <3>1. (i + 1) * BlockSize <= n * BlockSize
      BY <1>6, <2>1, TimesMono
    <3>2. (i + 1) * BlockSize = i * BlockSize + BlockSize /\ i * BlockSize \in Nat /\ n * BlockSize \in Nat
      BY <1>6
    <3> QED BY <1>6, <2>1, <3>1, <3>2
  <2>2. CASE ~(i < n)
    <3>1. n * BlockSize <= i * BlockSize
      BY <1>6, <2>2, TimesMono
    <3>2. i * BlockSize \in Nat /\ n * BlockSize \in Nat
      BY <1>6
    <3> QED BY <1>6, <2>2, <3>1, <3>2
  <2> QED BY <2>1, <2>2
<1>8. n <= MaxBlocks
  <2>1. ~(MaxBlocks * BlockSize < s)
    BY <1>1, <1>3, <1>4
  <2> QED BY <1>6, <1>7, <2>1
<1> QED BY <1>3, <1>4, <1>5, <1>6, <1>7, <1>8, Zenon

\* The positions before the tile after i are those before i and those of i.
LEMMA BeforeTile ==
  ASSUME AttentionTypeOK, NEW i \in Nat, i < num_tiles
  PROVE  \E b \in Nat, s \in Nat :
           /\ b = i * BlockSize /\ s = seq_len /\ b < s /\ Before(i) = 0 .. b - 1
           /\ \A p : p \in Before(i + 1) <=> p \in Before(i) \/ (\E t \in Slots : p = b + t /\ p < s)
           /\ \A t \in Slots : t < tile_valid(i) <=> b + t < s
<1> USE Sizes
<1>1. PICK s \in Nat : s = seq_len
  BY TileCount
<1>2. PICK b \in Nat : b = i * BlockSize /\ (i + 1) * BlockSize = b + BlockSize
  OBVIOUS
<1>3. b < s
  BY <1>1, <1>2, TileCount
<1>4. Before(i) = 0 .. b - 1
  <2>1. Min({b, s}) = b
    BY <1>3, MinOfTwo
  <2> QED BY <1>1, <1>2, <2>1 DEF Before
<1>5. Before(i + 1) = 0 .. (IF b + BlockSize <= s THEN b + BlockSize ELSE s) - 1
  <2>1. Min({b + BlockSize, s}) = IF b + BlockSize <= s THEN b + BlockSize ELSE s
    BY MinOfTwo
  <2> QED BY <1>1, <1>2, <2>1 DEF Before
<1>6. \A p : p \in Before(i + 1) <=> p \in Before(i) \/ (\E t \in Slots : p = b + t /\ p < s)
  <2>1. ASSUME NEW p, p \in Before(i + 1), p \notin Before(i)
        PROVE  \E t \in Slots : p = b + t /\ p < s
    <3>1. p \in Nat /\ p >= b /\ p - b \in Slots /\ p = b + (p - b) /\ p < s
      BY <1>3, <1>4, <1>5, <2>1 DEF Slots
    <3> QED BY <3>1
  <2>2. ASSUME NEW p, p \in Before(i) PROVE p \in Before(i + 1)
    BY <1>3, <1>4, <1>5, <2>2
  <2>3. ASSUME NEW t \in Slots, b + t < s PROVE b + t \in Before(i + 1)
    BY <1>5, <2>3 DEF Slots
  <2> QED BY <2>1, <2>2, <2>3
<1>7. \A t \in Slots : t < tile_valid(i) <=> b + t < s
  <2>1. tile_valid(i) = IF BlockSize <= s - b THEN BlockSize ELSE s - b
    BY <1>1, <1>2, MinOfTwo DEF tile_valid
  <2> QED BY <1>3, <2>1 DEF Slots
<1> QED BY <1>1, <1>2, <1>3, <1>4, <1>6, <1>7, Zenon

\* All positions are before the tile after the last.
LEMMA BeforeEnd ==
  ASSUME AttentionTypeOK
  PROVE  Before(num_tiles) = 0 .. seq_len - 1 /\ Before(0) = {} /\ SumTo(0) = Zero
<1> USE Sizes
<1>1. PICK s \in Nat, n \in Nat : s = seq_len /\ n = num_tiles
  BY TileCount
<1>2. n * BlockSize \in Nat /\ ~(n * BlockSize < s)
  BY <1>1, TileCount
<1>3. Min({n * BlockSize, s}) = s
  BY <1>2, MinOfTwo
<1>4. 0 * BlockSize = 0 /\ Min({0, s}) = 0
  BY MinOfTwo
<1>5. Before(0) = {}
  <2>1. Before(0) = 0 .. Min({0 * BlockSize, s}) - 1
    BY <1>1, Zenon DEF Before
  <2>2. Before(0) = 0 .. 0 - 1
    BY <1>4, <2>1, Zenon
  <2> QED BY <2>2
<1> QED BY <1>1, <1>3, <1>5 DEF Before, SumTo, Zero

-----------------------------------------------------------------------------
(***************************************************************************)
(* What a tile does to a maximum and to a sum of weights.                  *)
(***************************************************************************)
\* As many weights relative to one maximum as positions weighted.
LEMMA OneWeightEach ==
  ASSUME NEW S, NEW r, IsFiniteSet(S)
  PROVE  Cardinality({<<p, r>> : p \in S}) = Cardinality(S)
<1> DEFINE T == {<<p, r>> : p \in S}
           f == [p \in S |-> <<p, r>>]
<1>1. f \in [S -> T]
  OBVIOUS
<1>2. \A a, b \in S : f[a] = f[b] => a = b
  OBVIOUS
<1>3. \A q \in T : \E p \in S : f[p] = q
  OBVIOUS
<1>4. f \in Bijection(S, T)
  BY <1>1, <1>2, <1>3 DEF Bijection, Injection, IsInjective, Surjection
<1>5. ExistsBijection(S, T)
  BY <1>4 DEF ExistsBijection
<1> QED BY <1>5, FS_Bijection

\* The weights of tile i complete a sum over the tiles before it: none is
\* counted twice.
LEMMA WeightsAdded ==
  ASSUME AttentionTypeOK, NEW i \in Nat, i < num_tiles
  PROVE  LET live == {t \in Slots : t < tile_valid(i)}
             W    == {<<i * BlockSize + t, Before(i + 1)>> : t \in live}
         IN Plus([ref |-> Before(i + 1), terms |-> Before(i)], W) = SumTo(i + 1)
<1> DEFINE live == {t \in Slots : t < tile_valid(i)}
           W    == {<<i * BlockSize + t, Before(i + 1)>> : t \in live}
           A    == {i * BlockSize + t : t \in live}
<1> USE Sizes
<1>1. PICK b \in Nat, s \in Nat :
        /\ b = i * BlockSize /\ s = seq_len /\ b < s /\ Before(i) = 0 .. b - 1
        /\ \A p : p \in Before(i + 1) <=> p \in Before(i) \/ (\E t \in Slots : p = b + t /\ p < s)
        /\ \A t \in Slots : t < tile_valid(i) <=> b + t < s
  BY BeforeTile, Zenon
<1>3. PICK R : R = Before(i + 1)
  OBVIOUS
<1>4. PICK Q : Q = Before(i) /\ Q = 0 .. b - 1
  BY <1>1
<1>5. live = {t \in Slots : b + t < s}
  BY <1>1
<1>6. A = {b + t : t \in live} /\ W = {<<b + t, R>> : t \in live}
  BY <1>1, <1>3
<1> HIDE DEF live
<1>7. W = {<<p, R>> : p \in A} /\ {x[1] : x \in W} = A
  <2>1. \A p : <<p, R>>[1] = p
    OBVIOUS
  <2>2. \A x : x \in W <=> \E p \in A : x = <<p, R>>
    BY <1>6, Zenon
  <2>3. W = {<<p, R>> : p \in A}
    BY <2>2
  <2> HIDE DEF W, A
  <2>4. \A q : q \in {x[1] : x \in W} <=> q \in A
    BY <2>1, <2>3, Zenon
  <2> QED BY <2>3, <2>4
<1>8. live \subseteq Nat /\ \A t \in live : b + t >= b /\ b + t < b + BlockSize
  BY <1>5 DEF Slots
<1>9. A \subseteq b .. b + BlockSize - 1
  <2>1. \A t \in live : b + t \in b .. b + BlockSize - 1
    BY <1>8
  <2> QED BY <1>6, <2>1, Zenon
<1>10. IsFiniteSet(A)
  <2>1. IsFiniteSet(b .. b + BlockSize - 1)
    BY FS_Interval
  <2> HIDE DEF A
  <2> QED BY <1>9, <2>1, FS_Subset
<1>11. Cardinality(W) = Cardinality(A)
  <2>1. PICK S : S = A /\ IsFiniteSet(S) /\ W = {<<p, R>> : p \in S}
    BY <1>7, <1>10
  <2>2. Cardinality({<<p, R>> : p \in S}) = Cardinality(S)
    BY <2>1, OneWeightEach
  <2> HIDE DEF W, A
  <2> QED BY <2>1, <2>2
<1>12. A \cap Q = {}
  BY <1>4, <1>9
<1>13. Q \cup A = R
  <2>1. \A p : p \in R <=> p \in Q \/ (\E t \in Slots : p = b + t /\ p < s)
    BY <1>1, <1>3, <1>4, Zenon
  <2>2. \A p : p \in A <=> \E t \in Slots : p = b + t /\ p < s
    BY <1>5, <1>6
  <2> QED BY <2>1, <2>2, Zenon
<1>14. \A x \in W : x[2] = R
  BY <1>7
<1> HIDE DEF W, A
<1>15. Plus([ref |-> R, terms |-> Q], W) = [ref |-> R, terms |-> Q \cup A]
  <2>1. PICK sum : sum = [ref |-> R, terms |-> Q]
    OBVIOUS
  <2>2. sum.ref = R /\ sum.terms = Q
    BY <2>1
  <2>4. PICK U : U = Q \cup A
    OBVIOUS
  <2>5. [sum EXCEPT !.terms = U] = [ref |-> R, terms |-> U]
    BY <2>1
  <2>3. Plus(sum, W) = [sum EXCEPT !.terms = Q \cup A]
    BY <1>7, <1>11, <1>12, <1>14, <2>2 DEF Plus
  <2> QED BY <2>1, <2>3, <2>4, <2>5, Zenon
<1> QED BY <1>3, <1>4, <1>13, <1>15 DEF SumTo, W, live

\* A sum relative to the old maximum, rescaled by alpha, is relative to the new.
LEMMA RescaledTo ==
  ASSUME NEW Q, NEW R
  PROVE  Rescaled([ref |-> Q, terms |-> Q], [old |-> Q, new |-> R]) = [ref |-> R, terms |-> Q]
<1>1. PICK sum, a : sum = [ref |-> Q, terms |-> Q] /\ a = [old |-> Q, new |-> R]
  OBVIOUS
<1>2. sum.ref = Q /\ sum.terms = Q /\ a.old = Q /\ a.new = R /\ [sum EXCEPT !.ref = R] = [ref |-> R, terms |-> Q]
  BY <1>1
<1>3. sum = Zero => Q = {}
  BY <1>1 DEF Zero
<1>4. Rescaled(sum, a) = [ref |-> R, terms |-> Q]
  BY <1>2, <1>3 DEF Rescaled
<1> QED BY <1>1, <1>4

\* A sum over the tiles before i, rescaled, takes in tile i.
LEMMA TileSummed ==
  ASSUME AttentionTypeOK, NEW i \in Nat, i < num_tiles
  PROVE  Plus(Rescaled(SumTo(i), [old |-> Before(i), new |-> Before(i + 1)]),
              {<<i * BlockSize + t, Before(i + 1)>> : t \in {t \in Slots : t < tile_valid(i)}})
           = SumTo(i + 1)
<1>1. Rescaled(SumTo(i), [old |-> Before(i), new |-> Before(i + 1)])
        = [ref |-> Before(i + 1), terms |-> Before(i)]
  BY RescaledTo DEF SumTo
<1> QED BY <1>1, WeightsAdded, Zenon

\* The maximum after the scores of tile i.
LEMMA TileMaximum ==
  ASSUME AttentionTypeOK, NEW i \in Nat, i < num_tiles, NEW sc,
         \A t \in Slots : sc[t] = ScoreOf(i, t)
  PROVE  Before(i) \cup {s[1] : s \in {sc[t] : t \in Slots} \ {Masked}} = Before(i + 1)
<1> USE Sizes
<1>1. PICK b \in Nat, n \in Nat :
        /\ b = i * BlockSize /\ n = seq_len
        /\ \A p : p \in Before(i + 1) <=> p \in Before(i) \/ (\E t \in Slots : p = b + t /\ p < n)
  BY BeforeTile, Zenon
<1>2. \A t \in Slots : sc[t] = IF b + t < n THEN <<b + t, {}>> ELSE <<-1, {}>>
  BY <1>1 DEF ScoreOf, Raw, Masked
<1>3. \A t \in Slots : t \in Nat
  BY DEF Slots
<1>4. Masked = <<-1, {}>>
  BY DEF Masked, Raw
<1>5. PICK X : X = {sc[t] : t \in Slots} \ {Masked}
  OBVIOUS
<1>6. \A t \in Slots : <<b + t, {}>>[1] = b + t /\ <<b + t, {}>> # <<-1, {}>>
  BY <1>3
<1>7. \A x : x \in X <=> \E t \in Slots : b + t < n /\ x = <<b + t, {}>>
  BY <1>2, <1>4, <1>5, <1>6, Zenon
<1>8. \A q : q \in {x[1] : x \in X} <=> \E x \in X : q = x[1]
  OBVIOUS
<1>9. \A q : q \in {x[1] : x \in X} <=> \E t \in Slots : q = b + t /\ q < n
  <2>1. ASSUME NEW x \in X PROVE \E t \in Slots : x[1] = b + t /\ x[1] < n
    <3>1. PICK t \in Slots : b + t < n /\ x = <<b + t, {}>>
      BY <1>7, Zenon
    <3> QED BY <1>6, <3>1
  <2>2. ASSUME NEW q, NEW t \in Slots, q = b + t, q < n PROVE q \in {x[1] : x \in X}
    <3>1. <<b + t, {}>> \in X
      BY <1>7, <2>2, Zenon
    <3> QED BY <1>6, <1>8, <2>2, <3>1
  <2>3. ASSUME NEW q, q \in {x[1] : x \in X} PROVE \E t \in Slots : q = b + t /\ q < n
    <3>1. PICK x \in X : q = x[1]
      BY <1>8, <2>3
    <3>2. PICK t \in Slots : x[1] = b + t /\ x[1] < n
      BY <2>1
    <3> QED BY <3>1, <3>2
  <2> QED BY <2>2, <2>3, Zenon
<1>10. Before(i) \cup {x[1] : x \in X} = Before(i + 1)
  BY <1>1, <1>9, Zenon
<1> QED BY <1>5, <1>10, Zenon

-----------------------------------------------------------------------------
(***************************************************************************)
(* What a step leaves alone.                                               *)
(***************************************************************************)
\* The launch fixes the sequence, its tiles and the pool.
LEMMA LaunchFixed ==
  ASSUME UNCHANGED launchVars
  PROVE  /\ cp_async' = cp_async /\ seq_len' = seq_len /\ num_tiles' = num_tiles
         /\ \A i : Before(i)' = Before(i) /\ SumTo(i)' = SumTo(i) /\ Buffer(i)' = Buffer(i)
         /\ \A i, t : RowAt(i, t)' = RowAt(i, t) /\ ScoreOf(i, t)' = ScoreOf(i, t)
                      /\ WeightOf(i, t)' = WeightOf(i, t)
<1>1. cp_async' = cp_async /\ launched_len' = launched_len /\ pool' = pool
  BY DEF launchVars
<1>2. seq_len' = seq_len
  BY <1>1, Zenon DEF seq_len
<1>3. num_tiles' = num_tiles
  BY <1>2, Zenon DEF num_tiles
<1>4. \A i : Before(i)' = Before(i) /\ SumTo(i)' = SumTo(i) /\ Buffer(i)' = Buffer(i)
  BY <1>1, <1>2, Zenon DEF Before, SumTo, Buffer
<1>5. \A i, t : RowAt(i, t)' = RowAt(i, t)
  BY <1>1, Zenon DEF RowAt
<1>6. \A i, t : ScoreOf(i, t)' = ScoreOf(i, t) /\ WeightOf(i, t)' = WeightOf(i, t)
  BY <1>2, <1>4, Zenon DEF ScoreOf, WeightOf, Before
<1> QED BY <1>1, <1>2, <1>3, <1>4, <1>5, <1>6, Zenon

\* Staged rows stay while nobody writes the buffers.
LEMMA RowsKept ==
  ASSUME UNCHANGED launchVars, UNCHANGED kv_tile, NEW w, NEW i, Fetched(w, i)
  PROVE  Fetched(w, i)'
<1>1. Buffer(i)' = Buffer(i) /\ \A t : RowAt(i, t)' = RowAt(i, t)
  BY LaunchFixed, Zenon
<1> QED BY <1>1, Zenon DEF Fetched

\* A copy puts the warp's rows of its tile in place, and touches no other row.
LEMMA RowsCopied ==
  ASSUME AttentionTypeOK, UNCHANGED launchVars, NEW w \in Warps, NEW j \in Nat,
         kv_tile' = Copied(w, j)
  PROVE  /\ Fetched(w, j)'
         /\ \A v \in Warps, k \in Nat : Fetched(v, k) /\ (v # w \/ Buffer(k) # Buffer(j)) => Fetched(v, k)'
         /\ kv_tile' = [b \in {0, 1} |-> [t \in Slots |-> kv_tile'[b][t]]]
<1> USE Sizes
<1>1. PICK c : c = Buffer(j)
  OBVIOUS
<1>2. \A k \in Nat : Buffer(k) \in {0, 1}
  BY DEF Buffer
<1>3. kv_tile = [b \in {0, 1} |-> [t \in Slots |-> kv_tile[b][t]]]
  BY DEF AttentionTypeOK
<1>4. kv_tile' = [kv_tile EXCEPT ![c] = [t \in Slots |->
                    IF t \in StagedBy(w) THEN RowAt(j, t) ELSE kv_tile[c][t]]]
  BY <1>1 DEF Copied, RowAt
<1>5. c \in {0, 1}
  BY <1>1, <1>2
<1>6. /\ \A t \in StagedBy(w) : kv_tile'[c][t] = RowAt(j, t)
      /\ \A t \in Slots \ StagedBy(w) : kv_tile'[c][t] = kv_tile[c][t]
      /\ \A b \in {0, 1} : b # c => kv_tile'[b] = kv_tile[b]
  BY <1>3, <1>4, <1>5 DEF StagedBy
<1>7. kv_tile' = [b \in {0, 1} |-> [t \in Slots |-> kv_tile'[b][t]]]
  BY <1>3, <1>4, <1>5
<1>8. \A k : Buffer(k)' = Buffer(k) /\ \A t : RowAt(k, t)' = RowAt(k, t)
  BY LaunchFixed, Zenon
<1>9. Fetched(w, j)'
  BY <1>1, <1>6, <1>8, Zenon DEF Fetched
<1>10. ASSUME NEW v \in Warps, NEW k \in Nat, Fetched(v, k), v # w \/ Buffer(k) # Buffer(j)
       PROVE  Fetched(v, k)'
  <2>1. SUFFICES ASSUME NEW t \in StagedBy(v) PROVE kv_tile'[Buffer(k)][t] = RowAt(k, t)
    BY <1>8, Zenon DEF Fetched
  <2>2. kv_tile[Buffer(k)][t] = RowAt(k, t) /\ t \in Slots
    BY <1>10 DEF Fetched, StagedBy
  <2>3. v # w => t \notin StagedBy(w)
    BY DEF StagedBy
  <2> QED BY <1>1, <1>2, <1>6, <1>10, <2>2, <2>3
<1> QED BY <1>7, <1>9, <1>10

\* Every step keeps the shape of the state and the launch's inputs.
LEMMA TypeStep ==
  ASSUME AttentionTypeOK, AttentionNext \/ UNCHANGED attentionVars
  PROVE  AttentionTypeOK' /\ UNCHANGED launchVars
<1> USE DEF AttentionTypeOK, launchVars, softmaxVars
<1>1. CASE \E w \in Warps : Setup(w)
  BY <1>1 DEF Setup, At
<1>2. CASE \E w \in Warps : Stage(w)
  <2>1. PICK w \in Warps : Stage(w)
    BY <1>2
  <2>2. UNCHANGED launchVars /\ tile[w] \in Nat
    BY <2>1 DEF Stage
  <2>3. UNCHANGED kv_tile \/ kv_tile' = Copied(w, tile[w])
    BY <2>1 DEF Stage
  <2>4. kv_tile' = [b \in {0, 1} |-> [t \in Slots |-> kv_tile'[b][t]]]
    BY <2>2, <2>3, RowsCopied
  <2> QED BY <2>1, <2>2, <2>4 DEF Stage, At
<1>3. CASE \E w \in Warps : WaitPrior(w)
  BY <1>3 DEF WaitPrior, At
<1>4. CASE \E w \in Warps : Score(w)
  BY <1>4 DEF Score, At
<1>5. CASE \E w \in Warps : Probabilities(w)
  BY <1>5 DEF Probabilities, At
<1>6. CASE \E w \in Warps : Fold(w)
  <2>1. PICK w \in Warps : Fold(w)
    BY <1>6
  <2>2. /\ UNCHANGED <<launchVars, in_flight, kv_tile, stored>> /\ DOMAIN acc' = DOMAIN acc
        /\ tile' = [tile EXCEPT ![w] = @ + 1] /\ DOMAIN pc' = DOMAIN pc
    BY <2>1 DEF Fold, At
  <2> QED BY <2>2
<1>7. CASE \E w \in Warps : Epilogue(w)
  BY <1>7 DEF Epilogue, At
<1>8. CASE \E w \in Warps : \E i \in in_flight[w] : Land(w, i)
  <2>0. PICK w \in Warps : \E i \in in_flight[w] : Land(w, i)
    BY <1>8
  <2>1. PICK i \in in_flight[w] : Land(w, i)
    BY <2>0
  <2>2. UNCHANGED launchVars /\ i \in Nat /\ kv_tile' = Copied(w, i)
    BY <2>1 DEF Land
  <2>3. kv_tile' = [b \in {0, 1} |-> [t \in Slots |-> kv_tile'[b][t]]]
    BY <2>2, RowsCopied
  <2> QED BY <2>1, <2>2, <2>3 DEF Land
<1>9. CASE \E from, to \in {"sync_staged", "score", "sync_scored", "prob", "sync_prob", "fold",
                            "sync_folded", "top"} : Syncthreads(from, to)
  BY <1>9 DEF Syncthreads
<1>10. CASE Exited \/ UNCHANGED attentionVars
  BY <1>10 DEF Exited, attentionVars
<1> QED BY <1>1, <1>2, <1>3, <1>4, <1>5, <1>6, <1>7, <1>8, <1>9, <1>10 DEF AttentionNext

\* No step writes the pool.
LEMMA PoolStep ==
  ASSUME PoolExact, UNCHANGED launchVars
  PROVE  PoolExact'
<1>1. seq_len' = seq_len /\ \A i, t : RowAt(i, t)' = RowAt(i, t)
  BY LaunchFixed, Zenon
<1> QED BY <1>1, Zenon DEF PoolExact

\* The warp is where it was, and has in its registers what it had.
WarpRests(w) ==
  /\ pc'[w] = pc[w] /\ tile'[w] = tile[w] /\ in_flight'[w] = in_flight[w]
  /\ acc'[w] = acc[w] /\ stored'[w] = stored[w]

\* A warp's accumulators are its own.
LEMMA AccumulatedKept ==
  ASSUME UNCHANGED launchVars, NEW w, acc'[w] = acc[w], NEW i, Accumulated(w, i)
  PROVE  Accumulated(w, i)'
<1>1. SumTo(i)' = SumTo(i)
  BY LaunchFixed, Zenon
<1> QED BY <1>1, Zenon DEF Accumulated

\* A warp holds its rows as long as its groups and its buffer rows stay.
LEMMA HoldsKept ==
  ASSUME UNCHANGED launchVars, NEW w, NEW i, in_flight'[w] = in_flight[w], Holds(w, i),
         \A k \in {i, i + 1} : Fetched(w, k) => Fetched(w, k)'
  PROVE  Holds(w, i)'
<1>1. cp_async' = cp_async /\ num_tiles' = num_tiles
  BY LaunchFixed, Zenon
<1>2. Fetched(w, i)'
  BY DEF Holds
<1>3. cp_async => Requested(w, i + 1)'
  BY <1>1 DEF Holds, Requested
<1> QED BY <1>1, <1>2, <1>3 DEF Holds

\* A warp that does nothing stays in the staging section.
LEMMA StagingWarpKept ==
  ASSUME UNCHANGED launchVars, NEW w, NEW i, WarpRests(w), StagingWarp(w, i),
         \A k \in {i, i + 1} : Fetched(w, k) => Fetched(w, k)'
  PROVE  StagingWarp(w, i)'
<1>1. cp_async' = cp_async /\ num_tiles' = num_tiles /\ SumTo(i)' = SumTo(i)
  BY LaunchFixed, Zenon
<1>2. Accumulated(w, i)'
  BY AccumulatedKept DEF StagingWarp, WarpRests
<1>3. Holds(w, i) => Holds(w, i)'
  BY HoldsKept DEF WarpRests
<1>4. (Requested(w, i) => Requested(w, i)') /\ (Requested(w, i + 1) => Requested(w, i + 1)')
  BY <1>1 DEF Requested, WarpRests
<1> QED BY <1>1, <1>2, <1>3, <1>4 DEF StagingWarp, WarpRests

\* What a head's softmax state says stays said while nobody writes it.
LEMMA HeadKept ==
  ASSUME UNCHANGED launchVars, NEW h, m'[h] = m[h], l'[h] = l[h], NEW i, MaxAndSum(h, i)
  PROVE  MaxAndSum(h, i)'
<1>1. Before(i)' = Before(i) /\ SumTo(i)' = SumTo(i)
  BY LaunchFixed, Zenon
<1> QED BY <1>1, Zenon DEF MaxAndSum

\* The same for a scored head.
LEMMA ScoredKept ==
  ASSUME UNCHANGED launchVars, NEW h, m'[h] = m[h], l'[h] = l[h], scores'[h] = scores[h],
         NEW i, Scored(h, i)
  PROVE  Scored(h, i)'
<1>1. MaxAndSum(h, i)'
  BY HeadKept, Zenon DEF Scored
<1>2. \A t : ScoreOf(i, t)' = ScoreOf(i, t)
  BY LaunchFixed, Zenon
<1> QED BY <1>1, <1>2, Zenon DEF Scored

\* The same for a weighed head.
LEMMA WeighedKept ==
  ASSUME UNCHANGED launchVars, NEW h, m'[h] = m[h], l'[h] = l[h], scores'[h] = scores[h],
         alpha'[h] = alpha[h], NEW i, Weighed(h, i)
  PROVE  Weighed(h, i)'
<1>1. MaxAndSum(h, i + 1)'
  BY HeadKept, Zenon DEF Weighed
<1>2. Before(i)' = Before(i) /\ Before(i + 1)' = Before(i + 1) /\ \A t : WeightOf(i, t)' = WeightOf(i, t)
  BY LaunchFixed, Zenon
<1> QED BY <1>1, <1>2, Zenon DEF Weighed

-----------------------------------------------------------------------------
(***************************************************************************)
(* Staging a tile.                                                         *)
(***************************************************************************)
\* Clearing the softmax state keeps the staging section.
LEMMA SetupStep ==
  ASSUME AttentionTypeOK, NEW i \in Nat, Staging(i), NEW w \in Warps, Setup(w)
  PROVE  Staging(i)'
<1>0. UNCHANGED launchVars /\ UNCHANGED kv_tile
  BY DEF Setup
<1>1. cp_async' = cp_async /\ num_tiles' = num_tiles /\ num_tiles \in Nat
  BY <1>0, LaunchFixed, TileCount, Zenon
<1>2. StagingWarp(w, i) /\ pc[w] = "setup" /\ i = 0 /\ i < num_tiles
  BY DEF Staging, StagingWarp, Setup, At
<1>3. \A v \in Warps : \A k : Fetched(v, k) => Fetched(v, k)'
  BY <1>0, RowsKept
<1>4. ASSUME NEW v \in Warps, v # w PROVE StagingWarp(v, i)'
  <2>1. WarpRests(v)
    BY <1>4 DEF WarpRests, Setup, At, AttentionTypeOK
  <2> QED BY <1>0, <1>3, <2>1, StagingWarpKept DEF Staging
<1>5. StagingWarp(w, i)'
  <2>1. /\ pc'[w] = "top" /\ tile'[w] = i
        /\ in_flight'[w] = IF cp_async THEN {0} ELSE {}
    BY <1>2 DEF Setup, At, AttentionTypeOK, StagingWarp
  <2>2. Accumulated(w, i)'
    <3>1. acc'[w] = acc[w]
      BY DEF Setup
    <3> QED BY <1>0, <1>2, <3>1, AccumulatedKept DEF StagingWarp
  <2>3. cp_async => Requested(w, i)'
    BY <1>2, <2>1 DEF Requested
  <2> QED BY <1>1, <1>2, <2>1, <2>2, <2>3 DEF StagingWarp
<1>6. ASSUME pc'[0] # "setup", NEW h \in Heads PROVE MaxAndSum(h, i)'
  <2>1. CASE w = 0
    <3>1. m'[h] = {} /\ l'[h] = Zero
      BY <2>1 DEF Setup
    <3>2. Before(0) = {} /\ SumTo(0) = Zero /\ Before(i)' = Before(i) /\ SumTo(i)' = SumTo(i)
      BY <1>0, BeforeEnd, LaunchFixed, Zenon
    <3> QED BY <1>2, <3>1, <3>2, Zenon DEF MaxAndSum
  <2>2. CASE w # 0
    <3>1. pc'[0] = pc[0] /\ m' = m /\ l' = l
      BY <2>2 DEF Setup, At
    <3>2. MaxAndSum(h, i)
      BY <1>1, <1>2, <1>6, <3>1 DEF Staging
    <3> QED BY <1>0, <3>1, <3>2, HeadKept
  <2> QED BY <2>1, <2>2
<1> QED BY <1>4, <1>5, <1>6 DEF Staging

\* The softmax state is not touched while tiles are staged.
LEMMA StagingHeads ==
  ASSUME UNCHANGED launchVars, NEW i, Staging(i), m' = m, l' = l, pc[0] # "setup" \/ pc'[0] = "setup",
         \A w \in Warps : StagingWarp(w, i)'
  PROVE  Staging(i)'
<1>1. num_tiles' = num_tiles
  BY LaunchFixed, Zenon
<1>2. \A h \in Heads : MaxAndSum(h, i) => MaxAndSum(h, i)'
  BY HeadKept
<1> QED BY <1>1, <1>2 DEF Staging

\* Prefetching the next tile, or copying this one in, keeps it.
LEMMA StageStep ==
  ASSUME AttentionTypeOK, NEW i \in Nat, Staging(i), NEW w \in Warps, Stage(w)
  PROVE  Staging(i)'
<1>0. UNCHANGED launchVars /\ m' = m /\ l' = l
  BY DEF Stage, softmaxVars
<1>1. cp_async' = cp_async /\ num_tiles' = num_tiles /\ num_tiles \in Nat
  BY <1>0, LaunchFixed, TileCount, Zenon
<1>2. StagingWarp(w, i) /\ pc[w] = "top" /\ tile[w] = i /\ i < num_tiles
  BY DEF Staging, StagingWarp, Stage, At
<1>3. /\ \A v \in Warps : v # w => \A k \in Nat : Fetched(v, k) => Fetched(v, k)'
      /\ cp_async => \A k \in Nat : Fetched(w, k) => Fetched(w, k)'
      /\ ~cp_async => Fetched(w, i)'
  <2>1. CASE cp_async
    <3>1. UNCHANGED kv_tile
      BY <2>1 DEF Stage
    <3> QED BY <1>0, <2>1, <3>1, RowsKept
  <2>2. CASE ~cp_async
    <3>1. kv_tile' = Copied(w, i)
      BY <1>2, <2>2 DEF Stage
    <3> QED BY <1>0, <2>2, <3>1, RowsCopied
  <2> QED BY <2>1, <2>2
<1>4. ASSUME NEW v \in Warps, v # w PROVE StagingWarp(v, i)'
  <2>1. WarpRests(v)
    BY <1>4 DEF WarpRests, Stage, At, AttentionTypeOK
  <2>2. i + 1 \in Nat
    OBVIOUS
  <2> QED BY <1>0, <1>3, <1>4, <2>1, <2>2, StagingWarpKept DEF Staging
<1>5. Accumulated(w, i)'
  <2>1. acc'[w] = acc[w]
    BY DEF Stage
  <2> QED BY <1>0, <1>2, <2>1, AccumulatedKept DEF StagingWarp
<1>6. StagingWarp(w, i)'
  <2>1. CASE cp_async
    <3>1. /\ pc'[w] = "wait" /\ tile'[w] = i
          /\ in_flight'[w] = IF i + 1 < num_tiles THEN in_flight[w] \cup {i + 1} ELSE in_flight[w]
      BY <1>2, <2>1 DEF Stage, At, AttentionTypeOK
    <3>2. Requested(w, i)' /\ Requested(w, i + 1)'
      BY <1>1, <1>2, <1>3, <2>1, <3>1 DEF Requested, StagingWarp
    <3> QED BY <1>1, <1>2, <1>5, <2>1, <3>1, <3>2 DEF StagingWarp
  <2>2. CASE ~cp_async
    <3>1. pc'[w] = "sync_staged" /\ tile'[w] = i /\ in_flight'[w] = {}
      BY <1>2, <2>2 DEF Stage, At, AttentionTypeOK, StagingWarp
    <3>2. Holds(w, i)'
      BY <1>1, <1>3, <2>2, <3>1 DEF Holds
    <3> QED BY <1>1, <1>2, <1>5, <2>2, <3>1, <3>2 DEF StagingWarp
  <2> QED BY <2>1, <2>2
<1>7. pc[0] # "setup" \/ pc'[0] = "setup"
  BY <1>2 DEF Stage, At, AttentionTypeOK
<1> QED BY <1>0, <1>4, <1>6, <1>7, StagingHeads

\* After the wait the warp's rows of this tile are in place.
LEMMA WaitPriorStep ==
  ASSUME AttentionTypeOK, NEW i \in Nat, Staging(i), NEW w \in Warps, WaitPrior(w)
  PROVE  Staging(i)'
<1>0. UNCHANGED launchVars /\ UNCHANGED kv_tile /\ m' = m /\ l' = l
  BY DEF WaitPrior, softmaxVars
<1>1. cp_async' = cp_async /\ num_tiles' = num_tiles /\ num_tiles \in Nat
  BY <1>0, LaunchFixed, TileCount, Zenon
<1>2. StagingWarp(w, i) /\ pc[w] = "wait" /\ tile[w] = i /\ i < num_tiles /\ cp_async
  BY DEF Staging, StagingWarp, WaitPrior, At
<1>3. \A v \in Warps : \A k : Fetched(v, k) => Fetched(v, k)'
  BY <1>0, RowsKept
<1>4. ASSUME NEW v \in Warps, v # w PROVE StagingWarp(v, i)'
  <2>1. WarpRests(v)
    BY <1>4 DEF WarpRests, WaitPrior, At, AttentionTypeOK
  <2> QED BY <1>0, <1>3, <2>1, StagingWarpKept DEF Staging
<1>5. Accumulated(w, i)'
  <2>1. acc'[w] = acc[w]
    BY DEF WaitPrior
  <2> QED BY <1>0, <1>2, <2>1, AccumulatedKept DEF StagingWarp
<1>6. StagingWarp(w, i)'
  <2>1. pc'[w] = "sync_staged" /\ tile'[w] = i /\ in_flight'[w] = in_flight[w] /\ i \notin in_flight[w]
    BY <1>2 DEF WaitPrior, At, AttentionTypeOK
  <2>2. in_flight[w] \subseteq {i + 1} \cap 0 .. num_tiles - 1
    BY <1>2, <2>1 DEF StagingWarp
  <2>3. Fetched(w, i)' /\ Requested(w, i + 1)'
    BY <1>1, <1>2, <1>3, <2>1 DEF StagingWarp, Requested
  <2>4. Holds(w, i)'
    BY <1>1, <1>2, <2>1, <2>2, <2>3 DEF Holds
  <2>5. in_flight[w] \subseteq 0 .. num_tiles - 1
    BY <2>2
  <2> QED BY <1>1, <1>2, <1>5, <2>1, <2>4, <2>5 DEF StagingWarp
<1>7. pc[0] # "setup" \/ pc'[0] = "setup"
  BY <1>2 DEF WaitPrior, At, AttentionTypeOK
<1> QED BY <1>0, <1>4, <1>6, <1>7, StagingHeads

\* A warp that leaves the loop stores the sum over all tiles.
LEMMA EpilogueStep ==
  ASSUME AttentionTypeOK, NEW i \in Nat, Staging(i), NEW w \in Warps, Epilogue(w)
  PROVE  Staging(i)'
<1>0. UNCHANGED launchVars /\ UNCHANGED kv_tile /\ m' = m /\ l' = l
  BY DEF Epilogue, softmaxVars
<1>1. cp_async' = cp_async /\ num_tiles' = num_tiles /\ num_tiles \in Nat /\ SumTo(i)' = SumTo(i)
  BY <1>0, LaunchFixed, TileCount, Zenon
<1>2. StagingWarp(w, i) /\ pc[w] = "top" /\ tile[w] = i /\ i = num_tiles /\ num_tiles > 0
  BY DEF Staging, StagingWarp, Epilogue, At
<1>3. \A v \in Warps : \A k : Fetched(v, k) => Fetched(v, k)'
  BY <1>0, RowsKept
<1>4. ASSUME NEW v \in Warps, v # w PROVE StagingWarp(v, i)'
  <2>1. WarpRests(v)
    BY <1>4 DEF WarpRests, Epilogue, At, AttentionTypeOK
  <2> QED BY <1>0, <1>3, <2>1, StagingWarpKept DEF Staging
<1>5. Accumulated(w, i)'
  <2>1. acc'[w] = acc[w]
    BY DEF Epilogue
  <2> QED BY <1>0, <1>2, <2>1, AccumulatedKept DEF StagingWarp
<1>6. ASSUME NEW h \in Owned(w) PROVE stored'[w][h] = SumTo(i)
  <2>1. 0 \in Warps /\ StagingWarp(0, i)
    BY Sizes DEF Staging, Warps
  <2>2. pc[0] # "setup" /\ h \in Heads
    BY <1>2, <2>1 DEF StagingWarp, Owned
  <2>3. l[h] = SumTo(i)
    BY <1>2, <2>2 DEF Staging, MaxAndSum
  <2>4. acc[w][h] = SumTo(i)
    BY <1>2 DEF StagingWarp, Accumulated
  <2>5. stored'[w][h] = IF acc[w][h] = l[h] THEN l[h] ELSE Mixed
    BY DEF Epilogue, AttentionTypeOK
  <2> QED BY <2>3, <2>4, <2>5
<1>7. StagingWarp(w, i)'
  <2>1. pc'[w] = "exit" /\ tile'[w] = i /\ in_flight'[w] = in_flight[w]
    BY <1>2 DEF Epilogue, At, AttentionTypeOK
  <2>2. in_flight[w] = {}
    BY <1>2 DEF StagingWarp
  <2> QED BY <1>1, <1>2, <1>5, <1>6, <2>1, <2>2 DEF StagingWarp
<1>8. pc[0] # "setup" \/ pc'[0] = "setup"
  BY <1>2 DEF Epilogue, At, AttentionTypeOK
<1> QED BY <1>0, <1>4, <1>7, <1>8, StagingHeads

-----------------------------------------------------------------------------
(***************************************************************************)
(* A group of copies completes.  It is of this tile or of the next, and    *)
(* the buffers of the two differ.                                          *)
(***************************************************************************)
\* Consecutive tiles have different buffers when copies are asynchronous.
LEMMA OtherBuffer ==
  ASSUME cp_async, NEW i \in Nat
  PROVE  Buffer(i) # Buffer(i + 1)
BY DEF Buffer

\* What a completing group changes: the warp's rows of its tile's buffer.
LEMMA LandFixed ==
  ASSUME AttentionTypeOK, NEW w \in Warps, NEW j \in in_flight[w], Land(w, j)
  PROVE  /\ UNCHANGED <<launchVars, pc, tile, softmaxVars, acc, stored>>
         /\ j \in Nat /\ in_flight'[w] = in_flight[w] \ {j} /\ Fetched(w, j)'
         /\ \A v \in Warps : v # w => in_flight'[v] = in_flight[v]
         /\ \A v \in Warps, k \in Nat : Fetched(v, k) /\ (v # w \/ Buffer(k) # Buffer(j)) => Fetched(v, k)'
<1>1. UNCHANGED launchVars /\ j \in Nat /\ kv_tile' = Copied(w, j)
  BY DEF Land, AttentionTypeOK
<1>2. /\ Fetched(w, j)'
      /\ \A v \in Warps, k \in Nat : Fetched(v, k) /\ (v # w \/ Buffer(k) # Buffer(j)) => Fetched(v, k)'
  BY <1>1, RowsCopied
<1>3. /\ in_flight'[w] = in_flight[w] \ {j}
      /\ \A v \in Warps : v # w => in_flight'[v] = in_flight[v]
  BY DEF Land, AttentionTypeOK
<1> QED BY <1>1, <1>2, <1>3 DEF Land

\* A group that completes takes no warp's rows of the tile in use away.
LEMMA LandHolds ==
  ASSUME AttentionTypeOK, NEW w \in Warps, NEW j \in in_flight[w], Land(w, j),
         NEW v \in Warps, NEW i \in Nat, Holds(v, i)
  PROVE  Holds(v, i)'
<1> USE LandFixed
<1>0. cp_async' = cp_async /\ num_tiles' = num_tiles
  BY LaunchFixed, Zenon
<1>1. CASE v # w
  BY <1>0, <1>1, HoldsKept
<1>2. CASE v = w
  <2>1. cp_async /\ j = i + 1
    BY <1>2 DEF Holds
  <2>2. Fetched(w, i)'
    BY <1>2, <2>1, OtherBuffer DEF Holds
  <2>3. Requested(w, i + 1)'
    BY <2>1 DEF Requested
  <2> QED BY <1>0, <1>2, <2>1, <2>2, <2>3 DEF Holds
<1> QED BY <1>1, <1>2

\* A group completes while tiles are staged: this tile's or the next's.
LEMMA LandStaging ==
  ASSUME AttentionTypeOK, NEW i \in Nat, Staging(i),
         NEW w \in Warps, NEW j \in in_flight[w], Land(w, j)
  PROVE  Staging(i)'
<1>0. UNCHANGED <<launchVars, pc, tile, acc, stored>> /\ m' = m /\ l' = l
  BY DEF Land, softmaxVars
<1>1. cp_async' = cp_async /\ num_tiles' = num_tiles /\ num_tiles \in Nat
  BY <1>0, LaunchFixed, TileCount, Zenon
<1>2. StagingWarp(w, i) /\ j \in in_flight[w]
  BY DEF Staging
<1>3. ASSUME NEW v \in Warps, v # w PROVE StagingWarp(v, i)'
  <2>1. WarpRests(v)
    BY <1>0, <1>3, LandFixed DEF WarpRests
  <2>2. \A k \in Nat : Fetched(v, k) => Fetched(v, k)'
    BY <1>3, LandFixed
  <2> QED BY <1>0, <2>1, <2>2, StagingWarpKept DEF Staging
<1>4. /\ pc'[w] = pc[w] /\ tile'[w] = i /\ in_flight'[w] = in_flight[w] \ {j} /\ cp_async
      /\ in_flight'[w] \subseteq 0 .. num_tiles - 1
  BY <1>0, <1>2, LandFixed DEF StagingWarp
<1>5. Accumulated(w, i)'
  BY <1>0, <1>2, AccumulatedKept DEF StagingWarp
<1>6. pc[w] \in {"top", "wait", "sync_staged"}
  BY <1>2 DEF StagingWarp
<1>7. Fetched(w, j)' /\ \A k \in Nat : Fetched(w, k) /\ Buffer(k) # Buffer(j) => Fetched(w, k)'
  BY LandFixed
<1>8. StagingWarp(w, i)'
  <2>1. CASE pc[w] = "top"
    <3>1. j = i /\ in_flight'[w] = {}
      BY <1>2, <1>4, <2>1 DEF StagingWarp
    <3>2. Requested(w, i)'
      BY <1>7, <3>1 DEF Requested
    <3> QED BY <1>1, <1>2, <1>4, <1>5, <2>1, <3>1, <3>2 DEF StagingWarp
  <2>2. CASE pc[w] = "wait"
    <3>1. in_flight[w] \subseteq {i, i + 1} /\ Requested(w, i) /\ Requested(w, i + 1) /\ i < num_tiles
      BY <1>2, <2>2 DEF StagingWarp
    <3>2. Buffer(i) # Buffer(i + 1)
      BY <1>4, OtherBuffer
    <3>3. Requested(w, i)' /\ Requested(w, i + 1)'
      BY <1>1, <1>4, <1>7, <3>1, <3>2 DEF Requested
    <3> QED BY <1>1, <1>4, <1>5, <2>2, <3>1, <3>3 DEF StagingWarp
  <2>3. CASE pc[w] = "sync_staged"
    <3>1. Holds(w, i)' /\ i < num_tiles
      BY <1>2, <2>3, LandHolds DEF StagingWarp
    <3> QED BY <1>1, <1>4, <1>5, <2>3, <3>1 DEF StagingWarp
  <2> QED BY <1>6, <2>1, <2>2, <2>3
<1>9. pc[0] # "setup" \/ pc'[0] = "setup"
  BY <1>0
<1> QED BY <1>0, <1>3, <1>8, <1>9, StagingHeads

\* A group completes while scores are computed: only the next tile's.
LEMMA LandScoring ==
  ASSUME AttentionTypeOK, NEW i \in Nat, Scoring(i),
         NEW w \in Warps, NEW j \in in_flight[w], Land(w, j)
  PROVE  Scoring(i)'
<1>0. UNCHANGED <<launchVars, pc, tile, acc>> /\ m' = m /\ l' = l /\ scores' = scores
  BY DEF Land, softmaxVars
<1>1. \A t : ScoreOf(i, t)' = ScoreOf(i, t)
  BY <1>0, LaunchFixed, Zenon
<1>2. ASSUME NEW v \in Warps PROVE ScoringWarp(v, i)'
  <2>1. ScoringWarp(v, i)
    BY DEF Scoring
  <2>2. Holds(v, i)' /\ Accumulated(v, i)'
    BY <1>0, <2>1, LandHolds, AccumulatedKept DEF ScoringWarp
  <2> QED BY <1>0, <1>1, <2>1, <2>2, Zenon DEF ScoringWarp
<1>3. \A h \in Heads : MaxAndSum(h, i)'
  BY <1>0, HeadKept DEF Scoring
<1> QED BY <1>2, <1>3 DEF Scoring

\* The same in the probability phase.
LEMMA LandWeighing ==
  ASSUME AttentionTypeOK, NEW i \in Nat, Weighing(i),
         NEW w \in Warps, NEW j \in in_flight[w], Land(w, j)
  PROVE  Weighing(i)'
<1>0. UNCHANGED <<launchVars, pc, tile, acc>> /\ m' = m /\ l' = l /\ scores' = scores /\ alpha' = alpha
  BY DEF Land, softmaxVars
<1>2. ASSUME NEW v \in Warps PROVE WeighingWarp(v, i)'
  <2>1. WeighingWarp(v, i)
    BY DEF Weighing
  <2>2. Holds(v, i)' /\ Accumulated(v, i)'
    BY <1>0, <2>1, LandHolds, AccumulatedKept DEF WeighingWarp
  <2>3. \A h : (Scored(h, i) => Scored(h, i)') /\ (Weighed(h, i) => Weighed(h, i)')
    BY <1>0, ScoredKept, WeighedKept
  <2> QED BY <1>0, <2>1, <2>2, <2>3, Zenon DEF WeighingWarp
<1> QED BY <1>2 DEF Weighing

\* The same while V is folded in.
LEMMA LandFolding ==
  ASSUME AttentionTypeOK, NEW i \in Nat, Folding(i),
         NEW w \in Warps, NEW j \in in_flight[w], Land(w, j)
  PROVE  Folding(i)'
<1>0. UNCHANGED <<launchVars, pc, tile, acc>> /\ m' = m /\ l' = l /\ scores' = scores /\ alpha' = alpha
  BY DEF Land, softmaxVars
<1>2. ASSUME NEW v \in Warps PROVE FoldingWarp(v, i)'
  <2>1. FoldingWarp(v, i)
    BY DEF Folding
  <2>2. Holds(v, i)'
    BY <2>1, LandHolds DEF FoldingWarp
  <2>3. \A k : Accumulated(v, k) => Accumulated(v, k)'
    BY <1>0, AccumulatedKept
  <2> QED BY <1>0, <2>1, <2>2, <2>3, Zenon DEF FoldingWarp
<1>3. \A h \in Heads : Weighed(h, i)'
  BY <1>0, WeighedKept DEF Folding
<1> QED BY <1>2, <1>3 DEF Folding

-----------------------------------------------------------------------------
(***************************************************************************)
(* Scoring, weighing and folding a tile.                                   *)
(***************************************************************************)
\* Every row of a tile all warps hold is staged, by one warp or another.
LEMMA TileRows ==
  ASSUME AttentionTypeOK, PoolExact, NEW i \in Nat, i < num_tiles, \A w \in Warps : Fetched(w, i)
  PROVE  \A t \in Slots : i * BlockSize + t < seq_len => kv_tile[Buffer(i)][t] = i * BlockSize + t
<1> USE Sizes
<1>1. SUFFICES ASSUME NEW t \in Slots, i * BlockSize + t < seq_len
               PROVE  kv_tile[Buffer(i)][t] = i * BlockSize + t
  OBVIOUS
<1>2. t % NumWarps \in Warps /\ t \in StagedBy(t % NumWarps)
  BY DEF Slots, Warps, StagedBy
<1>3. kv_tile[Buffer(i)][t] = RowAt(i, t)
  BY <1>2 DEF Fetched
<1>4. i \in DOMAIN TableRow
  BY TileCount
<1>5. RowAt(i, t) = i * BlockSize + t
  BY <1>1, <1>4, Zenon DEF PoolExact
<1> QED BY <1>3, <1>5

\* A step that touches no buffer and no group leaves every warp its rows.
LEMMA HoldsStays ==
  ASSUME UNCHANGED launchVars, UNCHANGED kv_tile, UNCHANGED in_flight,
         NEW w \in Warps, NEW i, Holds(w, i)
  PROVE  Holds(w, i)'
BY RowsKept, HoldsKept

\* A warp's scores are those of the positions of the tile.
LEMMA ScoreStep ==
  ASSUME AttentionTypeOK, PoolExact, NEW i \in Nat, i < num_tiles, Scoring(i),
         NEW w \in Warps, Score(w)
  PROVE  Scoring(i)'
<1>0. UNCHANGED <<launchVars, tile, in_flight, kv_tile, acc>> /\ m' = m /\ l' = l
  BY DEF Score
<1>1. \A t : ScoreOf(i, t)' = ScoreOf(i, t)
  BY <1>0, LaunchFixed, Zenon
<1>2. \A v \in Warps : ScoringWarp(v, i) /\ Fetched(v, i) /\ Holds(v, i)' /\ Accumulated(v, i)'
  BY <1>0, HoldsStays, AccumulatedKept DEF Scoring, ScoringWarp, Holds
<1>3. tile[w] = i /\ pc'[w] = "sync_scored" /\ \A v \in Warps : v # w => pc'[v] = pc[v]
  BY <1>2 DEF Score, At, ScoringWarp, AttentionTypeOK
<1>4. ASSUME NEW h \in Heads, NEW t \in Slots
      PROVE  scores'[h][t] = IF <<h, t>> \in ScoredBy(w) THEN ScoreOf(i, t) ELSE scores[h][t]
  <2>1. scores'[h][t] = IF <<h, t>> \notin ScoredBy(w) THEN scores[h][t]
                        ELSE IF i * BlockSize + t < seq_len THEN Raw(kv_tile[Buffer(i)][t]) ELSE Masked
    BY <1>3 DEF Score
  <2>2. i * BlockSize + t < seq_len => kv_tile[Buffer(i)][t] = i * BlockSize + t
    BY <1>2, TileRows
  <2> QED BY <2>1, <2>2, Zenon DEF ScoreOf
<1>5. ASSUME NEW v \in Warps PROVE ScoringWarp(v, i)'
  <2>1. ASSUME pc'[v] = "sync_scored", NEW p \in ScoredBy(v)
        PROVE  scores'[p[1]][p[2]] = ScoreOf(i, p[2])
    <3>1. p[1] \in Heads /\ p[2] \in Slots /\ p = <<p[1], p[2]>>
      BY DEF ScoredBy
    <3>2. v # w => p \notin ScoredBy(w)
      BY DEF ScoredBy
    <3>3. v # w => scores[p[1]][p[2]] = ScoreOf(i, p[2])
      BY <1>2, <1>3, <2>1 DEF ScoringWarp
    <3> QED BY <1>4, <3>1, <3>2, <3>3
  <2>2. tile'[v] = i /\ pc'[v] \in {"score", "sync_scored"}
    BY <1>0, <1>2, <1>3 DEF ScoringWarp
  <2> QED BY <1>1, <1>2, <2>1, <2>2, Zenon DEF ScoringWarp
<1>6. \A h \in Heads : MaxAndSum(h, i)'
  BY <1>0, HeadKept DEF Scoring
<1> QED BY <1>5, <1>6 DEF Scoring

\* The weights of a scored tile.
LEMMA TileWeights ==
  ASSUME AttentionTypeOK, NEW i \in Nat, i < num_tiles, NEW sc,
         \A t \in Slots : sc[t] = ScoreOf(i, t)
  PROVE  LET live == {t \in Slots : t < tile_valid(i)} IN
         /\ \A t \in live : <<sc[t][1], Before(i + 1)>> = <<i * BlockSize + t, Before(i + 1)>>
         /\ \A t \in Slots : WeightOf(i, t) = IF t \in live THEN <<i * BlockSize + t, Before(i + 1)>>
                                              ELSE Masked
<1>1. PICK b \in Nat, s \in Nat :
        /\ b = i * BlockSize /\ s = seq_len
        /\ \A t \in Slots : t < tile_valid(i) <=> b + t < s
  BY BeforeTile, Zenon
<1>2. \A t \in Slots : b + t < s => sc[t] = <<b + t, {}>>
  BY <1>1, Zenon DEF ScoreOf, Raw
<1>3. \A t \in Slots : b + t < s => sc[t][1] = b + t
  BY <1>2
<1>4. \A t \in Slots : WeightOf(i, t) = IF b + t < s THEN <<b + t, Before(i + 1)>> ELSE Masked
  BY <1>1, Zenon DEF WeightOf
<1> QED BY <1>1, <1>3, <1>4, Zenon

\* What the probability phase does to a head of the warp.
LEMMA HeadWeighed ==
  ASSUME AttentionTypeOK, NEW i \in Nat, i < num_tiles, NEW w \in Warps, tile[w] = i,
         Probabilities(w), NEW h \in HeadsOf(w), Scored(h, i)
  PROVE  Weighed(h, i)'
<1> DEFINE live == {t \in Slots : t < tile_valid(i)}
           R    == m[h] \cup {s[1] : s \in {scores[h][t] : t \in Slots} \ {Masked}}
<1>0. UNCHANGED launchVars
  BY DEF Probabilities
<1>1. h \in Heads
  BY DEF HeadsOf
<1>2. m'[h] = R
  BY <1>1 DEF Probabilities
<1>3. alpha'[h] = [old |-> m[h], new |-> R]
  BY <1>1 DEF Probabilities
<1>4. l'[h] = Plus(Rescaled(l[h], [old |-> m[h], new |-> R]), {<<scores[h][t][1], R>> : t \in live})
  BY <1>1 DEF Probabilities
<1>5. scores'[h] = [t \in Slots |-> IF t \in live THEN <<scores[h][t][1], R>> ELSE Masked]
  BY <1>1 DEF Probabilities
<1>6. m[h] = Before(i) /\ l[h] = SumTo(i) /\ \A t \in Slots : scores[h][t] = ScoreOf(i, t)
  BY DEF Scored, MaxAndSum
<1>7. R = Before(i + 1)
  <2>1. PICK sc : sc = scores[h]
    OBVIOUS
  <2>2. \A t \in Slots : sc[t] = ScoreOf(i, t)
    BY <1>6, <2>1, Zenon
  <2>3. Before(i) \cup {s[1] : s \in {sc[t] : t \in Slots} \ {Masked}} = Before(i + 1)
    BY <2>2, TileMaximum
  <2>4. Before(i) \cup {s[1] : s \in {scores[h][t] : t \in Slots} \ {Masked}} = Before(i + 1)
    BY <2>1, <2>3
  <2> QED BY <1>6, <2>4
<1>8. /\ \A t \in live : <<scores[h][t][1], R>> = <<i * BlockSize + t, R>>
      /\ \A t \in Slots : WeightOf(i, t) = IF t \in live THEN <<i * BlockSize + t, R>> ELSE Masked
  <2>1. PICK sc : sc = scores[h]
    OBVIOUS
  <2>2. \A t \in Slots : sc[t] = ScoreOf(i, t)
    BY <1>6, <2>1, Zenon
  <2> HIDE DEF R
  <2>3. /\ \A t \in live : <<sc[t][1], Before(i + 1)>> = <<i * BlockSize + t, Before(i + 1)>>
        /\ \A t \in Slots : WeightOf(i, t) = IF t \in live THEN <<i * BlockSize + t, Before(i + 1)>>
                                             ELSE Masked
    BY <2>2, TileWeights
  <2> QED BY <1>7, <2>1, <2>3, Zenon
<1> HIDE DEF live, R
<1>9. {<<scores[h][t][1], R>> : t \in live} = {<<i * BlockSize + t, R>> : t \in live}
  BY <1>8, Zenon
<1>10. l'[h] = SumTo(i + 1)
  BY <1>4, <1>6, <1>7, <1>9, TileSummed, Zenon DEF live
<1>11. \A t \in Slots : scores'[h][t] = WeightOf(i, t)
  <2>1. \A t \in Slots : scores'[h][t] = IF t \in live THEN <<scores[h][t][1], R>> ELSE Masked
    BY <1>5
  <2> QED BY <1>8, <2>1, Zenon
<1>12. /\ Before(i)' = Before(i) /\ Before(i + 1)' = Before(i + 1) /\ SumTo(i + 1)' = SumTo(i + 1)
       /\ \A t : WeightOf(i, t)' = WeightOf(i, t)
  BY <1>0, LaunchFixed, Zenon
<1> QED BY <1>2, <1>3, <1>6, <1>7, <1>10, <1>11, <1>12, Zenon DEF Weighed, MaxAndSum

\* A warp turns the scores of its own heads into weights, and no other's.
LEMMA ProbabilitiesStep ==
  ASSUME AttentionTypeOK, NEW i \in Nat, i < num_tiles, Weighing(i),
         NEW w \in Warps, Probabilities(w)
  PROVE  Weighing(i)'
<1>0. UNCHANGED <<launchVars, tile, in_flight, kv_tile, acc>>
  BY DEF Probabilities
<1>1. \A v \in Warps : WeighingWarp(v, i) /\ Holds(v, i)' /\ Accumulated(v, i)'
  BY <1>0, HoldsStays, AccumulatedKept DEF Weighing, WeighingWarp
<1>2. /\ tile[w] = i /\ pc[w] = "prob" /\ pc'[w] = "sync_prob"
      /\ \A v \in Warps : v # w => pc'[v] = pc[v]
  BY <1>1 DEF Probabilities, At, WeighingWarp, AttentionTypeOK
<1>3. WeighingWarp(w, i)'
  <2>1. \A h \in HeadsOf(w) : Weighed(h, i)'
    BY <1>1, <1>2, HeadWeighed DEF WeighingWarp
  <2> QED BY <1>0, <1>1, <1>2, <2>1 DEF WeighingWarp
<1>4. ASSUME NEW v \in Warps, v # w PROVE WeighingWarp(v, i)'
  <2>1. \A h \in HeadsOf(v) : h \in Heads /\ h \notin HeadsOf(w)
    BY <1>4 DEF HeadsOf
  <2>2. ASSUME NEW h \in HeadsOf(v)
        PROVE  m'[h] = m[h] /\ l'[h] = l[h] /\ scores'[h] = scores[h] /\ alpha'[h] = alpha[h]
    BY <2>1 DEF Probabilities
  <2>3. \A h \in HeadsOf(v) : (Scored(h, i) => Scored(h, i)') /\ (Weighed(h, i) => Weighed(h, i)')
    BY <1>0, <2>2, ScoredKept, WeighedKept
  <2> QED BY <1>0, <1>1, <1>2, <1>4, <2>3 DEF WeighingWarp
<1> QED BY <1>3, <1>4 DEF Weighing

\* A warp's accumulators take in the tile once.
LEMMA FoldStep ==
  ASSUME AttentionTypeOK, PoolExact, NEW i \in Nat, i < num_tiles, Folding(i),
         NEW w \in Warps, Fold(w)
  PROVE  Folding(i)'
<1> DEFINE live == {t \in Slots : t < tile_valid(i)}
<1>0. UNCHANGED <<launchVars, in_flight, kv_tile>> /\ m' = m /\ l' = l /\ scores' = scores /\ alpha' = alpha
  BY DEF Fold, softmaxVars
<1>1. \A v \in Warps : FoldingWarp(v, i) /\ Fetched(v, i) /\ Holds(v, i)'
  BY <1>0, HoldsStays DEF Folding, FoldingWarp, Holds
<1>2. /\ tile[w] = i /\ Accumulated(w, i) /\ pc'[w] = "sync_folded" /\ tile'[w] = i + 1
      /\ \A v \in Warps : v # w => pc'[v] = pc[v] /\ tile'[v] = tile[v]
  BY <1>1 DEF Fold, At, AfterFold, FoldingWarp, AttentionTypeOK
<1>3. ASSUME NEW h \in Owned(w) PROVE acc'[w][h] = SumTo(i + 1)
  <2>0. h \in Heads
    BY DEF Owned
  <2>1. Weighed(h, i) /\ acc[w][h] = SumTo(i)
    BY <1>2, <2>0 DEF Folding, Accumulated
  <2>2. PICK a : a = alpha[h] /\ a = [old |-> Before(i), new |-> Before(i + 1)]
    BY <2>1 DEF Weighed
  <2>3. a.new = Before(i + 1)
    BY <2>2
  <2>4. \A t \in Slots : i * BlockSize + t < seq_len => kv_tile[Buffer(i)][t] = i * BlockSize + t
    BY <1>1, TileRows
  <2>5. PICK b \in Nat, s \in Nat :
          /\ b = i * BlockSize /\ s = seq_len
          /\ \A t \in Slots : t < tile_valid(i) <=> b + t < s
    BY BeforeTile, Zenon
  <2>6. \A t \in live : b + t < s
    BY <2>5, Zenon
  <2>7. \A t \in live : scores[h][t] = <<i * BlockSize + t, Before(i + 1)>>
    BY <2>1, <2>5, <2>6, Zenon DEF Weighed, WeightOf
  <2>8. \A t \in live : kv_tile[Buffer(i)][t] = i * BlockSize + t
    BY <2>4, <2>5, <2>6, Zenon
  <2>9. \A t \in live : scores[h][t] = <<kv_tile[Buffer(i)][t], alpha[h].new>>
    BY <2>2, <2>3, <2>7, <2>8, Zenon
  <2>10. acc'[w][h] = IF \A t \in live : scores[h][t] = <<kv_tile[Buffer(i)][t], alpha[h].new>>
                      THEN Plus(Rescaled(acc[w][h], alpha[h]), {scores[h][t] : t \in live}) ELSE Mixed
    BY <1>2 DEF Fold, AttentionTypeOK
  <2> HIDE DEF live
  <2>11. {scores[h][t] : t \in live} = {<<i * BlockSize + t, Before(i + 1)>> : t \in live}
    BY <2>7, Zenon
  <2>12. acc'[w][h] = Plus(Rescaled(SumTo(i), [old |-> Before(i), new |-> Before(i + 1)]),
                           {<<i * BlockSize + t, Before(i + 1)>> : t \in live})
    BY <2>1, <2>2, <2>9, <2>10, <2>11, Zenon
  <2> QED BY <2>12, TileSummed, Zenon DEF live
<1>4. FoldingWarp(w, i)'
  <2>1. SumTo(i + 1)' = SumTo(i + 1)
    BY <1>0, LaunchFixed, Zenon
  <2>2. Accumulated(w, i + 1)'
    BY <1>3, <2>1, Zenon DEF Accumulated
  <2> QED BY <1>1, <1>2, <2>2 DEF FoldingWarp
<1>5. ASSUME NEW v \in Warps, v # w PROVE FoldingWarp(v, i)'
  <2>1. acc'[v] = acc[v]
    BY <1>5 DEF Fold, AttentionTypeOK
  <2>2. \A k : Accumulated(v, k) => Accumulated(v, k)'
    BY <1>0, <2>1, AccumulatedKept
  <2> QED BY <1>1, <1>2, <1>5, <2>2, Zenon DEF FoldingWarp
<1>6. \A h \in Heads : Weighed(h, i)'
  BY <1>0, WeighedKept DEF Folding
<1> QED BY <1>4, <1>5, <1>6 DEF Folding

-----------------------------------------------------------------------------
(***************************************************************************)
(* A barrier takes all warps from one section to the next.                 *)
(***************************************************************************)
\* A barrier changes no memory.
LEMMA BarrierFixed ==
  ASSUME AttentionTypeOK, NEW from, NEW to, Syncthreads(from, to)
  PROVE  /\ UNCHANGED <<launchVars, tile, in_flight, kv_tile, acc>>
         /\ m' = m /\ l' = l /\ scores' = scores /\ alpha' = alpha
         /\ \A w \in Warps : pc[w] = from /\ pc'[w] = to
         /\ \A w \in Warps : \A k : (Accumulated(w, k) => Accumulated(w, k)') /\ (Holds(w, k) => Holds(w, k)')
         /\ \A h, k : /\ MaxAndSum(h, k) => MaxAndSum(h, k)'
                      /\ Scored(h, k) => Scored(h, k)'
                      /\ Weighed(h, k) => Weighed(h, k)'
<1>1. /\ UNCHANGED <<launchVars, tile, in_flight, kv_tile, acc>>
      /\ m' = m /\ l' = l /\ scores' = scores /\ alpha' = alpha
      /\ \A w \in Warps : pc[w] = from /\ pc'[w] = to
  BY DEF Syncthreads, softmaxVars
<1>2. \A w \in Warps : \A k : (Accumulated(w, k) => Accumulated(w, k)') /\ (Holds(w, k) => Holds(w, k)')
  BY <1>1, HoldsStays, AccumulatedKept
<1>3. \A h, k : /\ MaxAndSum(h, k) => MaxAndSum(h, k)'
                /\ Scored(h, k) => Scored(h, k)'
                /\ Weighed(h, k) => Weighed(h, k)'
  BY <1>1, HeadKept, ScoredKept, WeighedKept
<1> QED BY <1>1, <1>2, <1>3

\* Once every warp has staged, the tile can be scored.
LEMMA BarrierStaged ==
  ASSUME AttentionTypeOK, NEW i \in Nat, Staging(i), Syncthreads("sync_staged", "score")
  PROVE  i < num_tiles /\ Scoring(i)'
<1> USE BarrierFixed
<1>1. 0 \in Warps /\ num_tiles \in Nat
  BY Sizes, TileCount DEF Warps
<1>2. \A w \in Warps : StagingWarp(w, i) /\ pc[w] = "sync_staged" /\ pc'[w] = "score"
  BY DEF Staging
<1>3. i < num_tiles
  BY <1>1, <1>2 DEF StagingWarp
<1>4. \A w \in Warps : ScoringWarp(w, i)'
  BY <1>2 DEF StagingWarp, ScoringWarp
<1>5. \A h \in Heads : MaxAndSum(h, i)'
  BY <1>1, <1>2, <1>3 DEF Staging
<1> QED BY <1>3, <1>4, <1>5 DEF Scoring

\* Once every warp has scored, every score of every head is there.
LEMMA BarrierScored ==
  ASSUME AttentionTypeOK, NEW i \in Nat, Scoring(i), Syncthreads("sync_scored", "prob")
  PROVE  Weighing(i)'
<1> USE BarrierFixed
<1>1. \A w \in Warps : ScoringWarp(w, i) /\ pc[w] = "sync_scored" /\ pc'[w] = "prob"
  BY DEF Scoring
<1>2. ASSUME NEW h \in Heads PROVE Scored(h, i)'
  <2>1. ASSUME NEW t \in Slots PROVE scores[h][t] = ScoreOf(i, t)
    <3>1. PICK w \in Warps : <<h, t>> \in ScoredBy(w)
      <4>1. h \in Nat /\ t \in Nat /\ h * BlockSize + t \in Nat
        BY Sizes DEF Heads, Slots
      <4>2. (h * BlockSize + t) % NumWarps \in Warps
        BY <4>1, Sizes DEF Warps
      <4> QED BY <4>2 DEF ScoredBy
    <3>2. \A p \in ScoredBy(w) : scores[p[1]][p[2]] = ScoreOf(i, p[2])
      BY <1>1 DEF ScoringWarp
    <3> QED BY <3>1, <3>2
  <2>2. Scored(h, i)
    BY <2>1 DEF Scoring, Scored
  <2> QED BY <2>2
<1>3. ASSUME NEW w \in Warps PROVE WeighingWarp(w, i)'
  <2>1. \A h \in HeadsOf(w) : Scored(h, i)'
    BY <1>2 DEF HeadsOf
  <2> QED BY <1>1, <2>1 DEF ScoringWarp, WeighingWarp
<1> QED BY <1>3 DEF Weighing

\* Once every warp has weighed, every head has, its warp being one of the CTA's.
LEMMA BarrierWeighed ==
  ASSUME AttentionTypeOK, NEW i \in Nat, Weighing(i), Syncthreads("sync_prob", "fold")
  PROVE  Folding(i)'
<1> USE BarrierFixed
<1>1. \A w \in Warps : WeighingWarp(w, i) /\ pc[w] = "sync_prob" /\ pc'[w] = "fold"
  BY DEF Weighing
<1>2. \A w \in Warps : FoldingWarp(w, i)'
  BY <1>1 DEF WeighingWarp, FoldingWarp
<1>3. ASSUME NEW h \in Heads PROVE Weighed(h, i)'
  <2>1. PICK q \in Nat : q = h \div HeadsPerWarp /\ q * HeadsPerWarp <= h
    BY Sizes DEF Heads
  <2>2. q < NumWarps
    <3>1. CASE q >= NumWarps
      <4>1. NumWarps * HeadsPerWarp <= q * HeadsPerWarp
        BY <3>1, Sizes, TimesMono
      <4>2. NumWarps * HeadsPerWarp \in Nat /\ q * HeadsPerWarp \in Nat /\ h \in Nat /\ h < GroupSize
        BY Sizes DEF Heads
      <4> QED BY <2>1, <4>1, <4>2, Sizes
    <3> QED BY <3>1, Sizes
  <2>3. q \in Warps /\ h \in HeadsOf(q)
    BY <2>1, <2>2, Sizes DEF Warps, HeadsOf
  <2> QED BY <1>1, <2>3 DEF WeighingWarp
<1> QED BY <1>2, <1>3 DEF Folding

\* Once every warp has folded, the next tile's buffer may be reused.
LEMMA BarrierFolded ==
  ASSUME AttentionTypeOK, NEW i \in Nat, i < num_tiles, Folding(i), Syncthreads("sync_folded", "top")
  PROVE  Staging(i + 1)'
<1> USE BarrierFixed
<1>0. cp_async' = cp_async /\ num_tiles' = num_tiles /\ num_tiles \in Nat
  BY LaunchFixed, TileCount, Zenon
<1>1. \A w \in Warps : FoldingWarp(w, i) /\ pc[w] = "sync_folded" /\ pc'[w] = "top"
  BY DEF Folding
<1>2. ASSUME NEW w \in Warps PROVE StagingWarp(w, i + 1)'
  <2>1. tile'[w] = i + 1 /\ Accumulated(w, i + 1)' /\ Holds(w, i)'
    BY <1>1 DEF FoldingWarp
  <2>2. in_flight'[w] \subseteq (IF cp_async' THEN {i + 1} \cap 0 .. num_tiles' - 1 ELSE {})
    BY <2>1 DEF Holds
  <2>3. cp_async' => Requested(w, i + 1)'
    BY <2>1 DEF Holds
  <2>4. /\ in_flight'[w] \subseteq {i + 1}
        /\ in_flight'[w] \subseteq (IF cp_async' THEN 0 .. num_tiles' - 1 ELSE {})
    BY <2>2
  <2> QED BY <1>0, <1>1, <2>1, <2>3, <2>4 DEF StagingWarp
<1>3. \A h \in Heads : MaxAndSum(h, i + 1)'
  BY DEF Folding, Weighed
<1> QED BY <1>2, <1>3 DEF Staging

-----------------------------------------------------------------------------
(***************************************************************************)
(* The invariant.                                                          *)
(***************************************************************************)
\* The invariant holds at the launch: the pool holds each position at the
\* slot its block table names.
LEMMA AttentionStarts ==
  ASSUME AttentionInit
  PROVE  AttentionInv
<1> USE Sizes
<1>1. AttentionTypeOK
  <2>1. MaxBlocks * BlockSize \in Nat /\ launched_len \in 0 .. MaxBlocks * BlockSize + 1
    BY DEF AttentionInit
  <2> QED BY <2>1 DEF AttentionInit, AttentionTypeOK
<1>2. PoolExact
  <2>1. SUFFICES ASSUME NEW i \in DOMAIN TableRow, NEW t \in Slots, i * BlockSize + t < seq_len
                 PROVE  RowAt(i, t) = i * BlockSize + t
    BY DEF PoolExact
  <2>2. PICK b : b = TableRow[i] /\ b \in 0 .. PoolBlocks - 1
    BY AttentionAssumption
  <2>3. PICK at : at = {k \in DOMAIN TableRow : TableRow[k] = b /\ k * BlockSize + t < seq_len}
    OBVIOUS
  <2>4. at = {i}
    BY <2>1, <2>2, <2>3, AttentionAssumption
  <2>5. (CHOOSE k \in at : TRUE) = i /\ at # {}
    BY <2>4
  <2>6. pool[b][t] = IF at = {} THEN Garbage ELSE (CHOOSE k \in at : TRUE) * BlockSize + t
    BY <2>2, <2>3 DEF AttentionInit
  <2> QED BY <2>2, <2>5, <2>6 DEF RowAt
<1>3. seq_len \in Nat /\ num_tiles \in Nat /\ (0 < num_tiles <=> 0 < seq_len)
  <2>1. 0 < num_tiles <=> 0 * BlockSize < seq_len
    BY <1>1, TileCount
  <2> QED BY <1>1, <2>1, TileCount
<1>4. SumTo(0) = Zero
  BY <1>1, BeforeEnd
<1>5. ASSUME NEW w \in Warps PROVE StagingWarp(w, 0)
  <2>1. /\ tile[w] = 0 /\ in_flight[w] = {} /\ pc[w] = IF seq_len <= 0 THEN "exit" ELSE "setup"
        /\ \A h \in Owned(w) : acc[w][h] = Zero /\ stored[w][h] = Zero
    BY DEF AttentionInit
  <2>2. Accumulated(w, 0)
    BY <1>4, <2>1 DEF Accumulated
  <2> QED BY <1>3, <1>4, <2>1, <2>2 DEF StagingWarp
<1>6. num_tiles > 0 => pc[0] = "setup"
  BY <1>3 DEF AttentionInit, Warps
<1>7. Staging(0)
  BY <1>5, <1>6 DEF Staging
<1> QED BY <1>1, <1>2, <1>3, <1>7 DEF AttentionInv, Section

\* Where a warp is tells the section.
LEMMA SectionPcs ==
  ASSUME NEW i, NEW w \in Warps
  PROVE  /\ Staging(i) => pc[w] \in {"setup", "top", "wait", "sync_staged", "exit"}
         /\ Scoring(i) => pc[w] \in {"score", "sync_scored"}
         /\ Weighing(i) => pc[w] \in {"prob", "sync_prob"}
         /\ Folding(i) => pc[w] \in {"fold", "sync_folded"}
BY DEF Staging, StagingWarp, Scoring, ScoringWarp, Weighing, WeighingWarp, Folding, FoldingWarp

\* A step of nobody stays in its section.
LEMMA SectionStutters ==
  ASSUME AttentionTypeOK, NEW i \in Nat, Section(i), UNCHANGED attentionVars
  PROVE  Section(i)'
<1>0. /\ UNCHANGED <<launchVars, tile, in_flight, kv_tile, acc>> /\ pc' = pc /\ stored' = stored
      /\ m' = m /\ l' = l /\ scores' = scores /\ alpha' = alpha
  BY DEF attentionVars, softmaxVars
<1>1. /\ num_tiles' = num_tiles /\ \A t : ScoreOf(i, t)' = ScoreOf(i, t)
  BY <1>0, LaunchFixed, Zenon
<1>2. \A w \in Warps : \A k : (Accumulated(w, k) => Accumulated(w, k)') /\ (Holds(w, k) => Holds(w, k)')
  BY <1>0, HoldsStays, AccumulatedKept
<1>3. \A h, k : /\ MaxAndSum(h, k) => MaxAndSum(h, k)'
                /\ Scored(h, k) => Scored(h, k)'
                /\ Weighed(h, k) => Weighed(h, k)'
  BY <1>0, HeadKept, ScoredKept, WeighedKept
<1>4. ASSUME Staging(i) PROVE Staging(i)'
  <2>1. ASSUME NEW w \in Warps PROVE StagingWarp(w, i)'
    <3>1. WarpRests(w)
      BY <1>0 DEF WarpRests
    <3>2. \A k : Fetched(w, k) => Fetched(w, k)'
      BY <1>0, RowsKept
    <3> QED BY <1>0, <1>4, <3>1, <3>2, StagingWarpKept DEF Staging
  <2> QED BY <1>0, <1>4, <2>1, StagingHeads
<1>5. ASSUME Scoring(i) PROVE Scoring(i)'
  <2>1. ASSUME NEW w \in Warps PROVE ScoringWarp(w, i)'
    <3>1. ScoringWarp(w, i)
      BY <1>5 DEF Scoring
    <3> QED BY <1>0, <1>1, <1>2, <3>1, Zenon DEF ScoringWarp
  <2> QED BY <1>3, <1>5, <2>1 DEF Scoring
<1>6. ASSUME Weighing(i) PROVE Weighing(i)'
  <2>1. ASSUME NEW w \in Warps PROVE WeighingWarp(w, i)'
    <3>1. WeighingWarp(w, i)
      BY <1>6 DEF Weighing
    <3> QED BY <1>0, <1>2, <1>3, <3>1, Zenon DEF WeighingWarp
  <2> QED BY <2>1 DEF Weighing
<1>7. ASSUME Folding(i) PROVE Folding(i)'
  <2>1. ASSUME NEW w \in Warps PROVE FoldingWarp(w, i)'
    <3>1. FoldingWarp(w, i)
      BY <1>7 DEF Folding
    <3> QED BY <1>0, <1>2, <3>1, Zenon DEF FoldingWarp
  <2> QED BY <1>3, <1>7, <2>1 DEF Folding
<1> QED BY <1>1, <1>4, <1>5, <1>6, <1>7 DEF Section

\* Every step stays in its section or takes all warps to the next.
LEMMA SectionStep ==
  ASSUME AttentionTypeOK, PoolExact, NEW i \in 0 .. num_tiles, Section(i),
         AttentionNext \/ UNCHANGED attentionVars
  PROVE  \E k \in 0 .. num_tiles : Section(k)'
<1>0. UNCHANGED launchVars
  BY TypeStep
<1>1. num_tiles \in Nat /\ i \in Nat /\ num_tiles' = num_tiles
  BY <1>0, TileCount, LaunchFixed
<1>2. 0 \in Warps
  BY Sizes DEF Warps
<1>3. CASE UNCHANGED attentionVars \/ Exited
  BY <1>1, <1>3, SectionStutters DEF Exited
<1>4. CASE \E w \in Warps : Setup(w) \/ Stage(w) \/ WaitPrior(w) \/ Epilogue(w)
  <2>1. PICK w \in Warps : Setup(w) \/ Stage(w) \/ WaitPrior(w) \/ Epilogue(w)
    BY <1>4
  <2>2. pc[w] \in {"setup", "top", "wait"}
    BY <2>1 DEF Setup, Stage, WaitPrior, Epilogue, At
  <2>3. Staging(i)
    BY <2>2, SectionPcs DEF Section
  <2>4. Staging(i)'
    BY <1>1, <2>1, <2>3, SetupStep, StageStep, WaitPriorStep, EpilogueStep
  <2> QED BY <2>4 DEF Section
<1>5. CASE \E w \in Warps : Score(w)
  <2>1. PICK w \in Warps : Score(w)
    BY <1>5
  <2>2. pc[w] = "score"
    BY <2>1 DEF Score, At
  <2>3. Scoring(i) /\ i < num_tiles
    BY <2>2, SectionPcs DEF Section
  <2> QED BY <1>1, <2>1, <2>3, ScoreStep DEF Section
<1>6. CASE \E w \in Warps : Probabilities(w)
  <2>1. PICK w \in Warps : Probabilities(w)
    BY <1>6
  <2>2. pc[w] = "prob"
    BY <2>1 DEF Probabilities, At
  <2>3. Weighing(i) /\ i < num_tiles
    BY <2>2, SectionPcs DEF Section
  <2> QED BY <1>1, <2>1, <2>3, ProbabilitiesStep DEF Section
<1>7. CASE \E w \in Warps : Fold(w)
  <2>1. PICK w \in Warps : Fold(w)
    BY <1>7
  <2>2. pc[w] = "fold"
    BY <2>1 DEF Fold, At
  <2>3. Folding(i) /\ i < num_tiles
    BY <2>2, SectionPcs DEF Section
  <2> QED BY <1>1, <2>1, <2>3, FoldStep DEF Section
<1>8. CASE \E w \in Warps : \E j \in in_flight[w] : Land(w, j)
  <2>1. PICK w \in Warps : \E j \in in_flight[w] : Land(w, j)
    BY <1>8
  <2>2. PICK j \in in_flight[w] : Land(w, j)
    BY <2>1
  <2> QED BY <1>1, <2>2, LandStaging, LandScoring, LandWeighing, LandFolding DEF Section
<1>9. CASE Syncthreads("sync_staged", "score")
  <2>1. Staging(i)
    BY <1>2, <1>9, SectionPcs DEF Section, Syncthreads
  <2> QED BY <1>1, <1>9, <2>1, BarrierStaged DEF Section
<1>10. CASE Syncthreads("sync_scored", "prob")
  <2>1. Scoring(i) /\ i < num_tiles
    BY <1>2, <1>10, SectionPcs DEF Section, Syncthreads
  <2> QED BY <1>1, <1>10, <2>1, BarrierScored DEF Section
<1>11. CASE Syncthreads("sync_prob", "fold")
  <2>1. Weighing(i) /\ i < num_tiles
    BY <1>2, <1>11, SectionPcs DEF Section, Syncthreads
  <2> QED BY <1>1, <1>11, <2>1, BarrierWeighed DEF Section
<1>12. CASE Syncthreads("sync_folded", "top")
  <2>1. Folding(i) /\ i < num_tiles
    BY <1>2, <1>12, SectionPcs DEF Section, Syncthreads
  <2>2. Staging(i + 1)' /\ i + 1 \in 0 .. num_tiles
    BY <1>1, <1>12, <2>1, BarrierFolded
  <2> QED BY <2>2 DEF Section
<1> QED BY <1>3, <1>4, <1>5, <1>6, <1>7, <1>8, <1>9, <1>10, <1>11, <1>12 DEF AttentionNext

\* The invariant is inductive.
LEMMA AttentionStep ==
  ASSUME AttentionInv, AttentionNext \/ UNCHANGED attentionVars
  PROVE  AttentionInv'
<1>1. AttentionTypeOK' /\ UNCHANGED launchVars
  BY TypeStep DEF AttentionInv
<1>2. PoolExact' /\ num_tiles' = num_tiles
  BY <1>1, PoolStep, LaunchFixed DEF AttentionInv
<1>3. PICK i \in 0 .. num_tiles : Section(i)
  BY DEF AttentionInv
<1>4. PICK k \in 0 .. num_tiles : Section(k)'
  BY <1>3, SectionStep DEF AttentionInv
<1> QED BY <1>1, <1>2, <1>4 DEF AttentionInv

\* Between two barriers all warps work on the same tile, and each part of the
\* shared state is that tile's (PagedAttentionDecodeKernel), for every number
\* of warps, heads, slots and tiles and either staging.
THEOREM AttentionInvariant == AttentionSpec => []AttentionInv
<1>1. AttentionInit => AttentionInv
  BY AttentionStarts
<1>2. AttentionInv /\ [AttentionNext]_attentionVars => AttentionInv'
  BY AttentionStep
<1> QED BY <1>1, <1>2, PTL DEF AttentionSpec

\* A warp that has left stored the sum over all tiles, which is the sequence.
LEMMA AttentionInvExact ==
  ASSUME AttentionInv
  PROVE  AttendsExactly
<1>1. SUFFICES ASSUME NEW w \in Warps, pc[w] = "exit", NEW h \in Owned(w)
               PROVE  stored[w][h] = [ref |-> 0 .. seq_len - 1, terms |-> 0 .. seq_len - 1]
  BY DEF AttendsExactly
<1>2. PICK i \in 0 .. num_tiles : Section(i)
  BY DEF AttentionInv
<1>3. Staging(i)
  BY <1>1, <1>2, SectionPcs DEF Section
<1>4. i = num_tiles /\ stored[w][h] = SumTo(i)
  BY <1>1, <1>3 DEF Staging, StagingWarp
<1>5. Before(num_tiles) = 0 .. seq_len - 1
  BY BeforeEnd DEF AttentionInv
<1> QED BY <1>4, <1>5 DEF SumTo

\* What a warp stores is the exact attention over the whole sequence: every
\* position once, weighted relative to the maximum over all of them, whatever
\* the order in which the warps run and their copies land
\* (PagedAttentionDecodeKernel).
THEOREM AttentionExact == AttentionSpec => []AttendsExactly
BY AttentionInvariant, AttentionInvExact, PTL
===============================================================================
