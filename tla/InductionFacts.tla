---------------------------- MODULE InductionFacts ----------------------------
(***************************************************************************)
(* Induction and recursion on natural numbers, stated for sets, from the   *)
(* library's well-foundedness of <.                                        *)
(***************************************************************************)
EXTENDS Integers, WellFoundedInduction, TLAPS

\* A set of numbers that is not empty has a least one.
LEMMA LeastElement ==
  ASSUME NEW T \in SUBSET Nat, T # {}
  PROVE  \E x \in T : \A y \in T : x <= y
<1> DEFINE R == {p \in Nat \X Nat : p[1] < p[2]}
<1>1. R = OpToRel(<, Nat)
  BY DEF OpToRel
<1>2. IsWellFoundedOn(R, Nat)
  BY <1>1, NatLessThanWellFounded
<1>3. PICK x \in T : \A y \in T : <<y, x>> \notin R
  <2> HIDE DEF R
  <2> QED BY <1>2, WFMin
<1>4. \A y \in T : ~(y < x)
  BY <1>3
<1>5. \A y \in T : x <= y
  BY <1>4
<1> QED BY <1>5

\* What holds of m and passes from each index to the next holds up to n.
LEMMA UpTo ==
  ASSUME NEW m \in Nat, NEW n \in Nat, NEW S, m \in S, \A i \in m .. n - 1 : i \in S => i + 1 \in S
  PROVE  m .. n \subseteq S
<1> DEFINE T == (m .. n) \ S
<1> SUFFICES ASSUME T # {} PROVE FALSE
  OBVIOUS
<1>0. T \in SUBSET Nat
  OBVIOUS
<1>1. PICK x \in T : \A y \in T : x <= y
  <2> HIDE DEF T
  <2> QED BY <1>0, LeastElement
<1>2. x \in m .. n /\ x # m
  BY <1>1
<1>3. x - 1 \in m .. n - 1 /\ x - 1 \notin T
  BY <1>1, <1>2
<1>4. x - 1 \in S
  BY <1>3
<1>5. (x - 1) + 1 = x
  BY <1>2
<1> QED BY <1>1, <1>3, <1>4, <1>5

\* f solves the recursion that starts with b and goes on with step.
Solves(f, N, D, b, step) ==
  f \in [0 .. N -> D] /\ f[0] = b /\ \A i \in 1 .. N : f[i] = step[i][f[i - 1]]

\* A recursion over 0 .. N whose steps stay in D has a solution.
LEMMA RecursionExists ==
  ASSUME NEW D, NEW N \in Nat, NEW b \in D, NEW step \in [1 .. N -> [D -> D]]
  PROVE  \E f : Solves(f, N, D, b, step)
<1> DEFINE S == {n \in 0 .. N : \E f : Solves(f, n, D, b, step)}
<1>1. 0 \in S
  <2>1. Solves([i \in 0 .. 0 |-> b], 0, D, b, step)
    BY DEF Solves
  <2>2. 0 \in 0 .. N
    OBVIOUS
  <2> QED BY <2>1, <2>2
<1>2. \A n \in 0 .. N - 1 : n \in S => n + 1 \in S
  <2> SUFFICES ASSUME NEW n \in 0 .. N - 1, n \in S PROVE n + 1 \in S
    OBVIOUS
  <2>1. PICK f : Solves(f, n, D, b, step)
    OBVIOUS
  <2>2. f \in [0 .. n -> D] /\ f[0] = b /\ \A i \in 1 .. n : f[i] = step[i][f[i - 1]]
    BY <2>1 DEF Solves
  <2>3. PICK v \in D : v = step[n + 1][f[n]]
    <3>1. f[n] \in D /\ n + 1 \in 1 .. N
      BY <2>2
    <3>2. step[n + 1] \in [D -> D]
      BY <3>1
    <3> QED BY <3>1, <3>2
  <2>4. PICK g : g = [i \in 0 .. n + 1 |-> IF i <= n THEN f[i] ELSE v]
    OBVIOUS
  <2>5. g \in [0 .. n + 1 -> D] /\ g[0] = b
    BY <2>2, <2>3, <2>4
  <2>6. ASSUME NEW i \in 1 .. n + 1 PROVE g[i] = step[i][g[i - 1]]
    <3>1. CASE i = n + 1
      BY <2>3, <2>4, <3>1
    <3>2. CASE i # n + 1
      <4>1. i \in 1 .. n /\ g[i] = f[i] /\ g[i - 1] = f[i - 1]
        BY <2>4, <3>2
      <4> QED BY <2>2, <4>1
    <3> QED BY <3>1, <3>2
  <2>7. Solves(g, n + 1, D, b, step)
    BY <2>5, <2>6 DEF Solves
  <2> QED BY <2>7
<1> HIDE DEF S
<1>3. 0 .. N \subseteq S
  BY <1>1, <1>2, UpTo
<1>4. N \in S
  BY <1>3
<1> QED BY <1>4 DEF S
===============================================================================
