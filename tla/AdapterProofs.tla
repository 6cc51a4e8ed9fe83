----------------------------- MODULE AdapterProofs -----------------------------
(***************************************************************************)
(* Proofs about Adapter, for every number of requests and trials, every    *)
(* budget and every pattern of failing calls and aborts: results reach     *)
(* registered requests only, a trial starts clean, and one that succeeds   *)
(* has recorded every token.                                               *)
(***************************************************************************)
EXTENDS Adapter, InductionFacts, FiniteSetTheorems, SequenceTheorems, TLAPS

-----------------------------------------------------------------------------
(***************************************************************************)
(* Numbers in order.                                                       *)
(***************************************************************************)
\* A set of numbers that is not empty has a least one.
LEMMA SmallestNumber ==
  ASSUME NEW T \in SUBSET Nat, T # {}
  PROVE  Min(T) \in T /\ \A y \in T : Min(T) <= y
<1>1. PICK x \in T : \A y \in T : x <= y
  BY LeastElement
<1> QED BY <1>1, Zenon DEF Min

\* How many numbers of S are not above e: 1 to Cardinality(S), and never twice the same.
Rank(S, e) == Cardinality({f \in S : f <= e})

\* Ranks run from 1 to the size of the set, and grow with the number.
LEMMA Ranks ==
  ASSUME NEW S \in SUBSET Nat, IsFiniteSet(S)
  PROVE  /\ \A e \in S : Rank(S, e) \in 1 .. Cardinality(S)
         /\ \A e, g \in S : e < g => Rank(S, e) < Rank(S, g)
<1>1. ASSUME NEW e \in S PROVE Rank(S, e) \in 1 .. Cardinality(S)
  <2>1. PICK U : U = {f \in S : f <= e}
    OBVIOUS
  <2>2. U \in SUBSET S /\ e \in U
    BY <2>1
  <2>3. IsFiniteSet(U) /\ Cardinality(U) <= Cardinality(S)
    BY <2>2, FS_Subset
  <2>4. Cardinality(U) \in Nat /\ Cardinality(U) # 0 /\ Cardinality(S) \in Nat
    BY <2>2, <2>3, FS_EmptySet, FS_CardinalityType
  <2> QED BY <2>1, <2>3, <2>4 DEF Rank
<1>2. ASSUME NEW e \in S, NEW g \in S, e < g PROVE Rank(S, e) < Rank(S, g)
  <2>1. PICK U, V : U = {f \in S : f <= e} /\ V = {f \in S : f <= g}
    OBVIOUS
  <2>2. V \in SUBSET S /\ U \in SUBSET V /\ g \in V /\ g \notin U
    <3>1. \A f \in S : f \in Nat /\ (f <= e => f <= g) /\ g <= g /\ ~(g <= e)
      BY <1>2
    <3>2. (\A f : f \in U <=> f \in S /\ f <= e) /\ (\A f : f \in V <=> f \in S /\ f <= g)
      BY <2>1
    <3> QED BY <3>1, <3>2
  <2>3. IsFiniteSet(V)
    BY <2>2, FS_Subset
  <2>4. IsFiniteSet(U) /\ Cardinality(U) <= Cardinality(V) /\ Cardinality(U) # Cardinality(V)
    BY <2>2, <2>3, FS_Subset
  <2>5. Cardinality(U) \in Nat /\ Cardinality(V) \in Nat
    BY <2>3, <2>4, FS_CardinalityType
  <2> QED BY <2>1, <2>4, <2>5 DEF Rank
<1> QED BY <1>1, <1>2

\* Sorted lists every number of the set once, in ascending order.
LEMMA SortedOf ==
  ASSUME NEW S \in SUBSET Nat, IsFiniteSet(S)
  PROVE  /\ Cardinality(S) \in Nat /\ Sorted(S) \in [1 .. Cardinality(S) -> S]
         /\ \A i, j \in 1 .. Cardinality(S) : i < j => Sorted(S)[i] < Sorted(S)[j]
         /\ \A i, j \in 1 .. Cardinality(S) : Sorted(S)[i] = Sorted(S)[j] => i = j
         /\ \A e \in S : \E i \in 1 .. Cardinality(S) : Sorted(S)[i] = e
<1>1. PICK n \in Nat : n = Cardinality(S)
  BY FS_CardinalityType
<1>2. IsFiniteSet(1 .. n) /\ Cardinality(1 .. n) = n
  BY FS_Interval
<1> DEFINE r == [e \in S |-> Rank(S, e)]
<1>3. r \in [S -> 1 .. n]
  BY <1>1, Ranks
<1>4. \A e, g \in S : r[e] = r[g] => e = g
  <2>1. \A e, g \in S : e < g => r[e] < r[g]
    BY Ranks
  <2>2. \A e \in S : r[e] \in Nat /\ e \in Nat
    BY <1>3
  <2> HIDE DEF r
  <2> QED BY <2>1, <2>2
<1>5. r \in Injection(S, 1 .. n)
  BY <1>3, <1>4 DEF Injection, IsInjective
<1>6. r \in Surjection(S, 1 .. n)
  <2> HIDE DEF r
  <2> QED BY <1>1, <1>2, <1>5, FS_Injection
<1>7. \A k \in 1 .. n : \E e \in S : r[e] = k
  BY <1>6 DEF Surjection
<1> DEFINE s == [k \in 1 .. n |-> CHOOSE e \in S : r[e] = k]
<1>8. \A k \in 1 .. n : s[k] \in S /\ r[s[k]] = k
  <2> HIDE DEF r
  <2> QED BY <1>7
<1>9. s \in [1 .. n -> S]
  <2> HIDE DEF r
  <2> QED BY <1>8
<1>10. ASSUME NEW i \in 1 .. n, NEW j \in 1 .. n, i < j PROVE s[i] < s[j]
  <2>1. PICK a \in S, b \in S : a = s[i] /\ b = s[j] /\ r[a] = i /\ r[b] = j
    <3> HIDE DEF r, s
    <3> QED BY <1>8, Zenon
  <2>2. (b < a => r[b] < r[a]) /\ (a = b => r[a] = r[b]) /\ a \in Nat /\ b \in Nat
    BY Ranks
  <2> HIDE DEF r, s
  <2> QED BY <1>10, <2>1, <2>2
<1> HIDE DEF r, s
<1>11. \E t \in [1 .. n -> S] : \A i, j \in DOMAIN t : i < j => t[i] < t[j]
  <2>1. DOMAIN s = 1 .. n
    BY <1>9
  <2> QED BY <1>9, <1>10, <2>1
<1>12. PICK t : t = Sorted(S)
  OBVIOUS
<1>13. t \in [1 .. n -> S] /\ \A i, j \in DOMAIN t : i < j => t[i] < t[j]
  BY <1>1, <1>11, <1>12, Zenon DEF Sorted
<1>14. \A i, j \in 1 .. n : i < j => t[i] < t[j]
  BY <1>13
<1>16. \A i, j \in 1 .. n : t[i] = t[j] => i = j
  <2>1. \A i \in 1 .. n : t[i] \in Nat
    BY <1>13
  <2> QED BY <1>14, <2>1
<1>15. \A e \in S : \E i \in 1 .. n : t[i] = e
  <2>2. t \in Injection(1 .. n, S)
    BY <1>13, <1>16 DEF Injection, IsInjective
  <2>3. t \in Surjection(1 .. n, S)
    BY <1>1, <1>2, <2>2, FS_Injection
  <2> QED BY <2>3 DEF Surjection
<1> QED BY <1>1, <1>12, <1>13, <1>14, <1>15, <1>16

-----------------------------------------------------------------------------
(***************************************************************************)
(* What a call does to the engine.                                         *)
(***************************************************************************)
Active == {"waiting", "admitted", "prefill", "running"}

\* A request is live exactly when it is in one of the four active phases.
LEMMA LiveIs ==
  /\ \A e : e \in Live <=> e \in EngineIds /\ phase[e] \in Active
  /\ \A e : e \in Live' <=> e \in EngineIds /\ phase'[e] \in Active
<1>1. \A e : e \in Live <=> e \in EngineIds /\ phase[e] \in Active
  BY DEF Live, InPhase, Active
<1>2. \A e : e \in Live' <=> e \in EngineIds /\ phase'[e] \in Active
  BY DEF Live, InPhase, Active
<1> QED BY <1>1, <1>2

\* Ids and clients are numbers from 1; 0 stands for none.
LEMMA IdsFinite ==
  /\ EngineIds \in SUBSET Nat /\ IsFiniteSet(EngineIds) /\ 0 \notin EngineIds
  /\ Clients \in SUBSET Nat /\ 0 \notin Clients
<1>1. NumRequests \in Nat /\ MaxTrials \in Nat /\ NumRequests * MaxTrials \in Nat
  BY AdapterAssumption
<1>2. IsFiniteSet(1 .. NumRequests * MaxTrials)
  BY <1>1, FS_Interval
<1> QED BY <1>1, <1>2 DEF EngineIds, Clients

\* One step of the engine, as its client sees it: it touches live requests only,
\* and those it reports are the ones that get a token or an end.
Stepped(rs) ==
  /\ phase' \in [EngineIds -> Phases] /\ left' \in [EngineIds -> Nat]
  /\ \A e \in EngineIds : e \notin Live => phase'[e] = phase[e] /\ left'[e] = left[e]
  /\ \A e \in EngineIds : e \in Live =>
       (e \in Live' \/ phase'[e] = "finished") /\ (e \in Live' => left'[e] > 0)
  /\ \A i \in DOMAIN rs :
       LET x == rs[i] IN
       /\ x \in Items /\ x.id \in EngineIds /\ x.id \in Live
       /\ x.finished <=> phase'[x.id] = "finished"
       /\ left[x.id] = left'[x.id] + (IF x.token THEN 1 ELSE 0)
       /\ x.finished => (x.token <=> left'[x.id] = 0)
       /\ \A j \in DOMAIN rs : rs[j].id = x.id => i = j
  /\ \A e \in EngineIds : e \in Live /\ (\A i \in DOMAIN rs : rs[i].id # e) =>
       left'[e] = left[e] /\ e \in Live'

\* A chunk of a prompt that is not its last reports nothing.
LEMMA ChunkSteps ==
  ASSUME AdapterTypeOK, EngineSound, NEW A \in SUBSET InPhase("waiting"), NEW e \in EngineIds,
         e \in Live, step_chunk(A, e)
  PROVE  Stepped(<<>>)
<1>1. phase \in [EngineIds -> Phases] /\ left \in [EngineIds -> Nat] /\ left' = left
  BY DEF AdapterTypeOK, step_chunk
<1>2. \A f \in EngineIds : phase'[f] = IF f = e THEN "prefill" ELSE IF f \in A THEN "admitted" ELSE phase[f]
  BY DEF step_chunk, Prefilled
<1>3. phase' \in [EngineIds -> Phases]
  <2>1. \A f \in EngineIds : phase'[f] \in Phases
    BY <1>1, <1>2 DEF Phases
  <2>2. phase' = [f \in EngineIds |-> phase'[f]]
    BY DEF step_chunk, Prefilled
  <2> QED BY <2>1, <2>2
<1>4. \A f \in A : phase[f] = "waiting"
  BY DEF InPhase
<1>5. \A f \in EngineIds : f \in Live <=> phase[f] \in Active
  BY LiveIs
<1>6. \A f \in EngineIds : f \in Live' <=> phase'[f] \in Active
  BY LiveIs
<1>7. \A f \in EngineIds : f \notin Live => phase'[f] = phase[f]
  BY <1>2, <1>4, <1>5 DEF Active
<1>8. \A f \in EngineIds : f \in Live => f \in Live' /\ left'[f] > 0
  BY <1>1, <1>2, <1>4, <1>5, <1>6 DEF Active, EngineSound
<1>9. DOMAIN <<>> = {}
  OBVIOUS
<1> QED BY <1>1, <1>3, <1>7, <1>8, <1>9 DEF Stepped

\* The last chunk of a prompt brings its first token.
LEMMA FinalChunkSteps ==
  ASSUME AdapterTypeOK, EngineSound, NEW A \in SUBSET InPhase("waiting"), NEW e \in EngineIds,
         step_final_chunk(A, e)
  PROVE  Stepped(<<Item(e, TRUE, left[e] = 1)>>)
<1>1. phase \in [EngineIds -> Phases] /\ left \in [EngineIds -> Nat]
  BY DEF AdapterTypeOK
<1>0. phase[e] = "prefill" /\ e \in Live
  BY LiveIs DEF step_final_chunk, Active
<1>2. \A f \in EngineIds : phase'[f] = IF f = e THEN AfterToken(e) ELSE IF f \in A THEN "admitted" ELSE phase[f]
  BY DEF step_final_chunk, Prefilled
<1>3. left[e] > 0 /\ left' = [left EXCEPT ![e] = left[e] - 1]
  BY <1>0 DEF EngineSound, step_final_chunk
<1>4. AfterToken(e) \in Phases /\ AfterToken(e) = IF left[e] = 1 THEN "finished" ELSE "running"
  BY DEF AfterToken, Phases
<1>5. phase' \in [EngineIds -> Phases]
  <2>1. \A f \in EngineIds : phase'[f] \in Phases
    BY <1>1, <1>2, <1>4 DEF Phases
  <2>2. phase' = [f \in EngineIds |-> phase'[f]]
    BY DEF step_final_chunk, Prefilled
  <2> QED BY <2>1, <2>2
<1>6. left' \in [EngineIds -> Nat] /\ left[e] = left'[e] + 1 /\ \A f \in EngineIds : f # e => left'[f] = left[f]
  BY <1>1, <1>3
<1>7. \A f \in A : phase[f] = "waiting"
  BY DEF InPhase
<1>8. \A f \in EngineIds : (f \in Live <=> phase[f] \in Active) /\ (f \in Live' <=> phase'[f] \in Active)
  BY LiveIs
<1>9. \A f \in EngineIds : f \notin Live => phase'[f] = phase[f] /\ left'[f] = left[f]
  BY <1>0, <1>2, <1>6, <1>7, <1>8 DEF Active
<1>10. \A f \in EngineIds : f \in Live /\ f # e => f \in Live' /\ left'[f] = left[f] /\ left'[f] > 0
  BY <1>2, <1>6, <1>7, <1>8 DEF Active, EngineSound
<1>11. /\ e \in Live' \/ phase'[e] = "finished"
       /\ e \in Live' => left'[e] > 0
       /\ (left[e] = 1) <=> phase'[e] = "finished"
       /\ (left[e] = 1) => left'[e] = 0
  <2>1. phase'[e] = IF left[e] = 1 THEN "finished" ELSE "running"
    BY <1>2, <1>4
  <2>2. left[e] \in Nat /\ left'[e] \in Nat
    BY <1>1, <1>6
  <2> QED BY <1>3, <1>6, <1>8, <2>1, <2>2 DEF Active
<1> DEFINE x == Item(e, TRUE, left[e] = 1)
<1>12. x \in Items /\ x.id = e /\ x.token = TRUE /\ x.finished = (left[e] = 1)
  BY DEF Item, Items
<1> HIDE DEF x
<1>13. DOMAIN <<x>> = {1} /\ <<x>>[1] = x
  OBVIOUS
<1>14. \A i \in DOMAIN <<x>> : <<x>>[i] = x /\ \A j \in DOMAIN <<x>> : i = j
  BY <1>13
<1>15. Stepped(<<x>>)
  <2>1. \A i \in DOMAIN <<x>> :
       LET y == <<x>>[i] IN
       /\ y \in Items /\ y.id \in EngineIds /\ y.id \in Live
       /\ y.finished <=> phase'[y.id] = "finished"
       /\ left[y.id] = left'[y.id] + (IF y.token THEN 1 ELSE 0)
       /\ y.finished => (y.token <=> left'[y.id] = 0)
       /\ \A j \in DOMAIN <<x>> : <<x>>[j].id = y.id => i = j
    BY <1>0, <1>6, <1>11, <1>12, <1>14
  <2>2. \A f \in EngineIds : f \in Live /\ (\A i \in DOMAIN <<x>> : <<x>>[i].id # f) =>
           left'[f] = left[f] /\ f \in Live'
    BY <1>10, <1>12, <1>13
  <2>3. \A f \in EngineIds : f \in Live =>
       (f \in Live' \/ phase'[f] = "finished") /\ (f \in Live' => left'[f] > 0)
    BY <1>10, <1>11
  <2> HIDE DEF x
  <2> QED BY <1>5, <1>6, <1>9, <2>1, <2>2, <2>3, Zenon DEF Stepped
<1> QED BY <1>15 DEF x

\* A decode step reports every running request: aborted, or with its next token.
LEMMA DecodeSteps ==
  ASSUME AdapterTypeOK, EngineSound, NEW V \in SUBSET InPhase("running"), step_decode(V)
  PROVE  Stepped(DecodeResults(V, InPhase("running") \ V))
<1> DEFINE rest == InPhase("running") \ V
           rs   == DecodeResults(V, rest)
<1>1. phase \in [EngineIds -> Phases] /\ left \in [EngineIds -> Nat]
  BY DEF AdapterTypeOK
<1>2. /\ V \in SUBSET EngineIds /\ rest \in SUBSET EngineIds /\ V \cap rest = {}
      /\ \A e \in EngineIds : phase[e] = "running" <=> e \in V \/ e \in rest
  BY DEF InPhase
<1>3. /\ V \in SUBSET Nat /\ IsFiniteSet(V) /\ rest \in SUBSET Nat /\ IsFiniteSet(rest)
  BY <1>2, IdsFinite, FS_Subset
<1>4. \A e \in EngineIds :
        /\ left'[e] = IF e \in rest THEN left[e] - 1 ELSE left[e]
        /\ phase'[e] = IF e \in V THEN "finished" ELSE IF e \in rest THEN AfterToken(e) ELSE phase[e]
  BY DEF step_decode
<1>5. phase' = [e \in EngineIds |-> phase'[e]] /\ left' = [e \in EngineIds |-> left'[e]]
  BY DEF step_decode
<1> HIDE DEF rest
<1>6. \A e \in EngineIds : (e \in Live <=> phase[e] \in Active) /\ (e \in Live' <=> phase'[e] \in Active)
  BY LiveIs
<1>7. \A e \in V \cup rest : e \in Live /\ left[e] > 0 /\ left[e] \in Nat
  BY <1>1, <1>2, <1>6 DEF Active, EngineSound
<1>8. \A e \in rest : AfterToken(e) = IF left[e] = 1 THEN "finished" ELSE "running"
  BY DEF AfterToken
<1>9. left' \in [EngineIds -> Nat]
  <2>1. \A e \in EngineIds : left'[e] \in Nat
    BY <1>1, <1>4, <1>7
  <2> QED BY <1>5, <2>1
<1>10. phase' \in [EngineIds -> Phases]
  <2>1. \A e \in EngineIds : phase'[e] \in Phases
    BY <1>1, <1>4, <1>8 DEF Phases
  <2> QED BY <1>5, <2>1
<1>11. \A e \in EngineIds : e \notin Live => phase'[e] = phase[e] /\ left'[e] = left[e]
  BY <1>4, <1>7
<1>12. \A e \in V : phase'[e] = "finished" /\ left'[e] = left[e] /\ left'[e] # 0 /\ e \notin Live'
  BY <1>2, <1>4, <1>6, <1>7 DEF Active
<1>13. \A e \in rest : /\ left[e] = left'[e] + 1
                       /\ (left[e] = 1) <=> phase'[e] = "finished"
                       /\ (left[e] = 1) => left'[e] = 0
                       /\ e \in Live' \/ phase'[e] = "finished"
                       /\ e \in Live' => left'[e] > 0
  <2>1. SUFFICES ASSUME NEW e \in rest
                 PROVE  /\ left[e] = left'[e] + 1
                        /\ (left[e] = 1) <=> phase'[e] = "finished"
                        /\ (left[e] = 1) => left'[e] = 0
                        /\ e \in Live' \/ phase'[e] = "finished"
                        /\ e \in Live' => left'[e] > 0
    OBVIOUS
  <2>2. e \in EngineIds /\ e \notin V
    BY <1>2
  <2>3. left[e] \in Nat /\ left[e] > 0 /\ left'[e] = left[e] - 1
    BY <1>4, <1>7, <2>2
  <2>4. phase'[e] = IF left[e] = 1 THEN "finished" ELSE "running"
    BY <1>4, <1>8, <2>2
  <2>5. e \in Live' <=> phase'[e] = "running"
    BY <1>6, <2>2, <2>4 DEF Active
  <2> QED BY <2>3, <2>4, <2>5
<1>14. \A e \in EngineIds : e \in Live /\ e \notin V /\ e \notin rest =>
          e \in Live' /\ left'[e] = left[e] /\ left'[e] > 0
  BY <1>4, <1>6 DEF EngineSound
<1>14b. PICK n \in Nat, r \in Nat : n = Cardinality(V) /\ r = Cardinality(rest)
  <2>1. Cardinality(V) \in Nat /\ Cardinality(rest) \in Nat
    BY <1>3, FS_CardinalityType
  <2> QED BY <2>1
<1>14a. PICK sv, sr :
          n = Cardinality(V) /\ r = Cardinality(rest) /\ sv = Sorted(V) /\ sr = Sorted(rest)
  BY <1>14b
<1>15. /\ sv \in [1 .. n -> V] /\ sr \in [1 .. r -> rest]
       /\ \A i, j \in 1 .. n : i < j => sv[i] < sv[j]
       /\ \A i, j \in 1 .. r : i < j => sr[i] < sr[j]
       /\ \A e \in V : \E i \in 1 .. n : sv[i] = e
       /\ \A e \in rest : \E i \in 1 .. r : sr[i] = e
  BY <1>3, <1>14a, SortedOf
<1>16. /\ \A i, j \in 1 .. n : sv[i] = sv[j] => i = j
       /\ \A i, j \in 1 .. r : sr[i] = sr[j] => i = j
  BY <1>3, <1>14a, SortedOf
<1>17. /\ rs = [i \in 1 .. n + r |-> IF i <= n THEN Item(sv[n + 1 - i], FALSE, TRUE)
                                     ELSE Item(sr[i - n], TRUE, left[sr[i - n]] = 1)]
  BY <1>14a, Zenon DEF DecodeResults
<1>18. DOMAIN rs = 1 .. n + r
  BY <1>17
<1>19. ASSUME NEW i \in 1 .. n + r, i <= n
       PROVE  /\ n + 1 - i \in 1 .. n /\ sv[n + 1 - i] \in V
              /\ rs[i] = [id |-> sv[n + 1 - i], token |-> FALSE, finished |-> TRUE]
  BY <1>15, <1>17, <1>19 DEF Item
<1>20. ASSUME NEW i \in 1 .. n + r, ~(i <= n)
       PROVE  /\ i - n \in 1 .. r /\ sr[i - n] \in rest
              /\ rs[i] = [id |-> sr[i - n], token |-> TRUE, finished |-> (left[sr[i - n]] = 1)]
  BY <1>15, <1>17, <1>20 DEF Item
<1> HIDE DEF rs
<1>23. ASSUME NEW i \in 1 .. n + r
       PROVE  LET x == rs[i] IN
              /\ x \in Items /\ x.id \in EngineIds /\ x.id \in Live
              /\ x.finished <=> phase'[x.id] = "finished"
              /\ left[x.id] = left'[x.id] + (IF x.token THEN 1 ELSE 0)
              /\ x.finished => (x.token <=> left'[x.id] = 0)
              /\ x.id \in V <=> i <= n
  <2>1. CASE i <= n
    <3>1. PICK e \in V : rs[i] = [id |-> e, token |-> FALSE, finished |-> TRUE]
      BY <1>19, <2>1
    <3>2. rs[i].id = e /\ rs[i].token = FALSE /\ rs[i].finished = TRUE /\ rs[i] \in Items
      BY <1>2, <3>1 DEF Items
    <3>3. e \in EngineIds /\ left'[e] \in Nat
      BY <1>2, <1>9
    <3> QED BY <1>7, <1>12, <2>1, <3>2, <3>3
  <2>2. CASE ~(i <= n)
    <3>1. PICK e \in rest : rs[i] = [id |-> e, token |-> TRUE, finished |-> (left[e] = 1)]
      BY <1>20, <2>2
    <3>2. rs[i].id = e /\ rs[i].token = TRUE /\ rs[i].finished = (left[e] = 1) /\ rs[i] \in Items
      BY <1>2, <3>1 DEF Items
    <3>3. e \in EngineIds /\ e \notin V
      BY <1>2
    <3> QED BY <1>7, <1>13, <2>2, <3>2, <3>3
  <2> QED BY <2>1, <2>2
<1>24. ASSUME NEW i \in 1 .. n + r, NEW j \in 1 .. n + r, rs[i].id = rs[j].id
       PROVE  i = j
  <2>1. i <= n <=> j <= n
    BY <1>23, <1>24
  <2>2. CASE i <= n /\ j <= n
    <3>1. sv[n + 1 - i] = sv[n + 1 - j] /\ n + 1 - i \in 1 .. n /\ n + 1 - j \in 1 .. n
      <4>1. rs[i].id = sv[n + 1 - i] /\ n + 1 - i \in 1 .. n
        <5>1. /\ rs[i] = [id |-> sv[n + 1 - i], token |-> FALSE, finished |-> TRUE]
              /\ n + 1 - i \in 1 .. n
          BY <1>19, <2>2
        <5> QED BY <5>1
      <4>2. rs[j].id = sv[n + 1 - j] /\ n + 1 - j \in 1 .. n
        <5>1. /\ rs[j] = [id |-> sv[n + 1 - j], token |-> FALSE, finished |-> TRUE]
              /\ n + 1 - j \in 1 .. n
          BY <1>19, <2>2
        <5> QED BY <5>1
      <4> QED BY <1>24, <4>1, <4>2
    <3>2. n + 1 - i = n + 1 - j
      BY <1>16, <3>1
    <3> QED BY <3>2
  <2>3. CASE ~(i <= n) /\ ~(j <= n)
    <3>1. sr[i - n] = sr[j - n] /\ i - n \in 1 .. r /\ j - n \in 1 .. r
      <4>1. rs[i].id = sr[i - n] /\ i - n \in 1 .. r
        <5>1. /\ rs[i] = [id |-> sr[i - n], token |-> TRUE, finished |-> (left[sr[i - n]] = 1)]
              /\ i - n \in 1 .. r
          BY <1>20, <2>3
        <5> QED BY <5>1
      <4>2. rs[j].id = sr[j - n] /\ j - n \in 1 .. r
        <5>1. /\ rs[j] = [id |-> sr[j - n], token |-> TRUE, finished |-> (left[sr[j - n]] = 1)]
              /\ j - n \in 1 .. r
          BY <1>20, <2>3
        <5> QED BY <5>1
      <4> QED BY <1>24, <4>1, <4>2
    <3>2. i - n = j - n
      BY <1>16, <3>1
    <3> QED BY <3>2
  <2> QED BY <2>1, <2>2, <2>3
<1>25. ASSUME NEW e \in V \cup rest PROVE \E i \in DOMAIN rs : rs[i].id = e
  <2>1. CASE e \in V
    <3>1. PICK k \in 1 .. n : sv[k] = e
      BY <1>15, <2>1
    <3>2. n + 1 - k \in 1 .. n + r /\ n + 1 - k <= n /\ n + 1 - (n + 1 - k) = k
      OBVIOUS
    <3>3. rs[n + 1 - k] = [id |-> e, token |-> FALSE, finished |-> TRUE]
      BY <1>19, <3>1, <3>2
    <3> QED BY <1>18, <3>2, <3>3
  <2>2. CASE e \in rest
    <3>1. PICK k \in 1 .. r : sr[k] = e
      BY <1>15, <2>2
    <3>2. k + n \in 1 .. n + r /\ ~(k + n <= n) /\ (k + n) - n = k
      OBVIOUS
    <3>3. rs[k + n] = [id |-> e, token |-> TRUE, finished |-> (left[e] = 1)]
      BY <1>20, <3>1, <3>2
    <3> QED BY <1>18, <3>2, <3>3
  <2> QED BY <2>1, <2>2
<1>26. \A i \in DOMAIN rs :
         LET x == rs[i] IN
         /\ x \in Items /\ x.id \in EngineIds /\ x.id \in Live
         /\ x.finished <=> phase'[x.id] = "finished"
         /\ left[x.id] = left'[x.id] + (IF x.token THEN 1 ELSE 0)
         /\ x.finished => (x.token <=> left'[x.id] = 0)
         /\ \A j \in DOMAIN rs : rs[j].id = x.id => i = j
  BY <1>18, <1>23, <1>24, Zenon
<1>27. \A e \in EngineIds : e \in Live /\ (\A i \in DOMAIN rs : rs[i].id # e) =>
         left'[e] = left[e] /\ e \in Live'
  BY <1>14, <1>25
<1>28. \A e \in EngineIds : e \in Live =>
         (e \in Live' \/ phase'[e] = "finished") /\ (e \in Live' => left'[e] > 0)
  BY <1>12, <1>13, <1>14
<1>29. Stepped(rs)
  BY <1>9, <1>10, <1>11, <1>26, <1>27, <1>28, Zenon DEF Stepped
<1> QED BY <1>29 DEF rs, rest

\* The engine's part of a call's effect.
Unchanged(r) == UNCHANGED engineState /\ r.id = 0 /\ r.results = <<>>

Added(r) ==
  /\ r.ok /\ r.id = next_id /\ r.results = <<>> /\ next_id \in EngineIds
  /\ phase' = [phase EXCEPT ![next_id] = "waiting"]
  /\ left' = [left EXCEPT ![next_id] = Budget]
  /\ next_id' = next_id + 1

\* What the thread does with its next call, whatever the call.
Effect(r) ==
  /\ jobs # <<>> /\ jobs' = Tail(jobs) /\ Complete(r) /\ r \in Replies
  /\ r.task = IF Head(jobs).fn = "step" THEN Pump ELSE Head(jobs).task
  /\ \/ Unchanged(r) /\ (Head(jobs).fn = "add_request" => ~r.ok)
     \/ Added(r) /\ Head(jobs).fn = "add_request"
     \/ Stepped(r.results) /\ next_id' = next_id /\ r.ok /\ r.id = 0 /\ Head(jobs).fn = "step"

\* A step of the engine, by its three kinds.
LEMMA StepSteps ==
  ASSUME AdapterTypeOK, EngineSound, step
  PROVE  \E rs : Stepped(rs) /\ next_id' = next_id /\ Complete(Reply(Pump, TRUE, 0, rs)) /\ rs \in Seq(Items)
<1>1. PICK A \in Admissible :
        LET prefills == A \union InPhase("admitted") \union InPhase("prefill") IN
          \/ /\ prefills # {}
             /\ step_chunk(A, Min(prefills)) \/ step_final_chunk(A, Min(prefills))
          \/ prefills = {} /\ \E V \in SUBSET InPhase("running") : step_decode(V)
  BY DEF step
<1>2. A \in SUBSET InPhase("waiting")
  BY DEF Admissible
<1>3. PICK P : P = A \union InPhase("admitted") \union InPhase("prefill")
  OBVIOUS
<1>4. P \in SUBSET EngineIds /\ \A e \in P : phase[e] \in Active
  BY <1>2, <1>3 DEF InPhase, Active
<1>5. P # {} => Min(P) \in EngineIds /\ Min(P) \in Live
  <2>1. SUFFICES ASSUME P # {} PROVE Min(P) \in EngineIds /\ Min(P) \in Live
    OBVIOUS
  <2>2. P \in SUBSET Nat
    BY <1>4, IdsFinite
  <2>3. Min(P) \in P
    BY <2>1, <2>2, SmallestNumber
  <2> QED BY <1>4, <2>3, LiveIs
<1>6. CASE P # {} /\ step_chunk(A, Min(P))
  <2>1. Stepped(<<>>)
    BY <1>2, <1>5, <1>6, ChunkSteps
  <2>2. next_id' = next_id /\ Complete(Reply(Pump, TRUE, 0, <<>>))
    BY <1>6, Zenon DEF step_chunk
  <2>3. <<>> \in Seq(Items)
    OBVIOUS
  <2> QED BY <2>1, <2>2, <2>3, Zenon
<1>7. CASE P # {} /\ step_final_chunk(A, Min(P))
  <2>1. PICK e \in EngineIds : e = Min(P)
    BY <1>5, <1>7
  <2>2. Stepped(<<Item(e, TRUE, left[e] = 1)>>)
    BY <1>2, <1>7, <2>1, FinalChunkSteps
  <2>3. Item(e, TRUE, left[e] = 1) \in Items
    BY DEF Item, Items
  <2>4. <<Item(e, TRUE, left[e] = 1)>> \in Seq(Items)
    <3>1. \A x \in Items : <<x>> \in Seq(Items)
      OBVIOUS
    <3> QED BY <2>3, <3>1, Zenon
  <2>5. next_id' = next_id /\ Complete(Reply(Pump, TRUE, 0, <<Item(e, TRUE, left[e] = 1)>>))
    BY <1>7, <2>1 DEF step_final_chunk
  <2> QED BY <2>2, <2>4, <2>5, Zenon
<1>8. CASE \E V \in SUBSET InPhase("running") : step_decode(V)
  <2>1. PICK V \in SUBSET InPhase("running") : step_decode(V)
    BY <1>8
  <2>2. PICK rs : rs = DecodeResults(V, InPhase("running") \ V)
    OBVIOUS
  <2>3. Stepped(rs)
    BY <2>1, <2>2, DecodeSteps
  <2>4. next_id' = next_id /\ Complete(Reply(Pump, TRUE, 0, rs))
    BY <2>1, <2>2, Zenon DEF step_decode
  <2>5. rs \in Seq(Items)
    <3>1. PICK n \in Nat : n = Cardinality(V) + Cardinality(InPhase("running") \ V)
      <4>1. V \in SUBSET EngineIds /\ InPhase("running") \ V \in SUBSET EngineIds
        BY DEF InPhase
      <4>2. IsFiniteSet(V) /\ IsFiniteSet(InPhase("running") \ V)
        BY <4>1, IdsFinite, FS_Subset
      <4>3. Cardinality(V) \in Nat /\ Cardinality(InPhase("running") \ V) \in Nat
        BY <4>2, FS_CardinalityType
      <4> QED BY <4>3
    <3>2. rs = [i \in 1 .. n |-> rs[i]]
      BY <2>2, <3>1 DEF DecodeResults
    <3>3. \A i \in 1 .. n : rs[i] \in Items
      <4>1. DOMAIN rs = 1 .. n
        BY <3>2
      <4> QED BY <2>3, <4>1, Zenon DEF Stepped
    <3> QED BY <3>2, <3>3
  <2> QED BY <2>3, <2>4, <2>5
<1> QED BY <1>1, <1>3, <1>6, <1>7, <1>8, Zenon

\* Every call has one of three effects.
LEMMA EngineEffect ==
  ASSUME AdapterTypeOK, EngineSound, EngineRuns
  PROVE  \E r : Effect(r)
<1>1. jobs # <<>> /\ jobs' = Tail(jobs) /\ jobs \in Seq(Calls)
  BY DEF EngineRuns, AdapterTypeOK
<1>2. PICK job \in Calls : job = Head(jobs)
  BY <1>1
<1>3. job.task \in Tasks /\ Pump \in Tasks
  BY DEF Calls, Tasks
<1>5. ASSUME NEW t \in Tasks, NEW b \in BOOLEAN PROVE Reply(t, b, 0, <<>>) \in Replies
  <2>1. <<>> \in Seq(Items)
    OBVIOUS
  <2> QED BY <2>1 DEF Reply, Replies
<1>6. CASE job.fn = "has_capacity" /\ has_capacity(job.task)
  <2>1. PICK b \in BOOLEAN : Complete(Reply(job.task, b, 0, <<>>)) /\ UNCHANGED engineState
    <3>1. (Cardinality(InPhase("waiting")) < MaxWaiting) \in BOOLEAN
      OBVIOUS
    <3> QED BY <1>6, <3>1, Zenon DEF has_capacity
  <2>2. PICK r : r = Reply(job.task, b, 0, <<>>)
    OBVIOUS
  <2>3. r.task = job.task /\ r.id = 0 /\ r.results = <<>> /\ r \in Replies
    BY <1>3, <1>5, <2>2 DEF Reply
  <2>4. Effect(r)
    BY <1>1, <1>2, <1>6, <2>1, <2>2, <2>3 DEF Effect, Unchanged
  <2> QED BY <2>4
<1>7. CASE job.fn = "add_request" /\ add_request(job.task)
  <2>1. PICK r : r = Reply(job.task, TRUE, next_id, <<>>)
    OBVIOUS
  <2>2. next_id \in EngineIds /\ Complete(r)
    BY <1>7, <2>1, Zenon DEF add_request
  <2>3. r.task = job.task /\ r.ok = TRUE /\ r.id = next_id /\ r.results = <<>> /\ r \in Replies
    <3>1. <<>> \in Seq(Items)
      OBVIOUS
    <3> QED BY <1>3, <2>1, <2>2, <3>1 DEF Reply, Replies
  <2>4. Added(r)
    BY <1>7, <2>2, <2>3 DEF add_request, Added
  <2>5. Effect(r)
    BY <1>1, <1>2, <1>7, <2>2, <2>3, <2>4, Zenon DEF Effect
  <2> QED BY <2>5
<1>8. CASE job.fn = "add_request" /\ CallThrows(job.task)
  <2>1. PICK r : r = Reply(job.task, FALSE, 0, <<>>)
    OBVIOUS
  <2>2. Complete(r) /\ UNCHANGED engineState
    BY <1>8, <2>1, Zenon DEF CallThrows
  <2>3. r.task = job.task /\ r.ok = FALSE /\ r.id = 0 /\ r.results = <<>> /\ r \in Replies
    BY <1>3, <1>5, <2>1 DEF Reply
  <2>4. Effect(r)
    BY <1>1, <1>2, <1>8, <2>2, <2>3 DEF Effect, Unchanged
  <2> QED BY <2>4
<1>9. CASE job.fn = "step" /\ CallThrows(Pump)
  <2>1. PICK r : r = Reply(Pump, FALSE, 0, <<>>)
    OBVIOUS
  <2>2. Complete(r) /\ UNCHANGED engineState
    BY <1>9, <2>1, Zenon DEF CallThrows
  <2>3. r.task = Pump /\ r.ok = FALSE /\ r.id = 0 /\ r.results = <<>> /\ r \in Replies
    BY <1>3, <1>5, <2>1 DEF Reply
  <2>4. Effect(r)
    BY <1>1, <1>2, <1>9, <2>2, <2>3 DEF Effect, Unchanged
  <2> QED BY <2>4
<1>10. CASE job.fn = "step" /\ step
  <2>1. PICK rs : Stepped(rs) /\ next_id' = next_id /\ Complete(Reply(Pump, TRUE, 0, rs)) /\ rs \in Seq(Items)
    BY <1>10, StepSteps
  <2>2. PICK r : r = Reply(Pump, TRUE, 0, rs)
    OBVIOUS
  <2>3. r.task = Pump /\ r.ok = TRUE /\ r.id = 0 /\ r.results = rs /\ r \in Replies
    BY <1>3, <2>1, <2>2 DEF Reply, Replies
  <2>4. Effect(r)
    BY <1>1, <1>2, <1>10, <2>1, <2>2, <2>3, Zenon DEF Effect
  <2> QED BY <2>4
<1> QED BY <1>2, <1>6, <1>7, <1>8, <1>9, <1>10 DEF EngineRuns

\* What an effect leaves of the engine: ids in order, live requests with tokens
\* left, and finished requests as they were.
LEMMA EffectSound ==
  ASSUME AdapterTypeOK, EngineSound, NEW r, Effect(r)
  PROVE  /\ phase' \in [EngineIds -> Phases] /\ left' \in [EngineIds -> Nat] /\ next_id' \in Nat \ {0}
         /\ EngineSound' /\ next_id' >= next_id
         /\ \A e \in EngineIds : phase[e] = "finished" => phase'[e] = "finished" /\ left'[e] = left[e]
         /\ \A e \in EngineIds : e \in Live' => e \in Live \/ r.id = e
         /\ r.id # 0 => r.id = next_id /\ r.id < next_id'
<1>0. /\ phase \in [EngineIds -> Phases] /\ left \in [EngineIds -> Nat] /\ next_id \in Nat \ {0}
      /\ Budget \in Nat \ {0}
  BY AdapterAssumption DEF AdapterTypeOK
<1>1. \A e \in EngineIds : (e \in Live <=> phase[e] \in Active) /\ (e \in Live' <=> phase'[e] \in Active)
  BY LiveIs
<1>2. \A e \in EngineIds : (e >= next_id => phase[e] = "none") /\ (e \in Live => left[e] > 0) /\ e \in Nat
  BY IdsFinite DEF EngineSound
<1>3. CASE Unchanged(r)
  <2>1. phase' = phase /\ left' = left /\ next_id' = next_id /\ r.id = 0
    BY <1>3 DEF Unchanged, engineState
  <2>2. Live' = Live
    BY <2>1 DEF Live, InPhase
  <2>3. EngineSound'
    BY <2>1, <2>2 DEF EngineSound
  <2> QED BY <1>0, <2>1, <2>2, <2>3
<1>4. CASE Added(r)
  <2>1. /\ next_id \in EngineIds /\ next_id' = next_id + 1 /\ r.id = next_id
        /\ phase' = [phase EXCEPT ![next_id] = "waiting"] /\ left' = [left EXCEPT ![next_id] = Budget]
    BY <1>4 DEF Added
  <2>2. phase[next_id] = "none"
    BY <1>0, <1>2, <2>1
  <2>3. \A e \in EngineIds : /\ phase'[e] = IF e = next_id THEN "waiting" ELSE phase[e]
                             /\ left'[e] = IF e = next_id THEN Budget ELSE left[e]
    BY <1>0, <2>1
  <2>4. phase' \in [EngineIds -> Phases] /\ left' \in [EngineIds -> Nat]
    BY <1>0, <2>1 DEF Phases
  <2>5. \A e \in EngineIds : e \in Live' <=> e \in Live \/ e = next_id
    BY <1>1, <2>3 DEF Active
  <2>6. EngineSound'
    <3>1. \A e \in EngineIds : e >= next_id + 1 => phase'[e] = "none"
      BY <1>0, <1>2, <2>3
    <3>2. \A e \in EngineIds : e \in Live' => left'[e] > 0
      BY <1>0, <1>2, <2>3, <2>5
    <3> QED BY <2>1, <3>1, <3>2 DEF EngineSound
  <2>7. \A e \in EngineIds : phase[e] = "finished" => phase'[e] = "finished" /\ left'[e] = left[e]
    BY <2>2, <2>3
  <2> QED BY <1>0, <2>1, <2>4, <2>5, <2>6, <2>7
<1>5. CASE Stepped(r.results) /\ next_id' = next_id /\ r.id = 0
  <2>1. /\ phase' \in [EngineIds -> Phases] /\ left' \in [EngineIds -> Nat]
        /\ \A e \in EngineIds : e \notin Live => phase'[e] = phase[e] /\ left'[e] = left[e]
        /\ \A e \in EngineIds : e \in Live =>
             (e \in Live' \/ phase'[e] = "finished") /\ (e \in Live' => left'[e] > 0)
    BY <1>5, Zenon DEF Stepped
  <2>2. \A e \in EngineIds : e \in Live' => e \in Live
    BY <1>1, <2>1
  <2>3. EngineSound'
    <3>1. \A e \in EngineIds : e >= next_id => e \notin Live
      BY <1>1, <1>2 DEF Active
    <3>2. \A e \in EngineIds : e >= next_id => phase'[e] = "none"
      BY <1>2, <2>1, <3>1
    <3>3. \A e \in EngineIds : e \in Live' => left'[e] > 0
      BY <2>1, <2>2
    <3> QED BY <1>5, <3>2, <3>3 DEF EngineSound
  <2>4. \A e \in EngineIds : phase[e] = "finished" => e \notin Live
    BY <1>1 DEF Active
  <2>5. \A e \in EngineIds : phase[e] = "finished" => phase'[e] = "finished" /\ left'[e] = left[e]
    BY <2>1, <2>4
  <2> QED BY <1>0, <1>5, <2>1, <2>2, <2>3, <2>5
<1> QED BY <1>3, <1>4, <1>5 DEF Effect

-----------------------------------------------------------------------------
(***************************************************************************)
(* Queues grow at the end and shrink at the front.                         *)
(***************************************************************************)
\* What a queue is with one more element.
LEMMA Grown ==
  ASSUME NEW S, NEW s \in Seq(S), NEW x \in S
  PROVE  LET t == Append(s, x) IN
         /\ t \in Seq(S) /\ Len(s) \in Nat /\ Len(t) = Len(s) + 1
         /\ DOMAIN s = 1 .. Len(s) /\ DOMAIN t = 1 .. Len(s) + 1
         /\ t[Len(s) + 1] = x /\ \A k \in DOMAIN s : k \in DOMAIN t /\ t[k] = s[k] /\ k < Len(s) + 1
         /\ \A k \in DOMAIN t : k \in DOMAIN s \/ k = Len(s) + 1
OBVIOUS

\* What is left of a queue without its first element.
LEMMA Popped ==
  ASSUME NEW S, NEW s \in Seq(S), s # <<>>
  PROVE  LET t == Tail(s) IN
         /\ t \in Seq(S) /\ Len(s) \in Nat /\ Len(s) > 0 /\ Len(t) = Len(s) - 1
         /\ DOMAIN s = 1 .. Len(s) /\ DOMAIN t = 1 .. Len(s) - 1
         /\ Head(s) = s[1] /\ 1 \in DOMAIN s /\ s[1] \in S
         /\ \A k \in DOMAIN t : k + 1 \in DOMAIN s /\ t[k] = s[k + 1]
         /\ \A k \in DOMAIN s : k # 1 => k - 1 \in DOMAIN t /\ t[k - 1] = s[k]
<1>1. /\ Tail(s) \in Seq(S) /\ Len(s) \in Nat /\ Len(s) > 0 /\ Len(Tail(s)) = Len(s) - 1
      /\ DOMAIN s = 1 .. Len(s) /\ DOMAIN Tail(s) = 1 .. Len(s) - 1
      /\ Head(s) = s[1] /\ 1 \in DOMAIN s /\ s[1] \in S
  OBVIOUS
<1>2. \A k \in DOMAIN Tail(s) : k + 1 \in DOMAIN s /\ Tail(s)[k] = s[k + 1]
  BY <1>1
<1>3. \A k \in DOMAIN s : k # 1 => k - 1 \in DOMAIN Tail(s) /\ Tail(s)[k - 1] = s[k]
  <2>1. SUFFICES ASSUME NEW k \in DOMAIN s, k # 1 PROVE k - 1 \in DOMAIN Tail(s) /\ Tail(s)[k - 1] = s[k]
    OBVIOUS
  <2>2. k - 1 \in 1 .. Len(s) - 1 /\ (k - 1) + 1 = k
    BY <1>1, <2>1
  <2> QED BY <1>1, <1>2, <2>2
<1> QED BY <1>1, <1>2, <1>3, Zenon

-----------------------------------------------------------------------------
(***************************************************************************)
(* The loop's steps.  Task t goes to status v; it takes its completion     *)
(* (d = 1) or did not wait for one (d = 0), and may hand over a call.      *)
(***************************************************************************)
CallNames == {"has_capacity", "add_request", "step"}
Admitted  == {"reading", "done", "failed"}

LoopStep(t, v, d) ==
  /\ t \in Tasks /\ d \in {0, 1}
  /\ UNCHANGED engineState
  /\ \A u \in Tasks : task'[u] = IF u = t THEN v ELSE task[u]
  /\ DOMAIN ready' = 1 .. Len(ready) - d /\ Len(ready') = Len(ready) - d
  /\ \A k \in DOMAIN ready' : ready'[k] = ready[k + d]
  /\ IF d = 1 THEN ready # <<>> /\ ready[1].task = t ELSE task[t] \notin CallNames
  /\ jobs' = jobs \/ (v \in CallNames /\ jobs' = Append(jobs, Call(t, v)))
  /\ \A e \in EngineIds :
       engine_to_request'[e] = IF d = 1 /\ ready[1].id = e THEN t ELSE engine_to_request[e]
  /\ d = 1 /\ ready[1].id # 0 => v = "reading" /\ t \in Clients
  /\ task[t] \in Admitted => v \in Admitted
  /\ t \in Clients => task[t] \notin {"none", "cancelled"}

\* What is left on the way is as it was, and none of it is the task's.
Left(t, d) ==
  /\ \A k \in DOMAIN ready' :
       /\ k \in Nat /\ k + d \in DOMAIN ready /\ ready'[k] = ready[k + d]
       /\ ready'[k] \in Replies /\ ready'[k].task # t
  /\ \A k \in DOMAIN ready : k \in Nat /\ ((k - d \in DOMAIN ready' /\ k > d) \/ (d = 1 /\ k = 1))
  /\ \A i \in DOMAIN jobs : jobs[i].task # t

\* The calls and completions of the other tasks stay in their places.
LEMMA LoopLeaves ==
  ASSUME AdapterTypeOK, OneCall, NEW t, NEW v, NEW d, LoopStep(t, v, d)
  PROVE  Left(t, d)
<1>1. /\ ready \in Seq(Replies) /\ jobs \in Seq(Calls) /\ d \in {0, 1}
      /\ DOMAIN ready = 1 .. Len(ready) /\ Len(ready) \in Nat
  BY DEF AdapterTypeOK, LoopStep
<1>2. /\ DOMAIN ready' = 1 .. Len(ready) - d
      /\ \A k \in DOMAIN ready' : ready'[k] = ready[k + d]
      /\ d = 1 => ready # <<>> /\ ready[1].task = t
      /\ d = 0 => task[t] \notin CallNames
  BY DEF LoopStep
<1>3. \A k \in DOMAIN ready' : k \in Nat /\ k + d \in DOMAIN ready /\ ready'[k] = ready[k + d] /\ (d = 1 => k + d # 1)
  BY <1>1, <1>2
<1>4. \A k \in DOMAIN ready : ready[k] \in Replies
  BY <1>1
<1>5. /\ \A k, n \in DOMAIN ready : ready[k].task = ready[n].task => k = n
      /\ \A k \in DOMAIN ready : task[ready[k].task] \in CallNames
      /\ \A i \in DOMAIN jobs, k \in DOMAIN ready : jobs[i].task # ready[k].task
      /\ \A i \in DOMAIN jobs : task[jobs[i].task] = jobs[i].fn
  BY Zenon DEF OneCall, CallNames
<1>6. d = 1 => 1 \in DOMAIN ready
  BY <1>1, <1>2
<1>7. \A k \in DOMAIN ready' : ready'[k].task # t
  <2>1. SUFFICES ASSUME NEW k \in DOMAIN ready' PROVE ready[k + d].task # t
    BY <1>3
  <2>2. CASE d = 1
    BY <1>2, <1>3, <1>5, <1>6, <2>2
  <2>3. CASE d = 0
    BY <1>2, <1>3, <1>5, <2>3
  <2> QED BY <1>1, <2>2, <2>3
<1>8. \A k \in DOMAIN ready : k \in Nat /\ ((k - d \in DOMAIN ready' /\ k > d) \/ (d = 1 /\ k = 1))
  BY <1>1, <1>2
<1>9. \A i \in DOMAIN jobs : jobs[i].task # t
  <2>1. CASE d = 1
    BY <1>2, <1>5, <1>6, <2>1
  <2>2. CASE d = 0
    <3>1. \A i \in DOMAIN jobs : jobs[i] \in Calls /\ jobs[i].fn \in CallNames
      <4>1. \A i \in DOMAIN jobs : jobs[i] \in Calls
        BY <1>1
      <4> QED BY <4>1 DEF Calls, CallNames
    <3> QED BY <1>2, <1>5, <2>2, <3>1
  <2> QED BY <1>1, <2>1, <2>2
<1> QED BY <1>3, <1>4, <1>7, <1>8, <1>9 DEF Left

\* A task still has at most one call under way: it took its answer before it called again.
LEMMA LoopOneCall ==
  ASSUME AdapterTypeOK, OneCall, NEW t, NEW v, NEW d, LoopStep(t, v, d)
  PROVE  OneCall'
<1>1. Left(t, d)
  BY LoopLeaves
<1>2. /\ \A k \in DOMAIN ready' : k \in Nat /\ k + d \in DOMAIN ready /\ ready'[k] = ready[k + d]
                                  /\ ready'[k] \in Replies /\ ready'[k].task # t
      /\ \A i \in DOMAIN jobs : jobs[i].task # t
      /\ d \in {0, 1} /\ t \in Tasks
      /\ \A u \in Tasks : task'[u] = IF u = t THEN v ELSE task[u]
      /\ jobs' = jobs \/ (v \in CallNames /\ jobs' = Append(jobs, Call(t, v)))
  BY <1>1, Zenon DEF Left, LoopStep
<1>3. /\ \A i \in DOMAIN jobs : task[jobs[i].task] = jobs[i].fn
      /\ \A k \in DOMAIN ready : task[ready[k].task] \in CallNames
      /\ \A i, j \in DOMAIN jobs : jobs[i].task = jobs[j].task => i = j
      /\ \A k, n \in DOMAIN ready : ready[k].task = ready[n].task => k = n
      /\ \A i \in DOMAIN jobs, k \in DOMAIN ready : jobs[i].task # ready[k].task
  BY Zenon DEF OneCall, CallNames
<1>4. \A k \in DOMAIN ready' : task'[ready'[k].task] \in CallNames
  <2>1. \A k \in DOMAIN ready' : ready'[k].task \in Tasks /\ ready'[k].task = ready[k + d].task
    BY <1>2 DEF Replies
  <2> QED BY <1>2, <1>3, <2>1
<1>5. \A k, n \in DOMAIN ready' : ready'[k].task = ready'[n].task => k = n
  <2>1. SUFFICES ASSUME NEW k \in DOMAIN ready', NEW n \in DOMAIN ready', ready'[k].task = ready'[n].task PROVE k = n
    OBVIOUS
  <2>2. k + d = n + d /\ k \in Nat /\ n \in Nat
    BY <1>2, <1>3, <2>1
  <2> QED BY <1>2, <2>2
<1>6. jobs \in Seq(Calls) /\ \A i \in DOMAIN jobs : jobs[i].task \in Tasks
  <2>1. jobs \in Seq(Calls)
    BY DEF AdapterTypeOK
  <2>2. \A i \in DOMAIN jobs : jobs[i] \in Calls
    BY <2>1
  <2> QED BY <2>1, <2>2 DEF Calls
<1>7. CASE jobs' = jobs
  <2>1. \A i \in DOMAIN jobs' : task'[jobs'[i].task] = jobs'[i].fn
    BY <1>2, <1>3, <1>6, <1>7
  <2>2. \A i, j \in DOMAIN jobs' : jobs'[i].task = jobs'[j].task => i = j
    BY <1>3, <1>7
  <2>3. \A i \in DOMAIN jobs', k \in DOMAIN ready' : jobs'[i].task # ready'[k].task
    BY <1>2, <1>3, <1>7
  <2> QED BY <1>4, <1>5, <2>1, <2>2, <2>3 DEF OneCall, CallNames
<1>8. CASE v \in CallNames /\ jobs' = Append(jobs, Call(t, v))
  <2>1. PICK x : x = Call(t, v)
    OBVIOUS
  <2>2. x \in Calls /\ x.task = t /\ x.fn = v
    BY <1>2, <1>8, <2>1 DEF Call, Calls, CallNames
  <2>3. /\ \A i \in DOMAIN jobs' : i \in DOMAIN jobs \/ i = Len(jobs) + 1
        /\ jobs'[Len(jobs) + 1] = x /\ \A i \in DOMAIN jobs : jobs'[i] = jobs[i]
    BY <1>6, <1>8, <2>1, <2>2, Grown
  <2>4. \A i \in DOMAIN jobs' : task'[jobs'[i].task] = jobs'[i].fn
    BY <1>2, <1>3, <1>6, <2>2, <2>3
  <2>5. \A i, j \in DOMAIN jobs' : jobs'[i].task = jobs'[j].task => i = j
    BY <1>2, <1>3, <2>2, <2>3
  <2>6. \A i \in DOMAIN jobs', k \in DOMAIN ready' : jobs'[i].task # ready'[k].task
    BY <1>2, <1>3, <2>2, <2>3
  <2> QED BY <1>4, <1>5, <2>4, <2>5, <2>6 DEF OneCall, CallNames
<1> QED BY <1>2, <1>7, <1>8

\* A step of the loop registers at most the id it has just been given, and keeps every id.
LEMMA LoopIds ==
  ASSUME AdapterTypeOK, OneCall, RepliesSound, NEW t, NEW v, NEW d, LoopStep(t, v, d)
  PROVE  /\ \A e \in EngineIds : engine_to_request[e] # 0 => engine_to_request'[e] = engine_to_request[e]
         /\ \A e \in EngineIds : engine_to_request[e] = 0 /\ engine_to_request'[e] # 0 =>
              /\ engine_to_request'[e] = t /\ t \in Clients /\ task[t] = "add_request" /\ v = "reading"
              /\ e < next_id
         /\ \A e \in EngineIds : \A k \in Nat :
              AnsweredBefore(e, k + d) => engine_to_request'[e] # 0 \/ AnsweredBefore(e, k)'
         /\ \A e \in EngineIds : \A k \in Nat : AnsweredBefore(e, k)' => AnsweredBefore(e, k + d)
         /\ \A e \in EngineIds : OfTrial(e)' <=> OfTrial(e)
<1>1. /\ \A k \in DOMAIN ready' :
           k \in Nat /\ k + d \in DOMAIN ready /\ ready'[k] = ready[k + d]
      /\ \A k \in DOMAIN ready : k \in Nat /\ ((k - d \in DOMAIN ready' /\ k > d) \/ (d = 1 /\ k = 1))
  <2>1. Left(t, d)
    BY LoopLeaves
  <2> QED BY <2>1 DEF Left
<1>2. /\ t \in Tasks /\ d \in {0, 1}
      /\ DOMAIN ready' = 1 .. Len(ready) - d
      /\ d = 1 => ready # <<>> /\ ready[1].task = t
      /\ \A e \in EngineIds :
           engine_to_request'[e] = IF d = 1 /\ ready[1].id = e THEN t ELSE engine_to_request[e]
      /\ d = 1 /\ ready[1].id # 0 => v = "reading" /\ t \in Clients
  BY DEF LoopStep
<1>3. 0 \notin EngineIds /\ 0 \notin Clients
  BY IdsFinite
<1>4. ready \in Seq(Replies) /\ Len(ready) \in Nat /\ DOMAIN ready = 1 .. Len(ready)
  BY DEF AdapterTypeOK
<1>5. d = 1 => 1 \in DOMAIN ready
  BY <1>2, <1>4
<1>6. d = 1 /\ ready[1].id # 0 =>
        engine_to_request[ready[1].id] = 0 /\ task[t] = "add_request" /\ ready[1].id < next_id
  BY <1>2, <1>5 DEF RepliesSound
<1>7. \A e \in EngineIds : engine_to_request[e] # 0 => engine_to_request'[e] = engine_to_request[e]
  BY <1>2, <1>3, <1>6
<1>8. \A e \in EngineIds : engine_to_request[e] = 0 /\ engine_to_request'[e] # 0 =>
              /\ engine_to_request'[e] = t /\ t \in Clients /\ task[t] = "add_request" /\ v = "reading"
              /\ e < next_id
  BY <1>2, <1>3, <1>6
<1>9. ASSUME NEW e \in EngineIds, NEW k \in Nat, AnsweredBefore(e, k + d)
      PROVE  engine_to_request'[e] # 0 \/ AnsweredBefore(e, k)'
  <2>1. PICK n \in DOMAIN ready : n < k + d /\ ready[n].id = e
    BY <1>9 DEF AnsweredBefore
  <2>2. CASE n - d \in DOMAIN ready' /\ n > d
    <3>1. ready'[n - d] = ready[(n - d) + d] /\ (n - d) + d = n /\ n - d < k
      BY <1>1, <1>2, <2>1, <2>2
    <3>2. ready'[n - d].id = e
      BY <2>1, <3>1
    <3> QED BY <2>2, <3>1, <3>2 DEF AnsweredBefore
  <2>3. CASE d = 1 /\ n = 1
    <3>1. engine_to_request'[e] = t /\ t # 0
      BY <1>2, <1>3, <2>1, <2>3
    <3> QED BY <3>1
  <2> QED BY <1>1, <2>2, <2>3
<1>10. ASSUME NEW e \in EngineIds, NEW k \in Nat, AnsweredBefore(e, k)'
       PROVE  AnsweredBefore(e, k + d)
  <2>1. PICK n \in DOMAIN ready' : n < k /\ ready'[n].id = e
    BY <1>10 DEF AnsweredBefore
  <2>2. n + d \in DOMAIN ready /\ n + d < k + d /\ ready[n + d].id = e
    BY <1>1, <1>2, <2>1
  <2> QED BY <2>2 DEF AnsweredBefore
<1>11. ASSUME NEW e \in EngineIds PROVE OfTrial(e)' <=> OfTrial(e)
  <2>0. d = 1 => Len(ready) > 0
    BY <1>4, <1>5
  <2>1. Len(ready') = Len(ready) - d /\ Len(ready') + 1 \in Nat /\ (Len(ready') + 1) + d = Len(ready) + 1
    <3>1. Len(ready) - d \in Nat
      BY <1>2, <1>4, <2>0
    <3>2. Len(ready') = Len(ready) - d
      BY DEF LoopStep
    <3> QED BY <1>2, <1>4, <3>1, <3>2
  <2>2. PICK m \in Nat : m = Len(ready') + 1 /\ m + d = Len(ready) + 1
    BY <2>1
  <2>3. OfTrial(e)' <=> engine_to_request'[e] # 0 \/ AnsweredBefore(e, m)'
    BY <2>2 DEF OfTrial, AnsweredBefore
  <2>4. OfTrial(e) <=> engine_to_request[e] # 0 \/ AnsweredBefore(e, m + d)
    BY <2>2, Zenon DEF OfTrial
  <2>5. engine_to_request[e] = 0 /\ engine_to_request'[e] # 0 => AnsweredBefore(e, m + d)
    <3>1. SUFFICES ASSUME engine_to_request[e] = 0, engine_to_request'[e] # 0 PROVE AnsweredBefore(e, m + d)
      OBVIOUS
    <3>2. d = 1 /\ ready[1].id = e /\ 1 \in DOMAIN ready /\ 1 < m + d
      BY <1>2, <1>4, <1>5, <2>0, <2>2, <3>1
    <3> QED BY <3>2 DEF AnsweredBefore
  <2>6. AnsweredBefore(e, m)' => AnsweredBefore(e, m + d)
    BY <1>10
  <2>7. AnsweredBefore(e, m + d) => engine_to_request'[e] # 0 \/ AnsweredBefore(e, m)'
    BY <1>9
  <2> QED BY <1>7, <2>3, <2>4, <2>5, <2>6, <2>7
<1> QED BY <1>7, <1>8, <1>9, <1>10, <1>11

\* The completions still waiting carry ids that no client has.
LEMMA LoopRepliesSound ==
  ASSUME AdapterTypeOK, OneCall, RepliesSound, NEW t, NEW v, NEW d, LoopStep(t, v, d)
  PROVE  RepliesSound'
<1>1. \A k \in DOMAIN ready' :
        /\ k \in Nat /\ k + d \in DOMAIN ready /\ ready'[k] = ready[k + d]
        /\ ready'[k] \in Replies /\ ready'[k].task # t
  BY LoopLeaves, Zenon DEF Left
<1>2. /\ t \in Tasks /\ d \in {0, 1} /\ next_id' = next_id
      /\ \A e \in EngineIds :
           engine_to_request'[e] = IF d = 1 /\ ready[1].id = e THEN t ELSE engine_to_request[e]
      /\ \A u \in Tasks : task'[u] = IF u = t THEN v ELSE task[u]
      /\ d = 1 => ready # <<>>
  BY DEF LoopStep, engineState
<1>3. /\ \A k \in DOMAIN ready :
           /\ ready[k].id # 0 <=> ready[k].ok /\ task[ready[k].task] = "add_request"
           /\ ready[k].id # 0 => ready[k].id < next_id /\ engine_to_request[ready[k].id] = 0
           /\ \A n \in DOMAIN ready : ready[k].id # 0 /\ ready[n].id = ready[k].id => n = k
           /\ ready[k].results # <<>> => ready[k].ok /\ ready[k].task = Pump
  BY Zenon DEF RepliesSound
<1>4. ASSUME NEW k \in DOMAIN ready'
      PROVE  LET r == ready'[k] IN
             /\ r.id # 0 <=> r.ok /\ task'[r.task] = "add_request"
             /\ r.id # 0 => r.id < next_id' /\ engine_to_request'[r.id] = 0
             /\ \A n \in DOMAIN ready' : r.id # 0 /\ ready'[n].id = r.id => n = k
             /\ r.results # <<>> => r.ok /\ r.task = Pump
  <2>1. PICK r \in Replies, m \in DOMAIN ready : r = ready'[k] /\ r = ready[m] /\ m = k + d /\ r.task # t
    BY <1>1
  <2>2. r.task \in Tasks /\ r.id \in EngineIds \cup {0}
    BY DEF Replies
  <2>3. r.id # 0 <=> r.ok /\ task'[r.task] = "add_request"
    BY <1>2, <1>3, <2>1, <2>2
  <2>4. d = 1 => 1 \in DOMAIN ready /\ m # 1
    <3>1. ready \in Seq(Replies) /\ k \in Nat /\ k # 0
      BY <1>1 DEF AdapterTypeOK, LoopStep
    <3> QED BY <1>2, <2>1, <3>1
  <2>5. r.id # 0 => r.id < next_id' /\ engine_to_request'[r.id] = 0
    <3>1. SUFFICES ASSUME r.id # 0 PROVE r.id < next_id' /\ engine_to_request'[r.id] = 0
      OBVIOUS
    <3>2. r.id \in EngineIds /\ r.id < next_id /\ engine_to_request[r.id] = 0
      BY <1>3, <2>1, <2>2, <3>1
    <3>3. d = 1 => ready[1].id # r.id
      BY <1>3, <2>1, <2>4, <3>1
    <3> QED BY <1>2, <3>2, <3>3
  <2>6. ASSUME NEW n \in DOMAIN ready', r.id # 0, ready'[n].id = r.id PROVE n = k
    <3>1. n + d \in DOMAIN ready /\ ready[n + d].id = r.id /\ n \in Nat /\ k \in Nat
      BY <1>1, <2>6
    <3>2. n + d = m
      BY <1>3, <2>1, <2>6, <3>1
    <3> QED BY <1>2, <2>1, <3>1, <3>2
  <2>7. r.results # <<>> => r.ok /\ r.task = Pump
    BY <1>3, <2>1
  <2> QED BY <2>1, <2>3, <2>5, <2>6, <2>7
<1> QED BY <1>4, Zenon DEF RepliesSound

\* Clients and ids stay one to one; a client without an id has received nothing.
LEMMA LoopRegistered ==
  ASSUME AdapterTypeOK, OneCall, RepliesSound, Registered, NEW t, NEW v, NEW d, LoopStep(t, v, d),
         \A c \in Clients : received'[c] # received[c] => task'[c] \in Admitted
  PROVE  Registered'
<1>1. /\ \A e \in EngineIds : engine_to_request[e] # 0 => engine_to_request'[e] = engine_to_request[e]
      /\ \A e \in EngineIds : engine_to_request[e] = 0 /\ engine_to_request'[e] # 0 =>
              /\ engine_to_request'[e] = t /\ t \in Clients /\ task[t] = "add_request" /\ v = "reading"
              /\ e < next_id
      /\ \A e \in EngineIds : OfTrial(e)' <=> OfTrial(e)
  BY LoopIds
<1>2. /\ t \in Tasks /\ next_id' = next_id /\ phase' = phase
      /\ \A u \in Tasks : task'[u] = IF u = t THEN v ELSE task[u]
      /\ task[t] \in Admitted => v \in Admitted
      /\ t \in Clients => task[t] \notin {"none", "cancelled"}
  BY DEF LoopStep, engineState
<1>3. /\ \A e \in EngineIds : engine_to_request[e] # 0 =>
           e < next_id /\ task[engine_to_request[e]] \in Admitted
      /\ \A e, f \in EngineIds :
           engine_to_request[e] # 0 /\ engine_to_request[e] = engine_to_request[f] => e = f
      /\ \A e \in EngineIds : e \in Live => OfTrial(e)
      /\ \A c \in Clients : task[c] \in {"arriving", "has_capacity", "backoff", "add_request"} =>
           received[c] = 0
  BY Zenon DEF Registered, Admitted
<1>4. \A e \in EngineIds : engine_to_request[e] \in Tasks
  BY DEF AdapterTypeOK
<1>5. ASSUME NEW e \in EngineIds, engine_to_request'[e] # 0
      PROVE  e < next_id' /\ task'[engine_to_request'[e]] \in {"reading", "done", "failed"}
  <2>1. CASE engine_to_request[e] = 0
    BY <1>1, <1>2, <1>5, <2>1
  <2>2. CASE engine_to_request[e] # 0
    BY <1>1, <1>2, <1>3, <1>4, <2>2 DEF Admitted
  <2> QED BY <2>1, <2>2
<1>6. ASSUME NEW e \in EngineIds, NEW f \in EngineIds, engine_to_request'[e] # 0,
             engine_to_request'[e] = engine_to_request'[f]
      PROVE  e = f
  <2>1. \A g \in EngineIds : engine_to_request[g] # 0 => engine_to_request[g] # t \/ task[t] # "add_request"
    BY <1>3 DEF Admitted
  <2>2. \A g \in EngineIds : engine_to_request[g] = 0 /\ engine_to_request'[g] # 0 => 
          d = 1 /\ ready[1].id = g
    BY DEF LoopStep
  <2> QED BY <1>1, <1>3, <1>6, <2>1, <2>2
<1>7. \A e \in EngineIds : e \in Live' => OfTrial(e)'
  <2>1. Live' = Live
    BY <1>2 DEF Live, InPhase
  <2> QED BY <1>1, <1>3, <2>1
<1>8. ASSUME NEW c \in Clients, task'[c] \in {"arriving", "has_capacity", "backoff", "add_request"}
      PROVE  received'[c] = 0
  <2>1. c \in Tasks /\ task'[c] \notin Admitted /\ received'[c] = received[c]
    BY <1>8 DEF Tasks, Admitted
  <2>2. task[c] \notin Admitted
    BY <1>2, <2>1
  <2>3. task[c] \in {"arriving", "has_capacity", "backoff", "add_request"}
    <3>1. task[c] \in {"none", "arriving", "has_capacity", "backoff", "add_request",
                       "reading", "done", "failed", "cancelled"}
      BY DEF AdapterTypeOK
    <3> QED BY <1>2, <1>8, <2>1, <2>2, <3>1 DEF Admitted
  <2> QED BY <1>3, <2>1, <2>3
<1> QED BY <1>5, <1>6, <1>7, <1>8, Zenon DEF Registered

-----------------------------------------------------------------------------
(***************************************************************************)
(* Steps that move no result: submissions, their answers and naps.         *)
(***************************************************************************)
PlainStep(t, v, d) ==
  /\ LoopStep(t, v, d)
  /\ queues' = queues /\ received' = received /\ aborted' = aborted
  /\ d = 1 => ready[1].results = <<>>
  /\ t \in Clients => v # "done" /\ task[t] # "done"

\* The sentinel is no result.
LEMMA SentinelIs == PUMP_FAILED \in Items /\ PUMP_FAILED.id = 0 /\ ~PUMP_FAILED.finished /\ ~PUMP_FAILED.token
BY DEF PUMP_FAILED, Item, Items

\* A request that has no id yet can have nothing but the sentinel in its queue.
LEMMA NothingYet ==
  ASSUME Registered, QueuesSound, NEW c \in Clients, task[c] \notin Admitted
  PROVE  /\ \A q \in DOMAIN queues[c] : queues[c][q] = PUMP_FAILED
         /\ TokensIn(queues[c]) = 0
<1>1. \A e \in EngineIds : engine_to_request[e] # 0 => task[engine_to_request[e]] \in Admitted
  BY Zenon DEF Registered, Admitted
<1>2. \A q \in DOMAIN queues[c] : queues[c][q] = PUMP_FAILED
  <2>1. ASSUME NEW q \in DOMAIN queues[c], queues[c][q] # PUMP_FAILED PROVE FALSE
    <3>1. queues[c][q].id \in EngineIds /\ engine_to_request[queues[c][q].id] = c
      BY <2>1, Zenon DEF QueuesSound, QueuedAt, Sound
    <3>2. c # 0
      BY IdsFinite
    <3> QED BY <1>1, <3>1, <3>2
  <2> QED BY <2>1
<1>3. {q \in DOMAIN queues[c] : queues[c][q].token} = {}
  BY <1>2, SentinelIs
<1> QED BY <1>2, <1>3, FS_EmptySet, Zenon DEF TokensIn

\* Results still on their way keep an open client, a newly registered one included.
LEMMA PlainPendingSound ==
  ASSUME AdapterTypeOK, OneCall, RepliesSound, Registered, PendingSound, QueuesSound,
         NEW t, NEW v, NEW d, PlainStep(t, v, d)
  PROVE  PendingSound'
<1>0. LoopStep(t, v, d) /\ queues' = queues
  BY DEF PlainStep
<1>1. \A k \in DOMAIN ready' : k \in Nat /\ k + d \in DOMAIN ready /\ ready'[k] = ready[k + d]
  <2>1. Left(t, d)
    BY <1>0, LoopLeaves
  <2> QED BY <2>1 DEF Left
<1>2. /\ \A e \in EngineIds : engine_to_request[e] # 0 => engine_to_request'[e] = engine_to_request[e]
      /\ \A e \in EngineIds : engine_to_request[e] = 0 /\ engine_to_request'[e] # 0 =>
              engine_to_request'[e] = t /\ t \in Clients /\ task[t] = "add_request" /\ v = "reading"
      /\ \A e \in EngineIds : \A k \in Nat :
              AnsweredBefore(e, k + d) => engine_to_request'[e] # 0 \/ AnsweredBefore(e, k)'
  <2> HIDE DEF AnsweredBefore
  <2> QED BY <1>0, LoopIds
<1>3. phase' = phase /\ left' = left
  BY <1>0 DEF LoopStep, engineState
<1>4. \A x : Sound(x) => Sound(x)'
  BY <1>3 DEF Sound
<1>5. ASSUME NEW k \in DOMAIN ready', NEW i \in DOMAIN ready'[k].results
      PROVE  PendingAt(k, i)'
  <2>0. PICK x : x = ready'[k].results[i]
    OBVIOUS
  <2>1. PICK m \in DOMAIN ready : m = k + d /\ ready'[k] = ready[m] /\ x = ready'[k].results[i] /\ k \in Nat
    BY <1>1, <2>0
  <2>2. /\ Sound(x) /\ (engine_to_request[x.id] # 0 \/ AnsweredBefore(x.id, m))
        /\ \A j \in DOMAIN ready[m].results : ready[m].results[j].id = x.id => i = j
        /\ \A c \in Clients : engine_to_request[x.id] = c =>
             task[c] # "done" /\ \A q \in DOMAIN queues[c] : ~queues[c][q].finished
    <3>1. i \in DOMAIN ready[m].results /\ x = ready[m].results[i]
      BY <2>1
    <3>2. PendingAt(m, i)
      BY <3>1, Zenon DEF PendingSound
    <3> QED BY <3>1, <3>2, Zenon DEF PendingAt
  <2>3. x.id \in EngineIds /\ Sound(x)'
    BY <1>4, <2>2 DEF Sound
  <2>4. engine_to_request'[x.id] # 0 \/ AnsweredBefore(x.id, k)'
    BY <1>2, <2>1, <2>2, <2>3, Zenon
  <2>5. \A j \in DOMAIN ready'[k].results : ready'[k].results[j].id = x.id => i = j
    BY <2>1, <2>2
  <2>6. ASSUME NEW c \in Clients, engine_to_request'[x.id] = c
        PROVE  task'[c] # "done" /\ \A q \in DOMAIN queues'[c] : ~queues'[c][q].finished
    <3>1. c # 0 /\ c \in Tasks
      BY IdsFinite DEF Tasks
    <3>2. task'[c] = IF c = t THEN v ELSE task[c]
      BY <1>0, <3>1 DEF LoopStep
    <3>3. CASE engine_to_request[x.id] # 0
      <4>1. engine_to_request[x.id] = c
        BY <1>2, <2>3, <2>6, <3>3
      <4> QED BY <1>0, <2>2, <3>2, <4>1 DEF PlainStep
    <3>4. CASE engine_to_request[x.id] = 0
      <4>1. c = t /\ v = "reading" /\ task[c] = "add_request"
        BY <1>2, <2>3, <2>6, <3>1, <3>4
      <4>2. \A q \in DOMAIN queues[c] : queues[c][q] = PUMP_FAILED
        BY <4>1, NothingYet DEF Admitted
      <4> QED BY <1>0, <3>2, <4>1, <4>2, SentinelIs
    <3> QED BY <3>3, <3>4
  <2> QED BY <2>1, <2>3, <2>4, <2>5, <2>6, Zenon DEF PendingAt, Sound, AnsweredBefore
<1> QED BY <1>5, Zenon DEF PendingSound

\* What is queued for a client stays its own.
LEMMA PlainQueuesSound ==
  ASSUME AdapterTypeOK, OneCall, RepliesSound, QueuesSound, NEW t, NEW v, NEW d, PlainStep(t, v, d)
  PROVE  QueuesSound'
<1>0. LoopStep(t, v, d) /\ queues' = queues /\ phase' = phase /\ left' = left
  BY DEF PlainStep, LoopStep, engineState
<1>1. \A e \in EngineIds : engine_to_request[e] # 0 => engine_to_request'[e] = engine_to_request[e]
  BY <1>0, LoopIds
<1>2. \A x : Sound(x) => Sound(x)' /\ x.id \in EngineIds
  BY <1>0 DEF Sound
<1>3. 0 \notin Clients
  BY IdsFinite
<1>4. ASSUME NEW c \in Clients, NEW q \in DOMAIN queues'[c] PROVE QueuedAt(c, q)'
  <2>1. PICK x : x = queues[c][q]
    OBVIOUS
  <2>2. x # PUMP_FAILED =>
          /\ Sound(x) /\ engine_to_request[x.id] = c
          /\ x.finished => \A n \in DOMAIN queues[c] : n > q => queues[c][n] = PUMP_FAILED
    BY <1>0, <2>1, Zenon DEF QueuesSound, QueuedAt
  <2>3. x # PUMP_FAILED => Sound(x)' /\ engine_to_request'[x.id] = c
    BY <1>1, <1>2, <1>3, <2>2
  <2> QED BY <1>0, <2>1, <2>2, <2>3, Zenon DEF QueuedAt, Sound
<1> QED BY <1>0, <1>4, Zenon DEF QueuesSound

\* A client that was done stays so, and no other becomes done.
LEMMA PlainDoneSound ==
  ASSUME AdapterTypeOK, OneCall, RepliesSound, DoneSound, NEW t, NEW v, NEW d, PlainStep(t, v, d)
  PROVE  DoneSound'
<1>0. LoopStep(t, v, d) /\ queues' = queues /\ phase' = phase /\ left' = left /\ aborted' = aborted
  BY DEF PlainStep, LoopStep, engineState
<1>1. \A e \in EngineIds : engine_to_request[e] # 0 => engine_to_request'[e] = engine_to_request[e]
  BY <1>0, LoopIds
<1>2. 0 \notin Clients
  BY IdsFinite
<1>3. \A c \in Clients : task'[c] = "done" => task[c] = "done"
  <2>1. \A c \in Clients : c \in Tasks
    BY DEF Tasks
  <2>2. \A u \in Tasks : task'[u] = IF u = t THEN v ELSE task[u]
    BY <1>0 DEF LoopStep
  <2>3. t \in Clients => v # "done"
    BY DEF PlainStep
  <2> QED BY <2>1, <2>2, <2>3
<1>4. ASSUME NEW c \in Clients, task'[c] = "done"
      PROVE  \E e \in EngineIds :
               /\ engine_to_request'[e] = c /\ phase'[e] = "finished"
               /\ aborted'[c] <=> left'[e] # 0
               /\ \A q \in DOMAIN queues'[c] : queues'[c][q] = PUMP_FAILED
  <2>1. PICK e \in EngineIds :
               /\ engine_to_request[e] = c /\ phase[e] = "finished"
               /\ aborted[c] <=> left[e] # 0
               /\ \A q \in DOMAIN queues[c] : queues[c][q] = PUMP_FAILED
    BY <1>3, <1>4, Zenon DEF DoneSound
  <2>2. engine_to_request'[e] = c
    BY <1>1, <1>2, <2>1
  <2> QED BY <1>0, <2>1, <2>2, Zenon
<1> QED BY <1>4, Zenon DEF DoneSound

\* Whether completion k brings a token for e.
Brings(k, e) == \E i \in DOMAIN ready[k].results : ready[k].results[i].id = e /\ ready[k].results[i].token

\* A request has a token on its way exactly when some completion brings one.
LEMMA PendingIs ==
  ASSUME NEW e
  PROVE  /\ Pending(e) = IF \E k \in DOMAIN ready : Brings(k, e) THEN 1 ELSE 0
         /\ Pending(e)' = IF \E k \in DOMAIN ready' : Brings(k, e)' THEN 1 ELSE 0
         /\ Pending(e) \in Nat /\ Pending(e)' \in Nat
<1>1. Pending(e) = IF \E k \in DOMAIN ready : Brings(k, e) THEN 1 ELSE 0
  BY Zenon DEF Pending, Brings
<1>2. Pending(e)' = IF \E k \in DOMAIN ready' : Brings(k, e)' THEN 1 ELSE 0
  BY Zenon DEF Pending, Brings
<1> QED BY <1>1, <1>2

\* No token moves; a newly registered request starts with an empty record and queue.
LEMMA PlainTokens ==
  ASSUME AdapterTypeOK, OneCall, RepliesSound, Registered, QueuesSound, TokensAddUp,
         NEW t, NEW v, NEW d, PlainStep(t, v, d)
  PROVE  TokensAddUp'
<1>0. LoopStep(t, v, d) /\ queues' = queues /\ left' = left /\ received' = received
  BY DEF PlainStep, LoopStep, engineState
<1>1. /\ \A k \in DOMAIN ready' : k \in Nat /\ k + d \in DOMAIN ready /\ ready'[k] = ready[k + d]
      /\ \A k \in DOMAIN ready : k \in Nat /\ ((k - d \in DOMAIN ready' /\ k > d) \/ (d = 1 /\ k = 1))
      /\ d \in {0, 1}
  <2>1. Left(t, d)
    BY <1>0, LoopLeaves
  <2> QED BY <1>0, <2>1 DEF Left, LoopStep
<1>2. /\ \A e \in EngineIds : engine_to_request[e] # 0 => engine_to_request'[e] = engine_to_request[e]
      /\ \A e \in EngineIds : engine_to_request[e] = 0 /\ engine_to_request'[e] # 0 =>
              engine_to_request'[e] = t /\ t \in Clients /\ task[t] = "add_request" /\ v = "reading"
      /\ \A e \in EngineIds : OfTrial(e)' <=> OfTrial(e)
  BY <1>0, LoopIds
<1>3. ASSUME NEW e \in EngineIds PROVE Pending(e)' = Pending(e)
  <2>1. ASSUME NEW k \in DOMAIN ready', Brings(k, e)' PROVE \E n \in DOMAIN ready : Brings(n, e)
    <3>1. k + d \in DOMAIN ready /\ ready'[k] = ready[k + d]
      BY <1>1
    <3>2. Brings(k + d, e)
      BY <2>1, <3>1 DEF Brings
    <3> QED BY <3>1, <3>2
  <2>2. ASSUME NEW n \in DOMAIN ready, Brings(n, e) PROVE \E k \in DOMAIN ready' : Brings(k, e)'
    <3>1. CASE n - d \in DOMAIN ready' /\ n > d
      <4>1. ready'[n - d] = ready[n]
        <5>1. (n - d) + d = n
          BY <1>1
        <5> QED BY <1>1, <3>1, <5>1
      <4>2. Brings(n - d, e)'
        BY <2>2, <4>1 DEF Brings
      <4> QED BY <3>1, <4>2
    <3>2. CASE d = 1 /\ n = 1
      <4>1. ready[n].results = <<>> /\ DOMAIN <<>> = {}
        BY <3>2 DEF PlainStep
      <4> QED BY <2>2, <4>1 DEF Brings
    <3> QED BY <1>1, <3>1, <3>2
  <2> QED BY <2>1, <2>2, PendingIs
<1>4. ASSUME NEW e \in EngineIds PROVE Recorded(e)' = Recorded(e)
  <2>1. CASE engine_to_request[e] # 0
    BY <1>0, <1>2, <2>1 DEF Recorded, TokensIn
  <2>2. CASE engine_to_request[e] = 0 /\ engine_to_request'[e] = 0
    BY <2>2 DEF Recorded
  <2>3. CASE engine_to_request[e] = 0 /\ engine_to_request'[e] # 0
    <3>1. engine_to_request'[e] = t /\ t \in Clients /\ task[t] = "add_request"
      BY <1>2, <2>3
    <3>2. TokensIn(queues[t]) = 0 /\ received[t] = 0
      BY <3>1, NothingYet DEF Admitted, Registered
    <3>3. Recorded(e)' = received'[t] + TokensIn(queues'[t])
      BY <2>3, <3>1, Zenon DEF Recorded, TokensIn
    <3> QED BY <1>0, <2>3, <3>2, <3>3 DEF Recorded
  <2> QED BY <2>1, <2>2, <2>3
<1>5. ASSUME NEW e \in EngineIds, OfTrial(e)' PROVE Recorded(e)' + Pending(e)' + left'[e] = Budget
  <2>1. Recorded(e) + Pending(e) + left[e] = Budget
    BY <1>2, <1>5, Zenon DEF TokensAddUp
  <2> QED BY <1>0, <1>3, <1>4, <2>1
<1> QED BY <1>5, Zenon DEF TokensAddUp

-----------------------------------------------------------------------------
(***************************************************************************)
(* Tokens in a queue.                                                      *)
(***************************************************************************)
One(b) == IF b THEN 1 ELSE 0

\* An item at the end adds its token.
LEMMA TokensAppended ==
  ASSUME NEW s \in Seq(Items), NEW x \in Items
  PROVE  TokensIn(s) \in Nat /\ TokensIn(Append(s, x)) = TokensIn(s) + One(x.token)
<1>0. PICK n \in Nat : n = Len(s)
  OBVIOUS
<1>1. PICK U : n = Len(s) /\ U = {i \in 1 .. n : s[i].token}
  BY <1>0
<1>2. U \in SUBSET (1 .. n) /\ n + 1 \notin U
  BY <1>1
<1>3. IsFiniteSet(U)
  <2>1. IsFiniteSet(1 .. n)
    BY FS_Interval
  <2> QED BY <1>2, <2>1, FS_Subset
<1>4. Cardinality(U) \in Nat
  BY <1>3, FS_CardinalityType
<1>5. TokensIn(s) = Cardinality(U)
  <2>1. DOMAIN s = 1 .. n
    BY <1>1
  <2> QED BY <1>1, <2>1, Zenon DEF TokensIn
<1>6. PICK t : t = Append(s, x)
  OBVIOUS
<1>7. DOMAIN t = 1 .. n + 1 /\ t[n + 1] = x /\ \A i \in 1 .. n : t[i] = s[i]
  BY <1>1, <1>6, Grown
<1>8. {i \in DOMAIN t : t[i].token} = IF x.token THEN U \cup {n + 1} ELSE U
  BY <1>1, <1>7
<1>9. TokensIn(t) = IF x.token THEN Cardinality(U \cup {n + 1}) ELSE Cardinality(U)
  BY <1>8, Zenon DEF TokensIn
<1>10. Cardinality(U \cup {n + 1}) = Cardinality(U) + 1
  BY <1>2, <1>3, FS_AddElement
<1> QED BY <1>4, <1>5, <1>6, <1>9, <1>10 DEF One

\* An item taken from the front takes its token along.
LEMMA TokensPopped ==
  ASSUME NEW s \in Seq(Items), s # <<>>
  PROVE  TokensIn(Tail(s)) \in Nat /\ TokensIn(s) = TokensIn(Tail(s)) + One(s[1].token)
<1>0. PICK n \in Nat : n = Len(s) /\ n > 0
  OBVIOUS
<1>1. PICK t : n = Len(s) /\ n > 0 /\ t = Tail(s)
  BY <1>0
<1>2. /\ DOMAIN s = 1 .. n /\ DOMAIN t = 1 .. n - 1 /\ \A i \in 1 .. n - 1 : t[i] = s[i + 1]
  BY <1>1, Popped
<1>3. PICK T, U : T = {i \in 1 .. n - 1 : s[i + 1].token} /\ U = {i \in 2 .. n : s[i].token}
  OBVIOUS
<1>4. TokensIn(t) = Cardinality(T)
  <2>1. {i \in DOMAIN t : t[i].token} = T
    BY <1>2, <1>3
  <2> QED BY <2>1, Zenon DEF TokensIn
<1>5. TokensIn(s) = IF s[1].token THEN Cardinality(U \cup {1}) ELSE Cardinality(U)
  <2>1. {i \in DOMAIN s : s[i].token} = IF s[1].token THEN U \cup {1} ELSE U
    BY <1>1, <1>2, <1>3
  <2> QED BY <2>1, Zenon DEF TokensIn
<1>6. T \in SUBSET (1 .. n - 1) /\ U \in SUBSET (2 .. n) /\ 1 \notin U
  BY <1>3
<1>7. IsFiniteSet(T) /\ IsFiniteSet(U)
  <2>1. IsFiniteSet(1 .. n - 1) /\ IsFiniteSet(2 .. n)
    BY FS_Interval
  <2> QED BY <1>6, <2>1, FS_Subset
<1>8. Cardinality(T) = Cardinality(U)
  <2> DEFINE f == [i \in T |-> i + 1]
  <2>1. f \in [T -> U] /\ \A a, b \in T : f[a] = f[b] => a = b
    BY <1>1, <1>3
  <2>2. \A u \in U : u - 1 \in T /\ f[u - 1] = u
    <3>1. \A u \in U : u - 1 \in 1 .. n - 1 /\ (u - 1) + 1 = u
      BY <1>1, <1>3
    <3>2. \A u \in U : u - 1 \in T
      BY <1>3, <3>1
    <3> QED BY <3>1, <3>2
  <2> HIDE DEF f
  <2>3. f \in Bijection(T, U)
    BY <2>1, <2>2 DEF Bijection, Injection, Surjection, IsInjective
  <2>4. ExistsBijection(T, U)
    BY <2>3, Zenon DEF ExistsBijection
  <2> QED BY <1>7, <2>4, FS_Bijection
<1>9. Cardinality(U \cup {1}) = Cardinality(U) + 1 /\ Cardinality(U) \in Nat
  BY <1>6, <1>7, FS_AddElement, FS_CardinalityType
<1> QED BY <1>1, <1>4, <1>5, <1>8, <1>9 DEF One

-----------------------------------------------------------------------------
(***************************************************************************)
(* A client takes item x from its queue.                                   *)
(***************************************************************************)
ReadStep(c, v, x) ==
  /\ c \in Clients /\ LoopStep(c, v, 0) /\ ready' = ready /\ engine_to_request' = engine_to_request
  /\ task[c] = "reading" /\ queues[c] # <<>> /\ x = queues[c][1]
  /\ \A a \in Clients : queues'[a] = IF a = c THEN Tail(queues[c]) ELSE queues[a]
  /\ \A a \in Clients : received'[a] = IF a = c THEN received[c] + One(x.token) ELSE received[a]
  /\ \A a \in Clients : a # c => aborted'[a] = aborted[a]
  /\ v = "done" <=> x.finished
  /\ x.finished => (aborted'[c] <=> ~x.token)

\* The other items move up.
LEMMA ReadLeaves ==
  ASSUME AdapterTypeOK, NEW c, NEW v, NEW x, ReadStep(c, v, x)
  PROVE  /\ \A a \in Clients : a # c => queues'[a] = queues[a]
         /\ \A q \in DOMAIN queues'[c] : q \in Nat /\ q > 0 /\ q + 1 \in DOMAIN queues[c] /\ queues'[c][q] = queues[c][q + 1]
         /\ 1 \in DOMAIN queues[c] /\ x = queues[c][1] /\ x \in Items
         /\ queues[c] \in Seq(Items) /\ queues[c] # <<>> /\ queues'[c] = Tail(queues[c])
<1>1. c \in Clients /\ queues[c] \in Seq(Items) /\ queues[c] # <<>> /\ queues'[c] = Tail(queues[c]) /\ x = queues[c][1]
  BY DEF ReadStep, AdapterTypeOK
<1>2. PICK s \in Seq(Items) : s = queues[c] /\ s # <<>>
  BY <1>1
<1>3. /\ \A q \in DOMAIN Tail(s) : q + 1 \in DOMAIN s /\ Tail(s)[q] = s[q + 1] /\ q \in Nat /\ q > 0
      /\ 1 \in DOMAIN s /\ s[1] \in Items
  BY <1>2, Popped
<1>4. \A a \in Clients : a # c => queues'[a] = queues[a]
  BY DEF ReadStep
<1> QED BY <1>1, <1>2, <1>3, <1>4, Zenon

\* A client that has read its last item has no result on its way.
LEMMA ReadPendingSound ==
  ASSUME AdapterTypeOK, PendingSound, NEW c, NEW v, NEW x, ReadStep(c, v, x)
  PROVE  PendingSound'
<1>0. /\ ready' = ready /\ engine_to_request' = engine_to_request /\ phase' = phase /\ left' = left
      /\ c \in Clients /\ (v = "done" <=> x.finished)
      /\ \A u \in Clients : task'[u] = IF u = c THEN v ELSE task[u]
  BY DEF ReadStep, LoopStep, engineState, Tasks
<1>1. /\ \A a \in Clients : a # c => queues'[a] = queues[a]
      /\ \A q \in DOMAIN queues'[c] : q + 1 \in DOMAIN queues[c] /\ queues'[c][q] = queues[c][q + 1]
      /\ 1 \in DOMAIN queues[c] /\ x = queues[c][1]
  BY ReadLeaves
<1>2. ASSUME NEW k \in DOMAIN ready', NEW i \in DOMAIN ready'[k].results PROVE PendingAt(k, i)'
  <2>0. PICK y : y = ready[k].results[i]
    OBVIOUS
  <2>1. PendingAt(k, i)
    BY <1>0, <1>2, Zenon DEF PendingSound
  <2>2. /\ Sound(y) /\ (engine_to_request[y.id] # 0 \/ AnsweredBefore(y.id, k))
        /\ \A j \in DOMAIN ready[k].results : ready[k].results[j].id = y.id => i = j
        /\ \A b \in Clients : engine_to_request[y.id] = b =>
             task[b] # "done" /\ \A q \in DOMAIN queues[b] : ~queues[b][q].finished
    BY <2>0, <2>1, Zenon DEF PendingAt
  <2>3. Sound(y)'
    BY <1>0, <2>2 DEF Sound
  <2>4. AnsweredBefore(y.id, k)' <=> AnsweredBefore(y.id, k)
    BY <1>0, Zenon DEF AnsweredBefore
  <2>5. ASSUME NEW b \in Clients, engine_to_request[y.id] = b
        PROVE  task'[b] # "done" /\ \A q \in DOMAIN queues'[b] : ~queues'[b][q].finished
    BY <1>0, <1>1, <2>2, <2>5
  <2> QED BY <1>0, <2>0, <2>2, <2>3, <2>4, <2>5, Zenon DEF PendingAt, Sound, AnsweredBefore
<1> QED BY <1>2, Zenon DEF PendingSound

\* Reading keeps the order of the items behind.
LEMMA ReadQueuesSound ==
  ASSUME AdapterTypeOK, QueuesSound, NEW c, NEW v, NEW x, ReadStep(c, v, x)
  PROVE  QueuesSound'
<1>0. engine_to_request' = engine_to_request /\ phase' = phase /\ left' = left /\ c \in Clients
  BY DEF ReadStep, LoopStep, engineState
<1>1. /\ \A a \in Clients : a # c => queues'[a] = queues[a]
      /\ \A q \in DOMAIN queues'[c] : q \in Nat /\ q + 1 \in DOMAIN queues[c] /\ queues'[c][q] = queues[c][q + 1]
  BY ReadLeaves
<1>2. \A y : Sound(y) => Sound(y)'
  BY <1>0 DEF Sound
<1>3. ASSUME NEW b \in Clients, NEW q \in DOMAIN queues'[b] PROVE QueuedAt(b, q)'
  <2>1. CASE b # c
    <3>1. queues'[b] = queues[b]
      BY <1>1, <2>1
    <3>2. QueuedAt(b, q)
      BY <1>3, <3>1, Zenon DEF QueuesSound
    <3> QED BY <1>0, <3>1, <3>2, Zenon DEF QueuedAt, Sound
  <2>2. CASE b = c
    <3>1. PICK m \in DOMAIN queues[c] : m = q + 1
      BY <1>1, <1>3, <2>2
    <3>2. PICK z : z = queues[c][m]
      OBVIOUS
    <3>3. QueuedAt(c, m)
      BY <1>0, Zenon DEF QueuesSound
    <3>4. z # PUMP_FAILED =>
            /\ Sound(z) /\ engine_to_request[z.id] = c
            /\ z.finished => \A n \in DOMAIN queues[c] : n > m => queues[c][n] = PUMP_FAILED
      BY <3>2, <3>3, Zenon DEF QueuedAt
    <3>5. queues'[c][q] = z
      BY <1>1, <1>3, <2>2, <3>1, <3>2
    <3>6. z # PUMP_FAILED /\ z.finished => \A n \in DOMAIN queues'[c] : n > q => queues'[c][n] = PUMP_FAILED
      <4>1. SUFFICES ASSUME z # PUMP_FAILED, z.finished, NEW n \in DOMAIN queues'[c], n > q
                     PROVE  queues'[c][n] = PUMP_FAILED
        OBVIOUS
      <4>2. n + 1 > m /\ n + 1 \in DOMAIN queues[c] /\ queues'[c][n] = queues[c][n + 1]
        BY <1>1, <1>3, <2>2, <3>1, <4>1
      <4> QED BY <3>4, <4>1, <4>2
    <3>7. z # PUMP_FAILED => Sound(z)' /\ engine_to_request'[z.id] = c
      BY <1>0, <1>2, <3>4
    <3> QED BY <2>2, <3>5, <3>6, <3>7, Zenon DEF QueuedAt, Sound
  <2> QED BY <2>1, <2>2
<1> QED BY <1>3, Zenon DEF QueuesSound

\* The item that ends a client tells whether its request was aborted.
LEMMA ReadDoneSound ==
  ASSUME AdapterTypeOK, QueuesSound, DoneSound, NEW c, NEW v, NEW x, ReadStep(c, v, x)
  PROVE  DoneSound'
<1>0. /\ engine_to_request' = engine_to_request /\ phase' = phase /\ left' = left /\ c \in Clients
      /\ (v = "done" <=> x.finished) /\ task[c] = "reading"
      /\ \A u \in Clients : task'[u] = IF u = c THEN v ELSE task[u]
      /\ \A a \in Clients : a # c => aborted'[a] = aborted[a]
      /\ x.finished => (aborted'[c] <=> ~x.token)
  BY DEF ReadStep, LoopStep, engineState, Tasks
<1>1. /\ \A a \in Clients : a # c => queues'[a] = queues[a]
      /\ \A q \in DOMAIN queues'[c] : q \in Nat /\ q > 0 /\ q + 1 \in DOMAIN queues[c] /\ queues'[c][q] = queues[c][q + 1]
      /\ 1 \in DOMAIN queues[c] /\ x = queues[c][1]
  BY ReadLeaves
<1>2. ASSUME NEW b \in Clients, task'[b] = "done"
      PROVE  \E e \in EngineIds :
               /\ engine_to_request'[e] = b /\ phase'[e] = "finished"
               /\ aborted'[b] <=> left'[e] # 0
               /\ \A q \in DOMAIN queues'[b] : queues'[b][q] = PUMP_FAILED
  <2>1. CASE b # c
    <3>1. PICK e \in EngineIds :
               /\ engine_to_request[e] = b /\ phase[e] = "finished"
               /\ aborted[b] <=> left[e] # 0
               /\ \A q \in DOMAIN queues[b] : queues[b][q] = PUMP_FAILED
      <4>1. task[b] = "done"
        <5>1. b \in Clients /\ task'[b] = (IF b = c THEN v ELSE task[b])
          BY <1>0
        <5> QED BY <1>2, <2>1, <5>1
      <4> QED BY <4>1 DEF DoneSound
    <3>2. /\ queues'[b] = queues[b] /\ aborted'[b] = aborted[b]
          /\ engine_to_request' = engine_to_request /\ phase' = phase /\ left' = left
      BY <1>0, <1>1, <2>1
    <3> HIDE <1>0, <1>1
    <3> QED BY <3>1, <3>2, Zenon
  <2>2. CASE b = c
    <3>1. x.finished /\ x # PUMP_FAILED
      BY <1>0, <1>2, <2>2, SentinelIs
    <3>2. /\ Sound(x) /\ engine_to_request[x.id] = c
          /\ \A n \in DOMAIN queues[c] : n > 1 => queues[c][n] = PUMP_FAILED
      <4>1. c \in Clients /\ 1 \in DOMAIN queues[c] /\ x = queues[c][1]
        BY <1>0, <1>1
      <4>2. QueuedAt(c, 1)
        BY <4>1 DEF QueuesSound
      <4> QED BY <3>1, <4>1, <4>2 DEF QueuedAt
    <3>3. x.id \in EngineIds /\ phase[x.id] = "finished" /\ (x.token <=> left[x.id] = 0)
      BY <3>1, <3>2, Zenon DEF Sound
    <3>4. \A q \in DOMAIN queues'[c] : queues'[c][q] = PUMP_FAILED
      BY <1>1, <3>2
    <3> QED BY <1>0, <2>2, <3>1, <3>2, <3>3, <3>4, Zenon
  <2> QED BY <2>1, <2>2
<1> QED BY <1>2, Zenon DEF DoneSound

\* A token moves from the queue into the record.
LEMMA ReadTokens ==
  ASSUME AdapterTypeOK, TokensAddUp, NEW c, NEW v, NEW x, ReadStep(c, v, x)
  PROVE  TokensAddUp'
<1>0. /\ engine_to_request' = engine_to_request /\ ready' = ready /\ left' = left /\ c \in Clients
      /\ \A a \in Clients : received'[a] = IF a = c THEN received[c] + One(x.token) ELSE received[a]
  BY DEF ReadStep, LoopStep, engineState
<1>1. /\ \A a \in Clients : a # c => queues'[a] = queues[a]
      /\ x = queues[c][1]
      /\ queues[c] \in Seq(Items) /\ queues[c] # <<>> /\ queues'[c] = Tail(queues[c])
  BY ReadLeaves
<1>2. PICK m \in Nat, n \in Nat, k \in Nat :
        /\ m = TokensIn(queues[c]) /\ n = TokensIn(queues'[c]) /\ k = One(x.token) /\ m = n + k
  <2>1. One(x.token) \in Nat
    BY DEF One
  <2>2. TokensIn(Tail(queues[c])) \in Nat /\ TokensIn(queues[c]) = TokensIn(Tail(queues[c])) + One(queues[c][1].token)
    BY <1>1, TokensPopped
  <2>3. TokensIn(queues[c]) \in Nat
    BY <1>1, <2>1, <2>2
  <2> QED BY <1>1, <2>1, <2>2, <2>3
<1>3. received[c] \in Nat
  BY <1>0 DEF AdapterTypeOK
<1>4. received'[c] + TokensIn(queues'[c]) = received[c] + TokensIn(queues[c])
  BY <1>0, <1>2, <1>3
<1>5. ASSUME NEW e \in EngineIds PROVE Recorded(e)' = Recorded(e)
  <2>1. Recorded(e)' = IF engine_to_request[e] = 0 THEN 0
                       ELSE received'[engine_to_request[e]] + TokensIn(queues'[engine_to_request[e]])
    BY <1>0, Zenon DEF Recorded, TokensIn
  <2>2. engine_to_request[e] = 0 \/ engine_to_request[e] \in Clients
    BY DEF AdapterTypeOK, Tasks, Pump
  <2>3. CASE engine_to_request[e] = c
    BY <1>4, <2>1, <2>3 DEF Recorded
  <2>4. CASE engine_to_request[e] # c
    BY <1>0, <1>1, <2>1, <2>2, <2>4 DEF Recorded
  <2> QED BY <2>3, <2>4
<1>6. ASSUME NEW e \in EngineIds, OfTrial(e)' PROVE Recorded(e)' + Pending(e)' + left'[e] = Budget
  <2>1. OfTrial(e) /\ Pending(e)' = Pending(e)
    BY <1>0, <1>6, Zenon DEF OfTrial, AnsweredBefore, Pending
  <2>2. Recorded(e) + Pending(e) + left[e] = Budget
    BY <2>1, Zenon DEF TokensAddUp
  <2> QED BY <1>0, <1>5, <2>1, <2>2
<1> QED BY <1>6, Zenon DEF TokensAddUp

-----------------------------------------------------------------------------
(***************************************************************************)
(* The pump takes the results rs of a step, and puts each into the queue   *)
(* of its request; or it fails, and puts the sentinel into every queue.    *)
(***************************************************************************)
PumpStep(v, rs) ==
  /\ LoopStep(Pump, v, 1) /\ rs = ready[1].results /\ engine_to_request' = engine_to_request
  /\ received' = received /\ aborted' = aborted
  /\ \A c \in Clients :
       \/ /\ queues'[c] = queues[c] \/ queues'[c] = Append(queues[c], PUMP_FAILED)
          /\ \A i \in DOMAIN rs : engine_to_request[rs[i].id] # c
       \/ \E i \in DOMAIN rs :
            engine_to_request[rs[i].id] = c /\ rs[i] \in Items /\ queues'[c] = Append(queues[c], rs[i])

\* Only the pump's completion brings results, and the engine knows each of them.
LEMMA PumpAlone ==
  ASSUME AdapterTypeOK, OneCall, RepliesSound, PendingSound, NEW rs,
         ready # <<>>, ready[1].task = Pump, rs = ready[1].results
  PROVE  /\ \A k \in DOMAIN ready : k # 1 => ready[k].results = <<>>
         /\ 1 \in DOMAIN ready /\ rs \in Seq(Items)
         /\ \A i \in DOMAIN rs : /\ rs[i] \in Items /\ Sound(rs[i]) /\ engine_to_request[rs[i].id] # 0
                                 /\ \A j \in DOMAIN rs : rs[j].id = rs[i].id => i = j
                                 /\ \A c \in Clients : engine_to_request[rs[i].id] = c =>
                                      task[c] # "done" /\ \A q \in DOMAIN queues[c] : ~queues[c][q].finished
<1>1. ready \in Seq(Replies) /\ 1 \in DOMAIN ready /\ \A k \in DOMAIN ready : k \in Nat /\ k > 0
  BY DEF AdapterTypeOK
<1>2. \A k \in DOMAIN ready : ready[k].task = ready[1].task => k = 1
  BY <1>1, Zenon DEF OneCall
<1>3. \A k \in DOMAIN ready : k # 1 => ready[k].results = <<>>
  BY <1>2, Zenon DEF RepliesSound
<1>4. rs \in Seq(Items)
  <2>1. ready[1] \in Replies
    BY <1>1
  <2> QED BY <2>1 DEF Replies
<1>5. ASSUME NEW i \in DOMAIN rs
      PROVE  /\ rs[i] \in Items /\ Sound(rs[i]) /\ engine_to_request[rs[i].id] # 0
             /\ \A j \in DOMAIN rs : rs[j].id = rs[i].id => i = j
             /\ \A c \in Clients : engine_to_request[rs[i].id] = c =>
                  task[c] # "done" /\ \A q \in DOMAIN queues[c] : ~queues[c][q].finished
  <2>1. rs[i] \in Items
    BY <1>4
  <2>2. PendingAt(1, i)
    BY <1>1, Zenon DEF PendingSound
  <2>3. /\ Sound(rs[i]) /\ (engine_to_request[rs[i].id] # 0 \/ AnsweredBefore(rs[i].id, 1))
        /\ \A j \in DOMAIN rs : rs[j].id = rs[i].id => i = j
        /\ \A c \in Clients : engine_to_request[rs[i].id] = c =>
                  task[c] # "done" /\ \A q \in DOMAIN queues[c] : ~queues[c][q].finished
    BY <2>2, Zenon DEF PendingAt
  <2>4. ~AnsweredBefore(rs[i].id, 1)
    BY <1>1 DEF AnsweredBefore
  <2> QED BY <2>1, <2>3, <2>4
<1> QED BY <1>1, <1>3, <1>4, <1>5

\* After that no result is on its way.
LEMMA PumpEmpties ==
  ASSUME AdapterTypeOK, OneCall, RepliesSound, PendingSound, NEW v, NEW rs, PumpStep(v, rs)
  PROVE  /\ ready # <<>> /\ ready[1].task = Pump /\ rs = ready[1].results
         /\ \A k \in DOMAIN ready' : DOMAIN ready'[k].results = {}
<1>1. LoopStep(Pump, v, 1) /\ rs = ready[1].results
  BY DEF PumpStep
<1>2. ready # <<>> /\ ready[1].task = Pump
  BY <1>1 DEF LoopStep
<1>3. \A k \in DOMAIN ready' : k \in Nat /\ k + 1 \in DOMAIN ready /\ ready'[k] = ready[k + 1] /\ k # 0
  <2>1. Left(Pump, 1)
    BY <1>1, LoopLeaves
  <2>2. DOMAIN ready' = 1 .. Len(ready) - 1
    BY <1>1 DEF LoopStep
  <2> QED BY <2>1, <2>2 DEF Left
<1>4. \A k \in DOMAIN ready : k # 1 => ready[k].results = <<>>
  BY <1>1, <1>2, PumpAlone
<1>5. \A k \in DOMAIN ready' : ready'[k].results = <<>>
  BY <1>3, <1>4
<1>6. DOMAIN <<>> = {}
  OBVIOUS
<1> QED BY <1>1, <1>2, <1>5, <1>6

\* Nothing is on its way any more.
LEMMA PumpPendingSound ==
  ASSUME AdapterTypeOK, OneCall, RepliesSound, PendingSound, NEW v, NEW rs, PumpStep(v, rs)
  PROVE  PendingSound'
<1>1. \A k \in DOMAIN ready' : DOMAIN ready'[k].results = {}
  BY PumpEmpties
<1> QED BY <1>1 DEF PendingSound

\* A result goes to the client of its id, never behind a finishing one.
LEMMA PumpQueuesSound ==
  ASSUME AdapterTypeOK, OneCall, RepliesSound, PendingSound, QueuesSound, NEW v, NEW rs, PumpStep(v, rs)
  PROVE  QueuesSound'
<1>0. engine_to_request' = engine_to_request /\ phase' = phase /\ left' = left
  BY DEF PumpStep, LoopStep, engineState
<1>1. \A i \in DOMAIN rs :
        /\ Sound(rs[i])
        /\ \A c \in Clients : engine_to_request[rs[i].id] = c =>
                 \A q \in DOMAIN queues[c] : ~queues[c][q].finished
  BY PumpEmpties, PumpAlone
<1>2. ASSUME NEW c \in Clients PROVE \A q \in DOMAIN queues'[c] : QueuedAt(c, q)'
  <2>0. queues[c] \in Seq(Items)
    BY DEF AdapterTypeOK
  <2>1. CASE queues'[c] = queues[c]
    <3>1. ASSUME NEW q \in DOMAIN queues'[c] PROVE QueuedAt(c, q)'
      <4>1. QueuedAt(c, q)
        BY <2>1, <3>1, Zenon DEF QueuesSound
      <4> QED BY <1>0, <2>1, <4>1, Zenon DEF QueuedAt, Sound
    <3> QED BY <3>1
  <2>2. ASSUME NEW y \in Items, queues'[c] = Append(queues[c], y),
               y # PUMP_FAILED => Sound(y) /\ engine_to_request[y.id] = c,
               y # PUMP_FAILED => \A q \in DOMAIN queues[c] : ~queues[c][q].finished
        PROVE  \A q \in DOMAIN queues'[c] : QueuedAt(c, q)'
    <3>1. PICK n \in Nat : n = Len(queues[c])
      BY <2>0
    <3>2. /\ DOMAIN queues[c] = 1 .. n /\ DOMAIN queues'[c] = 1 .. n + 1
          /\ queues'[c][n + 1] = y /\ \A k \in DOMAIN queues[c] : queues'[c][k] = queues[c][k]
      BY <2>0, <2>2, <3>1, Grown
    <3>3. ASSUME NEW q \in DOMAIN queues'[c], q # n + 1 PROVE QueuedAt(c, q)'
      <4>1. PICK x : x = queues[c][q] /\ x = queues'[c][q] /\ q \in DOMAIN queues[c]
        BY <3>2, <3>3
      <4>2. x # PUMP_FAILED =>
              /\ Sound(x) /\ engine_to_request[x.id] = c
              /\ x.finished => \A m \in DOMAIN queues[c] : m > q => queues[c][m] = PUMP_FAILED
        BY <4>1, Zenon DEF QueuesSound, QueuedAt
      <4>3. x # PUMP_FAILED /\ x.finished => \A m \in DOMAIN queues'[c] : m > q => queues'[c][m] = PUMP_FAILED
        <5>1. SUFFICES ASSUME x # PUMP_FAILED, x.finished, NEW m \in DOMAIN queues'[c], m > q
                       PROVE  queues'[c][m] = PUMP_FAILED
          OBVIOUS
        <5>2. CASE m = n + 1
          BY <2>2, <3>2, <4>1, <5>1, <5>2
        <5>3. CASE m # n + 1
          BY <3>2, <4>2, <5>1, <5>3
        <5> QED BY <5>2, <5>3
      <4>4. x # PUMP_FAILED => Sound(x)'
        BY <1>0, <4>2 DEF Sound
      <4> QED BY <1>0, <4>1, <4>2, <4>3, <4>4, Zenon DEF QueuedAt, Sound
    <3>4. ASSUME NEW q \in DOMAIN queues'[c], q = n + 1 PROVE QueuedAt(c, q)'
      <4>1. queues'[c][q] = y /\ \A m \in DOMAIN queues'[c] : ~(m > q)
        BY <3>2, <3>4
      <4>2. y # PUMP_FAILED => Sound(y)' /\ engine_to_request'[y.id] = c
        BY <1>0, <2>2 DEF Sound
      <4> QED BY <4>1, <4>2, Zenon DEF QueuedAt, Sound
    <3> QED BY <3>3, <3>4
  <2>3. CASE queues'[c] = Append(queues[c], PUMP_FAILED)
    BY <2>2, <2>3, SentinelIs
  <2>4. CASE \E i \in DOMAIN rs : engine_to_request[rs[i].id] = c /\ rs[i] \in Items /\ queues'[c] = Append(queues[c], rs[i])
    <3>1. PICK i \in DOMAIN rs : engine_to_request[rs[i].id] = c /\ rs[i] \in Items /\ queues'[c] = Append(queues[c], rs[i])
      BY <2>4
    <3>2. PICK y \in Items : y = rs[i]
      BY <3>1
    <3>3. Sound(y) /\ \A q \in DOMAIN queues[c] : ~queues[c][q].finished
      BY <1>1, <3>1, <3>2
    <3> QED BY <2>2, <3>1, <3>2, <3>3
  <2> QED BY <2>1, <2>3, <2>4, Zenon DEF PumpStep
<1> QED BY <1>2, Zenon DEF QueuesSound

\* A client that is done gets the sentinel at most.
LEMMA PumpDoneSound ==
  ASSUME AdapterTypeOK, OneCall, RepliesSound, PendingSound, DoneSound, NEW v, NEW rs, PumpStep(v, rs)
  PROVE  DoneSound'
<1>0. engine_to_request' = engine_to_request /\ phase' = phase /\ left' = left /\ aborted' = aborted
  BY DEF PumpStep, LoopStep, engineState
<1>1. \A i \in DOMAIN rs : \A c \in Clients : engine_to_request[rs[i].id] = c => task[c] # "done"
  BY PumpEmpties, PumpAlone
<1>2. ASSUME NEW c \in Clients, task'[c] = "done"
      PROVE  \E e \in EngineIds :
               /\ engine_to_request'[e] = c /\ phase'[e] = "finished"
               /\ aborted'[c] <=> left'[e] # 0
               /\ \A q \in DOMAIN queues'[c] : queues'[c][q] = PUMP_FAILED
  <2>1. task[c] = "done" /\ queues[c] \in Seq(Items)
    <3>1. c \in Tasks /\ c # Pump
      BY IdsFinite DEF Tasks, Pump
    <3> QED BY <1>2, <3>1 DEF PumpStep, LoopStep, AdapterTypeOK
  <2>2. PICK e \in EngineIds :
               /\ engine_to_request[e] = c /\ phase[e] = "finished"
               /\ aborted[c] <=> left[e] # 0
               /\ \A q \in DOMAIN queues[c] : queues[c][q] = PUMP_FAILED
    BY <2>1, Zenon DEF DoneSound
  <2>3. queues'[c] = queues[c] \/ queues'[c] = Append(queues[c], PUMP_FAILED)
    <3>1. \A i \in DOMAIN rs : engine_to_request[rs[i].id] # c
      BY <1>1, <2>1
    <3>2. \/ queues'[c] = queues[c] \/ queues'[c] = Append(queues[c], PUMP_FAILED)
          \/ \E i \in DOMAIN rs : engine_to_request[rs[i].id] = c
      BY Zenon DEF PumpStep
    <3> QED BY <3>1, <3>2, Zenon
  <2>4. \A q \in DOMAIN queues'[c] : queues'[c][q] = PUMP_FAILED
    <3>1. CASE queues'[c] = queues[c]
      BY <2>2, <3>1
    <3>2. CASE queues'[c] = Append(queues[c], PUMP_FAILED)
      <4>1. /\ \A k \in DOMAIN queues'[c] : k \in DOMAIN queues[c] \/ k = Len(queues[c]) + 1
            /\ queues'[c][Len(queues[c]) + 1] = PUMP_FAILED
            /\ \A k \in DOMAIN queues[c] : queues'[c][k] = queues[c][k]
        BY <2>1, <3>2, SentinelIs, Grown
      <4> QED BY <2>2, <4>1
    <3> QED BY <2>3, <3>1, <3>2
  <2> QED BY <1>0, <2>2, <2>4, Zenon
<1> QED BY <1>2, Zenon DEF DoneSound

\* A token moves from the completion into the queue.
LEMMA PumpTokens ==
  ASSUME AdapterTypeOK, OneCall, RepliesSound, Registered, PendingSound, TokensAddUp,
         NEW v, NEW rs, PumpStep(v, rs)
  PROVE  TokensAddUp'
<1>0. /\ engine_to_request' = engine_to_request /\ left' = left /\ received' = received
      /\ ready # <<>> /\ ready[1].task = Pump /\ rs = ready[1].results
      /\ LoopStep(Pump, v, 1)
  BY DEF PumpStep, LoopStep, engineState
<1>1. /\ \A k \in DOMAIN ready : k # 1 => ready[k].results = <<>>
      /\ 1 \in DOMAIN ready
      /\ \A i \in DOMAIN rs : /\ engine_to_request[rs[i].id] # 0 /\ rs[i].id \in EngineIds
                              /\ \A j \in DOMAIN rs : rs[j].id = rs[i].id => i = j
  BY <1>0, PumpAlone DEF Sound
<1>2. \A k \in DOMAIN ready' : DOMAIN ready'[k].results = {}
  BY PumpEmpties
<1>3. \A e \in EngineIds : OfTrial(e)' <=> OfTrial(e)
  BY <1>0, LoopIds
<1>4. ASSUME NEW e \in EngineIds
      PROVE  Pending(e)' = 0 /\ Pending(e) = One(\E i \in DOMAIN rs : rs[i].id = e /\ rs[i].token)
  <2>1. \A k \in DOMAIN ready' : ~Brings(k, e)'
    BY <1>2 DEF Brings
  <2>2. Brings(1, e) <=> \E i \in DOMAIN rs : rs[i].id = e /\ rs[i].token
    BY <1>0 DEF Brings
  <2>3. \A k \in DOMAIN ready : Brings(k, e) => k = 1
    <3>1. DOMAIN <<>> = {}
      OBVIOUS
    <3> QED BY <1>1, <3>1 DEF Brings
  <2> QED BY <1>1, <2>1, <2>2, <2>3, PendingIs DEF One
<1>5. ASSUME NEW e \in EngineIds, OfTrial(e)' PROVE Recorded(e)' + Pending(e)' + left'[e] = Budget
  <2>1. Recorded(e) + Pending(e) + left[e] = Budget
    BY <1>3, <1>5, Zenon DEF TokensAddUp
  <2>2. SUFFICES Recorded(e)' = Recorded(e) + Pending(e) /\ Recorded(e)' \in Nat
    <3>1. left[e] \in Nat
      BY DEF AdapterTypeOK
    <3>2. PICK r \in Nat : r = Recorded(e)' /\ r + left[e] = Budget
      BY <2>1, <2>2
    <3>3. Pending(e)' = 0 /\ left'[e] = left[e]
      BY <1>0, <1>4
    <3>4. r + 0 + left[e] = Budget
      BY <3>1, <3>2
    <3> QED BY <3>2, <3>3, <3>4, Zenon
  <2>3. CASE engine_to_request[e] = 0
    <3>1. Recorded(e) = 0 /\ Recorded(e)' = 0
      BY <1>0, <2>3 DEF Recorded
    <3>2. Pending(e) = 0
      BY <1>1, <1>4, <2>3 DEF One
    <3> QED BY <3>1, <3>2
  <2>4. CASE engine_to_request[e] # 0
    <3>1. PICK c \in Clients : c = engine_to_request[e]
      BY <2>4 DEF AdapterTypeOK, Tasks, Pump
    <3>2. queues[c] \in Seq(Items) /\ received[c] \in Nat
      BY DEF AdapterTypeOK
    <3>3. /\ Recorded(e) = received[c] + TokensIn(queues[c])
          /\ Recorded(e)' = received[c] + TokensIn(queues'[c])
      <4>1. Recorded(e) = received[c] + TokensIn(queues[c])
        BY <2>4, <3>1, Zenon DEF Recorded
      <4>2. Recorded(e)' = received'[c] + TokensIn(queues'[c])
        BY <1>0, <2>4, <3>1, Zenon DEF Recorded, TokensIn
      <4> QED BY <1>0, <4>1, <4>2
    <3>4. TokensIn(queues[c]) \in Nat
      BY <3>2, SentinelIs, TokensAppended
    <3>5. CASE /\ queues'[c] = queues[c] \/ queues'[c] = Append(queues[c], PUMP_FAILED)
               /\ \A i \in DOMAIN rs : engine_to_request[rs[i].id] # c
      <4>1. Pending(e) = 0
        BY <1>4, <3>1, <3>5 DEF One
      <4>2. TokensIn(queues'[c]) = TokensIn(queues[c])
        <5>1. TokensIn(Append(queues[c], PUMP_FAILED)) = TokensIn(queues[c]) + One(PUMP_FAILED.token)
          BY <3>2, SentinelIs, TokensAppended
        <5>2. One(PUMP_FAILED.token) = 0
          BY SentinelIs DEF One
        <5>3. TokensIn(Append(queues[c], PUMP_FAILED)) = TokensIn(queues[c])
          BY <3>4, <5>1, <5>2
        <5> QED BY <3>5, <5>3, Zenon
      <4> QED BY <3>2, <3>3, <3>4, <4>1, <4>2
    <3>6. CASE \E i \in DOMAIN rs : engine_to_request[rs[i].id] = c /\ rs[i] \in Items /\ queues'[c] = Append(queues[c], rs[i])
      <4>1. PICK i \in DOMAIN rs : engine_to_request[rs[i].id] = c /\ rs[i] \in Items /\ queues'[c] = Append(queues[c], rs[i])
        BY <3>6
      <4>2. rs[i].id = e
        BY <1>1, <2>4, <3>1, <4>1 DEF Registered
      <4>3. (\E j \in DOMAIN rs : rs[j].id = e /\ rs[j].token) <=> rs[i].token
        BY <1>1, <4>1, <4>2
      <4>4. Pending(e) = One(rs[i].token) /\ One(rs[i].token) \in Nat
        BY <1>4, <4>3 DEF One
      <4>5. TokensIn(queues'[c]) = TokensIn(queues[c]) + One(rs[i].token)
        BY <3>2, <4>1, TokensAppended
      <4> QED BY <3>2, <3>3, <3>4, <4>4, <4>5
    <3> QED BY <3>5, <3>6, Zenon DEF PumpStep
  <2> QED BY <2>3, <2>4
<1> QED BY <1>5, Zenon DEF TokensAddUp

-----------------------------------------------------------------------------
(***************************************************************************)
(* The tasks' actions are such steps.                                      *)
(***************************************************************************)
PumpStates   == {"none", "start", "step", "nap", "done", "failed", "cancelled"}
ClientStates == {"none", "arriving", "has_capacity", "backoff", "add_request",
                 "reading", "done", "failed", "cancelled"}

Turn(t, v, d) ==
  /\ t \in Tasks /\ d \in {0, 1}
  /\ task' = [task EXCEPT ![t] = v]
  /\ UNCHANGED <<engineState, main, poisoned, outcome>>
  /\ IF d = 1 THEN ready # <<>> /\ ready[1].task = t /\ ready' = Tail(ready)
              ELSE ready' = ready /\ task[t] \notin CallNames
  /\ jobs' = jobs \/ (v \in CallNames /\ jobs' = Append(jobs, Call(t, v)))
  /\ t = Pump => v \in PumpStates
  /\ t \in Clients => v \in ClientStates /\ task[t] \notin {"none", "cancelled"}
  /\ task[t] \in Admitted => v \in Admitted

\* A task's turn keeps the types.
LEMMA TurnTypes ==
  ASSUME AdapterTypeOK, NEW t, NEW v, NEW d, Turn(t, v, d),
         queues' \in [Clients -> Seq(Items)], engine_to_request' \in [EngineIds -> Tasks],
         received' \in [Clients -> Nat], aborted' \in [Clients -> BOOLEAN]
  PROVE  AdapterTypeOK'
<1>1. /\ phase' = phase /\ left' = left /\ next_id' = next_id /\ main' = main /\ poisoned' = poisoned
      /\ t \in Tasks /\ task' = [task EXCEPT ![t] = v] /\ d \in {0, 1}
  BY DEF Turn, engineState
<1>2. /\ phase' \in [EngineIds -> Phases] /\ left' \in [EngineIds -> Nat] /\ next_id' \in Nat \ {0}
      /\ main' \in {"idle", "driving"} /\ poisoned' \in BOOLEAN
  BY <1>1, Zenon DEF AdapterTypeOK
<1>3. jobs' \in Seq(Calls)
  <2>1. jobs \in Seq(Calls)
    BY DEF AdapterTypeOK
  <2>2. CASE jobs' = jobs
    BY <2>1, <2>2
  <2>3. CASE v \in CallNames /\ jobs' = Append(jobs, Call(t, v))
    <3>1. Call(t, v) \in Calls
      BY <1>1, <2>3 DEF Call, Calls, CallNames
    <3> QED BY <2>1, <2>3, <3>1, Grown
  <2> QED BY <2>2, <2>3 DEF Turn
<1>4. ready' \in Seq(Replies)
  <2>1. ready \in Seq(Replies)
    BY DEF AdapterTypeOK
  <2>2. CASE d = 1
    <3>1. ready # <<>> /\ ready' = Tail(ready)
      BY <2>2 DEF Turn
    <3> QED BY <2>1, <3>1, Popped
  <2>3. CASE d = 0
    BY <2>1, <2>3 DEF Turn
  <2> QED BY <1>1, <2>2, <2>3
<1>5. /\ DOMAIN task = Tasks /\ task[Pump] \in PumpStates /\ \A c \in Clients : task[c] \in ClientStates
  BY Zenon DEF AdapterTypeOK, PumpStates, ClientStates
<1>6. DOMAIN task' = Tasks /\ \A u \in Tasks : task'[u] = IF u = t THEN v ELSE task[u]
  BY <1>1, <1>5
<1>7. Pump \in Tasks /\ \A c \in Clients : c \in Tasks
  BY DEF Tasks
<1>8. task'[Pump] \in PumpStates /\ \A c \in Clients : task'[c] \in ClientStates
  <2>1. (t = Pump => v \in PumpStates) /\ (t \in Clients => v \in ClientStates)
    BY DEF Turn
  <2> QED BY <1>5, <1>6, <1>7, <2>1
<1> QED BY <1>2, <1>3, <1>4, <1>6, <1>8, Zenon DEF AdapterTypeOK, PumpStates, ClientStates

\* A task's turn is a step of the loop.
LEMMA TurnSteps ==
  ASSUME AdapterTypeOK, NEW t, NEW v, NEW d, Turn(t, v, d),
         \A e \in EngineIds :
           engine_to_request'[e] = IF d = 1 /\ ready[1].id = e THEN t ELSE engine_to_request[e],
         d = 1 /\ ready[1].id # 0 => v = "reading" /\ t \in Clients
  PROVE  LoopStep(t, v, d)
<1>1. ready \in Seq(Replies) /\ DOMAIN task = Tasks
  BY DEF AdapterTypeOK
<1>2. t \in Tasks /\ d \in {0, 1} /\ UNCHANGED engineState /\ task' = [task EXCEPT ![t] = v]
  BY DEF Turn
<1>3. \A u \in Tasks : task'[u] = IF u = t THEN v ELSE task[u]
  BY <1>1, <1>2
<1>4. /\ DOMAIN ready' = 1 .. Len(ready) - d /\ Len(ready') = Len(ready) - d
      /\ \A k \in DOMAIN ready' : ready'[k] = ready[k + d]
  <2>1. CASE d = 1
    <3>1. ready # <<>> /\ ready' = Tail(ready)
      BY <2>1 DEF Turn
    <3> QED BY <1>1, <2>1, <3>1, Popped
  <2>2. CASE d = 0
    <3>1. ready' = ready
      BY <2>2 DEF Turn
    <3> QED BY <1>1, <2>2, <3>1
  <2> QED BY <1>2, <2>1, <2>2
<1>5. /\ IF d = 1 THEN ready # <<>> /\ ready[1].task = t ELSE task[t] \notin CallNames
      /\ jobs' = jobs \/ (v \in CallNames /\ jobs' = Append(jobs, Call(t, v)))
      /\ task[t] \in Admitted => v \in Admitted
      /\ t \in Clients => task[t] \notin {"none", "cancelled"}
  BY Zenon DEF Turn
<1> QED BY <1>2, <1>3, <1>4, <1>5 DEF LoopStep

\* Whose answer it is, and whether it carries an id.
LEMMA AnswerIs ==
  ASSUME AdapterTypeOK, OneCall, RepliesSound, NEW t, Answered(t)
  PROVE  /\ ready # <<>> /\ ready[1].task = t /\ Head(ready) = ready[1] /\ ready[1] \in Replies
         /\ ready[1].id # 0 <=> ready[1].ok /\ task[t] = "add_request"
         /\ t # Pump => ready[1].results = <<>>
         /\ ~ready[1].ok => ready[1].results = <<>>
<1>1. ready \in Seq(Replies) /\ ready # <<>> /\ Head(ready).task = t
  BY DEF AdapterTypeOK, Answered
<1>2. Head(ready) = ready[1] /\ 1 \in DOMAIN ready /\ ready[1] \in Replies
  BY <1>1, Popped
<1> QED BY <1>1, <1>2, Zenon DEF RepliesSound

\* The trial goes on.
Goes == AdapterTypeOK /\ EngineSound /\ RoutingKnown /\ Driving

\* The engine is sound as long as nobody calls it.
LEMMA EngineKept ==
  ASSUME EngineSound, UNCHANGED engineState
  PROVE  EngineSound'
<1>1. phase' = phase /\ left' = left /\ next_id' = next_id
  BY DEF engineState
<1>2. Live' = Live
  BY <1>1 DEF Live, InPhase
<1> QED BY <1>1, <1>2 DEF EngineSound

\* The trial goes on after a step that moves no result.
LEMMA PlainGoes ==
  ASSUME Goes, NEW t, NEW v, NEW d, Turn(t, v, d), PlainStep(t, v, d),
         pump_error' = pump_error, engine_to_request' \in [EngineIds -> Tasks]
  PROVE  Goes'
<1>1. AdapterTypeOK /\ EngineSound /\ RoutingKnown /\ Driving /\ LoopStep(t, v, d)
  BY DEF Goes, PlainStep
<1>2. /\ OneCall /\ RepliesSound /\ Registered
      /\ PendingSound /\ QueuesSound /\ DoneSound /\ TokensAddUp
      /\ ~poisoned /\ outcome = "none"
  BY <1>1, Zenon DEF Driving
<1>3. queues' = queues /\ received' = received /\ aborted' = aborted
  BY DEF PlainStep
<1>4. AdapterTypeOK'
  <2>1. queues' \in [Clients -> Seq(Items)] /\ received' \in [Clients -> Nat] /\ aborted' \in [Clients -> BOOLEAN]
    BY <1>1, <1>3, Zenon DEF AdapterTypeOK
  <2> QED BY <1>1, <2>1, TurnTypes
<1>5. EngineSound'
  BY <1>1, EngineKept DEF Turn
<1>6. OneCall' /\ RepliesSound'
  BY <1>1, <1>2, LoopOneCall, LoopRepliesSound
<1>7. Registered'
  BY <1>1, <1>2, <1>3, LoopRegistered
<1>8. PendingSound' /\ QueuesSound' /\ DoneSound' /\ TokensAddUp'
  BY <1>1, <1>2, PlainPendingSound, PlainQueuesSound, PlainDoneSound, PlainTokens
<1>9. ~poisoned' /\ outcome' = "none" /\ RoutingKnown'
  BY <1>1, <1>2, Zenon DEF Turn, RoutingKnown
<1> QED BY <1>4, <1>5, <1>6, <1>7, <1>8, <1>9, Zenon DEF Goes, Driving

\* The trial goes on after a client has read.
LEMMA ReadGoes ==
  ASSUME Goes, NEW c, NEW v, NEW x, Turn(c, v, 0), ReadStep(c, v, x), pump_error' = pump_error,
         queues' \in [Clients -> Seq(Items)], received' \in [Clients -> Nat],
         aborted' \in [Clients -> BOOLEAN]
  PROVE  Goes'
<1>1. AdapterTypeOK /\ EngineSound /\ RoutingKnown /\ Driving /\ LoopStep(c, v, 0)
  BY DEF Goes, ReadStep
<1>2. /\ OneCall /\ RepliesSound /\ Registered
      /\ PendingSound /\ QueuesSound /\ DoneSound /\ TokensAddUp
      /\ ~poisoned /\ outcome = "none"
  BY <1>1, Zenon DEF Driving
<1>3. engine_to_request' = engine_to_request
  BY DEF ReadStep
<1>4. AdapterTypeOK'
  <2>1. engine_to_request' \in [EngineIds -> Tasks]
    BY <1>1, <1>3, Zenon DEF AdapterTypeOK
  <2> QED BY <1>1, <2>1, TurnTypes
<1>5. EngineSound'
  BY <1>1, EngineKept DEF Turn
<1>6. OneCall' /\ RepliesSound'
  BY <1>1, <1>2, LoopOneCall, LoopRepliesSound
<1>7. Registered'
  <2>1. \A a \in Clients : received'[a] # received[a] => task'[a] \in Admitted
    <3>1. \A a \in Clients : received'[a] # received[a] => a = c
      BY DEF ReadStep
    <3>2. task[c] = "reading" /\ c \in Tasks /\ task'[c] = v /\ v \in Admitted
      BY <1>1 DEF ReadStep, LoopStep, Admitted
    <3> QED BY <3>1, <3>2
  <2> QED BY <1>1, <1>2, <2>1, LoopRegistered
<1>8. PendingSound' /\ QueuesSound' /\ DoneSound' /\ TokensAddUp'
  BY <1>1, <1>2, ReadPendingSound, ReadQueuesSound, ReadDoneSound, ReadTokens
<1>9. ~poisoned' /\ outcome' = "none" /\ RoutingKnown'
  BY <1>1, <1>2, Zenon DEF Turn, RoutingKnown
<1> QED BY <1>4, <1>5, <1>6, <1>7, <1>8, <1>9, Zenon DEF Goes, Driving

\* The trial goes on after the pump has routed or failed.
LEMMA PumpGoes ==
  ASSUME Goes, NEW v, NEW rs, Turn(Pump, v, 1), PumpStep(v, rs),
         RoutingKnown', queues' \in [Clients -> Seq(Items)]
  PROVE  Goes'
<1>1. AdapterTypeOK /\ EngineSound /\ Driving /\ LoopStep(Pump, v, 1)
  BY DEF Goes, PumpStep
<1>2. /\ OneCall /\ RepliesSound /\ Registered
      /\ PendingSound /\ QueuesSound /\ DoneSound /\ TokensAddUp
      /\ ~poisoned /\ outcome = "none"
  BY <1>1, Zenon DEF Driving
<1>3. engine_to_request' = engine_to_request /\ received' = received /\ aborted' = aborted
  BY DEF PumpStep
<1>4. AdapterTypeOK'
  <2>1. engine_to_request' \in [EngineIds -> Tasks] /\ received' \in [Clients -> Nat] /\ aborted' \in [Clients -> BOOLEAN]
    BY <1>1, <1>3, Zenon DEF AdapterTypeOK
  <2> QED BY <1>1, <2>1, TurnTypes
<1>5. EngineSound'
  BY <1>1, EngineKept DEF Turn
<1>6. OneCall' /\ RepliesSound'
  BY <1>1, <1>2, LoopOneCall, LoopRepliesSound
<1>7. Registered'
  BY <1>1, <1>2, <1>3, LoopRegistered
<1>8. PendingSound' /\ QueuesSound' /\ DoneSound' /\ TokensAddUp'
  BY <1>1, <1>2, PumpPendingSound, PumpQueuesSound, PumpDoneSound, PumpTokens
<1>9. ~poisoned' /\ outcome' = "none"
  BY <1>1, <1>2, Zenon DEF Turn
<1> QED BY <1>4, <1>5, <1>6, <1>7, <1>8, <1>9, Zenon DEF Goes, Driving

\* The parts of the invariant that the actions' proofs use.
LEMMA GoesHas ==
  ASSUME Goes
  PROVE  /\ AdapterTypeOK /\ OneCall /\ RepliesSound /\ Registered /\ PendingSound
         /\ engine_to_request \in [EngineIds -> Tasks] /\ queues \in [Clients -> Seq(Items)]
BY Zenon DEF Goes, Driving, AdapterTypeOK

\* The pump is a task and not a client; every client is another task.
LEMMA TaskNames ==
  /\ Pump \in Tasks /\ Pump \notin Clients
  /\ \A c \in Clients : c \in Tasks /\ c # Pump
BY IdsFinite DEF Tasks, Pump

\* _stream_one: the delay is over, has_capacity is asked for.
LEMMA ClientWakesGoes ==
  ASSUME Goes, NEW c \in Clients, ClientWakes(c)
  PROVE  Goes'
<1> DEFINE v == "has_capacity"
<1>1. /\ task[c] \in {"arriving", "backoff"} /\ jobs' = Append(jobs, Call(c, v))
      /\ task' = [task EXCEPT ![c] = v] /\ ready' = ready
      /\ UNCHANGED <<engineState, adapterState, main, traceVars, pump_error, outcome>>
  BY DEF ClientWakes, Submit
<1>2. /\ engine_to_request' = engine_to_request /\ queues' = queues /\ received' = received
      /\ aborted' = aborted /\ poisoned' = poisoned /\ pump_error' = pump_error
  BY <1>1 DEF adapterState, traceVars
<1>3. Turn(c, v, 0)
  BY <1>1, <1>2, TaskNames DEF Turn, CallNames, ClientStates, Admitted
<1>4. LoopStep(c, v, 0)
  BY <1>2, <1>3, GoesHas, TurnSteps
<1>5. PlainStep(c, v, 0)
  BY <1>1, <1>2, <1>4 DEF PlainStep
<1>6. engine_to_request' \in [EngineIds -> Tasks]
  BY <1>2, GoesHas
<1> QED BY <1>2, <1>3, <1>5, <1>6, PlainGoes

\* _stream_one: add_request is called, or the client backs off.
LEMMA ClientHasCapacityGoes ==
  ASSUME Goes, NEW c \in Clients, ClientHasCapacity(c)
  PROVE  Goes'
<1>0. PICK v : v = IF Head(ready).ok THEN "add_request" ELSE "backoff"
  OBVIOUS
<1>1. /\ Answered(c) /\ task[c] = "has_capacity" /\ ready' = Tail(ready)
      /\ task' = [task EXCEPT ![c] = v]
      /\ jobs' = jobs \/ (v = "add_request" /\ jobs' = Append(jobs, Call(c, v)))
      /\ UNCHANGED <<engineState, adapterState, main, traceVars, pump_error, outcome>>
  BY <1>0 DEF ClientHasCapacity, Submit
<1>2. /\ engine_to_request' = engine_to_request /\ queues' = queues /\ received' = received
      /\ aborted' = aborted /\ poisoned' = poisoned /\ pump_error' = pump_error
  BY <1>1 DEF adapterState, traceVars
<1>3. ready # <<>> /\ ready[1].task = c /\ ready[1].id = 0 /\ ready[1].results = <<>>
  BY <1>1, GoesHas, AnswerIs, TaskNames
<1>4. Turn(c, v, 1)
  BY <1>0, <1>1, <1>2, <1>3, TaskNames DEF Turn, CallNames, ClientStates, Admitted
<1>5. LoopStep(c, v, 1)
  BY <1>2, <1>3, <1>4, GoesHas, TurnSteps, IdsFinite
<1>6. PlainStep(c, v, 1)
  BY <1>0, <1>1, <1>2, <1>3, <1>5 DEF PlainStep
<1>7. engine_to_request' \in [EngineIds -> Tasks]
  BY <1>2, GoesHas
<1> QED BY <1>2, <1>4, <1>6, <1>7, PlainGoes

\* _stream_one: the id is registered, or the call threw.
LEMMA ClientAddedGoes ==
  ASSUME Goes, NEW c \in Clients, ClientAdded(c)
  PROVE  Goes'
<1>0. PICK v : v = IF Head(ready).ok THEN "reading" ELSE "failed"
  OBVIOUS
<1>1. /\ Answered(c) /\ task[c] = "add_request" /\ ready' = Tail(ready)
      /\ task' = [task EXCEPT ![c] = v] /\ jobs' = jobs
      /\ engine_to_request' = IF Head(ready).ok THEN [engine_to_request EXCEPT ![Head(ready).id] = c]
                              ELSE engine_to_request
      /\ queues' = queues /\ poisoned' = poisoned /\ pump_error' = pump_error
      /\ UNCHANGED <<engineState, main, outcome>>
      /\ received' = received /\ aborted' = aborted
  BY <1>0 DEF ClientAdded, traceVars
<1>3. /\ ready # <<>> /\ ready[1].task = c /\ ready[1].results = <<>> /\ Head(ready) = ready[1]
      /\ ready[1].id # 0 <=> ready[1].ok
      /\ ready[1].id \in EngineIds \cup {0}
  <2>1. ready[1] \in Replies
    BY <1>1, GoesHas, AnswerIs
  <2>2. ready[1].id \in EngineIds \cup {0}
    BY <2>1 DEF Replies
  <2> QED BY <1>1, <2>2, GoesHas, AnswerIs, TaskNames
<1>4. Turn(c, v, 1)
  BY <1>0, <1>1, <1>3, TaskNames DEF Turn, CallNames, ClientStates, Admitted
<1>5. /\ \A e \in EngineIds : engine_to_request'[e] = IF ready[1].id = e THEN c ELSE engine_to_request[e]
      /\ engine_to_request' \in [EngineIds -> Tasks]
  BY <1>1, <1>3, GoesHas, IdsFinite, TaskNames
<1>6. LoopStep(c, v, 1)
  BY <1>0, <1>3, <1>4, <1>5, GoesHas, TurnSteps
<1>7. PlainStep(c, v, 1)
  BY <1>0, <1>1, <1>3, <1>6 DEF PlainStep
<1> QED BY <1>1, <1>4, <1>5, <1>7, PlainGoes

\* _stream_one: one item of the queue.
LEMMA ClientReadsGoes ==
  ASSUME Goes, NEW c \in Clients, ClientReads(c)
  PROVE  Goes'
<1>0. AdapterTypeOK /\ queues \in [Clients -> Seq(Items)] /\ received \in [Clients -> Nat] /\ aborted \in [Clients -> BOOLEAN]
  BY Zenon DEF Goes, AdapterTypeOK
<1>1. /\ task[c] = "reading" /\ queues[c] # <<>> /\ queues' = [queues EXCEPT ![c] = Tail(queues[c])]
      /\ engine_to_request' = engine_to_request /\ jobs' = jobs /\ ready' = ready
      /\ poisoned' = poisoned /\ pump_error' = pump_error
      /\ UNCHANGED <<engineState, main, outcome>>
  BY DEF ClientReads, threadVars
<1>2. PICK x \in Items : x = Head(queues[c]) /\ x = queues[c][1]
  BY <1>0, <1>1, Popped
<1>3. \/ /\ x = PUMP_FAILED /\ task' = [task EXCEPT ![c] = "failed"]
         /\ received' = received /\ aborted' = aborted
      \/ /\ x # PUMP_FAILED
         /\ received' = [received EXCEPT ![c] = received[c] + One(x.token)]
         /\ aborted' = [aborted EXCEPT ![c] = x.finished /\ ~x.token]
         /\ task' = [task EXCEPT ![c] = IF x.finished THEN "done" ELSE "reading"]
  BY <1>2 DEF ClientReads, traceVars, Records, One
<1>4. PICK v : /\ v = IF x = PUMP_FAILED THEN "failed" ELSE IF x.finished THEN "done" ELSE "reading"
  OBVIOUS
<1>5. task' = [task EXCEPT ![c] = v] /\ (v = "done" <=> x.finished) /\ v \in Admitted
  BY <1>3, <1>4, SentinelIs DEF Admitted
<1>6. Turn(c, v, 0)
  BY <1>1, <1>5, TaskNames DEF Turn, CallNames, ClientStates, Admitted
<1>7. LoopStep(c, v, 0)
  BY <1>0, <1>1, <1>6, TurnSteps
<1>8. \A a \in Clients : queues'[a] = IF a = c THEN Tail(queues[c]) ELSE queues[a]
  BY <1>0, <1>1
<1>9. queues' \in [Clients -> Seq(Items)]
  <2>1. Tail(queues[c]) \in Seq(Items)
    BY <1>0, <1>1, Popped
  <2> QED BY <1>0, <1>1, <2>1
<1>10. /\ \A a \in Clients : received'[a] = IF a = c THEN received[c] + One(x.token) ELSE received[a]
       /\ received' \in [Clients -> Nat]
  <2>0. received[c] \in Nat /\ One(x.token) \in Nat
    BY <1>0 DEF One
  <2>1. CASE x = PUMP_FAILED
    <3>1. One(x.token) = 0
      BY <2>1, SentinelIs DEF One
    <3> QED BY <1>0, <1>3, <2>0, <2>1, <3>1
  <2>2. CASE x # PUMP_FAILED
    <3>1. PICK n \in Nat : n = received[c] + One(x.token)
      BY <2>0
    <3>2. received' = [received EXCEPT ![c] = n]
      BY <1>3, <2>2, <3>1, Zenon
    <3> QED BY <1>0, <3>1, <3>2
  <2> QED BY <2>1, <2>2
<1>11. /\ \A a \in Clients : a # c => aborted'[a] = aborted[a]
       /\ x.finished => (aborted'[c] <=> ~x.token)
       /\ aborted' \in [Clients -> BOOLEAN]
  <2>1. CASE x = PUMP_FAILED
    BY <1>0, <1>3, <2>1, SentinelIs
  <2>2. CASE x # PUMP_FAILED
    <3>1. PICK b \in BOOLEAN : aborted' = [aborted EXCEPT ![c] = b] /\ (b <=> x.finished /\ ~x.token)
      <4>1. (x.finished /\ ~x.token) \in BOOLEAN
        OBVIOUS
      <4> QED BY <1>3, <2>2, <4>1
    <3>2. aborted' \in [Clients -> BOOLEAN] /\ \A a \in Clients : a # c => aborted'[a] = aborted[a]
      BY <1>0, <3>1
    <3>3. aborted'[c] = b
      BY <1>0, <3>1
    <3> QED BY <3>1, <3>2, <3>3
  <2> QED BY <2>1, <2>2
<1>12. ReadStep(c, v, x)
  BY <1>1, <1>2, <1>5, <1>7, <1>8, <1>10, <1>11, Zenon DEF ReadStep
<1> QED BY <1>1, <1>6, <1>9, <1>10, <1>11, <1>12, ReadGoes

\* _pump: its loop starts, or its nap is over.
LEMMA PumpWakesGoes ==
  ASSUME Goes, PumpWakes
  PROVE  Goes'
<1>0. PICK v : v = IF finished < NumRequests THEN "step" ELSE "done"
  OBVIOUS
<1>1. /\ task[Pump] \in {"start", "nap"} /\ task' = [task EXCEPT ![Pump] = v] /\ ready' = ready
      /\ jobs' = jobs \/ (v = "step" /\ jobs' = Append(jobs, Call(Pump, v)))
      /\ UNCHANGED <<engineState, adapterState, main, traceVars, pump_error, outcome>>
  BY <1>0 DEF PumpWakes, PumpLoops, Submit
<1>2. /\ engine_to_request' = engine_to_request /\ queues' = queues /\ received' = received
      /\ aborted' = aborted /\ poisoned' = poisoned /\ pump_error' = pump_error
  BY <1>1 DEF adapterState, traceVars
<1>3. Turn(Pump, v, 0)
  BY <1>0, <1>1, <1>2, TaskNames DEF Turn, CallNames, PumpStates, Admitted
<1>4. LoopStep(Pump, v, 0)
  BY <1>2, <1>3, GoesHas, TurnSteps
<1>5. PlainStep(Pump, v, 0)
  BY <1>1, <1>2, <1>4, TaskNames DEF PlainStep
<1>6. engine_to_request' \in [EngineIds -> Tasks]
  BY <1>2, GoesHas
<1> QED BY <1>2, <1>3, <1>5, <1>6, PlainGoes

\* A client gets at most one result of a step.
LEMMA RoutesOne ==
  ASSUME Goes, Answered(Pump), NEW rs, rs = ready[1].results
  PROVE  /\ Known(rs) = rs /\ Routed(rs) \in [Clients -> Seq(Items)]
         /\ \A c \in Clients :
              \/ Routed(rs)[c] = queues[c] /\ \A i \in DOMAIN rs : engine_to_request[rs[i].id] # c
              \/ \E i \in DOMAIN rs :
                   engine_to_request[rs[i].id] = c /\ rs[i] \in Items /\ Routed(rs)[c] = Append(queues[c], rs[i])
<1>0. ready # <<>> /\ ready[1].task = Pump
  BY GoesHas, AnswerIs
<1>1. /\ rs \in Seq(Items)
      /\ \A i \in DOMAIN rs : /\ rs[i] \in Items /\ rs[i].id \in EngineIds /\ engine_to_request[rs[i].id] # 0
                              /\ \A j \in DOMAIN rs : rs[j].id = rs[i].id => i = j
  BY <1>0, GoesHas, PumpAlone DEF Sound
<1>2. Known(rs) = rs
  <2>1. {i \in DOMAIN rs : engine_to_request[rs[i].id] = 0} = {}
    BY <1>1
  <2> QED BY <2>1, Zenon DEF Known
<1>3. ASSUME NEW c \in Clients
      PROVE  \/ Routed(rs)[c] = queues[c] /\ \A i \in DOMAIN rs : engine_to_request[rs[i].id] # c
             \/ \E i \in DOMAIN rs :
                   engine_to_request[rs[i].id] = c /\ rs[i] \in Items /\ Routed(rs)[c] = Append(queues[c], rs[i])
  <2>1. PICK mine : mine = {i \in DOMAIN rs : engine_to_request[rs[i].id] = c}
    OBVIOUS
  <2>2. Routed(rs)[c] = queues[c] \o [k \in 1 .. Cardinality(mine) |-> rs[Sorted(mine)[k]]]
    BY <2>1 DEF Routed
  <2>3. queues[c] \in Seq(Items) /\ c # 0
    BY GoesHas, IdsFinite
  <2>4. CASE mine = {}
    <3>1. Cardinality(mine) = 0
      BY <2>4, FS_EmptySet
    <3>2. [k \in 1 .. Cardinality(mine) |-> rs[Sorted(mine)[k]]] = <<>>
      BY <3>1
    <3>3. queues[c] \o <<>> = queues[c]
      BY <2>3
    <3>4. \A i \in DOMAIN rs : engine_to_request[rs[i].id] # c
      BY <2>1, <2>4
    <3> QED BY <2>2, <3>2, <3>3, <3>4
  <2>5. CASE mine # {}
    <3>1. PICK i \in DOMAIN rs : i \in mine /\ engine_to_request[rs[i].id] = c
      BY <2>1, <2>5
    <3>2. \A j \in mine : j = i
      <4>1. SUFFICES ASSUME NEW j \in mine PROVE j = i
        OBVIOUS
      <4>2. j \in DOMAIN rs /\ engine_to_request[rs[j].id] = c
        BY <2>1
      <4>3. rs[j].id = rs[i].id
        BY <1>1, <2>3, <3>1, <4>2, GoesHas DEF Registered
      <4> QED BY <1>1, <3>1, <4>2, <4>3
    <3>3. mine = {i} /\ i \in Nat
      BY <1>1, <3>1, <3>2
    <3>4. IsFiniteSet(mine) /\ Cardinality(mine) = 1 /\ mine \in SUBSET Nat
      BY <3>3, FS_Singleton
    <3>5. Sorted(mine)[1] = i
      <4>1. Sorted(mine) \in [1 .. 1 -> mine]
        <5>1. Sorted(mine) \in [1 .. Cardinality(mine) -> mine]
          BY <3>4, SortedOf
        <5> QED BY <3>4, <5>1
      <4>2. Sorted(mine)[1] \in mine
        <5>1. 1 \in 1 .. 1
          OBVIOUS
        <5> QED BY <4>1, <5>1
      <4> QED BY <3>3, <4>2
    <3>6. [k \in 1 .. Cardinality(mine) |-> rs[Sorted(mine)[k]]] = <<rs[i]>>
      <4>1. PICK s : s = Sorted(mine) /\ s[1] = i
        BY <3>5
      <4>2. [k \in 1 .. 1 |-> rs[s[k]]] = <<rs[i]>>
        BY <4>1
      <4> QED BY <3>4, <4>1, <4>2
    <3>7. PICK x \in Items : x = rs[i]
      BY <1>1
    <3>8. queues[c] \o <<x>> = Append(queues[c], x)
      BY <2>3
    <3>9. Routed(rs)[c] = Append(queues[c], rs[i])
      BY <2>2, <3>6, <3>7, <3>8, Zenon
    <3>10. rs[i] \in Items
      BY <3>7
    <3> QED BY <3>1, <3>9, <3>10, Zenon
  <2> QED BY <2>4, <2>5
<1>4. Routed(rs) \in [Clients -> Seq(Items)]
  <2>1. \A c \in Clients : queues[c] \in Seq(Items)
    BY GoesHas
  <2>2. \A c \in Clients : \A x \in Items : Append(queues[c], x) \in Seq(Items)
    BY <2>1
  <2>3. ASSUME NEW c \in Clients PROVE Routed(rs)[c] \in Seq(Items)
    <3>1. CASE Routed(rs)[c] = queues[c]
      BY <2>1, <3>1, Zenon
    <3>2. CASE \E i \in DOMAIN rs : rs[i] \in Items /\ Routed(rs)[c] = Append(queues[c], rs[i])
      BY <2>2, <3>2, Zenon
    <3> QED BY <1>3, <3>1, <3>2, Zenon
  <2>4. PICK f : f = Routed(rs) /\ f = [c \in Clients |-> f[c]]
    BY DEF Routed
  <2>5. \A c \in Clients : f[c] \in Seq(Items)
    BY <2>3, <2>4
  <2> HIDE <1>3
  <2> QED BY <2>4, <2>5
<1> QED BY <1>2, <1>3, <1>4

\* _pump: the results of a step are routed.
LEMMA PumpRoutesGoes ==
  ASSUME Goes, PumpRoutes
  PROVE  Goes'
<1>0. PICK rs : rs = ready[1].results
  OBVIOUS
<1>1. Answered(Pump) /\ task[Pump] = "step" /\ ready' = Tail(ready)
  BY DEF PumpRoutes
<1>2. /\ ready # <<>> /\ ready[1].task = Pump /\ Head(ready) = ready[1] /\ ready[1].id = 0
  BY <1>1, GoesHas, AnswerIs
<1>3. /\ queues' = Routed(rs)
      /\ engine_to_request' = engine_to_request /\ received' = received
      /\ aborted' = aborted /\ poisoned' = poisoned /\ pump_error' = pump_error
      /\ UNCHANGED <<engineState, main, outcome>>
  BY <1>0, <1>2 DEF PumpRoutes, traceVars
<1>4. PICK v \in {"nap", "step", "done"} :
        /\ task' = [task EXCEPT ![Pump] = v]
        /\ jobs' = jobs \/ (v = "step" /\ jobs' = Append(jobs, Call(Pump, v)))
  BY DEF PumpRoutes, PumpLoops, Submit
<1>5. Turn(Pump, v, 1)
  BY <1>1, <1>2, <1>3, <1>4, TaskNames DEF Turn, CallNames, PumpStates, Admitted
<1>6. LoopStep(Pump, v, 1)
  BY <1>2, <1>3, <1>5, GoesHas, TurnSteps, IdsFinite
<1>7. queues' \in [Clients -> Seq(Items)]
  BY <1>0, <1>1, <1>3, RoutesOne
<1>8. PumpStep(v, rs)
  <2>1. \A c \in Clients :
              \/ Routed(rs)[c] = queues[c] /\ \A i \in DOMAIN rs : engine_to_request[rs[i].id] # c
              \/ \E i \in DOMAIN rs :
                   engine_to_request[rs[i].id] = c /\ rs[i] \in Items /\ Routed(rs)[c] = Append(queues[c], rs[i])
    BY <1>0, <1>1, RoutesOne
  <2> QED BY <1>0, <1>3, <1>6, <2>1, Zenon DEF PumpStep
<1>9. RoutingKnown'
  BY <1>3 DEF RoutingKnown, Goes
<1> QED BY <1>5, <1>7, <1>8, <1>9, PumpGoes

\* A pump that fails does so because its step threw.
LEMMA PumpFailsGoes ==
  ASSUME Goes, PumpFails
  PROVE  Goes'
<1>0. PICK rs : rs = ready[1].results
  OBVIOUS
<1>1. Answered(Pump) /\ task[Pump] = "step" /\ ready' = Tail(ready)
  BY DEF PumpFails
<1>2. /\ ready # <<>> /\ ready[1].task = Pump /\ Head(ready) = ready[1] /\ ready[1].id = 0
      /\ ~ready[1].ok => rs = <<>>
  BY <1>0, <1>1, GoesHas, AnswerIs
<1>3. Known(rs) = rs
  BY <1>0, <1>1, RoutesOne
<1>4. ~ready[1].ok /\ rs = <<>> /\ pump_error' = "step"
  BY <1>0, <1>2, <1>3 DEF PumpFails
<1>5. /\ task' = [task EXCEPT ![Pump] = "failed"]
      /\ queues' = [c \in Clients |-> Append(Routed(rs)[c], PUMP_FAILED)]
      /\ engine_to_request' = engine_to_request /\ received' = received /\ jobs' = jobs
      /\ aborted' = aborted /\ poisoned' = poisoned
      /\ UNCHANGED <<engineState, main, outcome>>
  BY <1>0, <1>2, <1>3 DEF PumpFails, FailPump, traceVars
<1>6. \A c \in Clients : Routed(rs)[c] = queues[c]
  <2>1. DOMAIN <<>> = {}
    OBVIOUS
  <2>2. \A c \in Clients :
              \/ Routed(rs)[c] = queues[c] /\ \A i \in DOMAIN rs : engine_to_request[rs[i].id] # c
              \/ \E i \in DOMAIN rs :
                   engine_to_request[rs[i].id] = c /\ rs[i] \in Items /\ Routed(rs)[c] = Append(queues[c], rs[i])
    BY <1>0, <1>1, RoutesOne
  <2> QED BY <1>4, <2>1, <2>2
<1>7. /\ \A c \in Clients : queues'[c] = Append(queues[c], PUMP_FAILED)
      /\ queues' \in [Clients -> Seq(Items)]
  <2>1. \A c \in Clients : queues'[c] = Append(queues[c], PUMP_FAILED)
    BY <1>5, <1>6
  <2>2. \A c \in Clients : queues[c] \in Seq(Items) /\ PUMP_FAILED \in Items
    BY GoesHas, SentinelIs
  <2>3. \A c \in Clients : queues'[c] \in Seq(Items)
    BY <2>1, <2>2
  <2>4. queues' = [c \in Clients |-> queues'[c]]
    BY <1>5
  <2> QED BY <2>1, <2>3, <2>4
<1>8. Turn(Pump, "failed", 1)
  BY <1>1, <1>2, <1>5, TaskNames DEF Turn, CallNames, PumpStates, Admitted
<1>9. LoopStep(Pump, "failed", 1)
  BY <1>2, <1>5, <1>8, GoesHas, TurnSteps, IdsFinite
<1>10. PumpStep("failed", rs)
  <2>1. \A i \in DOMAIN rs : FALSE
    BY <1>4
  <2> QED BY <1>0, <1>5, <1>7, <1>9, <2>1, Zenon DEF PumpStep
<1>11. RoutingKnown'
  BY <1>4 DEF RoutingKnown
<1> QED BY <1>7, <1>8, <1>10, <1>11, PumpGoes

-----------------------------------------------------------------------------
(***************************************************************************)
(* The engine thread works off a call while a trial is under way.          *)
(***************************************************************************)
ThreadStep(r) ==
  /\ Effect(r) /\ ready' = Append(ready, r)
  /\ queues' = queues /\ engine_to_request' = engine_to_request /\ task' = task
  /\ received' = received /\ aborted' = aborted

\* The answer is the only call of its task, and comes last.
LEMMA ThreadFacts ==
  ASSUME AdapterTypeOK, EngineSound, OneCall, NEW r, ThreadStep(r)
  PROVE  /\ r \in Replies /\ jobs' \in Seq(Calls) /\ ready' \in Seq(Replies)
         /\ task[r.task] = Head(jobs).fn /\ task[r.task] \in CallNames
         /\ \A k \in DOMAIN ready : ready[k].task # r.task
         /\ \A i \in DOMAIN jobs' : i \in Nat /\ i + 1 \in DOMAIN jobs /\ jobs'[i] = jobs[i + 1] /\ jobs'[i].task # r.task
         /\ Len(ready) \in Nat /\ Len(ready') = Len(ready) + 1 /\ ready'[Len(ready) + 1] = r
         /\ Len(ready) + 1 \in DOMAIN ready'
         /\ \A k \in DOMAIN ready : k \in DOMAIN ready' /\ ready'[k] = ready[k] /\ k < Len(ready) + 1 /\ k \in Nat
         /\ \A k \in DOMAIN ready' : k \in DOMAIN ready \/ k = Len(ready) + 1
<1>1. /\ jobs \in Seq(Calls) /\ jobs # <<>> /\ jobs' = Tail(jobs) /\ r \in Replies /\ ready \in Seq(Replies)
      /\ ready' = Append(ready, r)
      /\ r.task = IF Head(jobs).fn = "step" THEN Pump ELSE Head(jobs).task
  BY DEF ThreadStep, Effect, AdapterTypeOK
<1>2. /\ Head(jobs) = jobs[1] /\ 1 \in DOMAIN jobs /\ jobs[1] \in Calls /\ jobs' \in Seq(Calls)
      /\ \A i \in DOMAIN jobs' : i \in Nat /\ i # 0 /\ i + 1 \in DOMAIN jobs /\ jobs'[i] = jobs[i + 1]
  BY <1>1, Popped
<1>3. jobs[1].task \in Tasks /\ jobs[1].fn \in CallNames
  BY <1>2 DEF Calls, CallNames
<1>4. /\ \A i \in DOMAIN jobs : task[jobs[i].task] = jobs[i].fn
      /\ \A i, j \in DOMAIN jobs : jobs[i].task = jobs[j].task => i = j
      /\ \A i \in DOMAIN jobs, k \in DOMAIN ready : jobs[i].task # ready[k].task
  BY Zenon DEF OneCall
<1>5. r.task = jobs[1].task
  <2>1. jobs[1].fn = "step" => jobs[1].task = Pump
    <3>1. \A c \in Clients : task[c] # "step"
      BY DEF AdapterTypeOK
    <3> QED BY <1>2, <1>3, <1>4, <3>1 DEF Tasks
  <2> QED BY <1>1, <1>2, <2>1
<1>6. task[r.task] = Head(jobs).fn /\ task[r.task] \in CallNames
  BY <1>2, <1>3, <1>4, <1>5
<1>7. \A k \in DOMAIN ready : ready[k].task # r.task
  BY <1>2, <1>4, <1>5
<1>8. \A i \in DOMAIN jobs' : jobs'[i].task # r.task
  <2>1. SUFFICES ASSUME NEW i \in DOMAIN jobs', jobs[i + 1].task = jobs[1].task PROVE FALSE
    BY <1>2, <1>5
  <2>2. i + 1 = 1
    BY <1>2, <1>4, <2>1
  <2> QED BY <1>2, <2>2
<1>9. /\ Len(ready) \in Nat /\ Len(ready') = Len(ready) + 1 /\ ready'[Len(ready) + 1] = r
      /\ Len(ready) + 1 \in DOMAIN ready' /\ ready' \in Seq(Replies)
      /\ \A k \in DOMAIN ready : k \in DOMAIN ready' /\ ready'[k] = ready[k] /\ k < Len(ready) + 1 /\ k \in Nat
      /\ \A k \in DOMAIN ready' : k \in DOMAIN ready \/ k = Len(ready) + 1
  BY <1>1, Grown
<1> QED BY <1>1, <1>2, <1>6, <1>7, <1>8, <1>9

\* The call leaves the thread's queue and its answer takes its place.
LEMMA ThreadOneCall ==
  ASSUME AdapterTypeOK, EngineSound, OneCall, NEW r, ThreadStep(r)
  PROVE  OneCall'
<1>1. /\ \A k \in DOMAIN ready : ready[k].task # r.task
      /\ \A i \in DOMAIN jobs' : i \in Nat /\ i + 1 \in DOMAIN jobs /\ jobs'[i] = jobs[i + 1] /\ jobs'[i].task # r.task
      /\ task[r.task] \in CallNames
      /\ ready'[Len(ready) + 1] = r
      /\ \A k \in DOMAIN ready : ready'[k] = ready[k]
      /\ \A k \in DOMAIN ready' : k \in DOMAIN ready \/ k = Len(ready) + 1
  BY ThreadFacts
<1>2. task' = task
  BY DEF ThreadStep
<1>3. /\ \A i \in DOMAIN jobs : task[jobs[i].task] = jobs[i].fn
      /\ \A k \in DOMAIN ready : task[ready[k].task] \in CallNames
      /\ \A i, j \in DOMAIN jobs : jobs[i].task = jobs[j].task => i = j
      /\ \A k, n \in DOMAIN ready : ready[k].task = ready[n].task => k = n
      /\ \A i \in DOMAIN jobs, k \in DOMAIN ready : jobs[i].task # ready[k].task
  BY Zenon DEF OneCall, CallNames
<1>4. \A i \in DOMAIN jobs' : task'[jobs'[i].task] = jobs'[i].fn
  BY <1>1, <1>2, <1>3
<1>5. \A k \in DOMAIN ready' : task'[ready'[k].task] \in CallNames
  BY <1>1, <1>2, <1>3
<1>6. \A i, j \in DOMAIN jobs' : jobs'[i].task = jobs'[j].task => i = j
  <2>1. SUFFICES ASSUME NEW i \in DOMAIN jobs', NEW j \in DOMAIN jobs', jobs'[i].task = jobs'[j].task PROVE i = j
    OBVIOUS
  <2>2. i + 1 = j + 1 /\ i \in Nat /\ j \in Nat
    BY <1>1, <1>3, <2>1
  <2> QED BY <2>2
<1>7. \A k, n \in DOMAIN ready' : ready'[k].task = ready'[n].task => k = n
  BY <1>1, <1>3
<1>8. \A i \in DOMAIN jobs', k \in DOMAIN ready' : jobs'[i].task # ready'[k].task
  BY <1>1, <1>3
<1> QED BY <1>4, <1>5, <1>6, <1>7, <1>8 DEF OneCall, CallNames

\* An id is answered once: ids are given out in order.
LEMMA ThreadRepliesSound ==
  ASSUME AdapterTypeOK, EngineSound, OneCall, RepliesSound, Registered, NEW r, ThreadStep(r)
  PROVE  RepliesSound'
<1>1. /\ task[r.task] = Head(jobs).fn /\ r \in Replies
      /\ ready'[Len(ready) + 1] = r
      /\ \A k \in DOMAIN ready : ready'[k] = ready[k]
      /\ \A k \in DOMAIN ready' : k \in DOMAIN ready \/ k = Len(ready) + 1
  BY ThreadFacts
<1>2. task' = task /\ engine_to_request' = engine_to_request /\ Effect(r)
  BY DEF ThreadStep
<1>3. next_id' >= next_id /\ next_id' \in Nat /\ next_id \in Nat /\ (r.id # 0 => r.id = next_id /\ r.id < next_id')
  <2>1. next_id \in Nat /\ next_id' \in Nat
    BY <1>2, EffectSound DEF AdapterTypeOK
  <2> QED BY <1>2, <2>1, EffectSound
<1>4. \A k \in DOMAIN ready :
           /\ ready[k].id # 0 <=> ready[k].ok /\ task[ready[k].task] = "add_request"
           /\ ready[k].id # 0 => ready[k].id < next_id /\ engine_to_request[ready[k].id] = 0
           /\ \A n \in DOMAIN ready : ready[k].id # 0 /\ ready[n].id = ready[k].id => n = k
           /\ ready[k].results # <<>> => ready[k].ok /\ ready[k].task = Pump
  BY Zenon DEF RepliesSound
<1>5. /\ r.id # 0 <=> r.ok /\ task[r.task] = "add_request"
      /\ r.results # <<>> => r.ok /\ r.task = Pump
  <2>1. CASE Unchanged(r) /\ (Head(jobs).fn = "add_request" => ~r.ok)
    BY <1>1, <2>1 DEF Unchanged
  <2>2. CASE Added(r) /\ Head(jobs).fn = "add_request"
    BY <1>1, <2>2, IdsFinite DEF Added
  <2>3. CASE r.ok /\ r.id = 0 /\ Head(jobs).fn = "step"
    BY <1>1, <1>2, <2>3 DEF Effect
  <2> QED BY <1>2, <2>1, <2>2, <2>3, Zenon DEF Effect
<1>6. r.id # 0 => engine_to_request[r.id] = 0
  <2>1. r.id \in EngineIds \cup {0}
    BY <1>1 DEF Replies
  <2>2. \A e \in EngineIds : engine_to_request[e] # 0 => e < next_id
    BY DEF Registered
  <2> QED BY <1>3, <2>1, <2>2
<1>7. \A n \in DOMAIN ready : r.id # 0 => ready[n].id # r.id
  BY <1>3, <1>4
<1>8. ASSUME NEW k \in DOMAIN ready'
      PROVE  LET y == ready'[k] IN
             /\ y.id # 0 <=> y.ok /\ task'[y.task] = "add_request"
             /\ y.id # 0 => y.id < next_id' /\ engine_to_request'[y.id] = 0
             /\ \A n \in DOMAIN ready' : y.id # 0 /\ ready'[n].id = y.id => n = k
             /\ y.results # <<>> => y.ok /\ y.task = Pump
  <2>1. CASE k \in DOMAIN ready
    <3>1. PICK y : y = ready[k] /\ y = ready'[k]
      BY <1>1, <2>1
    <3>2. y.id \in EngineIds \cup {0}
      <4>0. ready \in Seq(Replies)
        BY DEF AdapterTypeOK
      <4>2. \A n \in DOMAIN ready : ready[n] \in Replies
        BY <4>0
      <4>1. y \in Replies
        BY <2>1, <3>1, <4>2, Zenon
      <4> QED BY <4>1 DEF Replies
    <3>3. y.id # 0 => y.id < next_id'
      <4>1. y.id # 0 => y.id < next_id /\ y.id \in Nat
        BY <1>4, <2>1, <3>1, <3>2, IdsFinite
      <4> QED BY <1>3, <4>1
    <3>4. \A n \in DOMAIN ready' : y.id # 0 /\ ready'[n].id = y.id => n = k
      BY <1>1, <1>4, <1>7, <2>1, <3>1
    <3>5. /\ y.id # 0 => engine_to_request[y.id] = 0
          /\ y.results # <<>> => y.ok /\ y.task = Pump
          /\ y.id # 0 <=> y.ok /\ task[y.task] = "add_request"
      BY <1>4, <2>1, <3>1
    <3>6. engine_to_request' = engine_to_request /\ task' = task
      BY <1>2
    <3> HIDE <1>1, <1>3, <1>5, <1>6, <1>7
    <3> QED BY <3>1, <3>3, <3>4, <3>5, <3>6
  <2>2. CASE k = Len(ready) + 1
    <3>1. \A n \in DOMAIN ready' : r.id # 0 /\ ready'[n].id = r.id => n = k
      BY <1>1, <1>7, <2>2
    <3> QED BY <1>1, <1>2, <1>3, <1>5, <1>6, <2>2, <3>1
  <2> QED BY <1>1, <2>1, <2>2
<1> QED BY <1>8, Zenon DEF RepliesSound

\* Ids answered so far stay answered, and the new one is added.
LEMMA ThreadIds ==
  ASSUME AdapterTypeOK, EngineSound, OneCall, NEW r, ThreadStep(r)
  PROVE  /\ \A e \in EngineIds : \A k \in Nat : AnsweredBefore(e, k) => AnsweredBefore(e, k)'
         /\ \A e \in EngineIds : OfTrial(e)' <=> OfTrial(e) \/ r.id = e
<1>1. /\ Len(ready) \in Nat /\ Len(ready') = Len(ready) + 1 /\ ready'[Len(ready) + 1] = r
      /\ Len(ready) + 1 \in DOMAIN ready'
      /\ \A k \in DOMAIN ready : k \in DOMAIN ready' /\ ready'[k] = ready[k] /\ k < Len(ready) + 1 /\ k \in Nat
      /\ \A k \in DOMAIN ready' : k \in DOMAIN ready \/ k = Len(ready) + 1
  BY ThreadFacts
<1>2. \A e \in EngineIds : \A k \in Nat : AnsweredBefore(e, k) => AnsweredBefore(e, k)'
  BY <1>1 DEF AnsweredBefore
<1>3. ASSUME NEW e \in EngineIds PROVE OfTrial(e)' <=> OfTrial(e) \/ r.id = e
  <2>1. PICK m \in Nat : m = Len(ready) + 1 /\ Len(ready') + 1 = m + 1
    BY <1>1
  <2>2. OfTrial(e)' <=> engine_to_request'[e] # 0 \/ \E n \in DOMAIN ready' : n < m + 1 /\ ready'[n].id = e
    BY <2>1, Zenon DEF OfTrial, AnsweredBefore
  <2>3. OfTrial(e) <=> engine_to_request[e] # 0 \/ \E n \in DOMAIN ready : n < m /\ ready[n].id = e
    BY <2>1, Zenon DEF OfTrial, AnsweredBefore
  <2>4. (\E n \in DOMAIN ready' : n < m + 1 /\ ready'[n].id = e) <=>
        (\E n \in DOMAIN ready : n < m /\ ready[n].id = e) \/ r.id = e
    <3>1. ASSUME NEW n \in DOMAIN ready', ready'[n].id = e
          PROVE  (\E k \in DOMAIN ready : k < m /\ ready[k].id = e) \/ r.id = e
      BY <1>1, <2>1, <3>1
    <3>2. ASSUME NEW n \in DOMAIN ready, ready[n].id = e
          PROVE  \E k \in DOMAIN ready' : k < m + 1 /\ ready'[k].id = e
      BY <1>1, <2>1, <3>2
    <3>3. ASSUME r.id = e PROVE \E k \in DOMAIN ready' : k < m + 1 /\ ready'[k].id = e
      BY <1>1, <2>1, <3>3
    <3> QED BY <3>1, <3>2, <3>3
  <2>5. engine_to_request' = engine_to_request
    BY DEF ThreadStep
  <2> QED BY <2>2, <2>3, <2>4, <2>5
<1> QED BY <1>2, <1>3

\* A request that add_request made live is known through its answer.
LEMMA ThreadRegistered ==
  ASSUME AdapterTypeOK, EngineSound, OneCall, Registered, NEW r, ThreadStep(r)
  PROVE  Registered'
<1>1. \A e \in EngineIds : OfTrial(e)' <=> OfTrial(e) \/ r.id = e
  BY ThreadIds
<1>2. task' = task /\ engine_to_request' = engine_to_request /\ received' = received /\ Effect(r)
  BY DEF ThreadStep
<1>3. next_id' >= next_id /\ next_id \in Nat /\ next_id' \in Nat /\ \A e \in EngineIds : e \in Nat
  BY <1>2, EffectSound, IdsFinite DEF AdapterTypeOK
<1>4. \A e \in EngineIds : e \in Live' => e \in Live \/ r.id = e
  BY <1>2, EffectSound
<1>5. \A e \in EngineIds : e \in Live' => OfTrial(e)'
  BY <1>1, <1>4 DEF Registered
<1>6. \A e \in EngineIds : engine_to_request[e] # 0 =>
           e < next_id' /\ task[engine_to_request[e]] \in {"reading", "done", "failed"}
  BY <1>3 DEF Registered
<1>7. /\ \A e, f \in EngineIds :
           engine_to_request[e] # 0 /\ engine_to_request[e] = engine_to_request[f] => e = f
      /\ \A c \in Clients : task[c] \in {"arriving", "has_capacity", "backoff", "add_request"} =>
           received[c] = 0
  BY Zenon DEF Registered
<1> QED BY <1>2, <1>5, <1>6, <1>7, Zenon DEF Registered

\* What holds of a result keeps holding: a finished request changes no more.
LEMMA SoundKept ==
  ASSUME AdapterTypeOK, EngineSound, NEW r, Effect(r)
  PROVE  \A x : Sound(x) => Sound(x)'
<1>1. \A e \in EngineIds : phase[e] = "finished" => phase'[e] = "finished" /\ left'[e] = left[e]
  BY EffectSound
<1> QED BY <1>1 DEF Sound

\* The results of a step are of live requests, and a live request is not over for its client.
LEMMA LiveOpen ==
  ASSUME Registered, QueuesSound, DoneSound, NEW e \in EngineIds, e \in Live,
         NEW c \in Clients, engine_to_request[e] = c
  PROVE  task[c] # "done" /\ \A q \in DOMAIN queues[c] : ~queues[c][q].finished
<1>0. c # 0 /\ phase[e] # "finished"
  BY IdsFinite, LiveIs DEF Active
<1>1. \A f \in EngineIds : engine_to_request[f] = c => f = e
  BY <1>0 DEF Registered
<1>2. task[c] # "done"
  BY <1>0, <1>1 DEF DoneSound
<1>3. ASSUME NEW q \in DOMAIN queues[c], queues[c][q].finished PROVE FALSE
  <2>1. PICK x : x = queues[c][q] /\ x.finished /\ x # PUMP_FAILED
    BY <1>3, SentinelIs
  <2>2. Sound(x) /\ engine_to_request[x.id] = c
    BY <2>1, Zenon DEF QueuesSound, QueuedAt
  <2>3. x.id \in EngineIds /\ phase[x.id] = "finished"
    BY <2>1, <2>2, Zenon DEF Sound
  <2> QED BY <1>0, <1>1, <2>2, <2>3
<1> QED BY <1>2, <1>3

\* The results of a step come behind the answers that carried their ids.
LEMMA ThreadPendingSound ==
  ASSUME AdapterTypeOK, EngineSound, OneCall, RepliesSound, Registered, PendingSound, QueuesSound,
         DoneSound, NEW r, ThreadStep(r)
  PROVE  PendingSound'
<1>1. /\ Len(ready) \in Nat /\ Len(ready') = Len(ready) + 1 /\ ready'[Len(ready) + 1] = r
      /\ \A k \in DOMAIN ready : ready'[k] = ready[k] /\ k \in Nat
      /\ \A k \in DOMAIN ready' : k \in DOMAIN ready \/ k = Len(ready) + 1
  BY ThreadFacts
<1>2. /\ task' = task /\ engine_to_request' = engine_to_request /\ queues' = queues /\ Effect(r)
  BY DEF ThreadStep
<1>3. \A e \in EngineIds : \A k \in Nat : AnsweredBefore(e, k) => AnsweredBefore(e, k)'
  BY ThreadIds
<1>4. ASSUME NEW k \in DOMAIN ready, NEW i \in DOMAIN ready[k].results PROVE PendingAt(k, i)'
  <2>1. PICK x : x = ready[k].results[i]
    OBVIOUS
  <2>2. PendingAt(k, i)
    BY Zenon DEF PendingSound
  <2>3. /\ Sound(x) /\ (engine_to_request[x.id] # 0 \/ AnsweredBefore(x.id, k))
        /\ \A j \in DOMAIN ready[k].results : ready[k].results[j].id = x.id => i = j
        /\ \A b \in Clients : engine_to_request[x.id] = b =>
             task[b] # "done" /\ \A q \in DOMAIN queues[b] : ~queues[b][q].finished
    BY <2>1, <2>2, Zenon DEF PendingAt
  <2>4. Sound(x)' /\ x.id \in EngineIds
    BY <1>2, <2>3, SoundKept DEF Sound
  <2>5. engine_to_request[x.id] # 0 \/ AnsweredBefore(x.id, k)'
    BY <1>1, <1>3, <2>3, <2>4, Zenon
  <2>6. ready'[k] = ready[k]
    BY <1>1
  <2> QED BY <1>2, <2>1, <2>3, <2>4, <2>5, <2>6, Zenon DEF PendingAt, Sound, AnsweredBefore
<1>5. ASSUME NEW k, k = Len(ready) + 1, NEW i \in DOMAIN r.results PROVE PendingAt(k, i)'
  <2>1. Stepped(r.results)
    <3>1. r.results # <<>>
      BY <1>5
    <3>2. ~Unchanged(r) /\ ~Added(r)
      BY <3>1 DEF Unchanged, Added
    <3> QED BY <1>2, <3>2, Zenon DEF Effect
  <2>2. PICK x : x = r.results[i]
    OBVIOUS
  <2>3. /\ x.id \in EngineIds /\ x.id \in Live
        /\ x.finished <=> phase'[x.id] = "finished"
        /\ x.finished => (x.token <=> left'[x.id] = 0)
        /\ \A j \in DOMAIN r.results : r.results[j].id = x.id => i = j
    BY <2>1, <2>2, Zenon DEF Stepped
  <2>4. Sound(x)'
    BY <2>3 DEF Sound
  <2>5. engine_to_request[x.id] # 0 \/ AnsweredBefore(x.id, k)'
    <3>1. OfTrial(x.id)
      BY <2>3, Zenon DEF Registered
    <3>2. k \in Nat
      BY <1>1, <1>5
    <3>3. engine_to_request[x.id] # 0 \/ AnsweredBefore(x.id, k)
      BY <1>5, <3>1 DEF OfTrial
    <3> QED BY <1>3, <2>3, <3>2, <3>3, Zenon
  <2>6. \A c \in Clients : engine_to_request[x.id] = c =>
             task[c] # "done" /\ \A q \in DOMAIN queues[c] : ~queues[c][q].finished
    BY <2>3, LiveOpen
  <2>7. ready'[k] = r
    BY <1>1, <1>5
  <2> QED BY <1>2, <2>2, <2>3, <2>4, <2>5, <2>6, <2>7, Zenon DEF PendingAt, Sound, AnsweredBefore
<1>6. ASSUME NEW k \in DOMAIN ready', NEW i \in DOMAIN ready'[k].results PROVE PendingAt(k, i)'
  <2>1. CASE k \in DOMAIN ready
    BY <1>1, <1>4, <1>6, <2>1
  <2>2. CASE k = Len(ready) + 1
    <3>1. i \in DOMAIN r.results
      BY <1>1, <1>6, <2>2
    <3> QED BY <1>5, <2>2, <3>1
  <2> QED BY <1>1, <2>1, <2>2
<1> QED BY <1>6, Zenon DEF PendingSound

\* What is queued stays true of the engine.
LEMMA ThreadQueuesSound ==
  ASSUME AdapterTypeOK, EngineSound, QueuesSound, NEW r, ThreadStep(r)
  PROVE  QueuesSound'
<1>1. engine_to_request' = engine_to_request /\ queues' = queues /\ Effect(r)
  BY DEF ThreadStep
<1>2. ASSUME NEW c \in Clients, NEW q \in DOMAIN queues[c] PROVE QueuedAt(c, q)'
  <2>1. PICK x : x = queues[c][q]
    OBVIOUS
  <2>2. QueuedAt(c, q)
    BY Zenon DEF QueuesSound
  <2>3. x # PUMP_FAILED =>
          /\ Sound(x) /\ engine_to_request[x.id] = c
          /\ x.finished => \A n \in DOMAIN queues[c] : n > q => queues[c][n] = PUMP_FAILED
    BY <2>1, <2>2, Zenon DEF QueuedAt
  <2>4. x # PUMP_FAILED => Sound(x)'
    BY <1>1, <2>3, SoundKept
  <2> QED BY <1>1, <2>1, <2>3, <2>4, Zenon DEF QueuedAt, Sound
<1> QED BY <1>1, <1>2, Zenon DEF QueuesSound

\* A client that is done has a finished request, which no call touches.
LEMMA ThreadDoneSound ==
  ASSUME AdapterTypeOK, EngineSound, DoneSound, NEW r, ThreadStep(r)
  PROVE  DoneSound'
<1>1. /\ engine_to_request' = engine_to_request /\ queues' = queues /\ task' = task /\ aborted' = aborted
      /\ Effect(r)
  BY DEF ThreadStep
<1>2. \A e \in EngineIds : phase[e] = "finished" => phase'[e] = "finished" /\ left'[e] = left[e]
  BY <1>1, EffectSound
<1>3. ASSUME NEW c \in Clients, task'[c] = "done"
      PROVE  \E e \in EngineIds :
               /\ engine_to_request'[e] = c /\ phase'[e] = "finished"
               /\ aborted'[c] <=> left'[e] # 0
               /\ \A q \in DOMAIN queues'[c] : queues'[c][q] = PUMP_FAILED
  <2>1. PICK e \in EngineIds :
               /\ engine_to_request[e] = c /\ phase[e] = "finished"
               /\ aborted[c] <=> left[e] # 0
               /\ \A q \in DOMAIN queues[c] : queues[c][q] = PUMP_FAILED
    BY <1>1, <1>3, Zenon DEF DoneSound
  <2> QED BY <1>1, <1>2, <2>1, Zenon
<1> QED BY <1>3, Zenon DEF DoneSound

\* A step takes from what is left of a request the token it reports.
LEMMA ThreadTokens ==
  ASSUME AdapterTypeOK, EngineSound, OneCall, RepliesSound, Registered, PendingSound, TokensAddUp,
         NEW r, ThreadStep(r)
  PROVE  TokensAddUp'
<1>1. /\ Len(ready) \in Nat /\ ready'[Len(ready) + 1] = r /\ Len(ready) + 1 \in DOMAIN ready'
      /\ \A k \in DOMAIN ready : k \in DOMAIN ready' /\ ready'[k] = ready[k]
      /\ \A k \in DOMAIN ready' : k \in DOMAIN ready \/ k = Len(ready) + 1
      /\ \A k \in DOMAIN ready : ready[k].task # r.task
  BY ThreadFacts
<1>2. /\ engine_to_request' = engine_to_request /\ queues' = queues /\ received' = received /\ Effect(r)
  BY DEF ThreadStep
<1>3. \A e \in EngineIds : OfTrial(e)' <=> OfTrial(e) \/ r.id = e
  BY ThreadIds
<1>4. ASSUME NEW e \in EngineIds PROVE Recorded(e)' = Recorded(e)
  BY <1>2, Zenon DEF Recorded, TokensIn
<1>5. ASSUME NEW e \in EngineIds
      PROVE  (\E k \in DOMAIN ready' : Brings(k, e)') <=>
             \/ \E k \in DOMAIN ready : Brings(k, e)
             \/ \E i \in DOMAIN r.results : r.results[i].id = e /\ r.results[i].token
  <2>1. \A k \in DOMAIN ready : Brings(k, e)' <=> Brings(k, e)
    BY <1>1 DEF Brings
  <2>2. PICK m : m = Len(ready) + 1
    OBVIOUS
  <2>3. Brings(m, e)' <=> \E i \in DOMAIN r.results : r.results[i].id = e /\ r.results[i].token
    <3>1. ready'[m] = r
      BY <1>1, <2>2
    <3> QED BY <3>1 DEF Brings
  <2> QED BY <1>1, <2>1, <2>2, <2>3
<1>6. \A e \in EngineIds : left[e] \in Nat
  BY DEF AdapterTypeOK
<1>7. CASE r.results = <<>> /\ (Unchanged(r) \/ Added(r))
  <2>0. DOMAIN r.results = {}
    BY <1>7
  <2>1. \A e \in EngineIds : Pending(e)' = Pending(e)
    <3>1. \A e \in EngineIds : (\E k \in DOMAIN ready' : Brings(k, e)') <=> \E k \in DOMAIN ready : Brings(k, e)
      BY <1>5, <2>0
    <3> QED BY <3>1, PendingIs
  <2>2. \A e \in EngineIds : r.id # e => left'[e] = left[e]
    BY <1>7 DEF Unchanged, Added, engineState, AdapterTypeOK
  <2>3. ASSUME NEW e \in EngineIds, OfTrial(e)' PROVE Recorded(e)' + Pending(e)' + left'[e] = Budget
    <3>1. CASE r.id # e
      <4>1. Recorded(e) + Pending(e) + left[e] = Budget
        BY <1>3, <2>3, <3>1, Zenon DEF TokensAddUp
      <4> QED BY <1>4, <2>1, <2>2, <3>1, <4>1
    <3>2. CASE r.id = e
      <4>0. r.id # 0
        BY <3>2, IdsFinite
      <4>1. Added(r) /\ e = next_id /\ next_id \in Nat
        BY <1>7, <3>2, <4>0, IdsFinite DEF Unchanged, Added
      <4>2. left'[e] = Budget
        BY <4>1 DEF Added, AdapterTypeOK
      <4>3. engine_to_request[e] = 0 /\ ~OfTrial(e)
        <5>1. engine_to_request[e] = 0
          BY <4>1 DEF Registered
        <5>2. ~AnsweredBefore(e, Len(ready) + 1)
          BY <4>0, <4>1, <3>2 DEF AnsweredBefore, RepliesSound
        <5> QED BY <5>1, <5>2, Zenon DEF OfTrial
      <4>4. Recorded(e)' = 0
        BY <1>4, <4>3 DEF Recorded
      <4>5. Pending(e) = 0
        <5>1. ASSUME NEW k \in DOMAIN ready, Brings(k, e) PROVE FALSE
          <6>1. PICK i \in DOMAIN ready[k].results : ready[k].results[i].id = e
            BY <5>1 DEF Brings
          <6>2. PendingAt(k, i)
            BY Zenon DEF PendingSound
          <6>3. engine_to_request[e] # 0 \/ AnsweredBefore(e, k)
            BY <6>1, <6>2, Zenon DEF PendingAt
          <6>4. AnsweredBefore(e, k) => AnsweredBefore(e, Len(ready) + 1)
            <7>1. ready \in Seq(Replies)
              BY DEF AdapterTypeOK
            <7>2. \A n \in DOMAIN ready : n < Len(ready) + 1
              BY <7>1
            <7> QED BY <7>2 DEF AnsweredBefore
          <6> QED BY <4>3, <6>3, <6>4 DEF OfTrial
        <5> QED BY <5>1, PendingIs
      <4>6. Pending(e)' = 0
        BY <2>1, <4>5
      <4>7. 0 + 0 + Budget = Budget
        BY AdapterAssumption
      <4> QED BY <4>2, <4>4, <4>6, <4>7, Zenon
    <3> QED BY <3>1, <3>2
  <2> QED BY <2>3, Zenon DEF TokensAddUp
<1>8. CASE Stepped(r.results) /\ r.id = 0 /\ Head(jobs).fn = "step"
  <2>1. \A e \in EngineIds : OfTrial(e)' <=> OfTrial(e)
    BY <1>3, <1>8, IdsFinite
  <2>2. r.task = Pump
    BY <1>2, <1>8 DEF Effect
  <2>3. \A k \in DOMAIN ready : DOMAIN ready[k].results = {}
    <3>1. \A k \in DOMAIN ready : ready[k].results = <<>>
      BY <1>1, <2>2 DEF RepliesSound
    <3> QED BY <3>1
  <2>4. ASSUME NEW e \in EngineIds
        PROVE  /\ Pending(e) = 0
               /\ Pending(e)' = One(\E i \in DOMAIN r.results : r.results[i].id = e /\ r.results[i].token)
    <3>1. \A k \in DOMAIN ready : ~Brings(k, e)
      BY <2>3 DEF Brings
    <3> QED BY <1>5, <3>1, PendingIs DEF One
  <2>5. ASSUME NEW e \in EngineIds PROVE left[e] = left'[e] + Pending(e)' /\ left'[e] \in Nat
    <3>0. left' \in [EngineIds -> Nat]
      BY <1>8, Zenon DEF Stepped
    <3>1. CASE \E i \in DOMAIN r.results : r.results[i].id = e
      <4>1. PICK i \in DOMAIN r.results : r.results[i].id = e
        BY <3>1
      <4>2. /\ left[e] = left'[e] + (IF r.results[i].token THEN 1 ELSE 0)
            /\ \A j \in DOMAIN r.results : r.results[j].id = e => i = j
        BY <1>8, <4>1, Zenon DEF Stepped
      <4>3. (\E j \in DOMAIN r.results : r.results[j].id = e /\ r.results[j].token) <=> r.results[i].token
        BY <4>1, <4>2
      <4>4. Pending(e)' = IF r.results[i].token THEN 1 ELSE 0
        BY <2>4, <4>3 DEF One
      <4> QED BY <3>0, <4>2, <4>4
    <3>2. CASE \A i \in DOMAIN r.results : r.results[i].id # e
      <4>1. Pending(e)' = 0
        BY <2>4, <3>2 DEF One
      <4>2. left'[e] = left[e]
        BY <1>8, <3>2, Zenon DEF Stepped
      <4> QED BY <1>6, <4>1, <4>2
    <3> QED BY <3>1, <3>2
  <2>6. ASSUME NEW e \in EngineIds, OfTrial(e)' PROVE Recorded(e)' + Pending(e)' + left'[e] = Budget
    <3>1. Recorded(e) + Pending(e) + left[e] = Budget
      BY <2>1, <2>6, Zenon DEF TokensAddUp
    <3>2. Recorded(e) \in Nat
      <4>1. engine_to_request[e] = 0 \/ engine_to_request[e] \in Clients
        BY DEF AdapterTypeOK, Tasks, Pump
      <4>2. \A c \in Clients : received[c] \in Nat /\ queues[c] \in Seq(Items)
        BY DEF AdapterTypeOK
      <4>3. \A c \in Clients : TokensIn(queues[c]) \in Nat
        BY <4>2, SentinelIs, TokensAppended
      <4>4. \A c \in Clients : received[c] + TokensIn(queues[c]) \in Nat
        BY <4>2, <4>3
      <4> QED BY <4>1, <4>4 DEF Recorded
    <3>3. PICK n \in Nat, p \in Nat, l \in Nat : n = Recorded(e) /\ p = Pending(e)' /\ l = left'[e]
      BY <2>5, <3>2, PendingIs
    <3>4. left[e] = l + p /\ n + 0 + left[e] = Budget
      BY <2>4, <2>5, <3>1, <3>3
    <3>5. n + p + l = Budget
      BY <3>4
    <3> QED BY <1>4, <3>3, <3>5, Zenon
  <2> QED BY <2>6, Zenon DEF TokensAddUp
<1>9. Unchanged(r) \/ Added(r) => r.results = <<>>
  BY DEF Unchanged, Added
<1> QED BY <1>2, <1>7, <1>8, <1>9, Zenon DEF Effect

\* The trial goes on after a call has been worked off.
LEMMA EngineRunsGoes ==
  ASSUME Goes, main = "driving", EngineRuns
  PROVE  Goes'
<1>1. AdapterTypeOK /\ EngineSound /\ RoutingKnown /\ Driving
  BY DEF Goes
<1>2. /\ OneCall /\ RepliesSound /\ Registered
      /\ PendingSound /\ QueuesSound /\ DoneSound /\ TokensAddUp
      /\ ~poisoned /\ outcome = "none"
  BY <1>1, Zenon DEF Driving
<1>3. PICK r : Effect(r)
  BY <1>1, EngineEffect
<1>4. /\ queues' = queues /\ engine_to_request' = engine_to_request /\ task' = task
      /\ received' = received /\ aborted' = aborted /\ main' = main /\ poisoned' = poisoned
      /\ outcome' = outcome /\ pump_error' = pump_error
  BY DEF EngineRuns, adapterState, traceVars
<1>5. ready' = Append(ready, r)
  BY <1>3 DEF Effect, Complete
<1>6. ThreadStep(r)
  BY <1>3, <1>4, <1>5 DEF ThreadStep
<1>7. AdapterTypeOK'
  <2>1. phase' \in [EngineIds -> Phases] /\ left' \in [EngineIds -> Nat] /\ next_id' \in Nat \ {0}
    BY <1>1, <1>3, EffectSound
  <2>2. jobs' \in Seq(Calls) /\ ready' \in Seq(Replies)
    BY <1>1, <1>2, <1>6, ThreadFacts
  <2> QED BY <1>1, <1>4, <2>1, <2>2, Zenon DEF AdapterTypeOK
<1>8. EngineSound'
  BY <1>1, <1>3, EffectSound
<1>9. OneCall' /\ RepliesSound' /\ Registered'
  BY <1>1, <1>2, <1>6, ThreadOneCall, ThreadRepliesSound, ThreadRegistered
<1>10. PendingSound' /\ QueuesSound' /\ DoneSound' /\ TokensAddUp'
  BY <1>1, <1>2, <1>6, ThreadPendingSound, ThreadQueuesSound, ThreadDoneSound, ThreadTokens
<1>11. ~poisoned' /\ outcome' = "none" /\ RoutingKnown'
  BY <1>1, <1>2, <1>4, Zenon DEF RoutingKnown
<1> QED BY <1>7, <1>8, <1>9, <1>10, <1>11, Zenon DEF Goes, Driving

-----------------------------------------------------------------------------
(***************************************************************************)
(* Trials begin and end.                                                   *)
(***************************************************************************)
Rests == AdapterTypeOK /\ EngineSound /\ RoutingKnown /\ Resting

\* The invariant, by whether a trial is under way.
LEMMA InvIs ==
  /\ AdapterInv <=> (main = "driving" /\ Goes) \/ (main # "driving" /\ Rests)
  /\ AdapterInv' <=> (main' = "driving" /\ Goes') \/ (main' # "driving" /\ Rests')
BY Zenon DEF AdapterInv, Goes, Rests

\* Every client is done: its request is over, nothing of it is queued or on its way, and
\* the engine holds no other.
LEMMA AllDone ==
  ASSUME Goes, \A t \in Tasks : task[t] = "done"
  PROVE  /\ ready = <<>> /\ jobs = <<>> /\ Live = {}
         /\ \A c \in Clients : IF aborted[c] THEN received[c] < Budget ELSE received[c] = Budget
<1>1. AdapterTypeOK /\ EngineSound /\ Driving
  BY DEF Goes
<1>2. OneCall /\ Registered /\ QueuesSound /\ DoneSound /\ TokensAddUp
  BY <1>1, Zenon DEF Driving
<1>3. jobs \in Seq(Calls) /\ ready \in Seq(Replies)
  BY <1>1 DEF AdapterTypeOK
<1>4. ready = <<>>
  <2>1. SUFFICES ASSUME ready # <<>> PROVE FALSE
    OBVIOUS
  <2>2. 1 \in DOMAIN ready /\ ready[1] \in Replies
    BY <1>3, <2>1, Popped
  <2>3. ready[1].task \in Tasks
    BY <2>2 DEF Replies
  <2> QED BY <1>2, <2>2, <2>3 DEF OneCall
<1>5. jobs = <<>>
  <2>1. SUFFICES ASSUME jobs # <<>> PROVE FALSE
    OBVIOUS
  <2>2. 1 \in DOMAIN jobs /\ jobs[1] \in Calls
    BY <1>3, <2>1, Popped
  <2>3. jobs[1].task \in Tasks /\ jobs[1].fn # "done"
    BY <2>2 DEF Calls
  <2> QED BY <1>2, <2>2, <2>3 DEF OneCall
<1>6. DOMAIN ready = {}
  BY <1>4
<1>7. Live = {}
  <2>1. SUFFICES ASSUME NEW e \in Live PROVE FALSE
    OBVIOUS
  <2>2. e \in EngineIds /\ phase[e] # "finished"
    BY LiveIs DEF Active
  <2>3. OfTrial(e) /\ ~AnsweredBefore(e, Len(ready) + 1)
    <3>1. OfTrial(e)
      BY <1>2, <2>2, Zenon DEF Registered
    <3>2. ~AnsweredBefore(e, Len(ready) + 1)
      BY <1>6 DEF AnsweredBefore
    <3> QED BY <3>1, <3>2
  <2>4. engine_to_request[e] # 0
    BY <2>3, Zenon DEF OfTrial
  <2>5. PICK c \in Clients : c = engine_to_request[e]
    BY <1>1, <2>2, <2>4 DEF AdapterTypeOK, Tasks, Pump
  <2>6. PICK f \in EngineIds : engine_to_request[f] = c /\ phase[f] = "finished"
    BY <1>2, TaskNames DEF DoneSound
  <2>7. f = e
    BY <1>2, <2>2, <2>4, <2>5, <2>6 DEF Registered
  <2> QED BY <2>2, <2>6, <2>7
<1>8. ASSUME NEW c \in Clients
      PROVE  IF aborted[c] THEN received[c] < Budget ELSE received[c] = Budget
  <2>1. PICK e \in EngineIds :
            /\ engine_to_request[e] = c /\ phase[e] = "finished"
            /\ aborted[c] <=> left[e] # 0
            /\ \A q \in DOMAIN queues[c] : queues[c][q] = PUMP_FAILED
    BY <1>2, TaskNames DEF DoneSound
  <2>2. TokensIn(queues[c]) = 0
    <3>1. {q \in DOMAIN queues[c] : queues[c][q].token} = {}
      BY <2>1, SentinelIs
    <3> QED BY <3>1, FS_EmptySet, Zenon DEF TokensIn
  <2>3. Pending(e) = 0
    <3>1. \A k \in DOMAIN ready : FALSE
      BY <1>6
    <3> QED BY <3>1, PendingIs
  <2>4. c # 0 /\ received[c] \in Nat /\ left[e] \in Nat /\ Budget \in Nat
    BY <1>1, IdsFinite, AdapterAssumption DEF AdapterTypeOK
  <2>5. Recorded(e) = received[c] + TokensIn(queues[c])
    BY <2>1, <2>4 DEF Recorded
  <2>6. Recorded(e) + Pending(e) + left[e] = Budget
    <3>1. OfTrial(e)
      BY <2>1, <2>4 DEF OfTrial
    <3> QED BY <1>2, <3>1, Zenon DEF TokensAddUp
  <2>7. received[c] + left[e] = Budget
    BY <2>2, <2>3, <2>4, <2>5, <2>6
  <2>8. CASE left[e] = 0
    <3>1. received[c] = Budget
      BY <2>4, <2>7, <2>8
    <3> QED BY <2>1, <2>8, <3>1
  <2>9. CASE left[e] # 0
    <3>1. received[c] < Budget
      BY <2>4, <2>7, <2>9
    <3> QED BY <2>1, <2>9, <3>1
  <2> QED BY <2>8, <2>9
<1> QED BY <1>4, <1>5, <1>7, <1>8

\* A trial that succeeds leaves an empty engine and complete records.
LEMMA TrialSucceedsRests ==
  ASSUME Goes, TrialSucceeds
  PROVE  Rests' /\ main' # "driving"
<1>1. /\ \A t \in Tasks : task[t] = "done"
      /\ main' = "idle" /\ outcome' = "ok"
      /\ UNCHANGED <<engineState, threadVars, adapterState, task, traceVars, pump_error>>
  BY DEF TrialSucceeds
<1>2. /\ phase' = phase /\ left' = left /\ next_id' = next_id /\ jobs' = jobs /\ ready' = ready
      /\ queues' = queues /\ engine_to_request' = engine_to_request /\ poisoned' = poisoned
      /\ received' = received /\ aborted' = aborted /\ pump_error' = pump_error /\ task' = task
      /\ UNCHANGED engineState
  BY <1>1 DEF engineState, threadVars, adapterState, traceVars
<1>3. AdapterTypeOK /\ EngineSound /\ RoutingKnown /\ ~poisoned
  BY Zenon DEF Goes, Driving
<1>4. /\ ready = <<>> /\ jobs = <<>> /\ Live = {}
      /\ \A c \in Clients : IF aborted[c] THEN received[c] < Budget ELSE received[c] = Budget
  BY <1>1, AllDone
<1>5. AdapterTypeOK'
  <2>1. main' \in {"idle", "driving"}
    BY <1>1
  <2> QED BY <1>2, <1>3, <2>1, Zenon DEF AdapterTypeOK
<1>6. EngineSound' /\ RoutingKnown'
  BY <1>2, <1>3, EngineKept DEF RoutingKnown
<1>7. Live' = {}
  BY <1>2, <1>4 DEF Live, InPhase
<1>8. Resting'
  BY <1>2, <1>3, <1>4, <1>7, Zenon DEF Resting
<1> QED BY <1>1, <1>5, <1>6, <1>8 DEF Rests

\* A trial that fails poisons the adapter, and forgets what was on its way back.
LEMMA TrialFailsRests ==
  ASSUME Goes, TrialFails
  PROVE  Rests' /\ main' # "driving"
<1>1. /\ main' = "idle" /\ outcome' = "failed" /\ poisoned' = TRUE /\ ready' = <<>>
      /\ task' = [t \in Tasks |-> IF task[t] \in {"done", "failed"} THEN task[t] ELSE "cancelled"]
      /\ UNCHANGED <<engineState, engine_to_request>> /\ received' = received /\ aborted' = aborted
  BY DEF TrialFails, traceVars
<1>2. AdapterTypeOK /\ EngineSound /\ RoutingKnown
  BY DEF Goes
<1>3. jobs' \in Seq(Calls)
  <2>1. jobs \in Seq(Calls)
    BY <1>2 DEF AdapterTypeOK
  <2>2. jobs' = <<>> \/ (1 \in DOMAIN jobs /\ jobs' = <<jobs[1]>>)
    BY DEF TrialFails
  <2>3. <<>> \in Seq(Calls)
    OBVIOUS
  <2>4. 1 \in DOMAIN jobs => <<jobs[1]>> \in Seq(Calls)
    BY <2>1
  <2> QED BY <2>2, <2>3, <2>4
<1>4. queues' \in [Clients -> Seq(Items)] /\ RoutingKnown'
  <2>1. queues \in [Clients -> Seq(Items)]
    BY <1>2, Zenon DEF AdapterTypeOK
  <2>2. CASE UNCHANGED <<queues, pump_error>>
    BY <1>2, <2>1, <2>2 DEF RoutingKnown
  <2>3. CASE /\ queues' = [c \in Clients |-> Append(queues[c], PUMP_FAILED)]
             /\ pump_error' = "cancelled"
    <3>1. \A c \in Clients : Append(queues[c], PUMP_FAILED) \in Seq(Items)
      BY <2>1, SentinelIs
    <3>2. RoutingKnown'
      BY <2>3 DEF RoutingKnown
    <3> QED BY <2>3, <3>1, <3>2
  <2> QED BY <2>2, <2>3, Zenon DEF TrialFails
<1>5. AdapterTypeOK'
  <2>1. /\ phase' \in [EngineIds -> Phases] /\ left' \in [EngineIds -> Nat] /\ next_id' \in Nat \ {0}
        /\ engine_to_request' \in [EngineIds -> Tasks]
        /\ received' \in [Clients -> Nat] /\ aborted' \in [Clients -> BOOLEAN]
    BY <1>1, <1>2, Zenon DEF AdapterTypeOK, engineState
  <2>2. ready' \in Seq(Replies)
    BY <1>1
  <2>3. main' \in {"idle", "driving"} /\ poisoned' \in BOOLEAN
    BY <1>1
  <2>4. DOMAIN task' = Tasks /\ \A t \in Tasks : task'[t] = task[t] \/ task'[t] = "cancelled"
    BY <1>1
  <2>5. task[Pump] \in PumpStates /\ \A c \in Clients : task[c] \in ClientStates
    BY <1>2, Zenon DEF AdapterTypeOK, PumpStates, ClientStates
  <2>6. task'[Pump] \in PumpStates
    BY <2>4, <2>5, TaskNames DEF PumpStates
  <2>7. \A c \in Clients : task'[c] \in ClientStates
    BY <2>4, <2>5, TaskNames DEF ClientStates
  <2> QED BY <1>3, <1>4, <2>1, <2>2, <2>3, <2>4, <2>6, <2>7, Zenon DEF AdapterTypeOK, PumpStates, ClientStates
<1>6. EngineSound'
  BY <1>1, <1>2, EngineKept
<1>7. Resting'
  BY <1>1 DEF Resting
<1> QED BY <1>1, <1>4, <1>5, <1>6, <1>7 DEF Rests

\* A trial starts from an engine without requests and an idle thread.
LEMMA StartTrialGoes ==
  ASSUME Rests, StartTrial
  PROVE  Goes'
<1>1. /\ ~poisoned /\ main' = "driving"
      /\ queues' = [c \in Clients |-> <<>>]
      /\ engine_to_request' = [e \in EngineIds |-> 0]
      /\ pump_error' = "none"
      /\ task' = [t \in Tasks |-> IF t = Pump THEN "start" ELSE "arriving"]
      /\ received' = [c \in Clients |-> 0] /\ aborted' = [c \in Clients |-> FALSE]
      /\ outcome' = "none" /\ jobs' = jobs /\ ready' = ready /\ poisoned' = poisoned
      /\ UNCHANGED engineState
  BY DEF StartTrial, MayRun, threadVars
<1>2. AdapterTypeOK /\ EngineSound
  BY DEF Rests
<1>3. ready = <<>> /\ jobs = <<>> /\ Live = {}
  BY <1>1 DEF Rests, Resting
<1>4. DOMAIN ready' = {} /\ DOMAIN jobs' = {} /\ Live' = {}
  BY <1>1, <1>3 DEF Live, InPhase, engineState
<1>5. /\ \A c \in Clients : task'[c] = "arriving" /\ DOMAIN queues'[c] = {} /\ received'[c] = 0
      /\ task'[Pump] = "start" /\ DOMAIN task' = Tasks
  BY <1>1, TaskNames
<1>6. \A e \in EngineIds : engine_to_request'[e] = 0
  BY <1>1
<1>7. AdapterTypeOK'
  <2>1. /\ phase' \in [EngineIds -> Phases] /\ left' \in [EngineIds -> Nat] /\ next_id' \in Nat \ {0}
        /\ jobs' \in Seq(Calls) /\ ready' \in Seq(Replies) /\ poisoned' \in BOOLEAN
    BY <1>1, <1>2, Zenon DEF AdapterTypeOK, engineState
  <2>2. queues' \in [Clients -> Seq(Items)]
    <3>1. <<>> \in Seq(Items)
      OBVIOUS
    <3> QED BY <1>1, <3>1
  <2>3. engine_to_request' \in [EngineIds -> Tasks]
    BY <1>1 DEF Tasks, Pump
  <2>4. received' \in [Clients -> Nat] /\ aborted' \in [Clients -> BOOLEAN]
    BY <1>1
  <2>5. main' \in {"idle", "driving"}
    BY <1>1
  <2>6. /\ task'[Pump] \in PumpStates /\ \A c \in Clients : task'[c] \in ClientStates
    BY <1>5 DEF PumpStates, ClientStates
  <2> QED BY <1>5, <2>1, <2>2, <2>3, <2>4, <2>5, <2>6, Zenon DEF AdapterTypeOK, PumpStates, ClientStates
<1>8. EngineSound'
  BY <1>1, <1>2, EngineKept
<1>9. OneCall' /\ RepliesSound' /\ PendingSound'
  BY <1>4 DEF OneCall, RepliesSound, PendingSound
<1>10. Registered'
  BY <1>4, <1>5, <1>6 DEF Registered
<1>11. QueuesSound'
  BY <1>5 DEF QueuesSound
<1>12. DoneSound'
  BY <1>5 DEF DoneSound
<1>13. TokensAddUp'
  <2>1. \A e \in EngineIds : ~OfTrial(e)'
    BY <1>4, <1>6 DEF OfTrial, AnsweredBefore
  <2> QED BY <2>1, Zenon DEF TokensAddUp
<1>14. ~poisoned' /\ outcome' = "none" /\ RoutingKnown'
  BY <1>1 DEF RoutingKnown
<1> QED BY <1>7, <1>8, <1>9, <1>10, <1>11, <1>12, <1>13, <1>14, Zenon DEF Goes, Driving

\* A new engine is empty; load waited for the thread to end.
LEMMA LoadRests ==
  ASSUME Rests, Load
  PROVE  Rests' /\ main' # "driving"
<1>1. /\ main = "idle" /\ main' = main /\ jobs = <<>> /\ poisoned' = FALSE
      /\ phase' = [e \in EngineIds |-> "none"] /\ left' = [e \in EngineIds |-> 0] /\ next_id' = 1
      /\ jobs' = jobs /\ ready' = ready /\ queues' = queues /\ engine_to_request' = engine_to_request
      /\ task' = task /\ received' = received /\ aborted' = aborted /\ pump_error' = pump_error
      /\ outcome' = outcome
  BY DEF Load, threadVars, traceVars
<1>2. AdapterTypeOK /\ RoutingKnown /\ Resting
  BY DEF Rests
<1>3. \A e \in EngineIds : phase'[e] = "none" /\ e \notin Live'
  <2>1. \A e \in EngineIds : phase'[e] = "none"
    BY <1>1
  <2> QED BY <2>1, LiveIs DEF Active
<1>4. AdapterTypeOK'
  <2>1. phase' \in [EngineIds -> Phases] /\ left' \in [EngineIds -> Nat] /\ next_id' \in Nat \ {0}
    BY <1>1 DEF Phases
  <2>2. poisoned' \in BOOLEAN
    BY <1>1
  <2> QED BY <1>1, <1>2, <2>1, <2>2, Zenon DEF AdapterTypeOK
<1>5. EngineSound'
  BY <1>3 DEF EngineSound
<1>6. Live' = {}
  BY <1>3, LiveIs
<1>7. ready' = <<>> /\ jobs' = <<>> /\ RoutingKnown'
  BY <1>1, <1>2 DEF Resting, RoutingKnown
<1>8. outcome' = "ok" => \A c \in Clients :
        IF aborted'[c] THEN received'[c] < Budget ELSE received'[c] = Budget
  BY <1>1, <1>2, Zenon DEF Resting
<1>9. Resting'
  BY <1>1, <1>6, <1>7, <1>8, Zenon DEF Resting
<1> QED BY <1>1, <1>4, <1>5, <1>7, <1>9 DEF Rests

\* A call left over from a failed trial changes the engine of that trial, and nothing else.
LEMMA EngineRunsRests ==
  ASSUME Rests, main # "driving", EngineRuns
  PROVE  Rests' /\ main' # "driving"
<1>1. AdapterTypeOK /\ EngineSound /\ RoutingKnown /\ Resting
  BY DEF Rests
<1>2. PICK r : Effect(r)
  BY <1>1, EngineEffect
<1>3. /\ queues' = queues /\ engine_to_request' = engine_to_request /\ task' = task
      /\ received' = received /\ aborted' = aborted /\ main' = main /\ poisoned' = poisoned
      /\ outcome' = outcome /\ pump_error' = pump_error
  BY DEF EngineRuns, adapterState, traceVars
<1>4. jobs # <<>> /\ jobs' = Tail(jobs) /\ ready' = ready
  BY <1>2 DEF Effect, Complete
<1>5. AdapterTypeOK'
  <2>1. phase' \in [EngineIds -> Phases] /\ left' \in [EngineIds -> Nat] /\ next_id' \in Nat \ {0}
    BY <1>1, <1>2, EffectSound
  <2>2. jobs' \in Seq(Calls)
    BY <1>1, <1>4, Popped DEF AdapterTypeOK
  <2> QED BY <1>1, <1>3, <1>4, <2>1, <2>2, Zenon DEF AdapterTypeOK
<1>6. EngineSound'
  BY <1>1, <1>2, EffectSound
<1>7. poisoned /\ outcome # "ok" /\ ready = <<>>
  BY <1>1, <1>4, Zenon DEF Resting
<1>8. Resting' /\ RoutingKnown'
  BY <1>1, <1>3, <1>4, <1>7, Zenon DEF Resting, RoutingKnown
<1> QED BY <1>3, <1>5, <1>6, <1>8 DEF Rests

-----------------------------------------------------------------------------
(***************************************************************************)
(* The theorems.                                                           *)
(***************************************************************************)
\* Nothing has been loaded or run yet.
LEMMA AdapterInitial ==
  ASSUME AdapterInit
  PROVE  AdapterInv
<1>1. /\ phase = [e \in EngineIds |-> "none"] /\ left = [e \in EngineIds |-> 0] /\ next_id = 1
      /\ jobs = <<>> /\ ready = <<>> /\ queues = [c \in Clients |-> <<>>]
      /\ engine_to_request = [e \in EngineIds |-> 0] /\ poisoned = FALSE /\ main = "idle"
      /\ task = [t \in Tasks |-> "none"]
      /\ received = [c \in Clients |-> 0] /\ aborted = [c \in Clients |-> FALSE]
      /\ pump_error = "none" /\ outcome = "none"
  BY DEF AdapterInit, FreshEngine
<1>2. \A e \in EngineIds : phase[e] = "none" /\ e \notin Live
  <2>1. \A e \in EngineIds : phase[e] = "none"
    BY <1>1
  <2> QED BY <2>1, LiveIs DEF Active
<1>3. AdapterTypeOK
  <2>1. phase \in [EngineIds -> Phases] /\ left \in [EngineIds -> Nat] /\ next_id \in Nat \ {0}
    BY <1>1 DEF Phases
  <2>2. jobs \in Seq(Calls) /\ ready \in Seq(Replies)
    BY <1>1
  <2>3. queues \in [Clients -> Seq(Items)]
    <3>1. <<>> \in Seq(Items)
      OBVIOUS
    <3> QED BY <1>1, <3>1
  <2>4. engine_to_request \in [EngineIds -> Tasks]
    BY <1>1 DEF Tasks, Pump
  <2>5. received \in [Clients -> Nat] /\ aborted \in [Clients -> BOOLEAN]
    BY <1>1
  <2>6. main \in {"idle", "driving"} /\ poisoned \in BOOLEAN
    BY <1>1
  <2>7. DOMAIN task = Tasks /\ task[Pump] \in PumpStates /\ \A c \in Clients : task[c] \in ClientStates
    BY <1>1, TaskNames DEF PumpStates, ClientStates
  <2> QED BY <2>1, <2>2, <2>3, <2>4, <2>5, <2>6, <2>7, Zenon DEF AdapterTypeOK, PumpStates, ClientStates
<1>4. EngineSound /\ RoutingKnown /\ main # "driving"
  BY <1>1, <1>2 DEF EngineSound, RoutingKnown
<1>5. Live = {}
  BY <1>2, LiveIs
<1>6. Resting
  BY <1>1, <1>5 DEF Resting
<1> QED BY <1>3, <1>4, <1>6, InvIs DEF Rests

\* Every step keeps the invariant.
LEMMA AdapterPreserved ==
  ASSUME AdapterInv, [AdapterNext]_adapterVars
  PROVE  AdapterInv'
<1>1. CASE UNCHANGED adapterVars
  <2>1. UNCHANGED <<phase, left, next_id, jobs, ready, queues, engine_to_request, submitted, finished,
                    poisoned, loaded, main, task, received, aborted, pump_error, outcome>>
    BY <1>1 DEF adapterVars, engineState, threadVars, adapterState, traceVars
  <2>2. AdapterTypeOK' <=> AdapterTypeOK
    BY <2>1 DEF AdapterTypeOK
  <2>3. Live' = Live
    BY <2>1 DEF Live, InPhase
  <2>4. (EngineSound' <=> EngineSound) /\ (RoutingKnown' <=> RoutingKnown)
    BY <2>1, <2>3 DEF EngineSound, RoutingKnown
  <2>5. (OneCall' <=> OneCall) /\ (RepliesSound' <=> RepliesSound)
    BY <2>1 DEF OneCall, RepliesSound
  <2>6. Registered' <=> Registered
    BY <2>1, <2>3 DEF Registered, OfTrial, AnsweredBefore
  <2>7. PendingSound' <=> PendingSound
    BY <2>1 DEF PendingSound, PendingAt, Sound, AnsweredBefore
  <2>8. (QueuesSound' <=> QueuesSound) /\ (DoneSound' <=> DoneSound)
    BY <2>1 DEF QueuesSound, QueuedAt, Sound, DoneSound
  <2>9. TokensAddUp' <=> TokensAddUp
    BY <2>1 DEF TokensAddUp, TokensIn, Recorded, Pending, OfTrial, AnsweredBefore
  <2>10. Resting' <=> Resting
    BY <2>1, <2>3 DEF Resting
  <2>11. Driving' <=> Driving
    BY <2>1, <2>5, <2>6, <2>7, <2>8, <2>9 DEF Driving
  <2> QED BY <2>1, <2>2, <2>4, <2>10, <2>11 DEF AdapterInv
<1>2. CASE main = "driving" /\ Goes
  <2>1. CASE EngineRuns
    <3>1. main' = main
      BY <2>1 DEF EngineRuns
    <3> QED BY <1>2, <2>1, <3>1, EngineRunsGoes, InvIs
  <2>2. ASSUME NEW c \in Clients, ClientWakes(c) PROVE AdapterInv'
    <3>1. main' = main
      BY <2>2 DEF ClientWakes
    <3> QED BY <1>2, <2>2, <3>1, ClientWakesGoes, InvIs
  <2>3. ASSUME NEW c \in Clients, ClientHasCapacity(c) PROVE AdapterInv'
    <3>1. main' = main
      BY <2>3 DEF ClientHasCapacity
    <3> QED BY <1>2, <2>3, <3>1, ClientHasCapacityGoes, InvIs
  <2>4. ASSUME NEW c \in Clients, ClientAdded(c) PROVE AdapterInv'
    <3>1. main' = main
      BY <2>4 DEF ClientAdded
    <3> QED BY <1>2, <2>4, <3>1, ClientAddedGoes, InvIs
  <2>5. ASSUME NEW c \in Clients, ClientReads(c) PROVE AdapterInv'
    <3>1. main' = main
      BY <2>5 DEF ClientReads
    <3> QED BY <1>2, <2>5, <3>1, ClientReadsGoes, InvIs
  <2>6. CASE PumpWakes
    <3>1. main' = main
      BY <2>6 DEF PumpWakes
    <3> QED BY <1>2, <2>6, <3>1, PumpWakesGoes, InvIs
  <2>7. CASE PumpRoutes
    <3>1. main' = main
      BY <2>7 DEF PumpRoutes
    <3> QED BY <1>2, <2>7, <3>1, PumpRoutesGoes, InvIs
  <2>8. CASE PumpFails
    <3>1. main' = main
      BY <2>8 DEF PumpFails
    <3> QED BY <1>2, <2>8, <3>1, PumpFailsGoes, InvIs
  <2>9. CASE TrialSucceeds
    BY <1>2, <2>9, TrialSucceedsRests, InvIs
  <2>10. CASE TrialFails
    BY <1>2, <2>10, TrialFailsRests, InvIs
  <2>11. ~Load /\ ~StartTrial
    BY <1>2 DEF Load, StartTrial
  <2> QED BY <1>1, <2>1, <2>2, <2>3, <2>4, <2>5, <2>6, <2>7, <2>8, <2>9, <2>10, <2>11, Zenon
       DEF AdapterNext, TrialRuns
<1>3. CASE main # "driving" /\ Rests
  <2>0. ready = <<>>
    BY <1>3, Zenon DEF Rests, Resting
  <2>1. CASE EngineRuns
    BY <1>3, <2>1, EngineRunsRests, InvIs
  <2>2. CASE Load
    BY <1>3, <2>2, LoadRests, InvIs
  <2>3. CASE StartTrial
    <3>1. main' = "driving"
      BY <2>3 DEF StartTrial
    <3> QED BY <1>3, <2>3, <3>1, StartTrialGoes, InvIs
  <2>4. /\ \A t : ~Answered(t)
        /\ \A c \in Clients : ~ClientWakes(c) /\ ~ClientHasCapacity(c) /\ ~ClientAdded(c) /\ ~ClientReads(c)
        /\ ~PumpWakes /\ ~PumpRoutes /\ ~PumpFails /\ ~TrialSucceeds /\ ~TrialFails
    <3>1. \A t : ~Answered(t)
      BY <2>0 DEF Answered
    <3> QED BY <1>3, <3>1, Zenon DEF ClientWakes, ClientHasCapacity, ClientAdded, ClientReads, PumpWakes,
              PumpRoutes, PumpFails, TrialSucceeds, TrialFails
  <2> QED BY <1>1, <2>1, <2>2, <2>3, <2>4, Zenon DEF AdapterNext, TrialRuns
<1> QED BY <1>2, <1>3, InvIs

\* The invariant is inductive, whatever the number of requests, trials, aborts and errors.
THEOREM AdapterInvariant == AdapterSpec => []AdapterInv
<1>1. AdapterInit => AdapterInv
  BY AdapterInitial
<1>2. AdapterInv /\ [AdapterNext]_adapterVars => AdapterInv'
  BY AdapterPreserved
<1> QED BY <1>1, <1>2, PTL DEF AdapterSpec

\* _pump never meets an id that no client has registered.
THEOREM ResultsAreRouted == AdapterSpec => []RoutingKnown
<1>1. AdapterInv => RoutingKnown
  BY Zenon DEF AdapterInv
<1> QED BY <1>1, AdapterInvariant, PTL

\* No trial starts with requests of an earlier one in the engine, or with calls under way.
THEOREM TrialsStartClean == AdapterSpec => []CleanStart
<1>1. ASSUME AdapterInv, main = "driving", \A t \in Tasks : task[t] \in {"start", "arriving"}
      PROVE  Live = {} /\ jobs = <<>> /\ ready = <<>>
  <2>1. Goes
    BY <1>1, InvIs
  <2>2. AdapterTypeOK /\ OneCall /\ Registered
    BY <2>1, GoesHas
  <2>3. jobs \in Seq(Calls) /\ ready \in Seq(Replies)
    BY <2>2 DEF AdapterTypeOK
  <2>4. ready = <<>>
    <3>1. SUFFICES ASSUME ready # <<>> PROVE FALSE
      OBVIOUS
    <3>2. 1 \in DOMAIN ready /\ ready[1] \in Replies
      BY <2>3, <3>1, Popped
    <3>3. ready[1].task \in Tasks
      BY <3>2 DEF Replies
    <3>4. task[ready[1].task] \in {"has_capacity", "add_request", "step"}
      BY <2>2, <3>2, Zenon DEF OneCall
    <3> QED BY <1>1, <3>3, <3>4
  <2>5. jobs = <<>>
    <3>1. SUFFICES ASSUME jobs # <<>> PROVE FALSE
      OBVIOUS
    <3>2. 1 \in DOMAIN jobs /\ jobs[1] \in Calls
      BY <2>3, <3>1, Popped
    <3>3. jobs[1].task \in Tasks /\ jobs[1].fn \in {"has_capacity", "add_request", "step"}
      BY <3>2 DEF Calls
    <3>4. task[jobs[1].task] = jobs[1].fn
      BY <2>2, <3>2, Zenon DEF OneCall
    <3> QED BY <1>1, <3>3, <3>4
  <2>6. ASSUME NEW e \in Live PROVE FALSE
    <3>1. e \in EngineIds
      BY LiveIs
    <3>2. OfTrial(e)
      BY <2>2, <3>1, Zenon DEF Registered
    <3>3. ~AnsweredBefore(e, Len(ready) + 1)
      <4>1. DOMAIN ready = {}
        BY <2>4
      <4> QED BY <4>1 DEF AnsweredBefore
    <3>4. engine_to_request[e] # 0
      BY <3>2, <3>3, Zenon DEF OfTrial
    <3>5. engine_to_request[e] \in Tasks /\ task[engine_to_request[e]] \in {"reading", "done", "failed"}
      BY <2>2, <3>1, <3>4 DEF Registered, AdapterTypeOK
    <3> QED BY <1>1, <3>5
  <2> QED BY <2>4, <2>5, <2>6
<1>2. AdapterInv => CleanStart
  BY <1>1, Zenon DEF CleanStart
<1> QED BY <1>2, AdapterInvariant, PTL

\* A trial that succeeds has every token of every request, and leaves the engine empty.
THEOREM TracesAreComplete == AdapterSpec => []TraceComplete
<1>1. ASSUME AdapterInv, outcome = "ok" PROVE Rests
  BY <1>1, InvIs, Zenon DEF Goes, Driving
<1>2. AdapterInv => TraceComplete
  BY <1>1, Zenon DEF TraceComplete, Rests, Resting
<1> QED BY <1>2, AdapterInvariant, PTL
===============================================================================
