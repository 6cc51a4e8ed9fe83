--------------------------- MODULE WeightLoadProofs ---------------------------
(***************************************************************************)
(* Proofs about the load of the weights: the slab layout places the fused  *)
(* tensors side by side, the double-buffered upload brings every element   *)
(* to its place, or fails without touching freed memory, and the views     *)
(* that the safetensors reader hands to the loader are sound.              *)
(***************************************************************************)
EXTENDS WeightLoad, Safetensors, InductionFacts, SequenceTheorems, TLAPS

-----------------------------------------------------------------------------
(***************************************************************************)
(* The fused tensors in the order they are placed.                         *)
(***************************************************************************)
Kinds == {"embed", "w_qkv", "b_qkv", "w_o", "w_gateup", "w_down", "input_norm", "post_attn_norm",
          "final_norm", "lm_head"}

Triple == Kinds \X Int \X Nat

LEMMA Products ==
  /\ Hidden \in Nat /\ KvRows \in Nat /\ Inter \in Nat /\ Vocab \in Nat
  /\ Hidden > 0 /\ KvRows > 0 /\ Inter > 0 /\ Vocab > 0
  /\ Hidden * Hidden \in Nat /\ KvRows * Hidden \in Nat /\ Inter * Hidden \in Nat
  /\ Hidden * Inter \in Nat /\ Vocab * Hidden \in Nat
  /\ Hidden * Hidden > 0 /\ KvRows * Hidden > 0 /\ Inter * Hidden > 0
  /\ Hidden * Inter > 0 /\ Vocab * Hidden > 0
  /\ kQkvRows * Hidden = Hidden * Hidden + 2 * (KvRows * Hidden)
  /\ kGateUpRows * Hidden = 2 * (Inter * Hidden)
<1>1. /\ Hidden \in Nat /\ KvRows \in Nat /\ Inter \in Nat /\ Vocab \in Nat
      /\ Hidden > 0 /\ KvRows > 0 /\ Inter > 0 /\ Vocab > 0
  BY WeightsAssumption
<1>2. \A x, y \in Nat : x > 0 /\ y > 0 => x * y \in Nat /\ x * y > 0
  OBVIOUS
<1>3. kQkvRows * Hidden = Hidden * Hidden + 2 * (KvRows * Hidden)
  BY <1>1 DEF kQkvRows
<1>4. kGateUpRows * Hidden = 2 * (Inter * Hidden)
  BY <1>1 DEF kGateUpRows
<1> QED BY <1>1, <1>2, <1>3, <1>4

LEMMA LayerRegionTypes ==
  ASSUME NEW l \in Int
  PROVE  /\ LayerRegions(l) \in Seq(Triple) /\ Len(LayerRegions(l)) = 7
         /\ \A j \in 1 .. 7 : LayerRegions(l)[j] \in Triple /\ LayerRegions(l)[j][2] = l
                              /\ LayerRegions(l)[j][3] > 0
<1>1. kQkvRows \in Nat /\ kQkvRows > 0 /\ kQkvRows * Hidden \in Nat /\ kQkvRows * Hidden > 0
      /\ kGateUpRows * Hidden \in Nat /\ kGateUpRows * Hidden > 0
  BY Products DEF kQkvRows
<1> DEFINE s == LayerRegions(l)
<1>3. /\ Len(s) = 7 /\ DOMAIN s = 1 .. 7
      /\ s[1] = <<"w_qkv", l, kQkvRows * Hidden>> /\ s[2] = <<"b_qkv", l, kQkvRows>>
      /\ s[3] = <<"w_o", l, Hidden * Hidden>> /\ s[4] = <<"w_gateup", l, kGateUpRows * Hidden>>
      /\ s[5] = <<"w_down", l, Hidden * Inter>> /\ s[6] = <<"input_norm", l, Hidden>>
      /\ s[7] = <<"post_attn_norm", l, Hidden>>
  BY DEF LayerRegions
<1>4. s = [j \in 1 .. 7 |-> s[j]]
  BY DEF LayerRegions
<1> HIDE DEF s
<1>5. \A j \in 1 .. 7 : s[j] \in Triple /\ s[j][2] = l /\ s[j][3] > 0
  <2>1. ASSUME NEW t, NEW kind \in Kinds, NEW z \in Nat, z > 0, t = <<kind, l, z>>
        PROVE  t \in Triple /\ t[2] = l /\ t[3] > 0
    BY <2>1 DEF Triple
  <2>2. {"w_qkv", "b_qkv", "w_o", "w_gateup", "w_down", "input_norm", "post_attn_norm"} \subseteq Kinds
    BY DEF Kinds
  <2>3. /\ s[1] \in Triple /\ s[1][2] = l /\ s[1][3] > 0
        /\ s[2] \in Triple /\ s[2][2] = l /\ s[2][3] > 0
    BY <1>1, <1>3, <2>1, <2>2, Zenon
  <2>4. /\ s[3] \in Triple /\ s[3][2] = l /\ s[3][3] > 0
        /\ s[4] \in Triple /\ s[4][2] = l /\ s[4][3] > 0
    BY <1>1, <1>3, <2>1, <2>2, Products, Zenon
  <2>5. /\ s[5] \in Triple /\ s[5][2] = l /\ s[5][3] > 0
        /\ s[6] \in Triple /\ s[6][2] = l /\ s[6][3] > 0
        /\ s[7] \in Triple /\ s[7][2] = l /\ s[7][3] > 0
    BY <1>1, <1>3, <2>1, <2>2, Products, Zenon
  <2>6. \A j \in 1 .. 7 : j = 1 \/ j = 2 \/ j = 3 \/ j = 4 \/ j = 5 \/ j = 6 \/ j = 7
    OBVIOUS
  <2> QED BY <2>3, <2>4, <2>5, <2>6, Zenon
<1>6. s \in Seq(Triple)
  BY <1>3, <1>4, <1>5
<1> QED BY <1>3, <1>5, <1>6 DEF s

\* Opaque to the provers, which get lost in nested concatenations.
IsConcat(u, s, t) == u = s \o t
Sized(s, S, n) == s \in Seq(S) /\ Len(s) = n

LEMMA Joined ==
  ASSUME NEW S, NEW s, NEW t, NEW u, NEW p \in Nat, NEW q \in Nat,
         Sized(s, S, p), Sized(t, S, q), IsConcat(u, s, t)
  PROVE  /\ Sized(u, S, p + q)
         /\ \A i \in 1 .. p : u[i] = s[i]
         /\ \A i \in 1 .. q : u[p + i] = t[i]
<1>1. /\ u \in Seq(S) /\ Len(u) = Len(s) + Len(t)
      /\ \A i \in 1 .. Len(s) + Len(t) : u[i] = IF i <= Len(s) THEN s[i] ELSE t[i - Len(s)]
  BY ConcatProperties DEF IsConcat, Sized
<1>2. p = Len(s) /\ q = Len(t)
  BY DEF Sized
<1>3. \A i \in 1 .. q : p + i \in 1 .. p + q /\ ~(p + i <= p) /\ (p + i) - p = i
  OBVIOUS
<1>4. \A i \in 1 .. p : i \in 1 .. p + q /\ i <= p
  OBVIOUS
<1>5. \A i \in 1 .. p + q : u[i] = IF i <= p THEN s[i] ELSE t[i - p]
  BY <1>1, <1>2
<1>6. Sized(u, S, p + q)
  BY <1>1, <1>2 DEF Sized
<1> QED BY <1>5, <1>3, <1>4, <1>6

\* A first element, one part per layer, a last element and perhaps one more.
Parts(R, S, a, P, z, H, L, q) ==
  /\ L \in Nat /\ q \in Nat
  /\ Sized(a, S, 1) /\ Sized(P, S, L) /\ Sized(z, S, 1) /\ Sized(H, S, q)
  /\ R = ((a \o P) \o z) \o H

LEMMA FourParts ==
  ASSUME NEW R, NEW S, NEW a, NEW P, NEW z, NEW H, NEW L, NEW q, Parts(R, S, a, P, z, H, L, q)
  PROVE  /\ Sized(R, S, L + 2 + q)
         /\ R[1] = a[1]
         /\ \A i \in 1 .. L : R[i + 1] = P[i]
         /\ R[L + 2] = z[1]
         /\ \A i \in 1 .. q : R[L + 2 + i] = H[i]
<1>1. PICK ap, apz : IsConcat(ap, a, P) /\ IsConcat(apz, ap, z) /\ IsConcat(R, apz, H)
  BY Zenon DEF Parts, IsConcat
<1>2. L \in Nat /\ q \in Nat /\ Sized(a, S, 1) /\ Sized(P, S, L) /\ Sized(z, S, 1) /\ Sized(H, S, q)
  BY DEF Parts
<1>a. /\ Sized(ap, S, 1 + L)
      /\ \A i \in 1 .. 1 : ap[i] = a[i]
      /\ \A i \in 1 .. L : ap[1 + i] = P[i]
  BY <1>1, <1>2, Joined
<1>b. /\ Sized(apz, S, L + 1 + 1)
      /\ \A i \in 1 .. L + 1 : apz[i] = ap[i]
      /\ \A i \in 1 .. 1 : apz[L + 1 + i] = z[i]
  BY <1>1, <1>2, <1>a, Joined
<1>c. /\ Sized(R, S, L + 2 + q)
      /\ \A i \in 1 .. L + 2 : R[i] = apz[i]
      /\ \A i \in 1 .. q : R[L + 2 + i] = H[i]
  BY <1>1, <1>2, <1>b, Joined
<1>10. R[1] = a[1]
  BY <1>2, <1>a, <1>b, <1>c
<1>11. R[L + 2] = z[1]
  BY <1>2, <1>a, <1>b, <1>c
<1>12. \A i \in 1 .. L : R[i + 1] = P[i]
  BY <1>2, <1>a, <1>b, <1>c
<1> QED BY <1>c, <1>10, <1>11, <1>12

\* The shape of both tables: an element for each layer between two of their own,
\* and perhaps one more.
Table(R, S, e, P, n, h, b, L) ==
  /\ e \in S /\ n \in S /\ h \in S /\ b \in BOOLEAN /\ L \in Nat /\ Sized(P, S, L)
  /\ R = <<e>> \o P \o <<n>> \o (IF b THEN <<h>> ELSE <<>>)

LEMMA TableAt ==
  ASSUME NEW R, NEW S, NEW e, NEW P, NEW n, NEW h, NEW b, NEW L, Table(R, S, e, P, n, h, b, L)
  PROVE  /\ R \in Seq(S) /\ Len(R) = L + 2 + (IF b THEN 1 ELSE 0)
         /\ R[1] = e
         /\ \A i \in 1 .. L : R[i + 1] = P[i]
         /\ R[L + 2] = n
         /\ b => R[L + 3] = h
<1>1. e \in S /\ n \in S /\ h \in S /\ b \in BOOLEAN /\ L \in Nat /\ Sized(P, S, L)
  BY Zenon DEF Table
<1>6. PICK H, q : H = (IF b THEN <<h>> ELSE <<>>) /\ q = (IF b THEN 1 ELSE 0)
  OBVIOUS
<1>6a. /\ Sized(H, S, q) /\ q \in Nat
       /\ b => H[1] = h /\ 1 \in 1 .. q
  <2>1. CASE b
    BY <1>1, <1>6, <2>1 DEF Sized
  <2>2. CASE ~b
    BY <1>6, <2>2 DEF Sized
  <2> QED BY <2>1, <2>2
<1>7. PICK a, z : a = <<e>> /\ z = <<n>>
  OBVIOUS
<1>7a. Sized(a, S, 1) /\ a[1] = e /\ Sized(z, S, 1) /\ z[1] = n
  BY <1>1, <1>7 DEF Sized
<1>8. Parts(R, S, a, P, z, H, L, q)
  <2>1. R = ((a \o P) \o z) \o H
    BY <1>6, <1>7, Zenon DEF Table
  <2> QED BY <1>1, <1>6a, <1>7a, <2>1, Zenon DEF Parts
<1>9. /\ Sized(R, S, L + 2 + q)
      /\ R[1] = e
      /\ \A i \in 1 .. L : R[i + 1] = P[i]
      /\ R[L + 2] = n
      /\ \A i \in 1 .. q : R[L + 2 + i] = H[i]
  BY <1>7a, <1>8, FourParts
<1>10. b => R[L + 3] = h
  <2>1. L + 2 + 1 = L + 3
    BY <1>1
  <2> QED BY <1>6a, <1>9, <2>1
<1>11. R \in Seq(S) /\ Len(R) = L + 2 + q
  BY <1>9 DEF Sized
<1> HIDE <1>6
<1>12. q = IF b THEN 1 ELSE 0
  BY <1>6
<1> QED BY <1>9, <1>10, <1>11, <1>12, Zenon

\* Position i of a per-layer loop is element j of layer l.
LEMMA Digits7 ==
  ASSUME NEW n \in Nat
  PROVE  /\ \A i \in 1 .. 7 * n : /\ (i - 1) \div 7 + 1 \in 1 .. n /\ ((i - 1) % 7) + 1 \in 1 .. 7
                                  /\ i = 7 * ((i - 1) \div 7) + ((i - 1) % 7) + 1
         /\ \A l \in 1 .. n, j \in 1 .. 7 :
              /\ 7 * (l - 1) + j \in 1 .. 7 * n
              /\ (7 * (l - 1) + j - 1) \div 7 + 1 = l
              /\ ((7 * (l - 1) + j - 1) % 7) + 1 = j
  OBVIOUS

LEMMA Digits12 ==
  ASSUME NEW n \in Nat
  PROVE  /\ \A i \in 1 .. 12 * n : /\ (i - 1) \div 12 + 1 \in 1 .. n /\ ((i - 1) % 12) + 1 \in 1 .. 12
                                   /\ i = 12 * ((i - 1) \div 12) + ((i - 1) % 12) + 1
         /\ \A l \in 1 .. n, j \in 1 .. 12 :
              /\ 12 * (l - 1) + j \in 1 .. 12 * n
              /\ (12 * (l - 1) + j - 1) \div 12 + 1 = l
              /\ ((12 * (l - 1) + j - 1) % 12) + 1 = j
  OBVIOUS

LEMMA RegionTable ==
  ASSUME NEW b \in BOOLEAN
  PROVE  /\ Regions(b) \in Seq(Triple)
         /\ Len(Regions(b)) = 7 * NumLayers + 2 + (IF b THEN 1 ELSE 0)
         /\ Regions(b)[1] = <<"embed", NoLayer, Vocab * Hidden>>
         /\ \A i \in 1 .. 7 * NumLayers :
              Regions(b)[i + 1] = LayerRegions((i - 1) \div 7 + 1)[((i - 1) % 7) + 1]
         /\ Regions(b)[7 * NumLayers + 2] = <<"final_norm", NoLayer, Hidden>>
         /\ b => Regions(b)[7 * NumLayers + 3] = <<"lm_head", NoLayer, Vocab * Hidden>>
<1>1. PICK L \in Nat : L = 7 * NumLayers /\ NumLayers \in Nat
  BY WeightsAssumption
<1>2. PICK e \in Triple, n \in Triple, h \in Triple :
        /\ e = <<"embed", NoLayer, Vocab * Hidden>> /\ n = <<"final_norm", NoLayer, Hidden>>
        /\ h = <<"lm_head", NoLayer, Vocab * Hidden>>
  <2>1. /\ <<"embed", NoLayer, Vocab * Hidden>> \in Triple
        /\ <<"final_norm", NoLayer, Hidden>> \in Triple
        /\ <<"lm_head", NoLayer, Vocab * Hidden>> \in Triple
    BY Products DEF Triple, Kinds, NoLayer
  <2> QED BY <2>1
<1>3. PICK P : P = [i \in 1 .. L |-> LayerRegions((i - 1) \div 7 + 1)[((i - 1) % 7) + 1]]
  OBVIOUS
<1>4. P = PerLayer(7, LayerRegions)
  BY <1>1, <1>3 DEF PerLayer
<1>5. Sized(P, Triple, L)
  <2>1. \A i \in 1 .. L : (i - 1) \div 7 + 1 \in Int /\ ((i - 1) % 7) + 1 \in 1 .. 7
    BY <1>1
  <2>2. \A i \in 1 .. L : LayerRegions((i - 1) \div 7 + 1)[((i - 1) % 7) + 1] \in Triple
    BY <2>1, LayerRegionTypes
  <2> QED BY <1>3, <2>2 DEF Sized
<1>6. PICK R : R = Regions(b)
  OBVIOUS
<1>7. Table(R, Triple, e, P, n, h, b, L)
  <2>1. R = <<e>> \o P \o <<n>> \o (IF b THEN <<h>> ELSE <<>>)
    BY <1>2, <1>4, <1>6, Zenon DEF Regions
  <2> QED BY <1>5, <2>1, Zenon DEF Table
<1>8. /\ R \in Seq(Triple) /\ Len(R) = L + 2 + (IF b THEN 1 ELSE 0)
      /\ R[1] = e
      /\ \A i \in 1 .. L : R[i + 1] = P[i]
      /\ R[L + 2] = n
      /\ b => R[L + 3] = h
  BY <1>7, TableAt, Zenon
<1>9. \A i \in 1 .. L : R[i + 1] = LayerRegions((i - 1) \div 7 + 1)[((i - 1) % 7) + 1]
  <2> TAKE i \in 1 .. L
  <2>1. R[i + 1] = P[i]
    BY <1>8, Zenon
  <2>2. P[i] = LayerRegions((i - 1) \div 7 + 1)[((i - 1) % 7) + 1]
    BY <1>3
  <2> QED BY <2>1, <2>2, Zenon
<1> HIDE <1>3
<1> QED BY <1>1, <1>2, <1>6, <1>8, <1>9, Zenon

-----------------------------------------------------------------------------
(***************************************************************************)
(* The table the upload loop runs through.                                 *)
(***************************************************************************)
Names == {"embed_tokens", "input_layernorm", "q_proj.weight", "q_proj.bias", "k_proj.weight",
          "k_proj.bias", "v_proj.weight", "v_proj.bias", "o_proj", "post_attention_layernorm",
          "gate_proj", "up_proj", "down_proj", "norm", "lm_head"}

EntryType == [name : Names, dest : Kinds, layer : Int, row : Nat, rows : Nat]

\* Where an entry starts within its fused tensor.
Start(e) == e.row * DestRowWidth(e.dest)

\* An entry by what it is about.
Is(e, name, dest, layer, start, size) ==
  /\ e \in EntryType /\ e.name = name /\ e.dest = dest /\ e.layer = layer
  /\ Start(e) = start /\ num_elements(e) = size

LEMMA Widths ==
  /\ \A k \in {"embed", "lm_head", "w_qkv", "w_o", "w_gateup"} : DestRowWidth(k) = Hidden
  /\ DestRowWidth("w_down") = Inter
  /\ \A k \in {"b_qkv", "input_norm", "post_attn_norm", "final_norm"} : DestRowWidth(k) = 1
  BY DEF DestRowWidth

LEMMA MakeMatrix ==
  ASSUME NEW name \in Names, NEW dest \in {"embed", "lm_head", "w_qkv", "w_o", "w_gateup"},
         NEW layer \in Int, NEW row \in Nat, NEW rows \in Nat
  PROVE  Is(Entry(name, dest, layer, row, rows), name, dest, layer, row * Hidden, rows * Hidden)
  BY Widths DEF Is, Entry, EntryType, Start, num_elements, Kinds

LEMMA MakeVector ==
  ASSUME NEW name \in Names, NEW dest \in {"b_qkv", "input_norm", "post_attn_norm", "final_norm"},
         NEW layer \in Int, NEW row \in Nat, NEW rows \in Nat
  PROVE  Is(Entry(name, dest, layer, row, rows), name, dest, layer, row, rows)
  BY Widths DEF Is, Entry, EntryType, Start, num_elements, Kinds

LEMMA LayerEntriesAre ==
  ASSUME NEW l \in Int, NEW s, s = LayerEntries(l)
  PROVE  /\ Is(s[1], "input_layernorm", "input_norm", l, 0, Hidden)
         /\ Is(s[2], "q_proj.weight", "w_qkv", l, 0, Hidden * Hidden)
         /\ Is(s[3], "q_proj.bias", "b_qkv", l, 0, Hidden)
         /\ Is(s[4], "k_proj.weight", "w_qkv", l, Hidden * Hidden, KvRows * Hidden)
         /\ Is(s[5], "k_proj.bias", "b_qkv", l, Hidden, KvRows)
         /\ Is(s[6], "v_proj.weight", "w_qkv", l, Hidden * Hidden + KvRows * Hidden, KvRows * Hidden)
         /\ Is(s[7], "v_proj.bias", "b_qkv", l, Hidden + KvRows, KvRows)
         /\ Is(s[8], "o_proj", "w_o", l, 0, Hidden * Hidden)
         /\ Is(s[9], "post_attention_layernorm", "post_attn_norm", l, 0, Hidden)
         /\ Is(s[10], "gate_proj", "w_gateup", l, 0, Inter * Hidden)
         /\ Is(s[11], "up_proj", "w_gateup", l, Inter * Hidden, Inter * Hidden)
         /\ Is(s[12], "down_proj", "w_down", l, 0, Hidden * Inter)
<1> USE Products
<1>a. /\ s[1] = Entry("input_layernorm", "input_norm", l, 0, Hidden)
      /\ s[2] = Entry("q_proj.weight", "w_qkv", l, 0, Hidden)
      /\ s[3] = Entry("q_proj.bias", "b_qkv", l, 0, Hidden)
      /\ s[4] = Entry("k_proj.weight", "w_qkv", l, Hidden, KvRows)
      /\ s[5] = Entry("k_proj.bias", "b_qkv", l, Hidden, KvRows)
      /\ s[6] = Entry("v_proj.weight", "w_qkv", l, Hidden + KvRows, KvRows)
      /\ s[7] = Entry("v_proj.bias", "b_qkv", l, Hidden + KvRows, KvRows)
      /\ s[8] = Entry("o_proj", "w_o", l, 0, Hidden)
      /\ s[9] = Entry("post_attention_layernorm", "post_attn_norm", l, 0, Hidden)
      /\ s[10] = Entry("gate_proj", "w_gateup", l, 0, Inter)
      /\ s[11] = Entry("up_proj", "w_gateup", l, Inter, Inter)
      /\ s[12] = Entry("down_proj", "w_down", l, 0, Hidden)
  BY DEF LayerEntries, kQRowBegin, kKRowBegin, kVRowBegin, kGateRowBegin, kUpRowBegin
<1>b. /\ 0 * Hidden = 0
      /\ (Hidden + KvRows) * Hidden = Hidden * Hidden + KvRows * Hidden
      /\ Hidden + KvRows \in Nat /\ 0 \in Nat /\ 1 \in Nat
  OBVIOUS
<1>1. Is(s[1], "input_layernorm", "input_norm", l, 0, Hidden)
  BY <1>a, <1>b, MakeVector DEF Names
<1>2. Is(s[2], "q_proj.weight", "w_qkv", l, 0, Hidden * Hidden)
  BY <1>a, <1>b, MakeMatrix DEF Names
<1>3. Is(s[3], "q_proj.bias", "b_qkv", l, 0, Hidden)
  BY <1>a, <1>b, MakeVector DEF Names
<1>4. Is(s[4], "k_proj.weight", "w_qkv", l, Hidden * Hidden, KvRows * Hidden)
  BY <1>a, <1>b, MakeMatrix DEF Names
<1>5. Is(s[5], "k_proj.bias", "b_qkv", l, Hidden, KvRows)
  BY <1>a, <1>b, MakeVector DEF Names
<1>6. Is(s[6], "v_proj.weight", "w_qkv", l, Hidden * Hidden + KvRows * Hidden, KvRows * Hidden)
  BY <1>a, <1>b, MakeMatrix DEF Names
<1>7. Is(s[7], "v_proj.bias", "b_qkv", l, Hidden + KvRows, KvRows)
  BY <1>a, <1>b, MakeVector DEF Names
<1>8. Is(s[8], "o_proj", "w_o", l, 0, Hidden * Hidden)
  BY <1>a, <1>b, MakeMatrix DEF Names
<1>9. Is(s[9], "post_attention_layernorm", "post_attn_norm", l, 0, Hidden)
  BY <1>a, <1>b, MakeVector DEF Names
<1>10. Is(s[10], "gate_proj", "w_gateup", l, 0, Inter * Hidden)
  BY <1>a, <1>b, MakeMatrix DEF Names
<1>11. Is(s[11], "up_proj", "w_gateup", l, Inter * Hidden, Inter * Hidden)
  BY <1>a, <1>b, MakeMatrix DEF Names
<1>12. Is(s[12], "down_proj", "w_down", l, 0, Hidden * Inter)
  BY <1>a, Widths DEF Names, Kinds, Is, Entry, EntryType, Start, num_elements
<1> QED BY <1>1, <1>2, <1>3, <1>4, <1>5, <1>6, <1>7, <1>8, <1>9, <1>10, <1>11, <1>12, Zenon

LEMMA LayerEntryTypes ==
  ASSUME NEW l \in Int
  PROVE  \A j \in 1 .. 12 : LayerEntries(l)[j] \in EntryType
<1>1. PICK s : s = LayerEntries(l)
  OBVIOUS
<1>2. /\ s[1] \in EntryType /\ s[2] \in EntryType /\ s[3] \in EntryType /\ s[4] \in EntryType
      /\ s[5] \in EntryType /\ s[6] \in EntryType /\ s[7] \in EntryType /\ s[8] \in EntryType
      /\ s[9] \in EntryType /\ s[10] \in EntryType /\ s[11] \in EntryType /\ s[12] \in EntryType
  BY <1>1, LayerEntriesAre, SMTT(30) DEF Is
<1>3. \A j \in 1 .. 12 : j = 1 \/ j = 2 \/ j = 3 \/ j = 4 \/ j = 5 \/ j = 6 \/ j = 7 \/ j = 8
                         \/ j = 9 \/ j = 10 \/ j = 11 \/ j = 12
  OBVIOUS
<1>4. \A j \in 1 .. 12 : s[j] \in EntryType
  BY <1>2, <1>3, Zenon
<1> QED BY <1>1, <1>4, Zenon

LEMMA MapTable ==
  ASSUME NEW b \in BOOLEAN
  PROVE  /\ BuildWeightMap(b) \in Seq(EntryType)
         /\ Len(BuildWeightMap(b)) = 12 * NumLayers + 2 + (IF b THEN 1 ELSE 0)
         /\ Is(BuildWeightMap(b)[1], "embed_tokens", "embed", NoLayer, 0, Vocab * Hidden)
         /\ \A i \in 1 .. 12 * NumLayers :
              BuildWeightMap(b)[i + 1] = LayerEntries((i - 1) \div 12 + 1)[((i - 1) % 12) + 1]
         /\ Is(BuildWeightMap(b)[12 * NumLayers + 2], "norm", "final_norm", NoLayer, 0, Hidden)
         /\ b => Is(BuildWeightMap(b)[12 * NumLayers + 3], "lm_head", "lm_head", NoLayer, 0, Vocab * Hidden)
<1>1. PICK L \in Nat : L = 12 * NumLayers /\ NumLayers \in Nat
  BY WeightsAssumption
<1>2. PICK e, n, h :
        /\ e = Entry("embed_tokens", "embed", NoLayer, 0, Vocab)
        /\ n = Entry("norm", "final_norm", NoLayer, 0, Hidden)
        /\ h = Entry("lm_head", "lm_head", NoLayer, 0, Vocab)
  OBVIOUS
<1>2a. /\ Is(e, "embed_tokens", "embed", NoLayer, 0, Vocab * Hidden)
       /\ Is(n, "norm", "final_norm", NoLayer, 0, Hidden)
       /\ Is(h, "lm_head", "lm_head", NoLayer, 0, Vocab * Hidden)
  <2>1. 0 * Hidden = 0 /\ NoLayer \in Int
    BY Products DEF NoLayer
  <2>2. Is(e, "embed_tokens", "embed", NoLayer, 0, Vocab * Hidden)
    BY <1>2, <2>1, Products, MakeMatrix DEF Names
  <2>3. Is(n, "norm", "final_norm", NoLayer, 0, Hidden)
    BY <1>2, <2>1, Products, MakeVector DEF Names
  <2>4. Is(h, "lm_head", "lm_head", NoLayer, 0, Vocab * Hidden)
    BY <1>2, <2>1, Products, MakeMatrix DEF Names
  <2> QED BY <2>2, <2>3, <2>4
<1>2b. e \in EntryType /\ n \in EntryType /\ h \in EntryType
  BY <1>2a, Zenon DEF Is
<1>3. PICK P : P = [i \in 1 .. L |-> LayerEntries((i - 1) \div 12 + 1)[((i - 1) % 12) + 1]]
  OBVIOUS
<1>4. P = PerLayer(12, LayerEntries)
  BY <1>1, <1>3 DEF PerLayer
<1>5. Sized(P, EntryType, L)
  <2>1. \A i \in 1 .. L : (i - 1) \div 12 + 1 \in Int /\ ((i - 1) % 12) + 1 \in 1 .. 12
    BY <1>1
  <2>2. \A i \in 1 .. L : LayerEntries((i - 1) \div 12 + 1)[((i - 1) % 12) + 1] \in EntryType
    BY <2>1, LayerEntryTypes
  <2> QED BY <1>3, <2>2 DEF Sized
<1>6. PICK R : R = BuildWeightMap(b)
  OBVIOUS
<1>7. Table(R, EntryType, e, P, n, h, b, L)
  <2>1. R = <<e>> \o P \o <<n>> \o (IF b THEN <<h>> ELSE <<>>)
    BY <1>2, <1>4, <1>6, Zenon DEF BuildWeightMap
  <2> QED BY <1>2b, <1>5, <2>1, Zenon DEF Table
<1>8. /\ R \in Seq(EntryType) /\ Len(R) = L + 2 + (IF b THEN 1 ELSE 0)
      /\ R[1] = e
      /\ \A i \in 1 .. L : R[i + 1] = P[i]
      /\ R[L + 2] = n
      /\ b => R[L + 3] = h
  BY <1>7, TableAt, Zenon
<1>9. \A i \in 1 .. L : R[i + 1] = LayerEntries((i - 1) \div 12 + 1)[((i - 1) % 12) + 1]
  <2> TAKE i \in 1 .. L
  <2>1. R[i + 1] = P[i]
    BY <1>8, Zenon
  <2>2. P[i] = LayerEntries((i - 1) \div 12 + 1)[((i - 1) % 12) + 1]
    BY <1>3
  <2> QED BY <2>1, <2>2, Zenon
<1> HIDE <1>3
<1> QED BY <1>1, <1>2a, <1>6, <1>8, <1>9, Zenon

-----------------------------------------------------------------------------
(***************************************************************************)
(* Where the regions lie: the recursion of ComputeWeightsLayout has a      *)
(* solution, and each region ends before the next one begins.              *)
(***************************************************************************)
LEMMA AlignUpGrows ==
  ASSUME NEW n \in Nat
  PROVE  AlignUp(n) \in Nat /\ n <= AlignUp(n)
<1>1. PICK a \in Nat : a = Align /\ a > 0
  BY WeightsAssumption
<1>2. PICK x \in Nat : x = n + a - 1
  BY <1>1
<1>3. PICK q \in Nat, r \in Nat : q = x \div a /\ r = x % a
  BY <1>1, <1>2
<1>4. x = a * q + r /\ r < a
  BY <1>1, <1>3
<1>5. PICK y \in Nat : y = q * a
  BY <1>1, <1>3
<1>6. x = y + r
  BY <1>4, <1>5
<1>7. n <= y
  BY <1>1, <1>2, <1>4, <1>6
<1>8. AlignUp(n) = y
  BY <1>1, <1>2, <1>3, <1>5 DEF AlignUp
<1> QED BY <1>7, <1>8

\* f is a placement of the first n - 1 regions, and the start of the next.
Places(f, n, R) ==
  /\ f \in [1 .. n -> Nat] /\ f[1] = 0
  /\ \A i \in 1 .. n - 1 : f[i + 1] = AlignUp(f[i] + R[i][3])

LEMMA PlacementExists ==
  ASSUME NEW R, NEW N \in Nat, \A i \in 1 .. N : R[i][3] \in Nat
  PROVE  \E f : Places(f, N + 1, R)
<1> DEFINE S == {n \in 1 .. N + 1 : \E f : Places(f, n, R)}
<1>1. 1 \in S
  <2>1. Places([i \in 1 .. 1 |-> 0], 1, R)
    BY DEF Places
  <2> QED BY <2>1
<1>2. \A n \in 1 .. (N + 1) - 1 : n \in S => n + 1 \in S
  <2> SUFFICES ASSUME NEW n \in 1 .. N, n \in S PROVE n + 1 \in S
    OBVIOUS
  <2>1. PICK f : Places(f, n, R)
    OBVIOUS
  <2>2. PICK v \in Nat : v = AlignUp(f[n] + R[n][3])
    <3>1. f[n] \in Nat /\ R[n][3] \in Nat
      BY <2>1 DEF Places
    <3> QED BY <3>1, AlignUpGrows
  <2>3. PICK g : g = [i \in 1 .. n + 1 |-> IF i <= n THEN f[i] ELSE v]
    OBVIOUS
  <2>4. Places(g, n + 1, R)
    <3>1. g \in [1 .. n + 1 -> Nat]
      BY <2>1, <2>3 DEF Places
    <3>2. g[1] = 0
      BY <2>1, <2>3 DEF Places
    <3>3. ASSUME NEW i \in 1 .. n PROVE g[i + 1] = AlignUp(g[i] + R[i][3])
      <4>1. CASE i = n
        BY <2>2, <2>3, <4>1
      <4>2. CASE i # n
        <5>1. i \in 1 .. n - 1 /\ g[i + 1] = f[i + 1] /\ g[i] = f[i]
          BY <2>3, <4>2
        <5> QED BY <5>1, <2>1 DEF Places
      <4> QED BY <4>1, <4>2
    <3>4. (n + 1) - 1 = n
      OBVIOUS
    <3> QED BY <3>1, <3>2, <3>3, <3>4 DEF Places
  <2> QED BY <2>4
<1> HIDE DEF S
<1>3. PICK M \in Nat : M = N + 1
  OBVIOUS
<1>4. 1 .. M \subseteq S
  BY <1>1, <1>2, <1>3, UpTo
<1>5. N + 1 \in S
  BY <1>3, <1>4
<1> QED BY <1>5 DEF S

LEMMA LayoutPlaces ==
  ASSUME NEW b \in BOOLEAN
  PROVE  Places(ComputeWeightsLayout(b), Len(Regions(b)) + 1, Regions(b))
<1>0. PICK R : R = Regions(b)
  OBVIOUS
<1>1. PICK N \in Nat : N = Len(R) /\ \A i \in 1 .. N : R[i][3] \in Nat
  <2>2. R \in Seq(Triple)
    BY <1>0, RegionTable, Zenon
  <2>3. \A t \in Triple : t[3] \in Nat
    BY DEF Triple
  <2>4. Len(R) \in Nat /\ \A i \in 1 .. Len(R) : R[i] \in Triple
    BY <2>2
  <2> QED BY <2>3, <2>4
<1>2. PICK f : Places(f, N + 1, R)
  BY <1>1, PlacementExists
<1> DEFINE Body(p) == [i \in 1 .. N + 1 |-> IF i = 1 THEN 0 ELSE AlignUp(p[i - 1] + R[i - 1][3])]
<1>3. f = Body(f)
  <2>1. \A i \in 1 .. N + 1 : f[i] = IF i = 1 THEN 0 ELSE AlignUp(f[i - 1] + R[i - 1][3])
    <3> TAKE i \in 1 .. N + 1
    <3>1. CASE i = 1
      BY <1>2, <3>1 DEF Places
    <3>2. CASE i # 1
      <4>1. i - 1 \in 1 .. (N + 1) - 1 /\ (i - 1) + 1 = i
        BY <3>2
      <4>2. f[(i - 1) + 1] = AlignUp(f[i - 1] + R[i - 1][3])
        BY <1>2, <4>1 DEF Places
      <4> QED BY <3>2, <4>1, <4>2
    <3> QED BY <3>1, <3>2
  <2>2. f = [i \in 1 .. N + 1 |-> f[i]]
    BY <1>2 DEF Places
  <2> QED BY <2>1, <2>2
<1>4. PICK g : g = ComputeWeightsLayout(b) /\ g = CHOOSE p : p = Body(p)
  BY <1>0, <1>1, Zenon DEF ComputeWeightsLayout
<1>5. g = Body(g)
  <2> HIDE DEF Body
  <2> QED BY <1>3, <1>4
<1>6. /\ g[1] = 0 /\ g = [i \in 1 .. N + 1 |-> g[i]]
      /\ \A i \in 1 .. N : g[i + 1] = AlignUp(g[i] + R[i][3])
  <2> HIDE <1>4
  <2>1. \A i \in 1 .. N + 1 : g[i] = IF i = 1 THEN 0 ELSE AlignUp(g[i - 1] + R[i - 1][3])
    BY <1>5
  <2>2. \A i \in 1 .. N : i + 1 \in 1 .. N + 1 /\ i + 1 # 1 /\ (i + 1) - 1 = i
    OBVIOUS
  <2>3. \A i \in 1 .. N : g[i + 1] = AlignUp(g[i] + R[i][3])
    <3> HIDE <1>5
    <3> QED BY <2>1, <2>2
  <2>4. g[1] = 0
    BY <2>1
  <2>5. g = [i \in 1 .. N + 1 |-> g[i]]
    BY <1>5
  <2> QED BY <2>3, <2>4, <2>5
<1> HIDE <1>4, <1>5 DEF Body
<1> DEFINE S == {i \in 1 .. N + 1 : g[i] \in Nat}
<1>7. 1 \in S
  BY <1>6
<1>8. \A i \in 1 .. (N + 1) - 1 : i \in S => i + 1 \in S
  <2>1. ASSUME NEW i \in 1 .. N, g[i] \in Nat PROVE g[i + 1] \in Nat
    <3>1. g[i] + R[i][3] \in Nat
      BY <1>1, <2>1
    <3> QED BY <1>6, <3>1, AlignUpGrows
  <2> QED BY <2>1
<1>9. PICK M \in Nat : M = N + 1
  OBVIOUS
<1>10. \A i \in 1 .. N + 1 : g[i] \in Nat
  <2>1. 1 .. M \subseteq S
    <3> HIDE DEF S
    <3> QED BY <1>7, <1>8, <1>9, UpTo
  <2> QED BY <1>9, <2>1
<1>11. (N + 1) - 1 = N
  OBVIOUS
<1>12. g \in [1 .. N + 1 -> Nat]
  BY <1>6, <1>10
<1>13. Places(g, N + 1, R)
  BY <1>6, <1>11, <1>12, Zenon DEF Places
<1> QED BY <1>0, <1>1, <1>4, <1>13, Zenon

LEMMA RegionsApart ==
  ASSUME NEW R, NEW N \in Nat, NEW f, Places(f, N + 1, R), \A i \in 1 .. N : R[i][3] \in Nat,
         NEW i \in 1 .. N, NEW j \in 1 .. N + 1, i < j
  PROVE  f[i] + R[i][3] <= f[j]
<1>1. /\ \A k \in 1 .. N + 1 : f[k] \in Nat
      /\ \A k \in 1 .. N : f[k + 1] = AlignUp(f[k] + R[k][3])
  <2>1. (N + 1) - 1 = N
    OBVIOUS
  <2> QED BY <2>1 DEF Places
<1>2. PICK e \in Nat : e = f[i] + R[i][3]
  <2>1. f[i] \in Nat /\ R[i][3] \in Nat
    BY <1>1
  <2> QED BY <2>1
<1>3. ASSUME NEW k \in 1 .. N PROVE f[k] + R[k][3] <= f[k + 1] /\ f[k] <= f[k + 1]
  <2>1. PICK x \in Nat, y \in Nat : x = f[k] /\ y = R[k][3]
    BY <1>1
  <2>2. PICK z \in Nat : z = x + y
    OBVIOUS
  <2>3. AlignUp(z) \in Nat /\ z <= AlignUp(z)
    BY AlignUpGrows
  <2>4. f[k + 1] = AlignUp(z)
    BY <1>1, <2>1, <2>2
  <2> QED BY <2>1, <2>2, <2>3, <2>4
<1>4. PICK m \in Nat, n \in Nat : m = i + 1 /\ n = N + 1
  OBVIOUS
<1> DEFINE S == {k \in m .. n : e <= f[k]}
<1>5. m \in S
  BY <1>2, <1>3, <1>4
<1>6. \A k \in m .. n - 1 : k \in S => k + 1 \in S
  <2> SUFFICES ASSUME NEW k \in m .. n - 1, e <= f[k] PROVE k + 1 \in m .. n /\ e <= f[k + 1]
    OBVIOUS
  <2>1. k \in 1 .. N /\ k \in 1 .. N + 1 /\ k + 1 \in 1 .. N + 1 /\ k + 1 \in m .. n
    BY <1>4
  <2>2. f[k] \in Nat /\ f[k + 1] \in Nat /\ f[k] <= f[k + 1]
    BY <1>1, <1>3, <2>1
  <2> QED BY <2>1, <2>2
<1>7. m .. n \subseteq S
  <2> HIDE DEF S
  <2> QED BY <1>5, <1>6, UpTo
<1>8. j \in m .. n
  BY <1>4
<1> QED BY <1>2, <1>7, <1>8

RegionRows(R, N, b) ==
  /\ NumLayers \in Nat /\ N \in Nat /\ R \in Seq(Triple)
  /\ 1 \in 1 .. N /\ R[1] = <<"embed", NoLayer, Vocab * Hidden>>
  /\ \A l \in 1 .. NumLayers, j \in 1 .. 7 :
       7 * (l - 1) + j + 1 \in 1 .. N /\ R[7 * (l - 1) + j + 1] = LayerRegions(l)[j]
  /\ 7 * NumLayers + 2 \in 1 .. N /\ R[7 * NumLayers + 2] = <<"final_norm", NoLayer, Hidden>>
  /\ b => /\ 7 * NumLayers + 3 \in 1 .. N
          /\ R[7 * NumLayers + 3] = <<"lm_head", NoLayer, Vocab * Hidden>>
  /\ \A i \in 1 .. N : \/ i = 1 \/ i = 7 * NumLayers + 2 \/ (b /\ i = 7 * NumLayers + 3)
                       \/ \E l \in 1 .. NumLayers, j \in 1 .. 7 : i = 7 * (l - 1) + j + 1

LEMMA RegionPositions ==
  ASSUME NEW b \in BOOLEAN, NEW R, R = Regions(b), NEW N, N = Len(R)
  PROVE  RegionRows(R, N, b)
<1>1. /\ R \in Seq(Triple)
      /\ N = 7 * NumLayers + 2 + (IF b THEN 1 ELSE 0)
      /\ R[1] = <<"embed", NoLayer, Vocab * Hidden>>
      /\ \A i \in 1 .. 7 * NumLayers : R[i + 1] = LayerRegions((i - 1) \div 7 + 1)[((i - 1) % 7) + 1]
      /\ R[7 * NumLayers + 2] = <<"final_norm", NoLayer, Hidden>>
      /\ b => R[7 * NumLayers + 3] = <<"lm_head", NoLayer, Vocab * Hidden>>
  BY RegionTable, Zenon
<1>2. NumLayers \in Nat
  BY WeightsAssumption
<1>3. PICK n \in Nat : n = NumLayers
  BY <1>2
<1>4. N = 7 * n + 2 + (IF b THEN 1 ELSE 0)
  BY <1>1, <1>3, Zenon
<1>5. /\ N \in Nat /\ 1 \in 1 .. N /\ 7 * n + 2 \in 1 .. N /\ (b => 7 * n + 3 \in 1 .. N)
      /\ \A i \in 1 .. 7 * n : i + 1 \in 1 .. N
      /\ \A i \in 1 .. N : i = 1 \/ i = 7 * n + 2 \/ (b /\ i = 7 * n + 3) \/ (i - 1 \in 1 .. 7 * n /\ i = (i - 1) + 1)
  BY <1>4
<1>6. ASSUME NEW l \in 1 .. n, NEW j \in 1 .. 7
      PROVE  7 * (l - 1) + j + 1 \in 1 .. N /\ R[7 * (l - 1) + j + 1] = LayerRegions(l)[j]
  <2>1. PICK i \in Int : i = 7 * (l - 1) + j
    OBVIOUS
  <2>2. i \in 1 .. 7 * n /\ (i - 1) \div 7 + 1 = l /\ ((i - 1) % 7) + 1 = j
    BY <2>1, Digits7
  <2>3. R[i + 1] = LayerRegions((i - 1) \div 7 + 1)[((i - 1) % 7) + 1]
    BY <1>1, <1>3, <2>2, Zenon
  <2>4. i + 1 \in 1 .. N
    BY <1>5, <2>2
  <2>5. R[i + 1] = LayerRegions(l)[j]
    BY <2>2, <2>3, Zenon
  <2> QED BY <2>1, <2>4, <2>5, Zenon
<1>7. ASSUME NEW i \in 1 .. 7 * n
      PROVE  \E l \in 1 .. n, j \in 1 .. 7 : i + 1 = 7 * (l - 1) + j + 1
  <2>1. /\ (i - 1) \div 7 + 1 \in 1 .. n /\ ((i - 1) % 7) + 1 \in 1 .. 7
        /\ i = 7 * ((i - 1) \div 7) + ((i - 1) % 7) + 1
    BY Digits7
  <2>2. PICK l \in 1 .. n : l = (i - 1) \div 7 + 1
    BY <2>1
  <2>3. PICK j \in 1 .. 7 : j = ((i - 1) % 7) + 1
    BY <2>1
  <2>4. i + 1 = 7 * (l - 1) + j + 1
    BY <2>1, <2>2, <2>3
  <2> QED BY <2>4
<1>8. \A i \in 1 .. N : \/ i = 1 \/ i = 7 * n + 2 \/ (b /\ i = 7 * n + 3)
                        \/ \E l \in 1 .. n, j \in 1 .. 7 : i = 7 * (l - 1) + j + 1
  <2> TAKE i \in 1 .. N
  <2>1. CASE i - 1 \in 1 .. 7 * n /\ i = (i - 1) + 1
    BY <1>7, <2>1
  <2> QED BY <1>5, <2>1
<1> QED BY <1>1, <1>3, <1>5, <1>6, <1>8, Zenon DEF RegionRows

MapRows(W, N, b) ==
  /\ NumLayers \in Nat /\ N \in Nat /\ W \in Seq(EntryType)
  /\ 1 \in 1 .. N /\ Is(W[1], "embed_tokens", "embed", NoLayer, 0, Vocab * Hidden)
  /\ \A l \in 1 .. NumLayers, j \in 1 .. 12 :
       12 * (l - 1) + j + 1 \in 1 .. N /\ W[12 * (l - 1) + j + 1] = LayerEntries(l)[j]
  /\ 12 * NumLayers + 2 \in 1 .. N
  /\ Is(W[12 * NumLayers + 2], "norm", "final_norm", NoLayer, 0, Hidden)
  /\ b => /\ 12 * NumLayers + 3 \in 1 .. N
          /\ Is(W[12 * NumLayers + 3], "lm_head", "lm_head", NoLayer, 0, Vocab * Hidden)
  /\ \A i \in 1 .. N : \/ i = 1 \/ i = 12 * NumLayers + 2 \/ (b /\ i = 12 * NumLayers + 3)
                       \/ \E l \in 1 .. NumLayers, j \in 1 .. 12 : i = 12 * (l - 1) + j + 1

LEMMA MapPositions ==
  ASSUME NEW b \in BOOLEAN, NEW W, W = BuildWeightMap(b), NEW N, N = Len(W)
  PROVE  MapRows(W, N, b)
<1>1. /\ W \in Seq(EntryType)
      /\ N = 12 * NumLayers + 2 + (IF b THEN 1 ELSE 0)
      /\ Is(W[1], "embed_tokens", "embed", NoLayer, 0, Vocab * Hidden)
      /\ \A i \in 1 .. 12 * NumLayers : W[i + 1] = LayerEntries((i - 1) \div 12 + 1)[((i - 1) % 12) + 1]
      /\ Is(W[12 * NumLayers + 2], "norm", "final_norm", NoLayer, 0, Hidden)
      /\ b => Is(W[12 * NumLayers + 3], "lm_head", "lm_head", NoLayer, 0, Vocab * Hidden)
  BY MapTable, Zenon
<1>2. NumLayers \in Nat
  BY WeightsAssumption
<1>3. PICK n \in Nat : n = NumLayers
  BY <1>2
<1>4. N = 12 * n + 2 + (IF b THEN 1 ELSE 0)
  BY <1>1, <1>3, Zenon
<1>5. /\ N \in Nat /\ 1 \in 1 .. N /\ 12 * n + 2 \in 1 .. N /\ (b => 12 * n + 3 \in 1 .. N)
      /\ \A i \in 1 .. 12 * n : i + 1 \in 1 .. N
      /\ \A i \in 1 .. N : i = 1 \/ i = 12 * n + 2 \/ (b /\ i = 12 * n + 3) \/ (i - 1 \in 1 .. 12 * n /\ i = (i - 1) + 1)
  BY <1>4
<1>6. ASSUME NEW l \in 1 .. n, NEW j \in 1 .. 12
      PROVE  12 * (l - 1) + j + 1 \in 1 .. N /\ W[12 * (l - 1) + j + 1] = LayerEntries(l)[j]
  <2>1. PICK i \in Int : i = 12 * (l - 1) + j
    OBVIOUS
  <2>2. i \in 1 .. 12 * n /\ (i - 1) \div 12 + 1 = l /\ ((i - 1) % 12) + 1 = j
    BY <2>1, Digits12
  <2>3. W[i + 1] = LayerEntries((i - 1) \div 12 + 1)[((i - 1) % 12) + 1]
    BY <1>1, <1>3, <2>2, Zenon
  <2>4. i + 1 \in 1 .. N
    BY <1>5, <2>2
  <2>5. W[i + 1] = LayerEntries(l)[j]
    BY <2>2, <2>3, Zenon
  <2> QED BY <2>1, <2>4, <2>5, Zenon
<1>7. ASSUME NEW i \in 1 .. 12 * n
      PROVE  \E l \in 1 .. n, j \in 1 .. 12 : i + 1 = 12 * (l - 1) + j + 1
  <2>1. /\ (i - 1) \div 12 + 1 \in 1 .. n /\ ((i - 1) % 12) + 1 \in 1 .. 12
        /\ i = 12 * ((i - 1) \div 12) + ((i - 1) % 12) + 1
    BY Digits12
  <2>2. PICK l \in 1 .. n : l = (i - 1) \div 12 + 1
    BY <2>1
  <2>3. PICK j \in 1 .. 12 : j = ((i - 1) % 12) + 1
    BY <2>1
  <2>4. i + 1 = 12 * (l - 1) + j + 1
    BY <2>1, <2>2, <2>3
  <2> QED BY <2>4
<1>8. \A i \in 1 .. N : \/ i = 1 \/ i = 12 * n + 2 \/ (b /\ i = 12 * n + 3)
                        \/ \E l \in 1 .. n, j \in 1 .. 12 : i = 12 * (l - 1) + j + 1
  <2> TAKE i \in 1 .. N
  <2>1. CASE i - 1 \in 1 .. 12 * n /\ i = (i - 1) + 1
    BY <1>7, <2>1
  <2> QED BY <1>5, <2>1
<1> QED BY <1>1, <1>3, <1>5, <1>6, <1>8, Zenon DEF MapRows

LEMMA LayerRegionsAre ==
  ASSUME NEW l \in Int, NEW s, s = LayerRegions(l)
  PROVE  /\ s[1] = <<"w_qkv", l, Hidden * Hidden + 2 * (KvRows * Hidden)>>
         /\ s[2] = <<"b_qkv", l, Hidden + 2 * KvRows>>
         /\ s[3] = <<"w_o", l, Hidden * Hidden>> /\ s[4] = <<"w_gateup", l, 2 * (Inter * Hidden)>>
         /\ s[5] = <<"w_down", l, Hidden * Inter>> /\ s[6] = <<"input_norm", l, Hidden>>
         /\ s[7] = <<"post_attn_norm", l, Hidden>>
<1>1. /\ s[1] = <<"w_qkv", l, kQkvRows * Hidden>> /\ s[2] = <<"b_qkv", l, kQkvRows>>
      /\ s[3] = <<"w_o", l, Hidden * Hidden>> /\ s[4] = <<"w_gateup", l, kGateUpRows * Hidden>>
      /\ s[5] = <<"w_down", l, Hidden * Inter>> /\ s[6] = <<"input_norm", l, Hidden>>
      /\ s[7] = <<"post_attn_norm", l, Hidden>>
  BY DEF LayerRegions
<1>2. kQkvRows = Hidden + 2 * KvRows
  BY DEF kQkvRows
<1> QED BY <1>1, <1>2, Products, Zenon

LayerKind == <<"w_qkv", "b_qkv", "w_o", "w_gateup", "w_down", "input_norm", "post_attn_norm">>

LEMMA LayerKinds ==
  ASSUME NEW l \in Int, NEW j \in 1 .. 7
  PROVE  /\ LayerRegions(l)[j][1] = LayerKind[j] /\ LayerRegions(l)[j][2] = l
         /\ LayerKind[j] \notin {"embed", "final_norm", "lm_head"}
<1>1. PICK s : s = LayerRegions(l)
  OBVIOUS
<1>2. /\ s[1][1] = "w_qkv" /\ s[2][1] = "b_qkv" /\ s[3][1] = "w_o" /\ s[4][1] = "w_gateup"
      /\ s[5][1] = "w_down" /\ s[6][1] = "input_norm" /\ s[7][1] = "post_attn_norm"
  <2>1. \A k, x : <<k, l, x>>[1] = k
    OBVIOUS
  <2>2. /\ s[1] = <<"w_qkv", l, Hidden * Hidden + 2 * (KvRows * Hidden)>>
        /\ s[2] = <<"b_qkv", l, Hidden + 2 * KvRows>>
        /\ s[3] = <<"w_o", l, Hidden * Hidden>> /\ s[4] = <<"w_gateup", l, 2 * (Inter * Hidden)>>
        /\ s[5] = <<"w_down", l, Hidden * Inter>> /\ s[6] = <<"input_norm", l, Hidden>>
        /\ s[7] = <<"post_attn_norm", l, Hidden>>
    BY <1>1, LayerRegionsAre, Zenon
  <2> QED BY <2>1, <2>2, Zenon
<1>3. s[j][2] = l
  BY <1>1, LayerRegionTypes
<1>4. j = 1 \/ j = 2 \/ j = 3 \/ j = 4 \/ j = 5 \/ j = 6 \/ j = 7
  OBVIOUS
<1>5. s[j][1] = LayerKind[j]
  <2> HIDE <1>1
  <2> QED BY <1>2, <1>4 DEF LayerKind
<1>6. LayerKind[j] \notin {"embed", "final_norm", "lm_head"}
  BY <1>4 DEF LayerKind
<1> QED BY <1>1, <1>3, <1>5, <1>6

\* A region is named by its kind and its layer.
LEMMA RegionsNamed ==
  ASSUME NEW b \in BOOLEAN, NEW R, R = Regions(b), NEW N, N = Len(R),
         NEW i \in 1 .. N, NEW k \in 1 .. N, R[i][1] = R[k][1], R[i][2] = R[k][2]
  PROVE  i = k
<1>0. RegionRows(R, N, b)
  BY RegionPositions
<1> DEFINE NL == NumLayers
           C1(x) == x = 1 /\ R[x][1] = "embed"
           C2(x) == x = 7 * NL + 2 /\ R[x][1] = "final_norm"
           C3(x) == x = 7 * NL + 3 /\ R[x][1] = "lm_head"
           C4(x) == \E l \in 1 .. NL, j \in 1 .. 7 :
                      x = 7 * (l - 1) + j + 1 /\ R[x][1] = LayerKind[j] /\ R[x][2] = l
                      /\ LayerKind[j] \notin {"embed", "final_norm", "lm_head"}
<1>1. \A x \in 1 .. N : C1(x) \/ C2(x) \/ C3(x) \/ C4(x)
  <2> TAKE x \in 1 .. N
  <2>0. \A y, z, w : <<y, z, w>>[1] = y
    OBVIOUS
  <2>p1. R[1] = <<"embed", NoLayer, Vocab * Hidden>>
    BY <1>0, Zenon DEF RegionRows
  <2>p2. R[7 * NL + 2] = <<"final_norm", NoLayer, Hidden>>
    BY <1>0, Zenon DEF RegionRows
  <2>p3. b => R[7 * NL + 3] = <<"lm_head", NoLayer, Vocab * Hidden>>
    BY <1>0, Zenon DEF RegionRows
  <2>p4. \A l \in 1 .. NL, j \in 1 .. 7 :
           7 * (l - 1) + j + 1 \in 1 .. N /\ R[7 * (l - 1) + j + 1] = LayerRegions(l)[j]
    BY <1>0, Zenon DEF RegionRows
  <2>p6. \A y \in 1 .. N : \/ y = 1 \/ y = 7 * NL + 2 \/ (b /\ y = 7 * NL + 3)
                           \/ \E l \in 1 .. NL, j \in 1 .. 7 : y = 7 * (l - 1) + j + 1
    BY <1>0, Zenon DEF RegionRows
  <2>p5. \/ x = 1 \/ x = 7 * NL + 2 \/ (b /\ x = 7 * NL + 3)
         \/ \E l \in 1 .. NL, j \in 1 .. 7 : x = 7 * (l - 1) + j + 1
    <3> HIDE DEF NL
    <3> QED BY <2>p6, Zenon
  <2> HIDE DEF NL
  <2>1. CASE x = 1
    <3>1. R[x][1] = "embed"
      BY <2>0, <2>1, <2>p1
    <3>2. C1(x)
      BY <2>1, <3>1
    <3> QED BY <3>2
  <2>2. CASE x = 7 * NL + 2
    <3>1. R[x][1] = "final_norm"
      BY <2>0, <2>2, <2>p2
    <3>2. C2(x)
      BY <2>2, <3>1
    <3> QED BY <3>2
  <2>3. CASE b /\ x = 7 * NL + 3
    <3>0. R[x] = <<"lm_head", NoLayer, Vocab * Hidden>>
      BY <2>3, <2>p3, Zenon
    <3>1. R[x][1] = "lm_head"
      BY <3>0
    <3>2. C3(x)
      BY <2>3, <3>1
    <3> QED BY <3>2
  <2>4. CASE \E l \in 1 .. NL, j \in 1 .. 7 : x = 7 * (l - 1) + j + 1
    <3>1. PICK l \in 1 .. NL, j \in 1 .. 7 : x = 7 * (l - 1) + j + 1
      BY <2>4
    <3>2. R[x] = LayerRegions(l)[j]
      BY <3>1, <2>p4, Zenon
    <3>3. l \in Int
      OBVIOUS
    <3>4. /\ LayerRegions(l)[j][1] = LayerKind[j] /\ LayerRegions(l)[j][2] = l
          /\ LayerKind[j] \notin {"embed", "final_norm", "lm_head"}
      BY <3>3, LayerKinds
    <3>5. C4(x)
      BY <3>1, <3>2, <3>4, Zenon
    <3> QED BY <3>5
  <2> QED BY <2>1, <2>2, <2>3, <2>4, <2>p5, Zenon
<1>p. /\ \A j \in 1 .. 7 : LayerKind[j] \notin {"embed", "final_norm", "lm_head"}
      /\ NL \in Nat
  BY LayerKinds, WeightsAssumption
<1> HIDE DEF NL
<1>2. C1(i) \/ C2(i) \/ C3(i) \/ C4(i)
  BY <1>1
<1>3. C1(k) \/ C2(k) \/ C3(k) \/ C4(k)
  BY <1>1
<1>4. CASE C4(i) /\ C4(k)
  <2>1. PICK l \in 1 .. NL, j \in 1 .. 7 : i = 7 * (l - 1) + j + 1 /\ R[i][1] = LayerKind[j] /\ R[i][2] = l
    BY <1>4
  <2>2. PICK m \in 1 .. NL, o \in 1 .. 7 : k = 7 * (m - 1) + o + 1 /\ R[k][1] = LayerKind[o] /\ R[k][2] = m
    BY <1>4
  <2>3. l = m /\ LayerKind[j] = LayerKind[o]
    BY <2>1, <2>2, Zenon
  <2>4. \A x, y \in 1 .. 7 : LayerKind[x] = LayerKind[y] => x = y
    BY DEF LayerKind
  <2>5. j = o
    BY <2>3, <2>4
  <2> QED BY <2>1, <2>2, <2>3, <2>5, Zenon
<1>5. CASE C4(i) /\ ~C4(k)
  BY <1>3, <1>5
<1>6. CASE ~C4(i) /\ C4(k)
  BY <1>2, <1>6
<1>7. CASE ~C4(i) /\ ~C4(k)
  <2>1. (C1(i) \/ C2(i) \/ C3(i)) /\ (C1(k) \/ C2(k) \/ C3(k))
    <3> HIDE DEF C1, C2, C3, C4
    <3> QED BY <1>2, <1>3, <1>7
  <2>2. CASE C1(i) /\ C1(k)
    BY <2>2
  <2>3. CASE C2(i) /\ C2(k)
    BY <2>3
  <2>4. CASE C3(i) /\ C3(k)
    BY <2>4
  <2>5. (C1(i) /\ C1(k)) \/ (C2(i) /\ C2(k)) \/ (C3(i) /\ C3(k))
    BY <2>1, Zenon
  <2> QED BY <2>2, <2>3, <2>4, <2>5, Zenon
<1> QED BY <1>4, <1>5, <1>6, <1>7

\* OffsetFor finds the region of its name.
Denotes(kind, layer, r, b) ==
  (IF kind = "lm_head" /\ ~b THEN "embed" ELSE kind) = r[1] /\ layer = r[2]

LEMMA OffsetIs ==
  ASSUME NEW b \in BOOLEAN, NEW R, R = Regions(b), NEW N, N = Len(R),
         NEW f, f = ComputeWeightsLayout(b), NEW i \in 1 .. N, NEW kind, NEW layer,
         Denotes(kind, layer, R[i], b)
  PROVE  OffsetFor(kind, layer, b) = f[i]
<1>1. PICK wanted : wanted = IF kind = "lm_head" /\ ~b THEN "embed" ELSE kind
  OBVIOUS
<1>2. DOMAIN R = 1 .. N
  <2>1. RegionRows(R, N, b)
    BY RegionPositions
  <2>2. R \in Seq(Triple)
    BY <2>1, Zenon DEF RegionRows
  <2> QED BY <2>2
<1>3. PICK x : x = CHOOSE y \in DOMAIN R : R[y][1] = wanted /\ R[y][2] = layer
  OBVIOUS
<1>4. x \in 1 .. N /\ R[x][1] = wanted /\ R[x][2] = layer
  BY <1>1, <1>2, <1>3 DEF Denotes
<1>5. x = i
  BY <1>1, <1>4, RegionsNamed DEF Denotes
<1>6. OffsetFor(kind, layer, b) = f[x]
  BY <1>1, <1>3, Zenon DEF OffsetFor
<1> QED BY <1>5, <1>6

\* The fused tensor, within its layer, that each of the layer's tensors goes to.
RegionOfEntry == <<6, 1, 2, 1, 2, 1, 2, 3, 7, 4, 4, 5>>

\* e lies within the region r.
Within(e, r) ==
  /\ r[1] = e.dest /\ r[2] = e.layer
  /\ Start(e) \in Nat /\ num_elements(e) \in Nat /\ num_elements(e) > 0
  /\ r[3] \in Nat /\ Start(e) + num_elements(e) <= r[3]

Apart(e, g) ==
  e.dest = g.dest /\ e.layer = g.layer =>
    Start(e) + num_elements(e) <= Start(g) \/ Start(g) + num_elements(g) <= Start(e)

LEMMA FitsWithin ==
  ASSUME NEW e, NEW name, NEW dest, NEW layer, NEW start \in Nat, NEW size \in Nat, NEW total \in Nat,
         Is(e, name, dest, layer, start, size), size > 0, start + size <= total
  PROVE  Within(e, <<dest, layer, total>>)
<1>1. e.dest = dest /\ e.layer = layer /\ Start(e) = start /\ num_elements(e) = size
  BY Zenon DEF Is
<1>2. PICK r : r = <<dest, layer, total>>
  OBVIOUS
<1>3. r[1] = dest /\ r[2] = layer /\ r[3] = total
  BY <1>2
<1>4. Within(e, r)
  BY <1>1, <1>3 DEF Within
<1> QED BY <1>2, <1>4

LEMMA LayerEntryFits ==
  ASSUME NEW l \in Int, NEW j \in 1 .. 12
  PROVE  RegionOfEntry[j] \in 1 .. 7 /\ Within(LayerEntries(l)[j], LayerRegions(l)[RegionOfEntry[j]])
<1>1. PICK s, r : s = LayerEntries(l) /\ r = LayerRegions(l)
  OBVIOUS
<1>2. PICK h \in Nat, k \in Nat, hh \in Nat, kh \in Nat, ih \in Nat, hi \in Nat :
        /\ h = Hidden /\ k = KvRows /\ hh = Hidden * Hidden /\ kh = KvRows * Hidden
        /\ ih = Inter * Hidden /\ hi = Hidden * Inter
        /\ h > 0 /\ k > 0 /\ hh > 0 /\ kh > 0 /\ ih > 0 /\ hi > 0
  BY Products
<1>3. /\ Is(s[1], "input_layernorm", "input_norm", l, 0, h)
      /\ Is(s[2], "q_proj.weight", "w_qkv", l, 0, hh)
      /\ Is(s[3], "q_proj.bias", "b_qkv", l, 0, h)
      /\ Is(s[4], "k_proj.weight", "w_qkv", l, hh, kh)
      /\ Is(s[5], "k_proj.bias", "b_qkv", l, h, k)
      /\ Is(s[6], "v_proj.weight", "w_qkv", l, hh + kh, kh)
      /\ Is(s[7], "v_proj.bias", "b_qkv", l, h + k, k)
      /\ Is(s[8], "o_proj", "w_o", l, 0, hh)
      /\ Is(s[9], "post_attention_layernorm", "post_attn_norm", l, 0, h)
      /\ Is(s[10], "gate_proj", "w_gateup", l, 0, ih)
      /\ Is(s[11], "up_proj", "w_gateup", l, ih, ih)
      /\ Is(s[12], "down_proj", "w_down", l, 0, hi)
  BY <1>1, <1>2, LayerEntriesAre, Zenon
<1>4. /\ r[1] = <<"w_qkv", l, hh + 2 * kh>> /\ r[2] = <<"b_qkv", l, h + 2 * k>>
      /\ r[3] = <<"w_o", l, hh>> /\ r[4] = <<"w_gateup", l, 2 * ih>> /\ r[5] = <<"w_down", l, hi>>
      /\ r[6] = <<"input_norm", l, h>> /\ r[7] = <<"post_attn_norm", l, h>>
  BY <1>1, <1>2, LayerRegionsAre, Zenon
<1> HIDE <1>1
<1>5. Within(s[1], r[6])
  BY <1>2, <1>3, <1>4, FitsWithin
<1>6. Within(s[2], r[1])
  BY <1>2, <1>3, <1>4, FitsWithin
<1>7. Within(s[3], r[2])
  BY <1>2, <1>3, <1>4, FitsWithin
<1>8. Within(s[4], r[1])
  BY <1>2, <1>3, <1>4, FitsWithin
<1>9. Within(s[5], r[2])
  BY <1>2, <1>3, <1>4, FitsWithin
<1>10. Within(s[6], r[1])
  BY <1>2, <1>3, <1>4, FitsWithin
<1>11. Within(s[7], r[2])
  BY <1>2, <1>3, <1>4, FitsWithin
<1>12. Within(s[8], r[3])
  BY <1>2, <1>3, <1>4, FitsWithin
<1>13. Within(s[9], r[7])
  BY <1>2, <1>3, <1>4, FitsWithin
<1>14. Within(s[10], r[4])
  BY <1>2, <1>3, <1>4, FitsWithin
<1>15. Within(s[11], r[4])
  BY <1>2, <1>3, <1>4, FitsWithin
<1>16. Within(s[12], r[5])
  BY <1>2, <1>3, <1>4, FitsWithin
<1>17. j = 1 \/ j = 2 \/ j = 3 \/ j = 4 \/ j = 5 \/ j = 6 \/ j = 7 \/ j = 8 \/ j = 9 \/ j = 10 \/ j = 11 \/ j = 12
  OBVIOUS
<1>18. /\ RegionOfEntry[1] = 6 /\ RegionOfEntry[2] = 1 /\ RegionOfEntry[3] = 2 /\ RegionOfEntry[4] = 1
       /\ RegionOfEntry[5] = 2 /\ RegionOfEntry[6] = 1 /\ RegionOfEntry[7] = 2 /\ RegionOfEntry[8] = 3
       /\ RegionOfEntry[9] = 7 /\ RegionOfEntry[10] = 4 /\ RegionOfEntry[11] = 4 /\ RegionOfEntry[12] = 5
  BY DEF RegionOfEntry
<1>19. Within(s[j], r[RegionOfEntry[j]])
  BY <1>5, <1>6, <1>7, <1>8, <1>9, <1>10, <1>11, <1>12, <1>13, <1>14, <1>15, <1>16, <1>17, <1>18, Zenon
<1>20. RegionOfEntry[j] \in 1 .. 7
  <2> HIDE <1>3, <1>4, <1>2
  <2> QED BY <1>17, <1>18
<1> QED BY <1>1, <1>19, <1>20

LEMMA LayerEntriesApart ==
  ASSUME NEW l \in Int, NEW j \in 1 .. 12, NEW k \in 1 .. 12, j # k
  PROVE  Apart(LayerEntries(l)[j], LayerEntries(l)[k])
<1>1. PICK s : s = LayerEntries(l)
  OBVIOUS
<1>2. PICK h \in Nat, kv \in Nat, hh \in Nat, kh \in Nat, ih \in Nat, hi \in Nat :
        /\ h = Hidden /\ kv = KvRows /\ hh = Hidden * Hidden /\ kh = KvRows * Hidden
        /\ ih = Inter * Hidden /\ hi = Hidden * Inter
  BY Products
<1>3. /\ Is(s[1], "input_layernorm", "input_norm", l, 0, h)
      /\ Is(s[2], "q_proj.weight", "w_qkv", l, 0, hh)
      /\ Is(s[3], "q_proj.bias", "b_qkv", l, 0, h)
      /\ Is(s[4], "k_proj.weight", "w_qkv", l, hh, kh)
      /\ Is(s[5], "k_proj.bias", "b_qkv", l, h, kv)
      /\ Is(s[6], "v_proj.weight", "w_qkv", l, hh + kh, kh)
      /\ Is(s[7], "v_proj.bias", "b_qkv", l, h + kv, kv)
      /\ Is(s[8], "o_proj", "w_o", l, 0, hh)
      /\ Is(s[9], "post_attention_layernorm", "post_attn_norm", l, 0, h)
      /\ Is(s[10], "gate_proj", "w_gateup", l, 0, ih)
      /\ Is(s[11], "up_proj", "w_gateup", l, ih, ih)
      /\ Is(s[12], "down_proj", "w_down", l, 0, hi)
  BY <1>1, <1>2, LayerEntriesAre, Zenon
<1> HIDE <1>1
<1>4. /\ s[1].dest = "input_norm" /\ s[2].dest = "w_qkv" /\ s[3].dest = "b_qkv" /\ s[4].dest = "w_qkv"
      /\ s[5].dest = "b_qkv" /\ s[6].dest = "w_qkv" /\ s[7].dest = "b_qkv" /\ s[8].dest = "w_o"
      /\ s[9].dest = "post_attn_norm" /\ s[10].dest = "w_gateup" /\ s[11].dest = "w_gateup"
      /\ s[12].dest = "w_down"
      /\ Start(s[2]) = 0 /\ num_elements(s[2]) = hh /\ Start(s[4]) = hh /\ num_elements(s[4]) = kh
      /\ Start(s[6]) = hh + kh
      /\ Start(s[3]) = 0 /\ num_elements(s[3]) = h /\ Start(s[5]) = h /\ num_elements(s[5]) = kv
      /\ Start(s[7]) = h + kv
      /\ Start(s[10]) = 0 /\ num_elements(s[10]) = ih /\ Start(s[11]) = ih
  BY <1>3, Zenon DEF Is
<1>5. \A i \in 1 .. 12 : i = 1 \/ i = 2 \/ i = 3 \/ i = 4 \/ i = 5 \/ i = 6 \/ i = 7 \/ i = 8 \/ i = 9
                         \/ i = 10 \/ i = 11 \/ i = 12
  OBVIOUS
<1> HIDE <1>3
<1>11. \A m \in 1 .. 12 : m # 1 => Apart(s[1], s[m])
  BY <1>2, <1>4, <1>5 DEF Apart
<1>12. \A m \in 1 .. 12 : m # 2 => Apart(s[2], s[m])
  BY <1>2, <1>4, <1>5 DEF Apart
<1>13. \A m \in 1 .. 12 : m # 3 => Apart(s[3], s[m])
  BY <1>2, <1>4, <1>5 DEF Apart
<1>14. \A m \in 1 .. 12 : m # 4 => Apart(s[4], s[m])
  BY <1>2, <1>4, <1>5 DEF Apart
<1>15. \A m \in 1 .. 12 : m # 5 => Apart(s[5], s[m])
  BY <1>2, <1>4, <1>5 DEF Apart
<1>16. \A m \in 1 .. 12 : m # 6 => Apart(s[6], s[m])
  BY <1>2, <1>4, <1>5 DEF Apart
<1>17. \A m \in 1 .. 12 : m # 7 => Apart(s[7], s[m])
  BY <1>2, <1>4, <1>5 DEF Apart
<1>18. \A m \in 1 .. 12 : m # 8 => Apart(s[8], s[m])
  BY <1>2, <1>4, <1>5 DEF Apart
<1>19. \A m \in 1 .. 12 : m # 9 => Apart(s[9], s[m])
  BY <1>2, <1>4, <1>5 DEF Apart
<1>20. \A m \in 1 .. 12 : m # 10 => Apart(s[10], s[m])
  BY <1>2, <1>4, <1>5 DEF Apart
<1>21. \A m \in 1 .. 12 : m # 11 => Apart(s[11], s[m])
  BY <1>2, <1>4, <1>5 DEF Apart
<1>22. \A m \in 1 .. 12 : m # 12 => Apart(s[12], s[m])
  BY <1>2, <1>4, <1>5 DEF Apart
<1>30. Apart(s[j], s[k])
  BY <1>5, <1>11, <1>12, <1>13, <1>14, <1>15, <1>16, <1>17, <1>18, <1>19, <1>20, <1>21, <1>22
<1> QED BY <1>1, <1>30

\* An entry of the weight map by its place in the table.
IsEmbed(W, k) == k = 1 /\ Is(W[k], "embed_tokens", "embed", NoLayer, 0, Vocab * Hidden)
IsNorm(W, k) == k = 12 * NumLayers + 2 /\ Is(W[k], "norm", "final_norm", NoLayer, 0, Hidden)
IsHead(W, k) == k = 12 * NumLayers + 3 /\ Is(W[k], "lm_head", "lm_head", NoLayer, 0, Vocab * Hidden)
IsOfLayer(W, k, l, j) == k = 12 * (l - 1) + j + 1 /\ W[k] = LayerEntries(l)[j] /\ W[k].layer = l
IsLayered(W, k) == \E l \in 1 .. NumLayers, j \in 1 .. 12 : IsOfLayer(W, k, l, j)

LEMMA EntryCases ==
  ASSUME NEW b \in BOOLEAN, NEW W, W = BuildWeightMap(b), NEW k \in 1 .. Len(W)
  PROVE  IsEmbed(W, k) \/ IsNorm(W, k) \/ (b /\ IsHead(W, k)) \/ IsLayered(W, k)
<1>1. PICK N : N = Len(W)
  OBVIOUS
<1>2. MapRows(W, N, b)
  BY <1>1, MapPositions
<1>3. k \in 1 .. N
  BY <1>1
<1>4. \A i \in 1 .. N : \/ i = 1 \/ i = 12 * NumLayers + 2 \/ (b /\ i = 12 * NumLayers + 3)
                        \/ \E l \in 1 .. NumLayers, j \in 1 .. 12 : i = 12 * (l - 1) + j + 1
  BY <1>2, Zenon DEF MapRows
<1>5. CASE k = 1
  BY <1>2, <1>5, Zenon DEF MapRows, IsEmbed
<1>6. CASE k = 12 * NumLayers + 2
  BY <1>2, <1>6, Zenon DEF MapRows, IsNorm
<1>7. CASE b /\ k = 12 * NumLayers + 3
  BY <1>2, <1>7, Zenon DEF MapRows, IsHead
<1>8. CASE \E l \in 1 .. NumLayers, j \in 1 .. 12 : k = 12 * (l - 1) + j + 1
  <2>1. PICK l \in 1 .. NumLayers, j \in 1 .. 12 : k = 12 * (l - 1) + j + 1
    BY <1>8
  <2>2. \A x \in 1 .. NumLayers, y \in 1 .. 12 :
          12 * (x - 1) + y + 1 \in 1 .. N /\ W[12 * (x - 1) + y + 1] = LayerEntries(x)[y]
    BY <1>2, Zenon DEF MapRows
  <2>3. W[k] = LayerEntries(l)[j]
    BY <2>1, <2>2, Zenon
  <2>4. l \in Int
    OBVIOUS
  <2>5. PICK r : r = LayerRegions(l)[RegionOfEntry[j]]
    OBVIOUS
  <2>6. r[2] = LayerEntries(l)[j].layer
    BY <2>4, <2>5, LayerEntryFits DEF Within
  <2>7. r[2] = l
    BY <2>4, <2>5, LayerEntryFits, LayerRegionTypes
  <2>8. IsOfLayer(W, k, l, j)
    BY <2>1, <2>3, <2>6, <2>7, Zenon DEF IsOfLayer
  <2> QED BY <2>8 DEF IsLayered
<1> QED BY <1>3, <1>4, <1>5, <1>6, <1>7, <1>8, Zenon

LEMMA EntryFits ==
  ASSUME NEW b \in BOOLEAN, NEW W, W = BuildWeightMap(b), NEW k \in 1 .. Len(W), NEW R, R = Regions(b)
  PROVE  \E i \in 1 .. Len(R) : Within(W[k], R[i])
<1>1. PICK N : N = Len(R)
  OBVIOUS
<1>2. RegionRows(R, N, b)
  BY <1>1, RegionPositions
<1>p1. 1 \in 1 .. N /\ R[1] = <<"embed", NoLayer, Vocab * Hidden>>
  BY <1>2, Zenon DEF RegionRows
<1>p2. 7 * NumLayers + 2 \in 1 .. N /\ R[7 * NumLayers + 2] = <<"final_norm", NoLayer, Hidden>>
  BY <1>2, Zenon DEF RegionRows
<1>p3. b => /\ 7 * NumLayers + 3 \in 1 .. N
            /\ R[7 * NumLayers + 3] = <<"lm_head", NoLayer, Vocab * Hidden>>
  BY <1>2, Zenon DEF RegionRows
<1>p4. \A l \in 1 .. NumLayers, j \in 1 .. 7 :
         7 * (l - 1) + j + 1 \in 1 .. N /\ R[7 * (l - 1) + j + 1] = LayerRegions(l)[j]
  BY <1>2, Zenon DEF RegionRows
<1>v. PICK vh \in Nat, h \in Nat : vh = Vocab * Hidden /\ vh > 0 /\ h = Hidden /\ h > 0
  BY Products
<1>3. CASE IsEmbed(W, k)
  <2>1. Is(W[k], "embed_tokens", "embed", NoLayer, 0, vh)
    BY <1>3, <1>v, Zenon DEF IsEmbed
  <2>2. Within(W[k], <<"embed", NoLayer, vh>>)
    BY <1>v, <2>1, FitsWithin
  <2> QED BY <1>1, <1>v, <1>p1, <2>2, Zenon
<1>4. CASE IsNorm(W, k)
  <2>1. Is(W[k], "norm", "final_norm", NoLayer, 0, h)
    BY <1>4, <1>v, Zenon DEF IsNorm
  <2>2. Within(W[k], <<"final_norm", NoLayer, h>>)
    BY <1>v, <2>1, FitsWithin
  <2> QED BY <1>1, <1>v, <1>p2, <2>2, Zenon
<1>5. CASE b /\ IsHead(W, k)
  <2>1. Is(W[k], "lm_head", "lm_head", NoLayer, 0, vh)
    BY <1>5, <1>v, Zenon DEF IsHead
  <2>2. Within(W[k], <<"lm_head", NoLayer, vh>>)
    BY <1>v, <2>1, FitsWithin
  <2> QED BY <1>1, <1>5, <1>v, <1>p3, <2>2, Zenon
<1>6. CASE IsLayered(W, k)
  <2>1. PICK l \in 1 .. NumLayers, j \in 1 .. 12 : W[k] = LayerEntries(l)[j]
    BY <1>6 DEF IsLayered, IsOfLayer
  <2>2. l \in Int
    OBVIOUS
  <2>3. PICK m \in 1 .. 7 : m = RegionOfEntry[j] /\ Within(LayerEntries(l)[j], LayerRegions(l)[m])
    BY <2>2, LayerEntryFits
  <2>4. 7 * (l - 1) + m + 1 \in 1 .. N /\ R[7 * (l - 1) + m + 1] = LayerRegions(l)[m]
    BY <1>p4, Zenon
  <2> QED BY <1>1, <2>1, <2>3, <2>4, Zenon
<1>7. IsEmbed(W, k) \/ IsNorm(W, k) \/ (b /\ IsHead(W, k)) \/ IsLayered(W, k)
  BY EntryCases
<1> QED BY <1>3, <1>4, <1>5, <1>6, <1>7, Zenon

LEMMA EntriesApart ==
  ASSUME NEW b \in BOOLEAN, NEW W, W = BuildWeightMap(b),
         NEW k \in 1 .. Len(W), NEW m \in 1 .. Len(W), k # m
  PROVE  Apart(W[k], W[m])
<1>1. IsEmbed(W, k) \/ IsNorm(W, k) \/ IsHead(W, k) \/ IsLayered(W, k)
  BY EntryCases
<1>2. IsEmbed(W, m) \/ IsNorm(W, m) \/ IsHead(W, m) \/ IsLayered(W, m)
  BY EntryCases
<1>3. \A l \in 1 .. NumLayers : l # NoLayer
  BY WeightsAssumption DEF NoLayer
<1>4. \A x : /\ IsEmbed(W, x) => x = 1 /\ W[x].dest = "embed" /\ W[x].layer = NoLayer
             /\ IsNorm(W, x) => x = 12 * NumLayers + 2 /\ W[x].dest = "final_norm" /\ W[x].layer = NoLayer
             /\ IsHead(W, x) => x = 12 * NumLayers + 3 /\ W[x].dest = "lm_head" /\ W[x].layer = NoLayer
  BY Zenon DEF IsEmbed, IsNorm, IsHead, Is
<1>5. \A x : IsLayered(W, x) => W[x].layer # NoLayer
  BY <1>3, Zenon DEF IsLayered, IsOfLayer
<1>6. CASE IsLayered(W, k) /\ IsLayered(W, m)
  <2>1. PICK l \in 1 .. NumLayers, j \in 1 .. 12 : IsOfLayer(W, k, l, j)
    BY <1>6 DEF IsLayered
  <2>2. PICK n \in 1 .. NumLayers, o \in 1 .. 12 : IsOfLayer(W, m, n, o)
    BY <1>6 DEF IsLayered
  <2>3. CASE l = n
    <3>1. j # o
      BY <2>1, <2>2, <2>3, Zenon DEF IsOfLayer
    <3>2. l \in Int
      OBVIOUS
    <3>3. Apart(LayerEntries(l)[j], LayerEntries(l)[o])
      BY <3>1, <3>2, LayerEntriesApart
    <3> QED BY <2>1, <2>2, <2>3, <3>3, Zenon DEF IsOfLayer
  <2>4. CASE l # n
    BY <2>1, <2>2, <2>4, Zenon DEF Apart, IsOfLayer
  <2> QED BY <2>3, <2>4
<1>7. CASE ~IsLayered(W, k) \/ ~IsLayered(W, m)
  <2>0. "embed" # "final_norm" /\ "embed" # "lm_head" /\ "final_norm" # "lm_head"
    OBVIOUS
  <2>1. W[k].dest # W[m].dest \/ W[k].layer # W[m].layer
    <3>1. ~IsLayered(W, k) => W[k].layer = NoLayer
      BY <1>1, <1>4, Zenon
    <3>2. ~IsLayered(W, m) => W[m].layer = NoLayer
      BY <1>2, <1>4, Zenon
    <3>3. CASE IsLayered(W, k) \/ IsLayered(W, m)
      BY <1>5, <1>7, <3>1, <3>2, <3>3, Zenon
    <3>4. CASE ~IsLayered(W, k) /\ ~IsLayered(W, m)
      <4>1. \/ k = 1 /\ W[k].dest = "embed"
            \/ k = 12 * NumLayers + 2 /\ W[k].dest = "final_norm"
            \/ k = 12 * NumLayers + 3 /\ W[k].dest = "lm_head"
        BY <1>1, <1>4, <3>4, Zenon
      <4>2. \/ m = 1 /\ W[m].dest = "embed"
            \/ m = 12 * NumLayers + 2 /\ W[m].dest = "final_norm"
            \/ m = 12 * NumLayers + 3 /\ W[m].dest = "lm_head"
        BY <1>2, <1>4, <3>4, Zenon
      <4>3. W[k].dest # W[m].dest
        BY <2>0, <4>1, <4>2, SMT
      <4> QED BY <4>3
    <3> QED BY <3>3, <3>4
  <2> QED BY <2>1, Zenon DEF Apart
<1> QED BY <1>6, <1>7

LEMMA HeadOnlyIfOwn ==
  ASSUME NEW b \in BOOLEAN, NEW R, R = Regions(b), NEW N, N = Len(R), NEW i \in 1 .. N, R[i][1] = "lm_head"
  PROVE  b
<1>1. RegionRows(R, N, b)
  BY RegionPositions
<1>2. \A x \in 1 .. N : \/ x = 1 \/ x = 7 * NumLayers + 2 \/ (b /\ x = 7 * NumLayers + 3)
                        \/ \E l \in 1 .. NumLayers, j \in 1 .. 7 : x = 7 * (l - 1) + j + 1
  BY <1>1, Zenon DEF RegionRows
<1>3. R[1] = <<"embed", NoLayer, Vocab * Hidden>>
  BY <1>1, Zenon DEF RegionRows
<1>4. R[7 * NumLayers + 2] = <<"final_norm", NoLayer, Hidden>>
  BY <1>1, Zenon DEF RegionRows
<1>5. R[1][1] = "embed" /\ R[7 * NumLayers + 2][1] = "final_norm"
  BY <1>3, <1>4
<1>6. ASSUME NEW l \in 1 .. NumLayers, NEW j \in 1 .. 7, i = 7 * (l - 1) + j + 1 PROVE FALSE
  <2>1. \A x \in 1 .. NumLayers, y \in 1 .. 7 :
          7 * (x - 1) + y + 1 \in 1 .. N /\ R[7 * (x - 1) + y + 1] = LayerRegions(x)[y]
    BY <1>1, Zenon DEF RegionRows
  <2>2. R[i] = LayerRegions(l)[j]
    BY <1>6, <2>1, Zenon
  <2>3. l \in Int
    OBVIOUS
  <2>4. LayerRegions(l)[j][1] # "lm_head"
    BY <2>3, LayerKinds
  <2> QED BY <2>2, <2>4, Zenon
<1>7. "embed" # "lm_head" /\ "final_norm" # "lm_head"
  OBVIOUS
<1>8. i # 1 /\ i # 7 * NumLayers + 2
  BY <1>5, <1>7, Zenon
<1> QED BY <1>2, <1>6, <1>8, Zenon

\* Every tensor has its rows of the slab to itself.
Laid(W, total, b) ==
  /\ total \in Nat /\ W \in Seq(EntryType)
  /\ \A k \in 1 .. Len(W) :
       /\ EntryOffset(W[k], b) \in Nat /\ num_elements(W[k]) \in Nat /\ num_elements(W[k]) > 0
       /\ EntryOffset(W[k], b) + num_elements(W[k]) <= total
  /\ \A k, m \in 1 .. Len(W) : k # m =>
       \/ EntryOffset(W[k], b) + num_elements(W[k]) <= EntryOffset(W[m], b)
       \/ EntryOffset(W[m], b) + num_elements(W[m]) <= EntryOffset(W[k], b)

LEMMA LayoutSound ==
  ASSUME NEW b \in BOOLEAN, NEW W, W = BuildWeightMap(b), NEW total, total = TotalElements(b)
  PROVE  Laid(W, total, b)
<1>1. PICK R : R = Regions(b)
  OBVIOUS
<1>2. PICK N : N = Len(R)
  OBVIOUS
<1>3. PICK f : f = ComputeWeightsLayout(b)
  OBVIOUS
<1>4. RegionRows(R, N, b)
  BY <1>1, <1>2, RegionPositions
<1>5. N \in Nat /\ R \in Seq(Triple)
  BY <1>4, Zenon DEF RegionRows
<1>6. \A i \in 1 .. N : R[i][3] \in Nat
  BY <1>2, <1>5 DEF Triple
<1>7. Places(f, N + 1, R)
  BY <1>1, <1>2, <1>3, LayoutPlaces, Zenon
<1>8. total = f[N + 1]
  BY <1>1, <1>2, <1>3, Zenon DEF TotalElements
<1>9. \A i \in 1 .. N + 1 : f[i] \in Nat
  BY <1>7 DEF Places
<1>10. total \in Nat
  BY <1>5, <1>8, <1>9
<1>11. ASSUME NEW k \in 1 .. Len(W)
       PROVE  \E i \in 1 .. N : Within(W[k], R[i]) /\ EntryOffset(W[k], b) = f[i] + Start(W[k])
  <2>1. PICK i \in 1 .. N : Within(W[k], R[i])
    BY <1>1, <1>2, EntryFits
  <2>2. W[k].dest = R[i][1] /\ W[k].layer = R[i][2]
    BY <2>1, Zenon DEF Within
  <2>3. W[k].dest = "lm_head" => b
    BY <1>1, <1>2, <2>2, HeadOnlyIfOwn
  <2>4. OffsetFor(W[k].dest, W[k].layer, b) = f[i]
    <3>1. PICK kind, layer : kind = W[k].dest /\ layer = W[k].layer
      OBVIOUS
    <3>2. Denotes(kind, layer, R[i], b)
      BY <2>2, <2>3, <3>1 DEF Denotes
    <3>3. OffsetFor(kind, layer, b) = f[i]
      BY <1>1, <1>2, <1>3, <3>2, OffsetIs
    <3> QED BY <3>1, <3>3, Zenon
  <2> QED BY <2>1, <2>4 DEF EntryOffset, Start
<1>m. ASSUME NEW i \in 1 .. N, NEW j \in 1 .. N + 1, i < j PROVE f[i] + R[i][3] <= f[j]
  BY <1>5, <1>6, <1>7, <1>m, RegionsApart, Zenon
<1>n. \A i \in 1 .. N : i \in 1 .. N + 1 /\ i < N + 1 /\ N + 1 \in 1 .. N + 1
  BY <1>5
<1> HIDE <1>1, <1>2, <1>3, <1>4, <1>7
<1>12. ASSUME NEW k \in 1 .. Len(W)
       PROVE  /\ EntryOffset(W[k], b) \in Nat /\ num_elements(W[k]) \in Nat /\ num_elements(W[k]) > 0
              /\ EntryOffset(W[k], b) + num_elements(W[k]) <= total
  <2>1. PICK i \in 1 .. N : Within(W[k], R[i]) /\ EntryOffset(W[k], b) = f[i] + Start(W[k])
    BY <1>11
  <2>2. PICK s \in Nat, n \in Nat, z \in Nat :
          s = Start(W[k]) /\ n = num_elements(W[k]) /\ z = R[i][3] /\ n > 0 /\ s + n <= z
    BY <2>1 DEF Within
  <2>3. PICK p \in Nat, q \in Nat : p = f[i] /\ q = f[N + 1]
    BY <1>9, <1>n
  <2>4. p + z <= q
    BY <1>m, <1>n, <2>2, <2>3
  <2>5. EntryOffset(W[k], b) = p + s /\ num_elements(W[k]) = n /\ total = q
    BY <1>8, <2>1, <2>2, <2>3
  <2>2a. s + n <= z
    BY <2>2
  <2>6. p + s \in Nat /\ p + s + n <= q
    BY <2>2a, <2>4
  <2> QED BY <2>2, <2>5, <2>6, Zenon
<1>13. ASSUME NEW k \in 1 .. Len(W), NEW m \in 1 .. Len(W), k # m
       PROVE  \/ EntryOffset(W[k], b) + num_elements(W[k]) <= EntryOffset(W[m], b)
              \/ EntryOffset(W[m], b) + num_elements(W[m]) <= EntryOffset(W[k], b)
  <2>1. PICK i \in 1 .. N : Within(W[k], R[i]) /\ EntryOffset(W[k], b) = f[i] + Start(W[k])
    BY <1>11
  <2>2. PICK j \in 1 .. N : Within(W[m], R[j]) /\ EntryOffset(W[m], b) = f[j] + Start(W[m])
    BY <1>11
  <2>3. PICK s \in Nat, n \in Nat, z \in Nat :
          s = Start(W[k]) /\ n = num_elements(W[k]) /\ z = R[i][3] /\ n > 0 /\ s + n <= z
    BY <2>1 DEF Within
  <2>4. PICK t \in Nat, o \in Nat, y \in Nat :
          t = Start(W[m]) /\ o = num_elements(W[m]) /\ y = R[j][3] /\ o > 0 /\ t + o <= y
    BY <2>2 DEF Within
  <2>3a. s + n <= z
    BY <2>3
  <2>4a. t + o <= y
    BY <2>4
  <2>5. PICK p \in Nat, q \in Nat : p = f[i] /\ q = f[j]
    BY <1>9, <1>n
  <2>a. /\ EntryOffset(W[k], b) = p + s /\ num_elements(W[k]) = n
        /\ EntryOffset(W[m], b) = q + t /\ num_elements(W[m]) = o
    BY <2>1, <2>2, <2>3, <2>4, <2>5
  <2>b. (p + s) + n <= q + t \/ (q + t) + o <= p + s
    <3>6. CASE i = j
      <4>1. W[k].dest = W[m].dest /\ W[k].layer = W[m].layer
        BY <2>1, <2>2, <3>6, Zenon DEF Within
      <4>2. Apart(W[k], W[m])
        BY <1>13, EntriesApart
      <4>3. s + n <= t \/ t + o <= s
        BY <2>3, <2>4, <4>1, <4>2, Zenon DEF Apart
      <4>4. p = q
        BY <2>5, <3>6
      <4> QED BY <4>3, <4>4
    <3>7. CASE i < j
      <4>1. p + z <= q
        BY <1>m, <1>n, <2>3, <2>5, <3>7
      <4> QED BY <2>3a, <4>1
    <3>8. CASE j < i
      <4>1. q + y <= p
        BY <1>m, <1>n, <2>4, <2>5, <3>8
      <4> QED BY <2>4a, <4>1
    <3>9. i = j \/ i < j \/ j < i
      BY <1>5
    <3> QED BY <3>6, <3>7, <3>8, <3>9
  <2> QED BY <2>a, <2>b, Zenon
<1>14. W \in Seq(EntryType)
  BY MapTable, Zenon
<1> QED BY <1>10, <1>12, <1>13, <1>14, Zenon DEF Laid

-----------------------------------------------------------------------------
(***************************************************************************)
(* The load.                                                               *)
(***************************************************************************)
\* What the load needs to know of its table.
MapOK ==
  /\ checkpoint.lm_head \in BOOLEAN /\ TotalElements(checkpoint.lm_head) \in Nat
  /\ DOMAIN weight_map = 1 .. Len(weight_map) /\ Len(weight_map) \in Nat /\ Len(weight_map) > 0
  /\ \A k \in 1 .. Len(weight_map) :
       /\ num_elements(weight_map[k]) \in Nat /\ num_elements(weight_map[k]) > 0
       /\ EntryOffset(weight_map[k], checkpoint.lm_head) \in Nat
  /\ \A k \in 1 .. Len(weight_map) : \A i \in Elements(k) :
       Target(k, i) \in 0 .. TotalElements(checkpoint.lm_head) - 1
  /\ \A k, m \in 1 .. Len(weight_map) : \A i \in Elements(k), j \in Elements(m) :
       Target(k, i) = Target(m, j) => k = m /\ i = j

LEMMA MapIsOK ==
  ASSUME checkpoint \in Checkpoints
  PROVE  MapOK
<1>1. PICK b \in BOOLEAN : b = checkpoint.lm_head
  BY LoadAssumption
<1>2. PICK W : W = BuildWeightMap(b)
  OBVIOUS
<1>3. PICK total : total = TotalElements(b)
  OBVIOUS
<1>4. Laid(W, total, b)
  BY <1>2, <1>3, LayoutSound
<1>5. W = weight_map
  BY <1>1, <1>2, Zenon DEF weight_map
<1>6. PICK N \in Nat : N = Len(W) /\ N > 0 /\ DOMAIN W = 1 .. N
  <2>1. MapRows(W, Len(W), b)
    BY <1>2, MapPositions
  <2>2. 1 \in 1 .. Len(W) /\ W \in Seq(EntryType)
    BY <2>1, Zenon DEF MapRows
  <2> QED BY <2>2
<1> HIDE <1>2, <1>3
<1>7. total \in Nat /\ \A k \in 1 .. N :
        /\ EntryOffset(W[k], b) \in Nat /\ num_elements(W[k]) \in Nat /\ num_elements(W[k]) > 0
        /\ EntryOffset(W[k], b) + num_elements(W[k]) <= total
  BY <1>4, <1>6, Zenon DEF Laid
<1>8. ASSUME NEW k \in 1 .. N, NEW i \in Elements(k)
      PROVE  Target(k, i) \in 0 .. total - 1
  <2>1. PICK o \in Nat, n \in Nat : o = EntryOffset(W[k], b) /\ n = num_elements(W[k])
    BY <1>7
  <2>2. o + n <= total
    BY <1>7, <2>1
  <2>3. i \in 0 .. n - 1 /\ Target(k, i) = o + i
    BY <1>1, <1>5, <2>1 DEF Elements, Target
  <2>4. total \in Nat
    BY <1>7
  <2> QED BY <2>2, <2>3, <2>4
<1>9. ASSUME NEW k \in 1 .. N, NEW m \in 1 .. N, NEW i \in Elements(k), NEW j \in Elements(m),
             Target(k, i) = Target(m, j)
      PROVE  k = m /\ i = j
  <2>1. PICK o \in Nat, n \in Nat : o = EntryOffset(W[k], b) /\ n = num_elements(W[k])
    BY <1>7
  <2>2. PICK p \in Nat, q \in Nat : p = EntryOffset(W[m], b) /\ q = num_elements(W[m])
    BY <1>7
  <2>3. i \in 0 .. n - 1 /\ Target(k, i) = o + i
    BY <1>1, <1>5, <2>1 DEF Elements, Target
  <2>4. j \in 0 .. q - 1 /\ Target(m, j) = p + j
    BY <1>1, <1>5, <2>2 DEF Elements, Target
  <2>5. o + i = p + j
    BY <1>9, <2>3, <2>4
  <2>6. k # m => o + n <= p \/ p + q <= o
    BY <1>4, <1>6, <2>1, <2>2, Zenon DEF Laid
  <2>7. k = m
    BY <2>3, <2>4, <2>5, <2>6
  <2>8. o = p
    BY <2>1, <2>2, <2>7
  <2> QED BY <2>3, <2>4, <2>5, <2>7, <2>8
<1>10. /\ checkpoint.lm_head \in BOOLEAN /\ TotalElements(checkpoint.lm_head) = total
       /\ DOMAIN weight_map = 1 .. Len(weight_map) /\ Len(weight_map) = N
  BY <1>1, <1>3, <1>5, <1>6
<1> QED BY <1>1, <1>5, <1>6, <1>7, <1>8, <1>9, <1>10, Zenon DEF MapOK

\* An operation of the stream is a copy or an event.
LEMMA OpKinds ==
  ASSUME NEW op \in Ops
  PROVE  \/ op[1] = "copy" /\ op[2] \in 0 .. 1 /\ op[3] \in Nat
         \/ op[1] = "event" /\ op[2] \in 0 .. 1 /\ op = <<"event", op[2]>>
  BY DEF Ops

LEMMA OpsTyped ==
  ASSUME NEW s \in 0 .. 1, NEW d \in Nat
  PROVE  <<"copy", s, d>> \in Ops /\ <<"event", s>> \in Ops
  BY DEF Ops

\* The map depends on the checkpoint alone.
LEMMA MapUnchanged ==
  ASSUME checkpoint' = checkpoint
  PROVE  /\ weight_map' = weight_map
         /\ \A k, i : Target(k, i)' = Target(k, i) /\ Element(k, i)' = Element(k, i)
         /\ \A k : Elements(k)' = Elements(k)
  BY DEF weight_map, Target, Element, Elements

StreamOK == stream \in Seq(Ops) /\ next_slot \in 0 .. 1 /\ slot_pending \in [0 .. 1 -> BOOLEAN]

LEMMA StreamDomain ==
  ASSUME StreamOK
  PROVE  /\ Len(stream) \in Nat /\ DOMAIN stream = 1 .. Len(stream)
         /\ \A c \in DOMAIN stream : stream[c] \in Ops
         /\ stream = <<>> <=> DOMAIN stream = {}
  BY DEF StreamOK

\* A slot whose event is reached is neither to be read nor to be reported.
LEMMA SlotIdle ==
  ASSUME StreamOK, OnTheBooks, NEW s \in 0 .. 1, SlotFree(s)
  PROVE  \A c \in DOMAIN stream : stream[c][2] # s
<1> SUFFICES ASSUME NEW c \in DOMAIN stream, stream[c][2] = s PROVE FALSE
  OBVIOUS
<1>1. stream[c] \in Ops
  BY StreamDomain
<1>2. ASSUME NEW e \in DOMAIN stream, stream[e] = <<"event", s>> PROVE FALSE
  <2>1. stream[e][1] = "event" /\ stream[e][2] = s
    BY <1>2
  <2>2. slot_pending[s]
    BY <2>1, Zenon DEF OnTheBooks
  <2>3. Reached(s)
    BY <2>2 DEF SlotFree
  <2> QED BY <1>2, <2>3, Zenon DEF Reached
<1>3. CASE stream[c][1] = "copy"
  BY <1>2, <1>3, Zenon DEF OnTheBooks
<1>4. CASE stream[c] = <<"event", stream[c][2]>>
  BY <1>2, <1>4, Zenon
<1> QED BY <1>1, <1>3, <1>4, OpKinds, Zenon

\* When both slots are, the stream has been run dry.
LEMMA AllIdle ==
  ASSUME StreamOK, OnTheBooks, SlotFree(0), SlotFree(1)
  PROVE  stream = <<>>
<1> SUFFICES ASSUME NEW c \in DOMAIN stream PROVE FALSE
  BY StreamDomain
<1>1. stream[c] \in Ops
  BY StreamDomain
<1>2. stream[c][2] \in 0 .. 1
  BY <1>1, OpKinds
<1>3. stream[c][2] # 0
  BY SlotIdle
<1>4. stream[c][2] # 1
  BY SlotIdle
<1> QED BY <1>2, <1>3, <1>4

LEMMA BooksEmpty ==
  ASSUME stream = <<>>
  PROVE  OnTheBooks
  BY DEF OnTheBooks

\* Giving up the slot at hand.
LEMMA BooksClear ==
  ASSUME StreamOK, OnTheBooks, SlotFree(next_slot), stream' = stream,
         slot_pending' = [slot_pending EXCEPT ![next_slot] = FALSE]
  PROVE  OnTheBooks'
<1>1. \A c \in DOMAIN stream : stream[c][2] # next_slot
  BY SlotIdle DEF StreamOK
<1>2. ASSUME NEW c \in DOMAIN stream, stream[c][1] = "event" PROVE slot_pending'[stream[c][2]]
  <2>1. slot_pending[stream[c][2]] /\ stream[c][2] \in 0 .. 1
    <3>1. stream[c] \in Ops
      BY StreamDomain
    <3>2. stream[c][2] \in 0 .. 1
      BY <3>1, OpKinds
    <3> QED BY <1>2, <3>2, Zenon DEF OnTheBooks
  <2> QED BY <1>1, <2>1 DEF StreamOK
<1>3. \A c \in DOMAIN stream :
        stream[c][1] = "copy" => c + 1 \in DOMAIN stream /\ stream[c + 1] = <<"event", stream[c][2]>>
  BY Zenon DEF OnTheBooks
<1> QED BY <1>2, <1>3, Zenon DEF OnTheBooks

\* The device takes the oldest operation.
LEMMA Shorter ==
  ASSUME StreamOK, stream # <<>>, stream' = Tail(stream)
  PROVE  /\ stream' \in Seq(Ops) /\ 1 \in DOMAIN stream /\ Head(stream) = stream[1]
         /\ \A c : c \in DOMAIN stream' <=> c + 1 \in DOMAIN stream /\ c \in Nat /\ c > 0
         /\ \A c \in DOMAIN stream' : stream'[c] = stream[c + 1]
<1>1. stream \in Seq(Ops)
  BY DEF StreamOK
<1>2. /\ stream' \in Seq(Ops) /\ Len(stream') = Len(stream) - 1 /\ Head(stream) = stream[1]
      /\ \A i \in 1 .. Len(stream') : stream'[i] = stream[i + 1]
  BY <1>1, HeadTailProperties
<1>3. Len(stream) \in Nat /\ Len(stream) > 0 /\ DOMAIN stream = 1 .. Len(stream)
  BY <1>1
<1>4. DOMAIN stream' = 1 .. Len(stream) - 1
  BY <1>2
<1> QED BY <1>2, <1>3, <1>4

LEMMA BooksTail ==
  ASSUME StreamOK, OnTheBooks, stream # <<>>, stream' = Tail(stream), slot_pending' = slot_pending
  PROVE  OnTheBooks'
<1>1. /\ \A c : c \in DOMAIN stream' <=> c + 1 \in DOMAIN stream /\ c \in Nat /\ c > 0
      /\ \A c \in DOMAIN stream' : stream'[c] = stream[c + 1]
  BY Shorter, Zenon
<1>2. ASSUME NEW c \in DOMAIN stream', stream'[c][1] = "copy"
      PROVE  c + 1 \in DOMAIN stream' /\ stream'[c + 1] = <<"event", stream'[c][2]>>
  <2>1. c \in Nat /\ c > 0 /\ c + 1 \in DOMAIN stream /\ stream[c + 1][1] = "copy"
    BY <1>1, <1>2, Zenon
  <2>2. (c + 1) + 1 \in DOMAIN stream /\ stream[(c + 1) + 1] = <<"event", stream[c + 1][2]>>
    BY <2>1, Zenon DEF OnTheBooks
  <2>3. c + 1 \in Nat /\ c + 1 > 0
    BY <2>1
  <2>4. c + 1 \in DOMAIN stream'
    BY <1>1, <2>2, <2>3, Zenon
  <2>5. stream'[c + 1] = stream[(c + 1) + 1] /\ stream'[c] = stream[c + 1]
    BY <1>1, <2>4, Zenon
  <2> QED BY <2>2, <2>4, <2>5, Zenon
<1>3. ASSUME NEW c \in DOMAIN stream', stream'[c][1] = "event" PROVE slot_pending'[stream'[c][2]]
  <2>1. c + 1 \in DOMAIN stream /\ stream'[c] = stream[c + 1]
    BY <1>1, Zenon
  <2> QED BY <1>3, <2>1, Zenon DEF OnTheBooks
<1> QED BY <1>2, <1>3, Zenon DEF OnTheBooks

\* A copy and its event are enqueued.
LEMMA Longer ==
  ASSUME StreamOK, NEW x \in Ops, NEW y \in Ops, IsConcat(stream', stream, <<x, y>>), NEW n, n = Len(stream)
  PROVE  /\ stream' \in Seq(Ops) /\ n \in Nat /\ DOMAIN stream = 1 .. n /\ DOMAIN stream' = 1 .. n + 2
         /\ \A c \in 1 .. n : stream'[c] = stream[c]
         /\ stream'[n + 1] = x /\ stream'[n + 2] = y
<1>1. stream \in Seq(Ops)
  BY DEF StreamOK
<1>2. PICK t : t = <<x, y>>
  OBVIOUS
<1>3. t \in Seq(Ops) /\ Len(t) = 2 /\ t[1] = x /\ t[2] = y
  BY <1>2
<1>4. n \in Nat /\ DOMAIN stream = 1 .. n
  BY <1>1
<1>5. Sized(stream, Ops, n) /\ Sized(t, Ops, 2) /\ IsConcat(stream', stream, t)
  BY <1>1, <1>2, <1>3 DEF Sized
<1>6. /\ Sized(stream', Ops, n + 2)
      /\ \A i \in 1 .. n : stream'[i] = stream[i]
      /\ \A i \in 1 .. 2 : stream'[n + i] = t[i]
  BY <1>4, <1>5, Joined
<1>7. stream' \in Seq(Ops) /\ DOMAIN stream' = 1 .. n + 2
  BY <1>4, <1>6 DEF Sized
<1>8. stream'[n + 1] = x /\ stream'[n + 2] = y
  BY <1>3, <1>6
<1> QED BY <1>4, <1>6, <1>7, <1>8, Zenon

LEMMA BooksAppend ==
  ASSUME StreamOK, OnTheBooks, NEW d \in Nat,
         IsConcat(stream', stream, <<<<"copy", next_slot, d>>, <<"event", next_slot>>>>),
         slot_pending' = [slot_pending EXCEPT ![next_slot] = TRUE]
  PROVE  OnTheBooks'
<1>1. PICK x \in Ops, y \in Ops : x = <<"copy", next_slot, d>> /\ y = <<"event", next_slot>>
  BY OpsTyped DEF StreamOK
<1>2. PICK n : n = Len(stream)
  OBVIOUS
<1>3. /\ n \in Nat /\ DOMAIN stream = 1 .. n /\ DOMAIN stream' = 1 .. n + 2
      /\ \A c \in 1 .. n : stream'[c] = stream[c]
      /\ stream'[n + 1] = x /\ stream'[n + 2] = y
  BY <1>1, <1>2, Longer
<1>4. x[1] = "copy" /\ x[2] = next_slot /\ y[1] = "event" /\ y[2] = next_slot
  BY <1>1
<1>5. \A c \in 1 .. n + 2 : c \in 1 .. n \/ c = n + 1 \/ c = n + 2
  BY <1>3
<1>6. ASSUME NEW c \in 1 .. n + 2, stream'[c][1] = "copy"
      PROVE  c + 1 \in 1 .. n + 2 /\ stream'[c + 1] = <<"event", stream'[c][2]>>
  <2>1. CASE c \in 1 .. n
    <3>1. stream[c][1] = "copy"
      BY <1>3, <1>6, <2>1, Zenon
    <3>2. c + 1 \in 1 .. n /\ stream[c + 1] = <<"event", stream[c][2]>>
      BY <1>3, <2>1, <3>1, Zenon DEF OnTheBooks
    <3>3. c + 1 \in 1 .. n + 2
      BY <1>3, <3>2
    <3> QED BY <1>3, <2>1, <3>2, <3>3, Zenon
  <2>2. CASE c = n + 1
    <3>1. c + 1 = n + 2 /\ n + 2 \in 1 .. n + 2
      BY <1>3, <2>2
    <3> QED BY <1>1, <1>3, <1>4, <2>2, <3>1, Zenon
  <2>3. CASE c = n + 2
    <3>1. "copy" # "event"
      OBVIOUS
    <3> QED BY <1>3, <1>4, <1>6, <2>3, <3>1, Zenon
  <2> QED BY <1>5, <2>1, <2>2, <2>3
<1>7. ASSUME NEW c \in 1 .. n + 2, stream'[c][1] = "event" PROVE slot_pending'[stream'[c][2]]
  <2>1. CASE c \in 1 .. n
    <3>1. stream[c][1] = "event" /\ stream'[c] = stream[c]
      BY <1>3, <1>7, <2>1, Zenon
    <3>2. slot_pending[stream[c][2]]
      BY <1>3, <2>1, <3>1, Zenon DEF OnTheBooks
    <3>3. stream[c][2] \in 0 .. 1
      <4>1. stream[c] \in Ops
        BY <1>3, <2>1, StreamDomain
      <4> QED BY <4>1, OpKinds
    <3> QED BY <3>1, <3>2, <3>3 DEF StreamOK
  <2>2. CASE c = n + 1 \/ c = n + 2
    <3>1. stream'[c][2] = next_slot
      BY <1>3, <1>4, <2>2, Zenon
    <3> QED BY <3>1 DEF StreamOK
  <2> QED BY <1>5, <2>1, <2>2
<1> QED BY <1>3, <1>6, <1>7, Zenon DEF OnTheBooks

-----------------------------------------------------------------------------
(***************************************************************************)
(* The device brings every element it is given to its place.               *)
(***************************************************************************)
LEMMA TargetStep ==
  ASSUME MapOK, NEW k \in 1 .. Len(weight_map), NEW o \in Elements(k), NEW x \in Nat, x > 0
  PROVE  /\ Target(k, o) \in Nat /\ o \in Nat
         /\ Target(k, o) + x - 1 = Target(k, o + x - 1)
         /\ x <= num_elements(weight_map[k]) - o => o + x - 1 \in Elements(k)
<1>1. PICK e \in Nat, n \in Nat : e = EntryOffset(weight_map[k], checkpoint.lm_head) /\ n = num_elements(weight_map[k])
  BY DEF MapOK
<1>2. \A i : Target(k, i) = e + i
  BY <1>1 DEF Target
<1>3. o \in 0 .. n - 1 /\ Elements(k) = 0 .. n - 1
  BY <1>1 DEF Elements
<1> HIDE <1>1
<1>4. o \in Nat /\ e + o \in Nat /\ (e + o) + x - 1 = e + (o + x - 1)
  BY <1>3
<1>5. x <= n - o => o + x - 1 \in 0 .. n - 1
  BY <1>3
<1>6. Target(k, o) + x - 1 = Target(k, o + x - 1)
  BY <1>2, <1>4
<1>7. x <= num_elements(weight_map[k]) - o => o + x - 1 \in Elements(k)
  BY <1>1, <1>3, <1>5
<1> QED BY <1>2, <1>4, <1>6, <1>7

\* What a chunk brings to a position is what belongs there.
LEMMA ChunkFits ==
  ASSUME MapOK, NEW op, op[3] \in Nat, CarriesChunk(op),
         NEW m \in 1 .. Len(weight_map), NEW j \in Elements(m), Target(m, j) - op[3] + 1 \in DOMAIN staging[op[2]]
  PROVE  staging[op[2]][Target(m, j) - op[3] + 1] = Element(m, j)
<1>0. DOMAIN weight_map = 1 .. Len(weight_map)
  BY DEF MapOK
<1>a. PICK k \in 1 .. Len(weight_map) :
        \E o \in Elements(k) : \E n \in 1 .. num_elements(weight_map[k]) - o :
          op[3] = Target(k, o) /\ staging[op[2]] = [i \in 1 .. n |-> Element(k, o + i - 1)]
  BY <1>0 DEF CarriesChunk
<1>b. PICK o \in Elements(k) : \E n \in 1 .. num_elements(weight_map[k]) - o :
        op[3] = Target(k, o) /\ staging[op[2]] = [i \in 1 .. n |-> Element(k, o + i - 1)]
  BY <1>a
<1>1. PICK n \in 1 .. num_elements(weight_map[k]) - o :
        op[3] = Target(k, o) /\ staging[op[2]] = [i \in 1 .. n |-> Element(k, o + i - 1)]
  BY <1>b
<1>2. PICK x : x = Target(m, j) - op[3] + 1
  OBVIOUS
<1>3. PICK z \in Nat : z = num_elements(weight_map[k]) /\ z > 0
  BY DEF MapOK
<1>4. Target(k, o) \in Nat /\ o \in Nat /\ Target(m, j) \in Nat /\ j \in Nat
  <2>1. 1 \in Nat /\ 1 > 0
    OBVIOUS
  <2> QED BY <2>1, TargetStep
<1>5. x \in 1 .. n
  BY <1>1, <1>2
<1>6. x \in Nat /\ x > 0 /\ x <= z - o
  BY <1>1, <1>3, <1>4, <1>5
<1>7. Target(m, j) = Target(k, o) + x - 1
  <2>1. PICK a \in Nat, b \in Nat : a = Target(m, j) /\ b = Target(k, o)
    BY <1>4
  <2>2. x = a - b + 1
    BY <1>1, <1>2, <2>1
  <2>3. a = b + x - 1
    BY <2>2
  <2> QED BY <2>1, <2>3
<1>8. Target(m, j) = Target(k, o + x - 1) /\ o + x - 1 \in Elements(k)
  BY <1>3, <1>6, <1>7, TargetStep
<1>9. m = k /\ j = o + x - 1
  BY <1>8 DEF MapOK
<1>10. staging[op[2]][x] = Element(k, o + x - 1)
  BY <1>1, <1>5
<1> QED BY <1>2, <1>9, <1>10

LEMMA CarriesSame ==
  ASSUME checkpoint' = checkpoint, NEW op, staging'[op[2]] = staging[op[2]], CarriesChunk(op)
  PROVE  CarriesChunk(op)'
  BY MapUnchanged DEF CarriesChunk

LEMMA CarriesAt ==
  ASSUME NEW c, NEW u, u = stream'[c], CarriesChunk(u)'
  PROVE  CarriesChunk(stream[c])'
  BY DEF CarriesChunk

LEMMA DeviceWrites ==
  ASSUME MapOK, StreamOK, Uploading, DOMAIN slab = {"state", "data"}, stage # "end", DeviceStep
  PROVE  Uploading'
<1>1. PICK op : op = Head(stream)
  OBVIOUS
<1>2. /\ stream # <<>> /\ stream' = Tail(stream) /\ checkpoint' = checkpoint /\ stage' = stage
      /\ entry' = entry /\ offset' = offset /\ next_slot' = next_slot
      /\ slot_pending' = slot_pending /\ staging' = staging
  BY DEF DeviceStep
<1>3. /\ 1 \in DOMAIN stream /\ op = stream[1]
      /\ \A c : c \in DOMAIN stream' <=> c + 1 \in DOMAIN stream /\ c \in Nat /\ c > 0
      /\ \A c \in DOMAIN stream' : stream'[c] = stream[c + 1]
  BY <1>1, <1>2, Shorter, Zenon
<1>4. op \in Ops
  BY <1>3, StreamDomain
<1>5. /\ slab.state = "live" /\ DOMAIN slab.data = 0 .. TotalElements(checkpoint.lm_head) - 1
      /\ OnTheBooks /\ AllCarry /\ OnTheWay /\ DOMAIN weight_map = 1 .. Len(weight_map)
      /\ entry \in DOMAIN weight_map => offset <= num_elements(weight_map[entry])
      /\ stage = "sync" => entry = Len(weight_map) + 1
  BY DEF Uploading, MapOK
<1>6. OnTheBooks'
  BY <1>2, <1>5, BooksTail
<1>7. AllCarry'
  <2> SUFFICES ASSUME NEW c \in DOMAIN stream', stream'[c][1] = "copy" PROVE CarriesChunk(stream[c])'
    BY DEF AllCarry
  <2>1. PICK x : x = stream'[c]
    OBVIOUS
  <2>2. CarriesChunk(x)
    BY <1>3, <1>5, <2>1, Zenon DEF AllCarry
  <2>3. CarriesChunk(x)'
    BY <1>2, <2>2, CarriesSame
  <2> QED BY <2>1, <2>3, CarriesAt
<1>8. /\ DOMAIN slab' = {"state", "data"} /\ slab'.state = "live" /\ DOMAIN slab'.data = DOMAIN slab.data
      /\ \A t \in DOMAIN slab.data :
           slab'.data[t] = IF op[1] = "copy" /\ t - op[3] + 1 \in DOMAIN staging[op[2]]
                           THEN staging[op[2]][t - op[3] + 1] ELSE slab.data[t]
  <2>1. CASE op[1] = "copy"
    <3>1. slab' = [slab EXCEPT !.data =
                     [i \in DOMAIN slab.data |->
                        IF i - op[3] + 1 \in DOMAIN staging[op[2]] THEN staging[op[2]][i - op[3] + 1]
                        ELSE slab.data[i]]]
      BY <1>1, <1>5, <2>1, Zenon DEF DeviceStep
    <3> QED BY <1>5, <2>1, <3>1
  <2>2. CASE op[1] # "copy"
    BY <1>1, <1>5, <2>2 DEF DeviceStep
  <2> QED BY <2>1, <2>2
<1>9. ASSUME NEW k \in 1 .. Len(weight_map), NEW i \in Elements(k), Issued(k, i)
      PROVE  slab'.data[Target(k, i)] = Element(k, i) \/ WillWrite(Target(k, i))'
  <2>1. PICK t : t = Target(k, i)
    OBVIOUS
  <2>2. t \in DOMAIN slab.data
    BY <1>5, <2>1 DEF MapOK
  <2>3. CASE op[1] = "copy" /\ t - op[3] + 1 \in DOMAIN staging[op[2]]
    <3>1. op[3] \in Nat /\ CarriesChunk(op)
      BY <1>3, <1>4, <1>5, <2>3, OpKinds DEF AllCarry
    <3>2. staging[op[2]][t - op[3] + 1] = Element(k, i)
      BY <2>1, <2>3, <3>1, ChunkFits
    <3>3. slab'.data[t] = staging[op[2]][t - op[3] + 1]
      BY <1>8, <2>2, <2>3
    <3> QED BY <2>1, <3>2, <3>3
  <2>4. CASE ~(op[1] = "copy" /\ t - op[3] + 1 \in DOMAIN staging[op[2]])
    <3>1. slab'.data[t] = slab.data[t]
      BY <1>8, <2>2, <2>4
    <3>2. CASE slab.data[t] = Element(k, i)
      BY <2>1, <3>1, <3>2
    <3>3. CASE WillWrite(t)
      <4>1. PICK c \in DOMAIN stream : stream[c][1] = "copy" /\ t - stream[c][3] + 1 \in DOMAIN staging[stream[c][2]]
        BY <3>3 DEF WillWrite
      <4>2. c # 1
        BY <1>3, <2>4, <4>1
      <4>3. c \in Nat /\ c > 0
        BY StreamDomain
      <4>4. c - 1 \in Nat /\ c - 1 > 0 /\ (c - 1) + 1 = c
        BY <4>2, <4>3
      <4>5. c - 1 \in DOMAIN stream' /\ stream'[c - 1] = stream[c]
        BY <1>3, <4>4
      <4>6. WillWrite(t)'
        BY <1>2, <4>1, <4>5 DEF WillWrite
      <4>7. Target(k, i)' = t
        BY <1>2, <2>1, MapUnchanged
      <4> QED BY <4>6, <4>7 DEF WillWrite
    <3> QED BY <1>5, <1>9, <2>1, <3>2, <3>3 DEF OnTheWay
  <2> QED BY <2>3, <2>4
<1>10. OnTheWay'
  <2>1. weight_map' = weight_map /\ (\A k, i : Target(k, i)' = Target(k, i) /\ Element(k, i)' = Element(k, i))
        /\ \A k : Elements(k)' = Elements(k)
    BY <1>2, MapUnchanged
  <2>2. \A k, i : Issued(k, i)' <=> Issued(k, i)
    BY <1>2 DEF Issued
  <2> QED BY <1>5, <1>9, <2>1, <2>2 DEF OnTheWay
<1>11. weight_map' = weight_map
  BY <1>2, MapUnchanged
<1> QED BY <1>2, <1>5, <1>6, <1>7, <1>8, <1>10, <1>11, Zenon DEF Uploading

-----------------------------------------------------------------------------
(***************************************************************************)
(* The host issues the chunks.                                             *)
(***************************************************************************)
LEMMA LeastOf ==
  ASSUME NEW T \in SUBSET Nat, T # {}
  PROVE  Min(T) \in T
<1>1. \E x \in T : \A y \in T : x <= y
  BY LeastElement
<1> QED BY <1>1, Zenon DEF Min

LEMMA ChunkSizes ==
  ASSUME MapOK, entry \in 1 .. Len(weight_map), offset \in Nat, offset < num_elements(weight_map[entry])
  PROVE  ChunkSize \in Nat /\ ChunkSize > 0 /\ offset + ChunkSize <= num_elements(weight_map[entry])
<1>1. PICK n \in Nat : n = num_elements(weight_map[entry])
  BY DEF MapOK
<1>2. ChunkElements \in Nat /\ ChunkElements > 0
  BY LoadAssumption
<1>3. PICK r \in Nat : r = n - offset /\ r > 0
  BY <1>1
<1>4. PICK T : T = {ChunkElements, r}
  OBVIOUS
<1>5. Min(T) \in T
  BY <1>2, <1>4, LeastOf
<1>6. Min(T) <= r
  <2>1. \E x \in T : \A y \in T : x <= y
    BY <1>2, <1>4
  <2>2. \A y \in T : Min(T) <= y
    BY <2>1, Zenon DEF Min
  <2> QED BY <1>4, <2>2
<1>7. ChunkSize = Min(T)
  BY <1>1, <1>3, <1>4 DEF ChunkSize
<1> QED BY <1>1, <1>2, <1>3, <1>4, <1>5, <1>6, <1>7

LEMMA ChunkIssued ==
  ASSUME MapOK, StreamOK, Uploading, DOMAIN staging = 0 .. 1,
         stage = "upload", entry \in 1 .. Len(weight_map), offset \in Nat,
         offset < num_elements(weight_map[entry]), SlotFree(next_slot),
         NEW dst, dst = EntryOffset(weight_map[entry], checkpoint.lm_head) + offset,
         IsConcat(stream', stream, <<<<"copy", next_slot, dst>>, <<"event", next_slot>>>>),
         staging' = [staging EXCEPT ![next_slot] =
                       [i \in 1 .. ChunkSize |-> ElementOf(weight_map[entry], offset + i - 1)]],
         slot_pending' = [slot_pending EXCEPT ![next_slot] = TRUE],
         offset' = offset + ChunkSize, UNCHANGED <<checkpoint, stage, entry, slab>>
  PROVE  Uploading'
<1>1. PICK cs \in Nat : cs = ChunkSize /\ cs > 0 /\ offset + cs <= num_elements(weight_map[entry])
  BY ChunkSizes
<1>2. PICK eo \in Nat, ne \in Nat :
        eo = EntryOffset(weight_map[entry], checkpoint.lm_head) /\ ne = num_elements(weight_map[entry])
  BY DEF MapOK
<1>3. dst \in Nat /\ dst = eo + offset
  BY <1>2
<1>4. PICK x \in Ops, y \in Ops : x = <<"copy", next_slot, dst>> /\ y = <<"event", next_slot>>
  BY <1>3, OpsTyped DEF StreamOK
<1>5. PICK n : n = Len(stream)
  OBVIOUS
<1>6. /\ n \in Nat /\ DOMAIN stream = 1 .. n /\ DOMAIN stream' = 1 .. n + 2
      /\ \A c \in 1 .. n : stream'[c] = stream[c]
      /\ stream'[n + 1] = x /\ stream'[n + 2] = y
  <2>1. IsConcat(stream', stream, <<x, y>>)
    BY <1>4
  <2> HIDE <1>1, <1>2, <1>3, <1>4
  <2> QED BY <1>5, <2>1, Longer
<1>7. x[1] = "copy" /\ x[2] = next_slot /\ x[3] = dst /\ y[1] = "event"
  BY <1>4
<1>8. /\ slab.state = "live" /\ DOMAIN slab.data = 0 .. TotalElements(checkpoint.lm_head) - 1
      /\ OnTheBooks /\ AllCarry /\ OnTheWay /\ DOMAIN weight_map = 1 .. Len(weight_map)
  BY DEF Uploading, MapOK
<1>9. OnTheBooks'
  BY <1>3, <1>8, BooksAppend
<1>10. /\ next_slot \in 0 .. 1
       /\ staging'[next_slot] = [i \in 1 .. cs |-> ElementOf(weight_map[entry], offset + i - 1)]
       /\ \A s \in 0 .. 1 : s # next_slot => staging'[s] = staging[s]
  BY <1>1 DEF StreamOK
<1>11. \A c \in 1 .. n : staging'[stream[c][2]] = staging[stream[c][2]]
  <2> TAKE c \in 1 .. n
  <2>1. stream[c] \in Ops
    BY <1>6, StreamDomain
  <2>2. stream[c][2] \in 0 .. 1
    BY <2>1, OpKinds
  <2>3. stream[c][2] # next_slot
    BY <1>6, <1>8, <1>10, SlotIdle
  <2> QED BY <1>10, <2>2, <2>3
<1>12. checkpoint' = checkpoint /\ entry' = entry /\ slab' = slab /\ stage' = stage
  OBVIOUS
<1>13. /\ weight_map' = weight_map /\ \A k : Elements(k)' = Elements(k)
       /\ \A k, i : Target(k, i)' = Target(k, i) /\ Element(k, i)' = Element(k, i)
  BY <1>12, MapUnchanged
<1>14. \A c \in 1 .. n + 2 : c \in 1 .. n \/ c = n + 1 \/ c = n + 2
  BY <1>6
<1>15. CarriesChunk(x)'
  <2>1. Elements(entry) = 0 .. ne - 1 /\ offset \in 0 .. ne - 1
    BY <1>2 DEF Elements
  <2>2. x[3] = Target(entry, offset)
    BY <1>2, <1>3, <1>7 DEF Target
  <2>3. cs \in 1 .. ne - offset
    BY <1>1, <1>2
  <2>4. staging'[x[2]] = [i \in 1 .. cs |-> Element(entry, offset + i - 1)]
    BY <1>7, <1>10 DEF Element
  <2>5. PICK e \in 1 .. Len(weight_map), o \in 0 .. ne - 1 : e = entry /\ o = offset
    BY <2>1
  <2>6. /\ o \in Elements(e)' /\ cs \in 1 .. num_elements(weight_map'[e]) - o
        /\ x[3] = Target(e, o)' /\ staging'[x[2]] = [i \in 1 .. cs |-> Element(e, o + i - 1)']
        /\ e \in DOMAIN weight_map'
    BY <1>2, <1>8, <1>13, <2>1, <2>2, <2>3, <2>4, <2>5
  <2> QED BY <2>6 DEF CarriesChunk
<1>16. AllCarry'
  <2> SUFFICES ASSUME NEW c \in 1 .. n + 2, stream'[c][1] = "copy" PROVE CarriesChunk(stream[c])'
    BY <1>6 DEF AllCarry
  <2>1. PICK u : u = stream'[c]
    OBVIOUS
  <2>2. CASE c \in 1 .. n
    <3>1. u = stream[c] /\ CarriesChunk(u)
      BY <1>6, <1>8, <2>1, <2>2, Zenon DEF AllCarry
    <3>2. CarriesChunk(u)'
      BY <1>11, <1>12, <2>2, <3>1, CarriesSame
    <3> QED BY <2>1, <3>2, CarriesAt, Zenon
  <2>3. CASE c = n + 1
    <3>1. u = x
      BY <1>6, <2>1, <2>3
    <3>2. CarriesChunk(u)'
      BY <1>15, <3>1
    <3> QED BY <2>1, <3>2, CarriesAt, Zenon
  <2>4. CASE c = n + 2
    BY <1>6, <1>7, <2>4
  <2> QED BY <1>14, <2>2, <2>3, <2>4
<1>17. ASSUME NEW k \in 1 .. Len(weight_map), NEW i \in Elements(k), Issued(k, i)'
       PROVE  slab.data[Target(k, i)] = Element(k, i) \/ WillWrite(Target(k, i))'
  <2>1. PICK t : t = Target(k, i)
    OBVIOUS
  <2>2. Target(k, i)' = t
    BY <1>13, <2>1
  <2>3. CASE Issued(k, i)
    <3>1. slab.data[t] = Element(k, i) \/ WillWrite(t)
      BY <1>8, <2>1, <2>3 DEF OnTheWay
    <3>2. CASE WillWrite(t)
      <4>1. PICK c \in DOMAIN stream : stream[c][1] = "copy" /\ t - stream[c][3] + 1 \in DOMAIN staging[stream[c][2]]
        BY <3>2 DEF WillWrite
      <4>2. c \in 1 .. n /\ c \in 1 .. n + 2
        BY <1>6
      <4>3. stream'[c] = stream[c] /\ staging'[stream[c][2]] = staging[stream[c][2]]
        BY <1>6, <1>11, <4>2
      <4>4. WillWrite(t)'
        BY <1>6, <4>1, <4>2, <4>3 DEF WillWrite
      <4> QED BY <2>2, <4>4 DEF WillWrite
    <3> QED BY <2>1, <3>1, <3>2
  <2>4. CASE ~Issued(k, i)
    <3>1. k = entry /\ i \in Int /\ offset <= i /\ i < offset + cs
      BY <1>1, <1>12, <1>17, <2>4 DEF Issued, Elements
    <3>2. t = eo + i
      BY <1>2, <2>1, <3>1 DEF Target
    <3>3. t - dst + 1 \in 1 .. cs
      BY <1>3, <3>1, <3>2
    <3>4. n + 1 \in DOMAIN stream'
      BY <1>6
    <3>5. stream'[n + 1][1] = "copy" /\ t - stream'[n + 1][3] + 1 \in DOMAIN staging'[stream'[n + 1][2]]
      BY <1>6, <1>7, <1>10, <3>3
    <3>6. WillWrite(t)'
      BY <3>4, <3>5 DEF WillWrite
    <3> QED BY <2>2, <3>6 DEF WillWrite
  <2> QED BY <2>3, <2>4
<1>18. OnTheWay'
  BY <1>8, <1>12, <1>13, <1>17 DEF OnTheWay
<1>19. offset' <= num_elements(weight_map'[entry])
  BY <1>1, <1>13
<1> QED BY <1>8, <1>9, <1>12, <1>13, <1>16, <1>18, <1>19 DEF Uploading

-----------------------------------------------------------------------------
(***************************************************************************)
(* The invariant, action by action.                                        *)
(***************************************************************************)
LEMMA InvBasics ==
  ASSUME LoadInv
  PROVE  /\ MapOK /\ StreamOK /\ LoadTypeOK /\ DOMAIN weight_map = 1 .. Len(weight_map)
         /\ Len(weight_map) \in Nat /\ Len(weight_map) > 0 /\ checkpoint \in Checkpoints
<1>1. LoadTypeOK
  BY DEF LoadInv
<1>2. checkpoint \in Checkpoints /\ StreamOK
  BY <1>1 DEF LoadTypeOK, StreamOK
<1>3. MapOK
  BY <1>2, MapIsOK
<1> QED BY <1>1, <1>2, <1>3 DEF MapOK

\* What a step that issues nothing new leaves alone.
LEMMA SoundStays ==
  ASSUME checkpoint' = checkpoint, Sound, \A k \in DOMAIN weight_map : \A i \in Elements(k) : Issued(k, i)' => Issued(k, i)
  PROVE  Sound'
<1>1. /\ weight_map' = weight_map /\ \A k : Elements(k)' = Elements(k)
      /\ \A k, i : Element(k, i)' = Element(k, i)
  BY MapUnchanged
<1>2. \A e : ValidateEntry(e)' <=> ValidateEntry(e)
  BY DEF ValidateEntry, IsAt
<1>3. \A k \in DOMAIN weight_map' : ValidateEntry(weight_map[k])'
  BY <1>1, <1>2 DEF Sound, ValidateEntry, IsAt
<1> QED BY <1>1, <1>3, Zenon DEF Sound

LEMMA SoundKept ==
  ASSUME UNCHANGED <<checkpoint, entry, offset>>, Sound
  PROVE  Sound'
<1>1. \A k, i : Issued(k, i)' => Issued(k, i)
  BY DEF Issued
<1> QED BY <1>1, SoundStays

LEMMA BooksKept ==
  ASSUME UNCHANGED <<stream, slot_pending>>, OnTheBooks
  PROVE  OnTheBooks'
  BY DEF OnTheBooks

LEMMA PlacedKept ==
  ASSUME UNCHANGED <<checkpoint, stream, slab>>, Placed
  PROVE  Placed'
  BY MapUnchanged DEF Placed

LEMMA Validates ==
  ASSUME LoadInv, ValidateInventory
  PROVE  LoadInv'
<1>1. /\ LoadTypeOK /\ MapOK /\ DOMAIN weight_map = 1 .. Len(weight_map)
  BY InvBasics
<1>2. /\ stage = "validate" /\ entry = 1 /\ offset = 0 /\ slab.state = "none" /\ stream = <<>>
      /\ slot_pending = [s \in 0 .. 1 |-> FALSE] /\ (error # NoElement => error = checkpoint.at)
  BY DEF ValidateInventory, LoadInv
<1>3. /\ UNCHANGED <<checkpoint, entry, offset, next_slot, slot_pending, staging, stream, slab, faults>>
      /\ stage' \in {"alloc", "uploader"} /\ (error' = error \/ error' = checkpoint.at)
  BY DEF ValidateInventory
<1>4. weight_map' = weight_map
  BY <1>3, MapUnchanged
<1>5. LoadTypeOK'
  BY <1>1, <1>2, <1>3, <1>4 DEF LoadTypeOK, Stages
<1>6. OnTheBooks'
  BY <1>2, <1>3 DEF OnTheBooks
<1>7. stage' = "alloc" => Sound'
  <2> HAVE stage' = "alloc"
  <2>1. (checkpoint.lm_head \/ checkpoint.tied) /\ \A k \in DOMAIN weight_map : ValidateEntry(weight_map[k])
    BY DEF ValidateInventory
  <2>2. \A k \in DOMAIN weight_map : \A i \in Elements(k) : ~Issued(k, i)
    BY <1>1, <1>2 DEF Issued, Elements
  <2>3. Sound
    BY <2>1, <2>2, Zenon DEF Sound
  <2> QED BY <1>3, <2>3, SoundKept
<1> QED BY <1>2, <1>3, <1>5, <1>6, <1>7 DEF LoadInv

LEMMA Allocates ==
  ASSUME LoadInv, AllocSlab
  PROVE  LoadInv'
<1>1. /\ LoadTypeOK /\ MapOK /\ DOMAIN weight_map = 1 .. Len(weight_map) /\ StreamOK
  BY InvBasics
<1>2. /\ stage = "alloc" /\ entry = 1 /\ offset = 0 /\ slab.state = "none" /\ stream = <<>> /\ Sound
      /\ error # NoElement => error = checkpoint.at
  BY DEF AllocSlab, LoadInv
<1>3. UNCHANGED <<checkpoint, entry, offset, next_slot, slot_pending, staging, stream, error>>
  BY DEF AllocSlab
<1>4. /\ weight_map' = weight_map /\ \A k : Elements(k)' = Elements(k)
  BY <1>3, MapUnchanged
<1>5. Sound' /\ OnTheBooks'
  <2>1. Sound'
    BY <1>2, <1>3, SoundKept
  <2> QED BY <1>2, <1>3, <2>1 DEF OnTheBooks
<1>6. CASE stage' = "uploader" /\ slab' = slab
  <2>1. LoadTypeOK'
    BY <1>1, <1>2, <1>3, <1>4, <1>6 DEF LoadTypeOK, Stages
  <2> QED BY <1>2, <1>3, <1>5, <1>6, <2>1 DEF LoadInv
<1>7. CASE /\ stage' = "upload"
           /\ slab' = [state |-> "live",
                       data |-> [i \in 0 .. TotalElements(checkpoint.lm_head) - 1 |-> NoElement]]
  <2>1. LoadTypeOK'
    BY <1>1, <1>2, <1>3, <1>4, <1>7 DEF LoadTypeOK, Stages
  <2>2. slab'.state = "live" /\ DOMAIN slab'.data = 0 .. TotalElements(checkpoint'.lm_head) - 1
    BY <1>3, <1>7
  <2>3. AllCarry'
    BY <1>2, <1>3 DEF AllCarry
  <2>4. OnTheWay'
    <3>1. \A k \in DOMAIN weight_map : \A i \in Elements(k) : ~Issued(k, i)'
      BY <1>1, <1>2, <1>3 DEF Issued, Elements
    <3> QED BY <1>4, <3>1, Zenon DEF OnTheWay
  <2>5. entry' \in DOMAIN weight_map' => offset' <= num_elements(weight_map'[entry'])
    <3>1. 1 \in 1 .. Len(weight_map) => 0 <= num_elements(weight_map[1])
      BY <1>1 DEF MapOK
    <3> QED BY <1>1, <1>2, <1>3, <1>4, <3>1
  <2>6. Uploading'
    BY <1>5, <1>7, <2>2, <2>3, <2>4, <2>5 DEF Uploading
  <2> QED BY <1>2, <1>3, <1>5, <1>7, <2>1, <2>2, <2>6 DEF LoadInv
<1> QED BY <1>6, <1>7 DEF AllocSlab

\* The state the upload loop works in.
LEMMA InUpload ==
  ASSUME LoadInv, stage = "upload"
  PROVE  /\ Uploading /\ Sound /\ OnTheBooks /\ slab.state = "live" /\ DOMAIN staging = 0 .. 1
         /\ next_slot \in 0 .. 1 /\ slot_pending \in [0 .. 1 -> BOOLEAN]
         /\ entry \in Nat /\ entry > 0 /\ offset \in Nat
         /\ error # NoElement => error = checkpoint.at
<1>1. /\ Uploading /\ Sound /\ LoadTypeOK /\ (error # NoElement => error = checkpoint.at)
  BY DEF LoadInv
<1>2. OnTheBooks /\ slab.state = "live"
  BY <1>1 DEF Uploading
<1>3. Len(weight_map) \in Nat
  BY InvBasics
<1> QED BY <1>1, <1>2, <1>3 DEF LoadTypeOK

\* A step of the loop that gives up keeps the slab and goes to the handler.
LEMMA GivesUp ==
  ASSUME LoadInv, stage \in {"upload", "sync"}, stage' = "drain",
         UNCHANGED <<checkpoint, entry, offset, next_slot, slab>>,
         DOMAIN staging' = 0 .. 1, stream' \in Seq(Ops), slot_pending' \in [0 .. 1 -> BOOLEAN],
         ~RecordFails => OnTheBooks', error' # NoElement => error' = checkpoint'.at
  PROVE  LoadInv'
<1>1. LoadTypeOK /\ weight_map' = weight_map /\ Sound /\ slab.state = "live"
  BY MapUnchanged DEF LoadInv, Uploading
<1>2. LoadTypeOK'
  BY <1>1 DEF LoadTypeOK, Stages
<1>3. Sound'
  BY <1>1, SoundKept
<1> QED BY <1>1, <1>2, <1>3 DEF LoadInv

LEMMA CopyGivesUp ==
  ASSUME LoadInv, CopyFails
  PROVE  LoadInv'
<1>1. /\ OnTheBooks /\ DOMAIN staging = 0 .. 1 /\ slot_pending \in [0 .. 1 -> BOOLEAN]
      /\ error # NoElement => error = checkpoint.at
  BY InUpload DEF CopyFails
<1>2. /\ stage = "upload" /\ stage' = "drain" /\ SlotFree(next_slot)
      /\ slot_pending' = [slot_pending EXCEPT ![next_slot] = FALSE]
      /\ UNCHANGED <<checkpoint, entry, offset, next_slot, stream, slab, error>>
  BY DEF CopyFails, Fails
<1>3. DOMAIN staging' = 0 .. 1
  BY <1>1 DEF CopyFails
<1>4. StreamOK
  BY InvBasics
<1>5. OnTheBooks'
  BY <1>1, <1>2, <1>4, BooksClear
<1>6. stream' \in Seq(Ops) /\ slot_pending' \in [0 .. 1 -> BOOLEAN]
  BY <1>1, <1>2, <1>4 DEF StreamOK
<1> QED BY <1>1, <1>2, <1>3, <1>5, <1>6, GivesUp

LEMMA LossGivesUp ==
  ASSUME LoadInv, DeviceLost
  PROVE  LoadInv'
<1>1. LoadTypeOK /\ (error # NoElement => error = checkpoint.at)
  BY DEF LoadInv
<1>2. /\ stage \in {"upload", "sync"} /\ stage' = "drain" /\ stream' = <<>>
      /\ UNCHANGED <<checkpoint, entry, offset, next_slot, slot_pending, staging, slab, error>>
  BY DEF DeviceLost, Fails
<1>3. OnTheBooks'
  BY <1>2 DEF OnTheBooks
<1>4. /\ DOMAIN staging' = 0 .. 1 /\ stream' \in Seq(Ops) /\ slot_pending' \in [0 .. 1 -> BOOLEAN]
  BY <1>1, <1>2 DEF LoadTypeOK
<1> QED BY <1>1, <1>2, <1>3, <1>4, GivesUp, InvBasics DEF LoadInv

LEMMA MovesOn ==
  ASSUME LoadInv, NextEntry
  PROVE  LoadInv'
<1>1. /\ LoadTypeOK /\ MapOK /\ DOMAIN weight_map = 1 .. Len(weight_map)
      /\ Len(weight_map) \in Nat /\ Uploading /\ Sound /\ OnTheBooks /\ slab.state = "live"
      /\ entry \in Nat /\ entry > 0 /\ (error # NoElement => error = checkpoint.at)
  BY InvBasics, InUpload DEF NextEntry
<1>2. /\ stage = "upload" /\ entry <= Len(weight_map) /\ offset = num_elements(weight_map[entry])
      /\ entry' = entry + 1 /\ offset' = 0
      /\ stage' = IF entry = Len(weight_map) THEN "sync" ELSE "upload"
      /\ UNCHANGED <<checkpoint, next_slot, slot_pending, staging, stream, slab, error, faults>>
  BY DEF NextEntry
<1>3. /\ weight_map' = weight_map /\ \A k : Elements(k)' = Elements(k)
      /\ \A k, i : Target(k, i)' = Target(k, i) /\ Element(k, i)' = Element(k, i)
  BY <1>2, MapUnchanged
<1>4. ASSUME NEW k \in DOMAIN weight_map, NEW i \in Elements(k), Issued(k, i)' PROVE Issued(k, i)
  <2>1. PICK n \in Nat : n = num_elements(weight_map[k])
    BY <1>1 DEF MapOK
  <2>2. i \in 0 .. n - 1
    BY <2>1 DEF Elements
  <2>3. k < entry + 1
    BY <1>2, <1>4, <2>2 DEF Issued
  <2>4. k \in Nat
    BY <1>1
  <2>5. CASE k = entry
    <3>1. offset = n
      BY <1>2, <2>1, <2>5
    <3> QED BY <2>2, <2>5, <3>1 DEF Issued
  <2>6. CASE k # entry
    BY <1>1, <2>3, <2>4, <2>6 DEF Issued
  <2> QED BY <2>5, <2>6
<1>5. Sound'
  BY <1>1, <1>2, <1>4, SoundStays
<1>6. LoadTypeOK'
  <2>1. entry' \in 1 .. Len(weight_map') + 1 /\ offset' \in Nat
    <3>1. PICK N \in Nat : N = Len(weight_map)
      BY <1>1
    <3>2. entry \in Nat /\ entry > 0 /\ entry <= N
      BY <1>1, <1>2, <3>1
    <3>3. entry + 1 \in 1 .. N + 1
      BY <3>2
    <3>4. entry' = entry + 1 /\ offset' = 0 /\ Len(weight_map') = N
      BY <1>2, <1>3, <3>1
    <3> QED BY <3>3, <3>4
  <2>2. stage' \in Stages /\ stage' # "end" /\ stage # "end"
    BY <1>2 DEF Stages
  <2> QED BY <1>1, <1>2, <2>1, <2>2 DEF LoadTypeOK
<1>7. OnTheBooks'
  BY <1>1, <1>2, BooksKept
<1>8. AllCarry'
  <2>1. \A c \in DOMAIN stream : CarriesChunk(stream[c]) => CarriesChunk(stream[c])'
    BY <1>2, <1>3 DEF CarriesChunk
  <2> QED BY <1>1, <1>2, <2>1 DEF AllCarry, Uploading
<1>9. OnTheWay'
  <2>1. \A t : WillWrite(t) => WillWrite(t)'
    BY <1>2 DEF WillWrite
  <2>2. ASSUME NEW k \in DOMAIN weight_map, NEW i \in Elements(k), Issued(k, i)'
        PROVE  slab'.data[Target(k, i)'] = Element(k, i)' \/ WillWrite(Target(k, i))'
    <3>1. PICK t : t = Target(k, i)
      OBVIOUS
    <3>2. slab.data[t] = Element(k, i) \/ WillWrite(t)
      BY <1>1, <1>4, <2>2, <3>1 DEF Uploading, OnTheWay
    <3>3. Target(k, i)' = t /\ Element(k, i)' = Element(k, i)
      BY <1>3, <3>1
    <3>4. WillWrite(t)' => WillWrite(Target(k, i))'
      BY <3>3 DEF WillWrite
    <3> QED BY <1>2, <2>1, <3>2, <3>3, <3>4
  <2> QED BY <1>3, <2>2, Zenon DEF OnTheWay
<1>10. entry' \in DOMAIN weight_map' => offset' <= num_elements(weight_map'[entry'])
  <2>1. \A k \in DOMAIN weight_map : 0 <= num_elements(weight_map[k])
    BY <1>1 DEF MapOK
  <2> QED BY <1>2, <1>3, <2>1
<1>11. Uploading'
  BY <1>1, <1>2, <1>3, <1>7, <1>8, <1>9, <1>10 DEF Uploading
<1> QED BY <1>1, <1>2, <1>5, <1>6, <1>7, <1>11 DEF LoadInv

LEMMA Returns ==
  ASSUME LoadInv, Resident
  PROVE  LoadInv'
<1>1. /\ LoadTypeOK /\ StreamOK /\ DOMAIN weight_map = 1 .. Len(weight_map) /\ Len(weight_map) \in Nat
  BY InvBasics
<1>2. /\ stage = "sync" /\ SlotFree(0) /\ SlotFree(1) /\ slot_pending' = [s \in 0 .. 1 |-> FALSE]
      /\ stage' = "uploader"
      /\ UNCHANGED <<checkpoint, entry, offset, next_slot, staging, stream, slab, error, faults>>
  BY DEF Resident, Synchronize
<1>3. /\ Uploading /\ Sound
      /\ error # NoElement => error = checkpoint.at
  BY <1>2 DEF LoadInv
<1>4. slab.state = "live" /\ OnTheBooks /\ OnTheWay /\ entry = Len(weight_map) + 1
  BY <1>2, <1>3 DEF Uploading
<1>5. stream = <<>>
  BY <1>1, <1>2, <1>4, AllIdle
<1>6. Placed
  <2> SUFFICES ASSUME NEW k \in DOMAIN weight_map, NEW i \in Elements(k)
               PROVE  slab.data[Target(k, i)] = Element(k, i)
    BY <1>5 DEF Placed
  <2>1. Issued(k, i)
    BY <1>1, <1>4 DEF Issued
  <2>2. ~WillWrite(Target(k, i))
    BY <1>5 DEF WillWrite
  <2> QED BY <1>4, <2>1, <2>2, Zenon DEF OnTheWay
<1>7. Placed' /\ Sound' /\ weight_map' = weight_map
  BY <1>2, <1>3, <1>6, PlacedKept, SoundKept, MapUnchanged
<1>8. OnTheBooks'
  BY <1>2, <1>5 DEF OnTheBooks
<1>9. LoadTypeOK'
  <2>1. slot_pending' \in [0 .. 1 -> BOOLEAN] /\ stage' \in Stages
    BY <1>2 DEF Stages
  <2> QED BY <1>1, <1>2, <1>7, <2>1 DEF LoadTypeOK
<1> QED BY <1>2, <1>3, <1>4, <1>5, <1>7, <1>8, <1>9 DEF LoadInv

LEMMA Drains ==
  ASSUME LoadInv, DrainAndFree
  PROVE  LoadInv'
<1>1. LoadTypeOK /\ StreamOK
  BY InvBasics
<1>2. /\ stage = "drain" /\ SlotFree(0) /\ SlotFree(1) /\ slot_pending' = [s \in 0 .. 1 |-> FALSE]
      /\ slab' = FreedSlab /\ stage' = "uploader"
      /\ UNCHANGED <<checkpoint, entry, offset, next_slot, staging, stream, error, faults>>
  BY DEF DrainAndFree, Synchronize
<1>3. /\ Sound
      /\ error # NoElement => error = checkpoint.at
      /\ ~RecordFails => OnTheBooks
  BY <1>2 DEF LoadInv
<1>4. slab'.state = "freed" /\ DOMAIN slab' = {"state", "data"}
  BY <1>2 DEF FreedSlab
<1>5. ~RecordFails => stream' = <<>> /\ OnTheBooks'
  <2> HAVE ~RecordFails
  <2>1. stream = <<>>
    BY <1>1, <1>2, <1>3, AllIdle
  <2> QED BY <1>2, <2>1 DEF OnTheBooks
<1>6. Sound' /\ weight_map' = weight_map
  BY <1>2, <1>3, SoundKept, MapUnchanged
<1>7. LoadTypeOK'
  <2>1. slot_pending' \in [0 .. 1 -> BOOLEAN] /\ stage' \in Stages
    BY <1>2 DEF Stages
  <2> QED BY <1>1, <1>2, <1>4, <1>6, <2>1 DEF LoadTypeOK
<1> QED BY <1>2, <1>3, <1>4, <1>5, <1>6, <1>7 DEF LoadInv

LEMMA Destroys ==
  ASSUME LoadInv, DestroyUploader
  PROVE  LoadInv'
<1>1. LoadTypeOK
  BY InvBasics
<1>2. /\ stage = "uploader" /\ slot_pending' = [s \in 0 .. 1 |-> FALSE]
      /\ staging' = <<"freed">> /\ stage' = "end"
      /\ UNCHANGED <<checkpoint, entry, offset, next_slot, stream, slab, error, faults>>
  BY DEF DestroyUploader, Synchronize
<1>3. /\ slab.state # "none" => Sound
      /\ slab.state = "none" => stream = <<>>
      /\ slab.state = "live" => Placed /\ entry = Len(weight_map) + 1
      /\ error # NoElement => error = checkpoint.at
      /\ ~RecordFails => stream = <<>>
  BY <1>2 DEF LoadInv
<1>4. weight_map' = weight_map
  BY <1>2, MapUnchanged
<1>5. slab'.state # "none" => Sound'
  BY <1>2, <1>3, SoundKept
<1>6. slab'.state = "live" => Placed'
  BY <1>2, <1>3, PlacedKept
<1>7. ~RecordFails => stream' = <<>> /\ OnTheBooks'
  BY <1>2, <1>3 DEF OnTheBooks
<1>8. LoadTypeOK'
  <2>1. slot_pending' \in [0 .. 1 -> BOOLEAN] /\ stage' \in Stages
    BY <1>2 DEF Stages
  <2> QED BY <1>1, <1>2, <1>4, <2>1 DEF LoadTypeOK
<1> QED BY <1>2, <1>3, <1>4, <1>5, <1>6, <1>7, <1>8 DEF LoadInv

LEMMA DeviceWorks ==
  ASSUME LoadInv, DeviceStep
  PROVE  LoadInv'
<1>1. LoadTypeOK /\ StreamOK /\ MapOK
  BY InvBasics
<1>2. /\ stream # <<>> /\ stream' = Tail(stream)
      /\ UNCHANGED <<checkpoint, stage, entry, offset, next_slot, slot_pending, staging, error, faults>>
      /\ slab' = slab \/ (slab.state = "live" /\ \E d : slab' = [slab EXCEPT !.data = d])
  BY DEF DeviceStep
<1>3. DOMAIN slab = {"state", "data"} /\ slab.state \in {"none", "live", "freed"}
  BY <1>1 DEF LoadTypeOK
<1>4. DOMAIN slab' = {"state", "data"} /\ slab'.state = slab.state
  BY <1>2, <1>3
<1>5. slab.state # "none" /\ ~(stage \in {"uploader", "end"} /\ slab.state = "live")
  BY <1>2 DEF LoadInv, Placed
<1>6. stage \in {"uploader", "end"} => RecordFails
  <2>1. ~RecordFails /\ stage \in {"uploader", "end"} => stream = <<>>
    BY DEF LoadInv
  <2> QED BY <1>2, <2>1, LoadAssumption
<1>7. /\ Sound /\ stage \notin {"validate", "alloc"}
      /\ error # NoElement => error = checkpoint.at
      /\ slab.state = "freed" => stage \in {"uploader", "end"}
      /\ ~RecordFails => OnTheBooks
  BY <1>5 DEF LoadInv
<1>8. Sound' /\ weight_map' = weight_map
  BY <1>2, <1>7, SoundKept, MapUnchanged
<1>9. ~RecordFails => OnTheBooks'
  BY <1>1, <1>2, <1>7, BooksTail
<1>10. stage \in {"upload", "sync"} => Uploading'
  <2> HAVE stage \in {"upload", "sync"}
  <2>1. Uploading /\ stage # "end"
    BY DEF LoadInv
  <2> QED BY <1>1, <1>3, <2>1, DeviceWrites
<1>11. stream' \in Seq(Ops)
  BY <1>1, <1>2, Shorter
<1>12. LoadTypeOK'
  BY <1>1, <1>2, <1>3, <1>4, <1>8, <1>11 DEF LoadTypeOK
<1>13. stage' = stage /\ error' = error /\ checkpoint' = checkpoint
  BY <1>2
<1> QED BY <1>4, <1>5, <1>6, <1>7, <1>8, <1>9, <1>10, <1>12, <1>13 DEF LoadInv

\* A recorded chunk holds no element that overflows.
LEMMA ChunkSound ==
  ASSUME MapOK, Sound, entry \in 1 .. Len(weight_map), offset \in Nat,
         offset < num_elements(weight_map[entry]), Overflows(weight_map[entry], offset, ChunkSize) = {},
         checkpoint' = checkpoint, entry' = entry, offset' = offset + ChunkSize
  PROVE  Sound'
<1>1. PICK cs \in Nat : cs = ChunkSize
  BY ChunkSizes
<1>2. /\ weight_map' = weight_map /\ \A k : Elements(k)' = Elements(k)
      /\ \A k, i : Element(k, i)' = Element(k, i)
  BY MapUnchanged
<1>3. DOMAIN weight_map = 1 .. Len(weight_map)
  BY DEF MapOK
<1>4. ASSUME NEW k \in DOMAIN weight_map, NEW i \in Elements(k), Issued(k, i)', checkpoint.defect = "overflow"
      PROVE  checkpoint.at # Element(k, i)
  <2>1. CASE Issued(k, i)
    BY <1>4, <2>1 DEF Sound
  <2>2. CASE ~Issued(k, i)
    <3>1. k = entry /\ i \in Int /\ i >= offset /\ i < offset + cs
      BY <1>1, <1>4, <2>2 DEF Issued, Elements
    <3>2. i \in offset .. offset + cs - 1
      BY <3>1
    <3>3. i \notin Overflows(weight_map[entry], offset, cs)
      BY <1>1
    <3>4. checkpoint.at # ElementOf(weight_map[entry], i)
      BY <1>4, <3>2, <3>3 DEF Overflows
    <3> QED BY <3>1, <3>4 DEF Element
  <2> QED BY <2>1, <2>2
<1>5. \A k \in DOMAIN weight_map' : ValidateEntry(weight_map[k])'
  BY <1>2 DEF Sound, ValidateEntry, IsAt
<1>6. checkpoint'.lm_head \/ checkpoint'.tied
  BY DEF Sound
<1> QED BY <1>2, <1>4, <1>5, <1>6, Zenon DEF Sound

LEMMA ChunkRecorded ==
  ASSUME LoadInv, stage = "upload", entry <= Len(weight_map), offset < num_elements(weight_map[entry]),
         SlotFree(next_slot), Overflows(weight_map[entry], offset, ChunkSize) = {},
         NEW dst, dst = EntryOffset(weight_map[entry], checkpoint.lm_head) + offset,
         IsConcat(stream', stream, <<<<"copy", next_slot, dst>>, <<"event", next_slot>>>>),
         staging' = [staging EXCEPT ![next_slot] =
                       [i \in 1 .. ChunkSize |-> ElementOf(weight_map[entry], offset + i - 1)]],
         slot_pending' = [slot_pending EXCEPT ![next_slot] = TRUE],
         offset' = offset + ChunkSize, next_slot' = 1 - next_slot,
         UNCHANGED <<checkpoint, stage, entry, slab, error>>
  PROVE  LoadInv'
<1>1. LoadTypeOK /\ StreamOK /\ MapOK /\ Len(weight_map) \in Nat
  BY InvBasics
<1>2. /\ Uploading /\ Sound /\ slab.state = "live" /\ DOMAIN staging = 0 .. 1
      /\ next_slot \in 0 .. 1 /\ slot_pending \in [0 .. 1 -> BOOLEAN]
      /\ entry \in Nat /\ entry > 0 /\ offset \in Nat
      /\ error # NoElement => error = checkpoint.at
  BY InUpload
<1>3. entry \in 1 .. Len(weight_map)
  BY <1>1, <1>2
<1>4. Uploading'
  BY <1>1, <1>2, <1>3, ChunkIssued
<1>5. Sound'
  BY <1>1, <1>2, <1>3, ChunkSound
<1>6. weight_map' = weight_map
  BY MapUnchanged
<1>7. stream' \in Seq(Ops)
  <2>1. dst \in Nat
    BY <1>1, <1>2, <1>3 DEF MapOK
  <2>2. PICK x \in Ops, y \in Ops : x = <<"copy", next_slot, dst>> /\ y = <<"event", next_slot>>
    BY <1>2, <2>1, OpsTyped
  <2>3. IsConcat(stream', stream, <<x, y>>)
    BY <2>2
  <2>4. PICK n : n = Len(stream)
    OBVIOUS
  <2> QED BY <1>1, <2>3, <2>4, Longer
<1>8. DOMAIN staging' = 0 .. 1 /\ slot_pending' \in [0 .. 1 -> BOOLEAN] /\ next_slot' \in 0 .. 1
  BY <1>2
<1>9. offset' \in Nat
  <2>1. ChunkSize \in Nat
    BY <1>1, <1>2, <1>3, ChunkSizes
  <2> QED BY <1>2, <2>1
<1>10. checkpoint' = checkpoint /\ stage' = stage /\ entry' = entry /\ slab' = slab /\ error' = error
  OBVIOUS
<1>11. LoadTypeOK'
  BY <1>1, <1>6, <1>7, <1>8, <1>9, <1>10 DEF LoadTypeOK
<1>12. OnTheBooks'
  BY <1>4 DEF Uploading
<1> QED BY <1>2, <1>4, <1>5, <1>10, <1>11, <1>12, Zenon DEF LoadInv

LEMMA Uploads ==
  ASSUME LoadInv, UploadChunk
  PROVE  LoadInv'
<1>1. LoadTypeOK /\ StreamOK /\ MapOK /\ Len(weight_map) \in Nat
  BY InvBasics
<1>2. PICK bad, dst : /\ bad = Overflows(weight_map[entry], offset, ChunkSize)
                      /\ dst = EntryOffset(weight_map[entry], checkpoint.lm_head) + offset
  OBVIOUS
<1>3. /\ stage = "upload" /\ entry <= Len(weight_map) /\ offset < num_elements(weight_map[entry])
      /\ SlotFree(next_slot) /\ UNCHANGED <<checkpoint, entry, slab>>
  BY DEF UploadChunk
<1>4. /\ OnTheBooks /\ DOMAIN staging = 0 .. 1 /\ next_slot \in 0 .. 1
      /\ slot_pending \in [0 .. 1 -> BOOLEAN] /\ entry \in Nat /\ entry > 0 /\ offset \in Nat
      /\ error # NoElement => error = checkpoint.at
  BY <1>3, InUpload
<1>5. entry \in 1 .. Len(weight_map)
  BY <1>1, <1>3, <1>4
<1>6. CASE bad # {}
  <2>1. /\ error' = Report(weight_map[entry], Min(bad)) /\ stage' = "drain"
        /\ slot_pending' = [slot_pending EXCEPT ![next_slot] = FALSE]
        /\ UNCHANGED <<staging, stream, next_slot, offset, faults>>
    BY <1>2, <1>6 DEF UploadChunk
  <2>2. error' = checkpoint'.at
    <3>1. ChunkSize \in Nat
      BY <1>1, <1>3, <1>4, <1>5, ChunkSizes
    <3>2. bad \in SUBSET Nat
      BY <1>2, <1>4, <3>1 DEF Overflows
    <3>3. Min(bad) \in bad
      BY <1>6, <3>2, LeastOf
    <3> QED BY <1>2, <1>3, <2>1, <3>3 DEF Overflows, Report
  <2>3. OnTheBooks'
    BY <1>1, <1>3, <1>4, <2>1, BooksClear
  <2>4. /\ DOMAIN staging' = 0 .. 1 /\ stream' \in Seq(Ops) /\ slot_pending' \in [0 .. 1 -> BOOLEAN]
    BY <1>1, <1>4, <2>1 DEF StreamOK
  <2> QED BY <1>3, <2>1, <2>2, <2>3, <2>4, GivesUp
<1>7. CASE bad = {}
  <2>1. /\ staging' = [staging EXCEPT ![next_slot] =
                         [i \in 1 .. ChunkSize |-> ElementOf(weight_map[entry], offset + i - 1)]]
        /\ RecordEvent(<<"copy", next_slot, dst>>) /\ error' = error
    BY <1>2, <1>7 DEF UploadChunk
  <2>2. PICK recorded \in BOOLEAN :
          /\ recorded \/ RecordFails
          /\ IF recorded
             THEN /\ stream' = stream \o <<<<"copy", next_slot, dst>>, <<"event", next_slot>>>>
                  /\ slot_pending' = [slot_pending EXCEPT ![next_slot] = TRUE]
                  /\ next_slot' = 1 - next_slot /\ offset' = offset + ChunkSize
                  /\ UNCHANGED <<stage, faults>>
             ELSE /\ Fails /\ stream' = Append(stream, <<"copy", next_slot, dst>>)
                  /\ slot_pending' = [slot_pending EXCEPT ![next_slot] = FALSE]
                  /\ UNCHANGED <<next_slot, offset>>
    BY <2>1 DEF RecordEvent
  <2>3. CASE recorded
    <3>1. IsConcat(stream', stream, <<<<"copy", next_slot, dst>>, <<"event", next_slot>>>>)
      BY <2>2, <2>3, Zenon DEF IsConcat
    <3>2. /\ slot_pending' = [slot_pending EXCEPT ![next_slot] = TRUE]
          /\ next_slot' = 1 - next_slot /\ offset' = offset + ChunkSize /\ stage' = stage
      BY <2>2, <2>3, Zenon
    <3> HIDE <2>2
    <3>3. UNCHANGED <<checkpoint, stage, entry, slab, error>>
      BY <1>3, <2>1, <3>2
    <3> QED BY <1>2, <1>3, <1>7, <2>1, <3>1, <3>2, <3>3, ChunkRecorded
  <2>4. CASE ~recorded
    <3>1. /\ stage' = "drain" /\ RecordFails /\ stream' = Append(stream, <<"copy", next_slot, dst>>)
          /\ slot_pending' = [slot_pending EXCEPT ![next_slot] = FALSE]
          /\ UNCHANGED <<next_slot, offset>>
      BY <2>2, <2>4, Zenon DEF Fails
    <3> HIDE <2>2
    <3>2. dst \in Nat
      BY <1>1, <1>2, <1>4, <1>5 DEF MapOK
    <3>3. PICK x \in Ops : x = <<"copy", next_slot, dst>>
      BY <1>4, <3>2, OpsTyped
    <3>4. stream' \in Seq(Ops)
      BY <1>1, <3>1, <3>3, AppendProperties DEF StreamOK
    <3>5. DOMAIN staging' = 0 .. 1 /\ slot_pending' \in [0 .. 1 -> BOOLEAN]
      BY <1>4, <2>1, <3>1
    <3>6. error' # NoElement => error' = checkpoint'.at
      BY <1>3, <1>4, <2>1
    <3>7. UNCHANGED <<checkpoint, entry, offset, next_slot, slab>>
      BY <1>3, <3>1
    <3> QED BY <1>3, <3>1, <3>4, <3>5, <3>6, <3>7, GivesUp, Zenon
  <2> QED BY <2>3, <2>4
<1> QED BY <1>6, <1>7

LEMMA InvKept ==
  ASSUME LoadInv, UNCHANGED loadVars
  PROVE  LoadInv'
<1>1. /\ UNCHANGED <<checkpoint, entry, offset>> /\ UNCHANGED <<stream, slot_pending>>
      /\ UNCHANGED <<checkpoint, stream, slab>> /\ UNCHANGED <<stage, staging, next_slot, error>>
  BY DEF loadVars
<1>2. weight_map' = weight_map
  BY <1>1, MapUnchanged
<1>3. Sound => Sound'
  BY <1>1, SoundKept
<1>4. OnTheBooks => OnTheBooks'
  BY <1>1, BooksKept
<1>5. Placed => Placed'
  BY <1>1, PlacedKept
<1>6. LoadTypeOK'
  BY <1>1, <1>2 DEF LoadInv, LoadTypeOK
<1>7. Uploading => Uploading'
  <2>1. /\ \A k : Elements(k)' = Elements(k)
        /\ \A k, i : Target(k, i)' = Target(k, i) /\ Element(k, i)' = Element(k, i)
    BY <1>1, MapUnchanged
  <2>2. AllCarry => AllCarry'
    <3>1. \A c \in DOMAIN stream : CarriesChunk(stream[c]) => CarriesChunk(stream[c])'
      BY <1>1, <1>2, <2>1 DEF CarriesChunk
    <3> QED BY <1>1, <3>1 DEF AllCarry
  <2>3. OnTheWay => OnTheWay'
    <3> HAVE OnTheWay
    <3>1. \A k, i : Issued(k, i)' => Issued(k, i)
      BY <1>1 DEF Issued
    <3>2. \A k, i : WillWrite(Target(k, i)) => WillWrite(Target(k, i))'
      BY <1>1, <2>1 DEF WillWrite
    <3> QED BY <1>1, <1>2, <2>1, <3>1, <3>2, Zenon DEF OnTheWay
  <2> QED BY <1>1, <1>2, <1>4, <2>2, <2>3, Zenon DEF Uploading
<1> QED BY <1>1, <1>2, <1>3, <1>4, <1>5, <1>6, <1>7 DEF LoadInv

\* The load never leaves its invariant: what the device has still to copy is on
\* the uploader's books, every chunk in flight is still the one it was enqueued
\* for, and what the loop has passed is in the slab or on its way there.
THEOREM LoadInvariant == LoadSpec => []LoadInv
<1>1. LoadInit => LoadInv
  <2> SUFFICES ASSUME LoadInit PROVE LoadInv
    OBVIOUS
  <2>1. /\ checkpoint \in Checkpoints /\ stage = "validate" /\ entry = 1 /\ offset = 0 /\ next_slot = 0
        /\ slot_pending = [s \in 0 .. 1 |-> FALSE] /\ staging = [s \in 0 .. 1 |-> <<>>]
        /\ stream = <<>> /\ slab = NoSlab /\ error = NoElement
    BY DEF LoadInit
  <2>2. Len(weight_map) \in Nat
    BY <2>1, MapIsOK DEF MapOK
  <2>3. slab.state = "none" /\ DOMAIN slab = {"state", "data"}
    BY <2>1 DEF NoSlab
  <2>4. entry \in 1 .. Len(weight_map) + 1
    BY <2>1, <2>2
  <2>5. LoadTypeOK
    BY <2>1, <2>3, <2>4 DEF LoadTypeOK, Stages
  <2>6. OnTheBooks
    BY <2>1 DEF OnTheBooks
  <2> QED BY <2>1, <2>3, <2>5, <2>6 DEF LoadInv
<1>2. LoadInv /\ [LoadNext]_loadVars => LoadInv'
  <2> SUFFICES ASSUME LoadInv, [LoadNext]_loadVars PROVE LoadInv'
    OBVIOUS
  <2>1. CASE Ended \/ UNCHANGED loadVars
    BY <2>1, InvKept DEF Ended
  <2> QED BY <2>1, Validates, Allocates, Uploads, CopyGivesUp, MovesOn, Returns, Drains, Destroys,
             LossGivesUp, DeviceWorks DEF LoadNext
<1> QED BY <1>1, <1>2, PTL DEF LoadSpec

\* As long as recording an event does not fail, no copy is left in the stream when
\* the slab or the pinned slots are freed, whatever else made the load fail.
THEOREM FreedOnlyWhenDrained ==
  ASSUME RecordFails = FALSE
  PROVE  LoadSpec => []DrainedBeforeFree
<1>1. LoadInv => DrainedBeforeFree
  <2> SUFFICES ASSUME LoadInv, slab.state = "freed" \/ staging = <<"freed">> PROVE stream = <<>>
    BY DEF DrainedBeforeFree
  <2>1. stage \in {"uploader", "end"}
    <3>1. CASE slab.state = "freed"
      BY <3>1 DEF LoadInv
    <3>2. CASE staging = <<"freed">>
      <4>1. DOMAIN staging = 1 .. 1
        BY <3>2
      <4>2. 0 \notin DOMAIN staging
        BY <4>1
      <4>3. stage # "end" => DOMAIN staging = 0 .. 1
        BY DEF LoadInv, LoadTypeOK
      <4> QED BY <4>2, <4>3
    <3> QED BY <3>1, <3>2
  <2> QED BY <2>1 DEF LoadInv
<1> QED BY <1>1, LoadInvariant, PTL

\* A checkpoint with a defect is never loaded; the error names the element the
\* defect is at; a wrong inventory is refused before the slab is allocated.
THEOREM DefectsAreRefused == LoadSpec => []DefectRefused
<1>1. LoadInv => DefectRefused
  <2> SUFFICES ASSUME LoadInv PROVE DefectRefused
    OBVIOUS
  <2>1. checkpoint \in Checkpoints
    BY InvBasics
  <2>2. \/ checkpoint.defect = "none"
        \/ checkpoint.defect \in {"missing", "shape", "dtype"} /\ ~checkpoint.lm_head /\ ~checkpoint.tied
        \/ /\ checkpoint.defect \in {"missing", "shape", "dtype", "overflow"}
           /\ \E k \in DOMAIN weight_map : \E i \in Elements(k) : checkpoint.at = Element(k, i)
    BY <2>1, LoadAssumption DEF weight_map, Elements, Element, ElementOf
  <2>3. Sound => checkpoint.defect \notin {"missing", "shape", "dtype"}
    <3> SUFFICES ASSUME Sound, checkpoint.defect \in {"missing", "shape", "dtype"} PROVE FALSE
      OBVIOUS
    <3>1. PICK k \in DOMAIN weight_map : \E i \in Elements(k) : checkpoint.at = Element(k, i)
      BY <2>2 DEF Sound
    <3>2. IsAt(weight_map[k])
      BY <3>1 DEF IsAt, Element, ElementOf
    <3>3. ValidateEntry(weight_map[k])
      BY <3>1, Zenon DEF Sound
    <3> QED BY <3>2, <3>3 DEF ValidateEntry
  <2>4. Loaded => checkpoint.defect = "none"
    <3> SUFFICES ASSUME Loaded, checkpoint.defect # "none" PROVE FALSE
      OBVIOUS
    <3>1. Sound /\ entry = Len(weight_map) + 1
      BY DEF Loaded, LoadInv
    <3>2. checkpoint.defect = "overflow"
      BY <2>2, <2>3, <3>1
    <3>3. PICK k \in DOMAIN weight_map : \E i \in Elements(k) : checkpoint.at = Element(k, i)
      BY <2>2, <3>2
    <3>4. \A i : Issued(k, i)
      BY <3>1, InvBasics DEF Issued
    <3> QED BY <3>1, <3>2, <3>3, <3>4, Zenon DEF Sound
  <2>5. checkpoint.defect \in {"missing", "shape", "dtype"} => slab.state = "none"
    BY <2>3 DEF LoadInv
  <2>6. error # NoElement => error = checkpoint.at
    BY DEF LoadInv
  <2> QED BY <2>4, <2>5, <2>6 DEF DefectRefused
<1> QED BY <1>1, LoadInvariant, PTL

-----------------------------------------------------------------------------
(***************************************************************************)
(* What has been loaded, read as the fused tensors.                        *)
(***************************************************************************)
Stored(kind, layer, name, start, size) ==
  \A i \in 0 .. size - 1 :
    slab.data[OffsetFor(kind, layer, checkpoint.lm_head) + start + i] = <<name, layer, i>>

Matches(kind, layer) ==
  \A j \in DOMAIN FusedRows(kind) :
    Stored(kind, layer, FusedRows(kind)[j][1], FusedStart(kind, j), FusedRows(kind)[j][2])

LEMMA EntryStored ==
  ASSUME Placed, NEW k \in DOMAIN weight_map, NEW name, NEW dest, NEW layer, NEW start, NEW size,
         Is(weight_map[k], name, dest, layer, start, size)
  PROVE  Stored(dest, layer, name, start, size)
<1>1. PICK e : e = weight_map[k]
  OBVIOUS
<1>2. e.name = name /\ e.dest = dest /\ e.layer = layer /\ Start(e) = start /\ num_elements(e) = size
  BY <1>1, Zenon DEF Is
<1> SUFFICES ASSUME NEW i \in 0 .. size - 1
             PROVE  slab.data[OffsetFor(dest, layer, checkpoint.lm_head) + start + i] = <<name, layer, i>>
  BY DEF Stored
<1>3. EntryOffset(e, checkpoint.lm_head) = OffsetFor(dest, layer, checkpoint.lm_head) + start
  BY <1>2, Zenon DEF EntryOffset, Start
<1>4. i \in Elements(k)
  BY <1>1, <1>2, Zenon DEF Elements
<1>5. slab.data[Target(k, i)] = Element(k, i)
  BY <1>4, Zenon DEF Placed
<1>6. Element(k, i) = <<name, layer, i>>
  BY <1>1, <1>2, Zenon DEF Element, ElementOf
<1>7. Target(k, i) = OffsetFor(dest, layer, checkpoint.lm_head) + start + i
  BY <1>1, <1>3, Zenon DEF Target
<1> QED BY <1>5, <1>6, <1>7, Zenon

\* A fused tensor made of one, two or three.
LEMMA MadeOfOne ==
  ASSUME NEW kind, NEW layer, NEW n1, NEW z1 \in Nat, FusedRows(kind) = <<<<n1, z1>>>>,
         Stored(kind, layer, n1, 0, z1)
  PROVE  Matches(kind, layer)
<1>1. PICK s : s = FusedRows(kind)
  OBVIOUS
<1>2. DOMAIN s = {1} /\ s[1][1] = n1 /\ s[1][2] = z1
  BY <1>1
<1>3. FusedStart(kind, 1) = 0
  BY DEF FusedStart
<1> QED BY <1>1, <1>2, <1>3, Zenon DEF Matches

LEMMA MadeOfTwo ==
  ASSUME NEW kind, NEW layer, NEW n1, NEW n2, NEW z1 \in Nat, NEW z2 \in Nat,
         FusedRows(kind) = <<<<n1, z1>>, <<n2, z2>>>>,
         Stored(kind, layer, n1, 0, z1), Stored(kind, layer, n2, z1, z2)
  PROVE  Matches(kind, layer)
<1>1. PICK s : s = FusedRows(kind)
  OBVIOUS
<1>2. DOMAIN s = {1, 2} /\ s[1][1] = n1 /\ s[1][2] = z1 /\ s[2][1] = n2 /\ s[2][2] = z2
  BY <1>1
<1>3. FusedStart(kind, 1) = 0 /\ FusedStart(kind, 2) = z1
  BY <1>1, <1>2 DEF FusedStart
<1> QED BY <1>1, <1>2, <1>3, Zenon DEF Matches

LEMMA MadeOfThree ==
  ASSUME NEW kind, NEW layer, NEW n1, NEW n2, NEW n3, NEW z1 \in Nat, NEW z2 \in Nat, NEW z3 \in Nat,
         FusedRows(kind) = <<<<n1, z1>>, <<n2, z2>>, <<n3, z3>>>>,
         Stored(kind, layer, n1, 0, z1), Stored(kind, layer, n2, z1, z2),
         Stored(kind, layer, n3, z1 + z2, z3)
  PROVE  Matches(kind, layer)
<1>1. PICK s : s = FusedRows(kind)
  OBVIOUS
<1>2. /\ DOMAIN s = {1, 2, 3} /\ s[1][1] = n1 /\ s[1][2] = z1 /\ s[2][1] = n2 /\ s[2][2] = z2
      /\ s[3][1] = n3 /\ s[3][2] = z3
  BY <1>1
<1>3. FusedStart(kind, 1) = 0 /\ FusedStart(kind, 2) = z1 /\ FusedStart(kind, 3) = z1 + z2
  BY <1>1, <1>2 DEF FusedStart
<1> QED BY <1>1, <1>2, <1>3, Zenon DEF Matches

LEMMA LayerMatches ==
  ASSUME MapOK, Placed, checkpoint.lm_head \in BOOLEAN, NEW l \in 1 .. NumLayers, NEW j \in 1 .. 7
  PROVE  Matches(LayerKind[j], l)
<1>1. PICK s : s = LayerEntries(l)
  OBVIOUS
<1>2. l \in Int
  BY WeightsAssumption
<1>3. ASSUME NEW m \in 1 .. 12, NEW name, NEW dest, NEW start, NEW size, Is(s[m], name, dest, l, start, size)
      PROVE  Stored(dest, l, name, start, size)
  <2>1. MapRows(weight_map, Len(weight_map), checkpoint.lm_head)
    BY MapPositions DEF weight_map
  <2>2. PICK k : k = 12 * (l - 1) + m + 1
    OBVIOUS
  <2>3. k \in 1 .. Len(weight_map) /\ weight_map[k] = s[m]
    BY <1>1, <2>1, <2>2, Zenon DEF MapRows
  <2>4. k \in DOMAIN weight_map
    BY <2>3 DEF MapOK
  <2> QED BY <1>3, <2>3, <2>4, EntryStored
<1>4. /\ Is(s[1], "input_layernorm", "input_norm", l, 0, Hidden)
      /\ Is(s[2], "q_proj.weight", "w_qkv", l, 0, Hidden * Hidden)
      /\ Is(s[3], "q_proj.bias", "b_qkv", l, 0, Hidden)
      /\ Is(s[4], "k_proj.weight", "w_qkv", l, Hidden * Hidden, KvRows * Hidden)
      /\ Is(s[5], "k_proj.bias", "b_qkv", l, Hidden, KvRows)
      /\ Is(s[6], "v_proj.weight", "w_qkv", l, Hidden * Hidden + KvRows * Hidden, KvRows * Hidden)
      /\ Is(s[7], "v_proj.bias", "b_qkv", l, Hidden + KvRows, KvRows)
      /\ Is(s[8], "o_proj", "w_o", l, 0, Hidden * Hidden)
      /\ Is(s[9], "post_attention_layernorm", "post_attn_norm", l, 0, Hidden)
      /\ Is(s[10], "gate_proj", "w_gateup", l, 0, Inter * Hidden)
      /\ Is(s[11], "up_proj", "w_gateup", l, Inter * Hidden, Inter * Hidden)
      /\ Is(s[12], "down_proj", "w_down", l, 0, Hidden * Inter)
  BY <1>1, <1>2, LayerEntriesAre, Zenon
<1>5. {1, 2, 3, 4, 5, 6, 7, 8, 9, 10, 11, 12} \subseteq 1 .. 12
  OBVIOUS
<1>6. /\ Stored("input_norm", l, "input_layernorm", 0, Hidden)
      /\ Stored("post_attn_norm", l, "post_attention_layernorm", 0, Hidden)
      /\ Stored("w_o", l, "o_proj", 0, Hidden * Hidden)
      /\ Stored("w_down", l, "down_proj", 0, Hidden * Inter)
  BY <1>3, <1>4, <1>5, Zenon
<1>7. /\ Stored("w_qkv", l, "q_proj.weight", 0, Hidden * Hidden)
      /\ Stored("w_qkv", l, "k_proj.weight", Hidden * Hidden, KvRows * Hidden)
      /\ Stored("w_qkv", l, "v_proj.weight", Hidden * Hidden + KvRows * Hidden, KvRows * Hidden)
  BY <1>3, <1>4, <1>5, Zenon
<1>8. /\ Stored("b_qkv", l, "q_proj.bias", 0, Hidden) /\ Stored("b_qkv", l, "k_proj.bias", Hidden, KvRows)
      /\ Stored("b_qkv", l, "v_proj.bias", Hidden + KvRows, KvRows)
  BY <1>3, <1>4, <1>5, Zenon
<1>9. /\ Stored("w_gateup", l, "gate_proj", 0, Inter * Hidden)
      /\ Stored("w_gateup", l, "up_proj", Inter * Hidden, Inter * Hidden)
  BY <1>3, <1>4, <1>5, Zenon
<1>10. /\ Hidden \in Nat /\ KvRows \in Nat /\ Hidden * Hidden \in Nat /\ KvRows * Hidden \in Nat
       /\ Inter * Hidden \in Nat /\ Hidden * Inter \in Nat
  BY Products, Zenon
<1>11. Matches("w_qkv", l)
  <2>1. FusedRows("w_qkv") = <<<<"q_proj.weight", Hidden * Hidden>>, <<"k_proj.weight", KvRows * Hidden>>,
                               <<"v_proj.weight", KvRows * Hidden>>>>
    BY DEF FusedRows
  <2> QED BY <1>7, <1>10, <2>1, MadeOfThree, Zenon
<1>12. Matches("b_qkv", l)
  <2>1. FusedRows("b_qkv") = <<<<"q_proj.bias", Hidden>>, <<"k_proj.bias", KvRows>>, <<"v_proj.bias", KvRows>>>>
    BY DEF FusedRows
  <2> QED BY <1>8, <1>10, <2>1, MadeOfThree, Zenon
<1>13. Matches("w_gateup", l)
  <2>1. FusedRows("w_gateup") = <<<<"gate_proj", Inter * Hidden>>, <<"up_proj", Inter * Hidden>>>>
    BY DEF FusedRows
  <2> QED BY <1>9, <1>10, <2>1, MadeOfTwo, Zenon
<1>14. Matches("w_o", l) /\ Matches("w_down", l)
  <2>1. FusedRows("w_o") = <<<<"o_proj", Hidden * Hidden>>>>
    BY DEF FusedRows
  <2>2. FusedRows("w_down") = <<<<"down_proj", Hidden * Inter>>>>
    BY DEF FusedRows
  <2> QED BY <1>6, <1>10, <2>1, <2>2, MadeOfOne, Zenon
<1>15. Matches("input_norm", l) /\ Matches("post_attn_norm", l)
  <2>1. FusedRows("input_norm") = <<<<"input_layernorm", Hidden>>>>
    BY DEF FusedRows
  <2>2. FusedRows("post_attn_norm") = <<<<"post_attention_layernorm", Hidden>>>>
    BY DEF FusedRows
  <2> QED BY <1>6, <1>10, <2>1, <2>2, MadeOfOne, Zenon
<1>16. LayerKind[j] \in {"w_qkv", "b_qkv", "w_o", "w_gateup", "w_down", "input_norm", "post_attn_norm"}
  <2>1. j \in {1, 2, 3, 4, 5, 6, 7}
    OBVIOUS
  <2> QED BY <2>1 DEF LayerKind
<1> QED BY <1>11, <1>12, <1>13, <1>14, <1>15, <1>16, Zenon

LEMMA OwnMatches ==
  ASSUME MapOK, Placed, checkpoint.lm_head \in BOOLEAN
  PROVE  Matches("embed", NoLayer) /\ Matches("final_norm", NoLayer) /\ Matches("lm_head", NoLayer)
<1>1. PICK N : N = Len(weight_map)
  OBVIOUS
<1>2. MapRows(weight_map, N, checkpoint.lm_head)
  BY <1>1, MapPositions DEF weight_map
<1>3. DOMAIN weight_map = 1 .. N
  BY <1>1 DEF MapOK
<1>4. Stored("embed", NoLayer, "embed_tokens", 0, Vocab * Hidden)
  BY <1>2, <1>3, EntryStored, Zenon DEF MapRows
<1>5. Stored("final_norm", NoLayer, "norm", 0, Hidden)
  BY <1>2, <1>3, EntryStored, Zenon DEF MapRows
<1>6. checkpoint.lm_head => Stored("lm_head", NoLayer, "lm_head", 0, Vocab * Hidden)
  BY <1>2, <1>3, EntryStored, Zenon DEF MapRows
<1>7. Hidden \in Nat /\ Vocab * Hidden \in Nat
  BY Products, Zenon
<1>8. Matches("embed", NoLayer)
  <2>1. FusedRows("embed") = <<<<"embed_tokens", Vocab * Hidden>>>>
    BY DEF FusedRows
  <2> QED BY <1>4, <1>7, <2>1, MadeOfOne, Zenon
<1>9. Matches("final_norm", NoLayer)
  <2>1. FusedRows("final_norm") = <<<<"norm", Hidden>>>>
    BY DEF FusedRows
  <2> QED BY <1>5, <1>7, <2>1, MadeOfOne, Zenon
<1>10. CASE checkpoint.lm_head
  <2>1. FusedRows("lm_head") = <<<<"lm_head", Vocab * Hidden>>>>
    BY <1>10 DEF FusedRows
  <2>2. Matches("lm_head", NoLayer)
    BY <1>6, <1>7, <1>10, <2>1, MadeOfOne, Zenon
  <2> QED BY <1>8, <1>9, <2>2
<1>11. CASE ~checkpoint.lm_head
  <2>1. FusedRows("lm_head") = <<<<"embed_tokens", Vocab * Hidden>>>>
    BY <1>11 DEF FusedRows
  <2>2. OffsetFor("lm_head", NoLayer, checkpoint.lm_head) = OffsetFor("embed", NoLayer, checkpoint.lm_head)
    BY <1>11, Zenon DEF OffsetFor
  <2>3. Stored("lm_head", NoLayer, "embed_tokens", 0, Vocab * Hidden)
    BY <1>4, <2>2, Zenon DEF Stored
  <2>4. Matches("lm_head", NoLayer)
    BY <1>7, <2>1, <2>3, MadeOfOne, Zenon
  <2> QED BY <1>8, <1>9, <2>4
<1> QED BY <1>10, <1>11

\* When the constructor has returned, every fused tensor is the concatenation of
\* its checkpoint tensors, at every model size, chunk size and alignment.
THEOREM SlabIsTheCheckpoint == LoadSpec => []SlabMatchesCheckpoint
<1>1. LoadInv => SlabMatchesCheckpoint
  <2> SUFFICES ASSUME LoadInv, Loaded PROVE SlabMatchesCheckpoint
    BY DEF SlabMatchesCheckpoint
  <2>1. MapOK /\ Placed /\ checkpoint.lm_head \in BOOLEAN
    BY InvBasics DEF LoadInv, Loaded, MapOK
  <2>2. PICK b \in BOOLEAN : b = checkpoint.lm_head
    BY <2>1
  <2>3. PICK R, N : R = Regions(b) /\ N = Len(R)
    OBVIOUS
  <2>4. RegionRows(R, N, b)
    BY <2>3, RegionPositions
  <2>5. DOMAIN R = 1 .. N
    <3>1. R \in Seq(Triple)
      BY <2>4, Zenon DEF RegionRows
    <3> QED BY <2>3, <3>1
  <2>6. ASSUME NEW i \in 1 .. N PROVE Matches(R[i][1], R[i][2])
    <3>1. CASE i = 1
      <4>1. R[i] = <<"embed", NoLayer, Vocab * Hidden>>
        BY <2>4, <3>1, Zenon DEF RegionRows
      <4>2. R[i][1] = "embed" /\ R[i][2] = NoLayer
        BY <4>1
      <4> QED BY <2>1, <4>2, OwnMatches, Zenon
    <3>2. CASE i = 7 * NumLayers + 2
      <4>1. R[i] = <<"final_norm", NoLayer, Hidden>>
        BY <2>4, <3>2, Zenon DEF RegionRows
      <4>2. R[i][1] = "final_norm" /\ R[i][2] = NoLayer
        BY <4>1
      <4> QED BY <2>1, <4>2, OwnMatches, Zenon
    <3>3. CASE b /\ i = 7 * NumLayers + 3
      <4>1. R[i] = <<"lm_head", NoLayer, Vocab * Hidden>>
        BY <2>4, <3>3, Zenon DEF RegionRows
      <4>2. R[i][1] = "lm_head" /\ R[i][2] = NoLayer
        BY <4>1
      <4> QED BY <2>1, <4>2, OwnMatches, Zenon
    <3>4. ASSUME NEW l \in 1 .. NumLayers, NEW j \in 1 .. 7, i = 7 * (l - 1) + j + 1
          PROVE  Matches(R[i][1], R[i][2])
      <4>1. R[i] = LayerRegions(l)[j]
        BY <2>4, <3>4, Zenon DEF RegionRows
      <4>2. l \in Int
        BY WeightsAssumption
      <4>3. R[i][1] = LayerKind[j] /\ R[i][2] = l
        BY <4>1, <4>2, LayerKinds
      <4> QED BY <2>1, <4>3, LayerMatches, Zenon
    <3> QED BY <2>4, <3>1, <3>2, <3>3, <3>4, Zenon DEF RegionRows
  <2>7. \A r \in ToSet(R) : Matches(r[1], r[2])
    BY <2>5, <2>6, Zenon DEF ToSet
  <2>8. PICK h : h = <<"lm_head", NoLayer, 0>>
    OBVIOUS
  <2>9. Matches(h[1], h[2])
    <3>1. h[1] = "lm_head" /\ h[2] = NoLayer
      BY <2>8
    <3> QED BY <2>1, <3>1, OwnMatches, Zenon
  <2>10. \A r \in ToSet(R) \cup {h} : Matches(r[1], r[2])
    BY <2>7, <2>9, Zenon
  <2> QED BY <2>2, <2>3, <2>8, <2>10, Zenon DEF SlabMatchesCheckpoint, Matches, Stored
<1> QED BY <1>1, LoadInvariant, PTL

-----------------------------------------------------------------------------
(***************************************************************************)
(* The reader.  First the arithmetic of the header: elem_count either      *)
(* gives up or is the product of the dimensions, whatever the limits.      *)
(***************************************************************************)

LEMMA Quotient ==
  ASSUME NEW m \in Nat, NEW d \in Nat, d # 0
  PROVE  m \div d \in Nat /\ (m \div d) * d <= m
OBVIOUS

LEMMA SmallRemainder ==
  ASSUME NEW m \in Nat, NEW k \in Nat, m <= k
  PROVE  m % (k + 1) = m
OBVIOUS

\* One dimension: the count is exact unless it gives up.
LEMMA CountExact ==
  ASSUME NEW n \in Nat, n <= U64Max, NEW d \in Nat
  PROVE  \/ Count(n, d) = Overflow
         \/ Count(n, d) = n * d /\ n * d \in Nat /\ n * d <= U64Max
<1>1. U64Max \in Nat /\ Overflow = -1
  BY LimitsAssumption DEF Overflow
<1> SUFFICES ASSUME Count(n, d) # Overflow
             PROVE  Count(n, d) = n * d /\ n * d \in Nat /\ n * d <= U64Max
  OBVIOUS
<1>2. Count(n, d) = Wrap(n * d) /\ (d # 0 => n <= U64Max \div d)
  BY <1>1 DEF Count
<1>3. PICK m \in Nat : m = n * d
  OBVIOUS
<1>4. m <= U64Max
  <2>1. CASE d = 0
    BY <1>1, <1>3, <2>1
  <2>2. CASE d # 0
    <3>1. PICK q \in Nat : q = U64Max \div d /\ q * d <= U64Max
      BY <1>1, <2>2, Quotient
    <3>2. n <= q
      BY <1>2, <2>2, <3>1
    <3>3. n * d <= q * d
      BY <3>2
    <3> QED BY <1>1, <1>3, <3>1, <3>3
  <2> QED BY <2>1, <2>2
<1>5. Wrap(m) = m
  BY <1>1, <1>3, <1>4, SmallRemainder DEF Wrap
<1> QED BY <1>2, <1>3, <1>4, <1>5

\* elem_count is the last of its running counts.
LEMMA CountRecursion ==
  ASSUME NEW shape \in Seq(Nat), NEW N \in Nat, N = Len(shape)
  PROVE  \E c : /\ elem_count(shape) = c[N] /\ c[0] = 1
                /\ \A i \in 1 .. N : c[i] = Count(c[i - 1], shape[i])
<1> DEFINE D == 0 .. U64Max \union {Overflow}
           step == [i \in 1 .. N |-> [n \in D |-> Count(n, shape[i])]]
           Body(p) == [i \in 0 .. N |-> IF i = 0 THEN 1 ELSE Count(p[i - 1], shape[i])]
<1>1. U64Max \in Nat /\ 1 <= U64Max /\ Overflow = -1
  BY LimitsAssumption DEF Overflow
<1>2. \A i \in 1 .. N : shape[i] \in Nat
  OBVIOUS
<1>3. ASSUME NEW n \in D, NEW d \in Nat PROVE Count(n, d) \in D
  <2>1. CASE n = Overflow
    BY <2>1 DEF Count
  <2>2. CASE n \in 0 .. U64Max
    <3>1. n \in Nat /\ n <= U64Max
      BY <1>1, <2>2
    <3>2. Count(n, d) = Overflow \/ (Count(n, d) \in Nat /\ Count(n, d) <= U64Max)
      BY <3>1, CountExact
    <3> QED BY <1>1, <3>2
  <2> QED BY <2>1, <2>2
<1>4. step \in [1 .. N -> [D -> D]] /\ 1 \in D
  <2> HIDE DEF D
  <2>1. step \in [1 .. N -> [D -> D]]
    BY <1>2, <1>3
  <2>2. 1 \in D
    BY <1>1 DEF D
  <2> QED BY <2>1, <2>2
<1>5. PICK f \in [0 .. N -> D] : f[0] = 1 /\ \A i \in 1 .. N : f[i] = step[i][f[i - 1]]
  <2> HIDE DEF D, step
  <2>1. \E f : Solves(f, N, D, 1, step)
    BY <1>4, RecursionExists
  <2> QED BY <2>1 DEF Solves
<1>6. \A i \in 1 .. N : f[i] = Count(f[i - 1], shape[i])
  <2> SUFFICES ASSUME NEW i \in 1 .. N PROVE f[i] = Count(f[i - 1], shape[i])
    OBVIOUS
  <2> HIDE DEF D
  <2>1. f[i - 1] \in D
    <3>1. i - 1 \in 0 .. N
      OBVIOUS
    <3> QED BY <3>1
  <2>2. f[i] = step[i][f[i - 1]]
    BY <1>5
  <2> QED BY <2>1, <2>2
<1>7. f = Body(f)
  <2>1. \A i \in 0 .. N : f[i] = IF i = 0 THEN 1 ELSE Count(f[i - 1], shape[i])
    BY <1>5, <1>6
  <2>2. f = [i \in 0 .. N |-> f[i]]
    OBVIOUS
  <2> QED BY <2>1, <2>2
<1>8. PICK c : c = (CHOOSE p : p = Body(p)) /\ elem_count(shape) = c[N]
  BY Zenon DEF elem_count
<1>9. c = Body(c)
  <2> HIDE DEF Body
  <2> QED BY <1>7, <1>8
<1>10. c[0] = 1 /\ \A i \in 1 .. N : c[i] = Count(c[i - 1], shape[i])
  <2> HIDE <1>8
  <2>1. \A i \in 0 .. N : c[i] = IF i = 0 THEN 1 ELSE Count(c[i - 1], shape[i])
    BY <1>9
  <2> QED BY <2>1
<1>11. elem_count(shape) = c[N]
  BY <1>8, Zenon
<1> HIDE DEF Body, D, step
<1> QED BY <1>10, <1>11, Zenon

LEMMA ProductRecursion ==
  ASSUME NEW shape \in Seq(Nat), NEW N \in Nat, N = Len(shape)
  PROVE  \E c : /\ Product(shape) = c[N] /\ c[0] = 1
                /\ \A i \in 1 .. N : c[i] = c[i - 1] * shape[i]
<1> DEFINE step == [i \in 1 .. N |-> [n \in Nat |-> n * shape[i]]]
           Body(p) == [i \in 0 .. N |-> IF i = 0 THEN 1 ELSE p[i - 1] * shape[i]]
<1>1. \A i \in 1 .. N : shape[i] \in Nat
  OBVIOUS
<1>2. step \in [1 .. N -> [Nat -> Nat]]
  BY <1>1
<1>3. PICK f \in [0 .. N -> Nat] : f[0] = 1 /\ \A i \in 1 .. N : f[i] = step[i][f[i - 1]]
  <2> HIDE DEF step
  <2>1. \E f : Solves(f, N, Nat, 1, step)
    BY <1>2, RecursionExists
  <2> QED BY <2>1 DEF Solves
<1>4. \A i \in 1 .. N : f[i] = f[i - 1] * shape[i]
  <2> SUFFICES ASSUME NEW i \in 1 .. N PROVE f[i] = f[i - 1] * shape[i]
    OBVIOUS
  <2>1. i - 1 \in 0 .. N
    OBVIOUS
  <2>2. f[i - 1] \in Nat /\ f[i] = step[i][f[i - 1]]
    BY <1>3, <2>1
  <2>3. step[i] = [n \in Nat |-> n * shape[i]]
    OBVIOUS
  <2> QED BY <2>2, <2>3
<1>5. f = Body(f)
  <2>1. \A i \in 0 .. N : f[i] = IF i = 0 THEN 1 ELSE f[i - 1] * shape[i]
    BY <1>3, <1>4
  <2>2. f = [i \in 0 .. N |-> f[i]]
    OBVIOUS
  <2> QED BY <2>1, <2>2
<1>6. PICK c : c = (CHOOSE p : p = Body(p)) /\ Product(shape) = c[N]
  BY Zenon DEF Product
<1>7. c = Body(c)
  <2> HIDE DEF Body
  <2> QED BY <1>5, <1>6
<1>8. c[0] = 1 /\ \A i \in 1 .. N : c[i] = c[i - 1] * shape[i]
  <2> HIDE <1>6
  <2>1. \A i \in 0 .. N : c[i] = IF i = 0 THEN 1 ELSE c[i - 1] * shape[i]
    BY <1>7
  <2> QED BY <2>1
<1>9. Product(shape) = c[N]
  BY <1>6, Zenon
<1> HIDE DEF Body, step
<1> QED BY <1>8, <1>9, Zenon

\* elem_count gives up or is exact: no intermediate product wraps around unnoticed.
LEMMA ElementCountExact ==
  ASSUME NEW shape \in Seq(Nat), elem_count(shape) # Overflow
  PROVE  /\ elem_count(shape) = Product(shape)
         /\ Product(shape) \in Nat /\ Product(shape) <= U64Max
<1>1. PICK N \in Nat : N = Len(shape) /\ \A i \in 1 .. N : shape[i] \in Nat
  OBVIOUS
<1>2. PICK c : /\ elem_count(shape) = c[N] /\ c[0] = 1
               /\ \A i \in 1 .. N : c[i] = Count(c[i - 1], shape[i])
  BY <1>1, CountRecursion
<1>3. PICK p : /\ Product(shape) = p[N] /\ p[0] = 1
               /\ \A i \in 1 .. N : p[i] = p[i - 1] * shape[i]
  BY <1>1, ProductRecursion
<1> DEFINE S == {i \in 0 .. N : c[i] = Overflow \/ (c[i] = p[i] /\ p[i] \in Nat /\ p[i] <= U64Max)}
<1>4. 0 \in S
  BY <1>2, <1>3, LimitsAssumption
<1>5. \A i \in 0 .. N - 1 : i \in S => i + 1 \in S
  <2> SUFFICES ASSUME NEW i \in 0 .. N - 1, i \in S PROVE i + 1 \in S
    OBVIOUS
  <2>1. PICK j \in 1 .. N : j = i + 1 /\ j - 1 = i
    OBVIOUS
  <2>2. c[j] = Count(c[i], shape[j]) /\ p[j] = p[i] * shape[j] /\ shape[j] \in Nat
    BY <1>1, <1>2, <1>3, <2>1
  <2>3. CASE c[i] = Overflow
    <3>1. c[j] = Overflow
      BY <2>2, <2>3 DEF Count
    <3> QED BY <2>1, <3>1
  <2>4. CASE c[i] = p[i] /\ p[i] \in Nat /\ p[i] <= U64Max
    <3>1. PICK n \in Nat : n = p[i] /\ n <= U64Max /\ n = c[i]
      BY <2>4
    <3>2. PICK d \in Nat : d = shape[j]
      BY <2>2
    <3>3. Count(n, d) = Overflow \/ (Count(n, d) = n * d /\ n * d \in Nat /\ n * d <= U64Max)
      BY <3>1, CountExact
    <3>4. c[j] = Overflow \/ (c[j] = p[j] /\ p[j] \in Nat /\ p[j] <= U64Max)
      BY <2>2, <3>1, <3>2, <3>3
    <3> QED BY <2>1, <3>4
  <2> QED BY <2>3, <2>4
<1>6. N \in S
  <2> HIDE DEF S
  <2>1. 0 .. N \subseteq S
    BY <1>4, <1>5, UpTo
  <2> QED BY <2>1
<1> QED BY <1>2, <1>3, <1>6

\* What the header's checks make of one tensor.
LEMMA EntrySound ==
  ASSUME NEW e, NEW data_size \in Int, e.shape \in Seq(Nat), e.begin \in Nat, e.end \in Nat,
         EntryAccepted(e, data_size)
  PROVE  /\ e.begin <= e.end /\ e.end <= data_size
         /\ e.end - e.begin = Product(e.shape) * DtypeSize(e.dtype)
<1>1. PICK n : n = elem_count(e.shape) /\ n # Overflow /\ e.dtype \in Known
               /\ n <= U64Max \div DtypeSize(e.dtype)
               /\ e.end - e.begin = Wrap(n * DtypeSize(e.dtype))
               /\ e.begin <= e.end /\ e.end <= data_size
  BY DEF EntryAccepted
<1>2. n = Product(e.shape) /\ n \in Nat
  BY <1>1, ElementCountExact
<1>3. PICK w \in Nat : w = DtypeSize(e.dtype) /\ w # 0
  BY <1>1 DEF Known, DtypeSize
<1>4. U64Max \in Nat
  BY LimitsAssumption
<1>5. PICK q \in Nat : q = U64Max \div w /\ q * w <= U64Max
  BY <1>3, <1>4, Quotient
<1>6. n <= q
  BY <1>1, <1>3, <1>5
<1>7. n * w \in Nat /\ n * w <= U64Max
  <2>1. n * w <= q * w
    BY <1>2, <1>6
  <2>2. n * w \in Nat /\ q * w \in Nat
    BY <1>2
  <2> QED BY <1>4, <1>5, <2>1, <2>2
<1>8. Wrap(n * w) = n * w
  BY <1>4, <1>7, SmallRemainder DEF Wrap
<1> QED BY <1>1, <1>2, <1>3, <1>8

\* A view of an accepted file is inside it, and as long as its tensor.
LEMMA ViewSound ==
  ASSUME dir \in Directories, NEW name, Accepted(name), NEW t \in DOMAIN Views(name)
  PROVE  LET v == Views(name)[t] IN
         /\ v.base = name
         /\ v.at + v.nbytes <= dir.files[name].size
         /\ v.nbytes = Product(v.shape) * DtypeSize(v.dtype)
<1>1. PICK f : f = dir.files[name] /\ name \in DOMAIN dir.files /\ HeaderAccepted(f)
  BY DEF Accepted
<1>2. /\ f.size \in Nat /\ f.header_size \in Nat
      /\ \A i \in DOMAIN f.entries :
           f.entries[i].shape \in Seq(Nat) /\ f.entries[i].begin \in Nat /\ f.entries[i].end \in Nat
  BY <1>1, DirectoriesAssumption
<1>3. t \in {f.entries[i].name : i \in Tensors(f)}
  BY <1>1 DEF Views
<1>4. PICK k \in Tensors(f) : k = CHOOSE i \in Tensors(f) : f.entries[i].name = t
  BY <1>3
<1>5. PICK e : e = f.entries[k]
  OBVIOUS
<1>6. e.shape \in Seq(Nat) /\ e.begin \in Nat /\ e.end \in Nat
  BY <1>2, <1>4, <1>5 DEF Tensors
<1>7. PICK data_size \in Int : data_size = f.size - Prefix - f.header_size /\ EntryAccepted(e, data_size)
  <2>1. f.size - Prefix - f.header_size \in Int
    BY <1>2 DEF Prefix
  <2>2. EntryAccepted(e, f.size - Prefix - f.header_size)
    BY <1>1, <1>4, <1>5, Zenon DEF HeaderAccepted
  <2> QED BY <2>1, <2>2
<1>8. /\ e.begin <= e.end /\ e.end <= data_size
      /\ e.end - e.begin = Product(e.shape) * DtypeSize(e.dtype)
  BY <1>6, <1>7, EntrySound
<1>9. Views(name)[t] =
        [base |-> name, at |-> Prefix + f.header_size + e.begin, nbytes |-> e.end - e.begin,
         dtype |-> e.dtype, shape |-> e.shape]
  BY <1>1, <1>3, <1>4, <1>5 DEF Views
<1>10. (Prefix + f.header_size + e.begin) + (e.end - e.begin) <= f.size
  <2>1. PICK size \in Nat, header \in Nat, first \in Nat, last \in Nat :
          size = f.size /\ header = f.header_size /\ first = e.begin /\ last = e.end
    BY <1>2, <1>6, Zenon
  <2>2. last <= size - Prefix - header
    BY <1>7, <1>8, <2>1, Zenon
  <2>3. (Prefix + header + first) + (last - first) <= size
    BY <2>2 DEF Prefix
  <2> QED BY <2>1, <2>3, Zenon
<1> QED BY <1>1, <1>8, <1>9, <1>10

LEMMA ReaderInitInv == ReaderInit => ReaderInv
<1> SUFFICES ASSUME ReaderInit PROVE ReaderInv
  OBVIOUS
<1>1. dir \in Directories /\ phase = "dir" /\ shards = <<>> /\ mapped = {}
  BY DEF ReaderInit
<1>2. ShardsAccepted
  BY <1>1 DEF ShardsAccepted
<1>3. mapped = Release(shards)
  BY <1>1 DEF Release
<1> QED BY <1>1, <1>2, <1>3 DEF ReaderInv

\* Everything the reader holds goes with it.
LEMMA ReaderStops ==
  ASSUME ReaderInv, UNCHANGED dir, shards' = <<>>, phase' \in {"failed", "closed"},
         mapped' = mapped \ Release(shards)
  PROVE  ReaderInv'
<1>1. ShardsAccepted'
  BY DEF ReaderInv, ShardsAccepted
<1>2. mapped' = {} /\ Release(shards)' = {}
  BY DEF ReaderInv, Release
<1>3. mapped' = Release(shards')
  BY <1>2 DEF Release
<1> QED BY <1>1, <1>3 DEF ReaderInv

\* The views depend on the directory alone.
LEMMA ViewsHold ==
  ASSUME dir' = dir
  PROVE  \A q : Views(q)' = Views(q) /\ OpenFile(q)' = OpenFile(q)
<1>1. \A q : Views(q)' = Views(q)
  BY DEF Views
<1> QED BY <1>1 DEF OpenFile

LEMMA ReaderHolds ==
  ASSUME ReaderInv, UNCHANGED <<dir, shards, mapped>>
  PROVE  ShardsAccepted' /\ mapped' = Release(shards')
<1>1. \A name : OpenFile(name)' = OpenFile(name) /\ (Accepted(name)' <=> Accepted(name))
  BY ViewsHold DEF Accepted
<1>2. {OpenFile(name)' : name \in DOMAIN dir'.files} = {OpenFile(name) : name \in DOMAIN dir.files}
  BY <1>1
<1>3. ShardsAccepted'
  BY <1>1, <1>2 DEF ReaderInv, ShardsAccepted
<1> QED BY <1>3 DEF ReaderInv

LEMMA ReaderOpens ==
  ASSUME ReaderInv, phase = "open", UNCHANGED <<dir, phase>>, NEW name, Accepted(name),
         shards' = Append(shards, OpenFile(name)),
         mapped' = (mapped \cup {name})
                     \ Release([i \in DOMAIN shards' |-> MovedFrom(shards'[i])])
  PROVE  ReaderInv'
<1>1. PICK Files : Files = {OpenFile(q) : q \in DOMAIN dir.files}
  OBVIOUS
<1>2. shards \in Seq(Files) /\ OpenFile(name) \in Files /\ name \in DOMAIN dir.files /\ dir \in Directories
  BY <1>1 DEF ReaderInv, ShardsAccepted, Accepted
<1>3. PICK n \in Nat : n = Len(shards) /\ DOMAIN shards = 1 .. n
  BY <1>2
<1>4. /\ shards' \in Seq(Files) /\ DOMAIN shards' = 1 .. n + 1
      /\ shards'[n + 1] = OpenFile(name) /\ \A i \in 1 .. n : shards'[i] = shards[i]
  BY <1>2, <1>3
<1>5. \A i \in 1 .. n + 1 : \E q \in DOMAIN dir.files : shards'[i] = OpenFile(q)
  <2> TAKE i \in 1 .. n + 1
  <2>1. shards'[i] \in Files
    BY <1>4
  <2> QED BY <1>1, <2>1
<1>6. \A i \in 1 .. n + 1 : shards'[i].base = shards'[i].name /\ shards'[i].base \in Nat
  <2> TAKE i \in 1 .. n + 1
  <2>1. PICK q \in DOMAIN dir.files : shards'[i] = OpenFile(q)
    BY <1>5
  <2>2. q \in Nat
    BY <1>2, DirectoriesAssumption
  <2>3. OpenFile(q).base = q /\ OpenFile(q).name = q
    BY DEF OpenFile
  <2> QED BY <2>1, <2>2, <2>3
<1>7. ASSUME NEW i \in 1 .. n + 1 PROVE MovedFrom(shards'[i]).base = NoBase
  <2>1. PICK q \in DOMAIN dir.files : shards'[i] = OpenFile(q)
    BY <1>5
  <2> QED BY <2>1 DEF MovedFrom, OpenFile
<1>8. Release([i \in DOMAIN shards' |-> MovedFrom(shards'[i])]) = {NoBase}
  <2>1. 1 \in 1 .. n + 1
    OBVIOUS
  <2> QED BY <1>4, <1>7, <2>1 DEF Release
<1>9. mapped' = (mapped \cup {name}) \ {NoBase}
  BY <1>8
<1>10. mapped = {shards[i].base : i \in 1 .. n}
  BY <1>3 DEF ReaderInv, Release
<1>11. Release(shards)' = {shards'[i].base : i \in 1 .. n + 1}
  BY <1>4 DEF Release
<1>12. OpenFile(name).base = name
  BY DEF OpenFile
<1>13. mapped' = Release(shards)'
  <2>1. ASSUME NEW x \in mapped' PROVE x \in Release(shards)'
    <3>1. CASE x = name
      <4>1. n + 1 \in 1 .. n + 1
        OBVIOUS
      <4> QED BY <1>4, <1>11, <1>12, <3>1, <4>1
    <3>2. CASE x \in mapped
      <4>1. PICK i \in 1 .. n : x = shards[i].base
        BY <1>10, <3>2
      <4>2. i \in 1 .. n + 1 /\ x = shards'[i].base
        BY <1>4, <4>1
      <4> QED BY <1>11, <4>2
    <3> QED BY <1>9, <2>1, <3>1, <3>2
  <2>2. ASSUME NEW x \in Release(shards)' PROVE x \in mapped'
    <3>1. PICK i \in 1 .. n + 1 : x = shards'[i].base
      BY <1>11, <2>2
    <3>2. x # NoBase
      <4>1. x \in Nat
        BY <1>6, <3>1
      <4> QED BY <4>1 DEF NoBase
    <3>3. CASE i = n + 1
      BY <1>4, <1>9, <1>12, <3>1, <3>2, <3>3
    <3>4. CASE i # n + 1
      <4>1. i \in 1 .. n
        BY <3>4
      <4> QED BY <1>4, <1>9, <1>10, <3>1, <3>2, <4>1
    <3> QED BY <3>3, <3>4
  <2> QED BY <2>1, <2>2
<1>14. \A i \in 1 .. n + 1 : Accepted(shards'[i].name)
  <2> TAKE i \in 1 .. n + 1
  <2>1. CASE i = n + 1
    BY <1>4, <2>1 DEF OpenFile
  <2>2. CASE i # n + 1
    <3>1. i \in 1 .. n
      BY <2>2
    <3>2. shards'[i] = shards[i] /\ Accepted(shards[i].name)
      BY <1>3, <1>4, <3>1 DEF ReaderInv, ShardsAccepted
    <3> QED BY <3>2
  <2> QED BY <2>1, <2>2
<1>15. Files' = Files /\ Files = {OpenFile(q)' : q \in DOMAIN dir'.files}
  <2>1. \A q : OpenFile(q)' = OpenFile(q)
    BY ViewsHold
  <2> QED BY <1>1, <2>1, Zenon
<1>16. ShardsAccepted'
  BY <1>2, <1>4, <1>14, <1>15 DEF ShardsAccepted, Accepted
<1> QED BY <1>13, <1>16 DEF ReaderInv, Release

LEMMA ReaderMerges ==
  ASSUME ReaderInv, Merge
  PROVE  ReaderInv'
<1> DEFINE clash == \E i, j \in DOMAIN shards : i # j /\ shards[i].tensors \cap shards[j].tensors # {}
           owner(t) == CHOOSE i \in DOMAIN shards : t \in shards[i].tensors
<1>1. CASE Fail(clash)
  BY <1>1, ReaderStops DEF Fail, Throws
<1>2. CASE /\ ~clash
           /\ merged' = [t \in UNION {shards[i].tensors : i \in DOMAIN shards} |->
                           Views(shards[owner(t)].name)[t]]
           /\ phase' = "resolve" /\ UNCHANGED <<dir, pending, shards, mapped>>
  <2>1. ASSUME NEW t \in DOMAIN merged'
        PROVE  \E i \in DOMAIN shards : t \in shards[i].tensors /\ merged'[t] = Views(shards[i].name)[t]
    <3>1. t \in UNION {shards[i].tensors : i \in DOMAIN shards}
      BY <1>2, <2>1
    <3>2. \E i \in DOMAIN shards : t \in shards[i].tensors
      BY <3>1
    <3>3. owner(t) \in DOMAIN shards /\ t \in shards[owner(t)].tensors
      BY <3>2
    <3>4. merged'[t] = Views(shards[owner(t)].name)[t]
      BY <1>2, <3>1
    <3> HIDE DEF owner
    <3> QED BY <3>3, <3>4
  <2>2. \A q : Views(q)' = Views(q)
    BY <1>2, ViewsHold
  <2>3. MergedOnce'
    BY <1>2, <2>1, <2>2 DEF MergedOnce
  <2> QED BY <1>2, <2>3, ReaderHolds DEF ReaderInv
<1> QED BY <1>1, <1>2 DEF Merge

LEMMA ReaderNextInv ==
  ASSUME ReaderInv, [ReaderNext]_readerVars
  PROVE  ReaderInv'
<1>1. CASE UNCHANGED readerVars
  <2>1. UNCHANGED <<dir, phase, pending, shards, merged, mapped>>
    BY <1>1 DEF readerVars
  <2>2. (MergedOnce' <=> MergedOnce) /\ (IndexResolved' <=> IndexResolved)
    BY <2>1 DEF MergedOnce, IndexResolved, Views
  <2> QED BY <2>1, <2>2, ReaderHolds DEF ReaderInv
<1>2. CASE OpenDir
  <2>1. CASE Throws
    BY <2>1, ReaderStops DEF Throws
  <2>2. CASE phase' = "open" /\ UNCHANGED <<dir, shards, merged, mapped>>
    BY <2>2, ReaderHolds DEF ReaderInv
  <2> QED BY <1>2, <2>1, <2>2 DEF OpenDir, Fail
<1>3. CASE Open
  <2>1. PICK name : name = Head(pending)
    OBVIOUS
  <2>2. CASE Throws
    BY <2>2, ReaderStops DEF Throws
  <2>3. CASE /\ phase = "open" /\ name \in DOMAIN dir.files
             /\ dir.files[name].size >= Prefix /\ HeaderAccepted(dir.files[name])
             /\ shards' = Append(shards, OpenFile(name))
             /\ mapped' = (mapped \cup {name})
                            \ Release([i \in DOMAIN Append(shards, OpenFile(name)) |->
                                         MovedFrom(Append(shards, OpenFile(name))[i])])
             /\ UNCHANGED <<dir, phase, merged>>
    <3>1. Accepted(name)
      BY <2>3 DEF Accepted
    <3> QED BY <2>3, <3>1, ReaderOpens
  <2> QED BY <1>3, <2>1, <2>2, <2>3, Zenon DEF Open, Fail, OpenFile
<1>4. CASE Merge
  BY <1>4, ReaderMerges
<1>5. CASE ResolveIndex
  <2>1. CASE Throws
    BY <2>1, ReaderStops DEF Throws
  <2>2. CASE /\ phase = "resolve" /\ phase' = "opened" /\ UNCHANGED <<dir, pending, shards, merged, mapped>>
             /\ ~(~(SingleFile \in DOMAIN dir.files) /\ \E t \in DOMAIN dir.index :
                    ~\E i \in DOMAIN shards : shards[i].name = dir.index[t] /\ t \in shards[i].tensors)
    <3>1. IndexResolved'
      BY <2>2 DEF IndexResolved
    <3>2. MergedOnce
      BY <2>2 DEF ReaderInv
    <3>3. \A q : Views(q)' = Views(q)
      BY <2>2 DEF Views
    <3>4. MergedOnce'
      BY <2>2, <3>2, <3>3 DEF MergedOnce
    <3> QED BY <2>2, <3>1, <3>4, ReaderHolds DEF ReaderInv
  <2> QED BY <1>5, <2>1, <2>2, Zenon DEF ResolveIndex, Fail
<1>6. CASE Close
  BY <1>6, ReaderStops DEF Close
<1>7. CASE Stopped
  BY <1>1, <1>7 DEF Stopped
<1> QED BY <1>1, <1>2, <1>3, <1>4, <1>5, <1>6, <1>7 DEF ReaderNext

LEMMA ReaderViews == ReaderInv => ViewsSound
<1> SUFFICES ASSUME ReaderInv PROVE ViewsSound
  OBVIOUS
<1>1. ASSUME phase \in {"failed", "closed"} PROVE mapped = {}
  BY <1>1 DEF ReaderInv, Release
<1>2. ASSUME phase = "opened", NEW t \in DOMAIN merged
      PROVE  LET v == merged[t] IN
             /\ v.base \in mapped
             /\ v.at + v.nbytes <= dir.files[v.base].size
             /\ v.nbytes = Product(v.shape) * DtypeSize(v.dtype)
             /\ SingleFile \notin DOMAIN dir.files /\ t \in DOMAIN dir.index => v.base = dir.index[t]
  <2>1. MergedOnce /\ IndexResolved /\ ShardsAccepted /\ mapped = Release(shards)
    BY <1>2 DEF ReaderInv
  <2>2. PICK i \in DOMAIN shards : t \in shards[i].tensors /\ merged[t] = Views(shards[i].name)[t]
    BY <2>1 DEF MergedOnce
  <2>3. PICK name : name = shards[i].name /\ Accepted(name) /\ dir \in Directories
    BY <2>1 DEF ShardsAccepted
  <2>4. shards[i] \in {OpenFile(q) : q \in DOMAIN dir.files}
    BY <2>1 DEF ShardsAccepted
  <2>5. PICK q \in DOMAIN dir.files : shards[i] = OpenFile(q)
    BY <2>4
  <2>6. shards[i].base = name /\ t \in DOMAIN Views(name)
    <3>1. OpenFile(q).name = q /\ OpenFile(q).base = q /\ OpenFile(q).tensors = DOMAIN Views(q)
      BY DEF OpenFile
    <3> QED BY <2>2, <2>3, <2>5, <3>1
  <2>7. PICK v : v = merged[t] /\ v = Views(name)[t]
    BY <2>2, <2>3
  <2>8. /\ v.base = name
        /\ v.at + v.nbytes <= dir.files[name].size
        /\ v.nbytes = Product(v.shape) * DtypeSize(v.dtype)
    BY <2>3, <2>6, <2>7, ViewSound
  <2>9. name \in mapped
    BY <2>1, <2>6 DEF Release
  <2>10. ASSUME SingleFile \notin DOMAIN dir.files, t \in DOMAIN dir.index PROVE name = dir.index[t]
    <3>1. PICK j \in DOMAIN shards : shards[j].name = dir.index[t] /\ t \in shards[j].tensors
      BY <2>1, <2>10 DEF IndexResolved
    <3>2. i = j
      BY <2>1, <2>2, <3>1 DEF MergedOnce
    <3> QED BY <2>3, <3>1, <3>2
  <2> QED BY <2>7, <2>8, <2>9, <2>10
<1> QED BY <1>1, <1>2 DEF ViewsSound

(***************************************************************************)
(* SafetensorsModel, for every width of the integers and every directory:  *)
(* the views of an opened model point into mappings that are still there,  *)
(* lie inside their file and are as long as their shape and dtype say      *)
(* without wraparound; nothing stays mapped when it is gone or has failed. *)
(***************************************************************************)
THEOREM OpenedViewsAreSound == ReaderSpec => []ViewsSound
<1>1. ReaderInit => ReaderInv
  BY ReaderInitInv
<1>2. ReaderInv /\ [ReaderNext]_readerVars => ReaderInv'
  BY ReaderNextInv
<1>3. ReaderInv => ViewsSound
  BY ReaderViews
<1> QED BY <1>1, <1>2, <1>3, PTL DEF ReaderSpec
==============================================================================
