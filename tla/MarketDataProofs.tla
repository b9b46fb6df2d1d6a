-------------------------- MODULE MarketDataProofs --------------------------
(***************************************************************************)
(* Proofs about MarketData, for any universe, bar lengths, prices, delays, *)
(* calendar and bounds its assumptions admit.  The volume of a bar is a    *)
(* sum: of LedgerProofs only the lemmas about sums are used.               *)
(***************************************************************************)
EXTENDS MarketData, LedgerProofs

(***************************************************************************)
(* A power of two is a natural number: it counts the subsets of a set.     *)
(***************************************************************************)
LEMMA Powers == ASSUME NEW n \in Nat PROVE 2^n \in Nat
<1>1. IsFiniteSet(1..n) /\ Cardinality(1..n) = n
  BY FS_Interval
<1>2. IsFiniteSet(SUBSET (1..n)) /\ Cardinality(SUBSET (1..n)) = 2^Cardinality(1..n)
  BY <1>1, FS_SUBSET
<1>3. Cardinality(SUBSET (1..n)) \in Nat
  BY <1>2, FS_CardinalityType
<1> QED
  BY <1>1, <1>2, <1>3

(* The largest and the smallest number of a set are unique. *)
LEMMA MaxIs ==
    ASSUME NEW S, S \subseteq Int, NEW x \in S, \A y \in S : x >= y
    PROVE  Max(S) = x
<1> DEFINE m == Max(S)
<1>1. m \in S /\ \A y \in S : m >= y
  BY DEF Max
<1> HIDE DEF m
<1>2. m \in Int /\ x \in Int /\ m >= x /\ x >= m
  BY <1>1
<1>3. m = x
  BY <1>2
<1> QED
  BY <1>3 DEF m

LEMMA MinIs ==
    ASSUME NEW S, S \subseteq Int, NEW x \in S, \A y \in S : x <= y
    PROVE  Min(S) = x
<1> DEFINE m == Min(S)
<1>1. m \in S /\ \A y \in S : m <= y
  BY DEF Min
<1> HIDE DEF m
<1>2. m \in Int /\ x \in Int /\ m <= x /\ x <= m
  BY <1>1
<1>3. m = x
  BY <1>2
<1> QED
  BY <1>3 DEF m

(* A finite set of rows has one with the highest value. *)
LEMMA HighestRow ==
    ASSUME NEW v, NEW S, IsFiniteSet(S), S # {}, \A i \in S : v[i] \in Nat
    PROVE  \E i \in S : \A j \in S : v[i] >= v[j]
<1> DEFINE Has(s) == \E i \in s : \A j \in s : v[i] >= v[j]
           Bad == {s \in SUBSET S : s # {} /\ ~Has(s)}
<1> SUFFICES ASSUME Bad # {} PROVE FALSE
  OBVIOUS
<1>1. PICK m \in Bad : \A t \in Bad : t \subseteq m => t = m
  <2>1. Bad \subseteq SUBSET S
    OBVIOUS
  <2> HIDE DEF Bad
  <2> QED
    BY <2>1, MinimalSubset
<1>2. PICK x \in m : TRUE
  OBVIOUS
<1> DEFINE r == m \ {x}
<1>3. r \subseteq m /\ r # m /\ r \subseteq S /\ m = r \cup {x} /\ x \in S
  BY <1>2
<1>4. r \notin Bad
  BY <1>1, <1>3
<1>5. CASE r = {}
  <2>1. Has(m)
    BY <1>3, <1>5
  <2> QED
    BY <2>1, <1>1
<1>6. CASE r # {}
  <2>1. Has(r)
    BY <1>3, <1>4, <1>6
  <2>2. PICK i \in r : \A j \in r : v[i] >= v[j]
    BY <2>1
  <2>3. v[x] \in Nat /\ \A j \in r : v[j] \in Nat
    BY <1>3
  <2>4. CASE v[x] >= v[i]
    <3>1. \A j \in m : v[x] >= v[j]
      BY <1>3, <2>2, <2>3, <2>4
    <3> QED
      BY <3>1, <1>1, <1>2
  <2>5. CASE v[i] >= v[x]
    <3>1. \A j \in m : v[i] >= v[j]
      BY <1>3, <2>2, <2>3, <2>5
    <3> QED
      BY <3>1, <1>1, <1>3
  <2> QED
    BY <2>3, <2>4, <2>5
<1> QED
  BY <1>5, <1>6

(* The values of some rows, their highest and their lowest. *)
Values(v, S) == {v[i] : i \in S}

LEMMA HighAndLow ==
    ASSUME NEW v, NEW S, IsFiniteSet(S), S # {}, \A i \in S : v[i] \in Nat
    PROVE  /\ Values(v, S) \subseteq Nat
           /\ Max(Values(v, S)) \in Values(v, S) /\ Min(Values(v, S)) \in Values(v, S)
           /\ \A y \in Values(v, S) : Max(Values(v, S)) >= y /\ Min(Values(v, S)) <= y
<1> DEFINE P == Values(v, S)
<1>1. P \subseteq Nat /\ P # {}
  BY DEF Values
<1>2. PICK x \in P : \A y \in P : x >= y
  <2>1. PICK i \in S : \A j \in S : v[i] >= v[j]
    BY HighestRow
  <2>2. v[i] \in P /\ \A y \in P : v[i] >= y
    BY <2>1 DEF Values
  <2> QED
    BY <2>2
<1>3. PICK z \in P : \A y \in P : z <= y
  <2> HIDE DEF P
  <2> QED
    BY <1>1, LeastElement
<1> HIDE DEF P
<1>4. Max(P) = x /\ Min(P) = z
  <2>1. P \subseteq Int
    BY <1>1
  <2>2. Max(P) = x
    BY <2>1, <1>2, MaxIs
  <2>3. Min(P) = z
    BY <2>1, <1>3, MinIs
  <2> QED
    BY <2>2, <2>3
<1> QED
  BY <1>1, <1>2, <1>3, <1>4 DEF P

(* One row more. *)
LEMMA HighAndLowAdded ==
    ASSUME NEW v, NEW S, IsFiniteSet(S), S # {}, \A i \in S : v[i] \in Nat,
           NEW x, v[x] \in Nat
    PROVE  /\ Max(Values(v, S \cup {x})) =
                IF v[x] > Max(Values(v, S)) THEN v[x] ELSE Max(Values(v, S))
           /\ Min(Values(v, S \cup {x})) =
                IF v[x] < Min(Values(v, S)) THEN v[x] ELSE Min(Values(v, S))
<1> DEFINE P == Values(v, S)
           Q == Values(v, S \cup {x})
<1>1. Q = P \cup {v[x]}
  BY DEF Values
<1>2. /\ P \subseteq Nat /\ Max(P) \in P /\ Min(P) \in P
      /\ \A y \in P : Max(P) >= y /\ Min(P) <= y
  BY HighAndLow
<1>3. Q \subseteq Int
  BY <1>1, <1>2
<1> HIDE DEF P, Q
<1> DEFINE h == IF v[x] > Max(P) THEN v[x] ELSE Max(P)
           l == IF v[x] < Min(P) THEN v[x] ELSE Min(P)
<1>4. h \in Q /\ \A y \in Q : h >= y
  <2> DEFINE m == Max(P)
  <2>1. m \in P /\ m \in Nat /\ \A y \in P : m >= y /\ y \in Nat
    BY <1>2
  <2> HIDE DEF m
  <2>2. (IF v[x] > m THEN v[x] ELSE m) \in Q
    BY <1>1, <2>1
  <2>3. \A y \in Q : (IF v[x] > m THEN v[x] ELSE m) >= y
    BY <1>1, <2>1
  <2> QED
    BY <2>2, <2>3 DEF m
<1>5. l \in Q /\ \A y \in Q : l <= y
  <2> DEFINE m == Min(P)
  <2>1. m \in P /\ m \in Nat /\ \A y \in P : m <= y /\ y \in Nat
    BY <1>2
  <2> HIDE DEF m
  <2>2. (IF v[x] < m THEN v[x] ELSE m) \in Q
    BY <1>1, <2>1
  <2>3. \A y \in Q : (IF v[x] < m THEN v[x] ELSE m) <= y
    BY <1>1, <2>1
  <2> QED
    BY <2>2, <2>3 DEF m
<1>6. Max(Q) = h
  <2> HIDE DEF h
  <2> QED
    BY <1>3, <1>4, MaxIs
<1>7. Min(Q) = l
  <2> HIDE DEF l
  <2> QED
    BY <1>3, <1>5, MinIs
<1> QED
  BY <1>6, <1>7 DEF P, Q

-----------------------------------------------------------------------------
(***************************************************************************)
(* The cuts of a sequence of delivered ticks.                              *)
(***************************************************************************)
Delivered == [tick : Tick, epoch : Nat]

(* What a delivered tick holds. *)
LEMMA DeliveredFields ==
    ASSUME NEW r \in Delivered
    PROVE  r.tick \in Tick /\ r.epoch \in Nat /\ r.tick.ltp \in Prices /\ r.tick.ltp \in Nat
             /\ r.tick.ltq \in Nat /\ r.tick.ltt \in Nat
  BY MarketDataAssumption DEF Delivered, Tick

(* The cuts are some of the ticks, the first among them. *)
LEMMA CutsType ==
    ASSUME NEW q \in Seq(Delivered), NEW s
    PROVE  /\ DOMAIN q = 1..Len(q) /\ Len(q) \in Nat /\ IsFiniteSet(DOMAIN q)
           /\ Cuts(q, s) \in SUBSET (DOMAIN q) /\ IsFiniteSet(Cuts(q, s))
           /\ Cardinality(Cuts(q, s)) \in Nat
           /\ q # <<>> => Len(q) \in DOMAIN q /\ 1 \in Cuts(q, s) /\ Cardinality(Cuts(q, s)) # 0
           /\ \A i \in DOMAIN q :
                 /\ IsFiniteSet({j \in Cuts(q, s) : j <= i})
                 /\ BarOf(q, s, i) \in 0..Cardinality(Cuts(q, s))
           /\ q # <<>> => BarOf(q, s, Len(q)) = Cardinality(Cuts(q, s))
<1>1. DOMAIN q = 1..Len(q) /\ Len(q) \in Nat
  BY LenProperties
<1>2. IsFiniteSet(DOMAIN q)
  BY <1>1, FS_Interval
<1>3. Cuts(q, s) \in SUBSET (DOMAIN q)
  BY DEF Cuts
<1>4. IsFiniteSet(Cuts(q, s)) /\ Cardinality(Cuts(q, s)) \in Nat
  BY <1>2, <1>3, FS_Subset, FS_CardinalityType
<1>5. ASSUME q # <<>>
      PROVE  Len(q) \in DOMAIN q /\ 1 \in Cuts(q, s) /\ Cardinality(Cuts(q, s)) # 0
  <2>1. Len(q) # 0
    BY <1>5, EmptySeq
  <2>2. Len(q) \in DOMAIN q /\ 1 \in DOMAIN q
    BY <2>1, <1>1
  <2>3. 1 \in Cuts(q, s)
    BY <2>2 DEF Cuts
  <2> QED
    BY <2>2, <2>3, <1>4, FS_EmptySet
<1>6. ASSUME NEW i \in DOMAIN q
      PROVE  /\ IsFiniteSet({j \in Cuts(q, s) : j <= i})
             /\ BarOf(q, s, i) \in 0..Cardinality(Cuts(q, s))
  <2> DEFINE T == {j \in Cuts(q, s) : j <= i}
  <2>1. T \in SUBSET Cuts(q, s)
    OBVIOUS
  <2>2. IsFiniteSet(T) /\ Cardinality(T) <= Cardinality(Cuts(q, s)) /\ Cardinality(T) \in Nat
    <3> HIDE DEF T
    <3> QED
      BY <2>1, <1>4, FS_Subset, FS_CardinalityType
  <2> HIDE DEF T
  <2>3. BarOf(q, s, i) = Cardinality(T)
    BY DEF T, BarOf
  <2> QED
    BY <2>2, <2>3, <1>4 DEF T
<1>7. {j \in Cuts(q, s) : j <= Len(q)} = Cuts(q, s)
  BY <1>1, <1>3
<1> QED
  BY <1>1, <1>2, <1>3, <1>4, <1>5, <1>6, <1>7 DEF BarOf

(* The tick that comes next begins a bar. *)
NewBar(q, s, r) ==
    \/ q = <<>>
    \/ BucketStartFor(r.tick.ltt, s) # Bucket(q, s, Len(q))
    \/ r.epoch # q[Len(q)].epoch

(* One tick more adds a cut or none, and leaves the others where they are. *)
LEMMA CutsAppended ==
    ASSUME NEW q \in Seq(Delivered), NEW r \in Delivered, NEW s
    PROVE  LET t == Append(q, r)  n == Len(q) + 1 IN
           /\ t \in Seq(Delivered) /\ Len(t) = n /\ DOMAIN t = DOMAIN q \cup {n}
           /\ n \notin DOMAIN q /\ t[n] = r /\ t # <<>>
           /\ \A i \in DOMAIN q : t[i] = q[i] /\ i < n
           /\ Cuts(t, s) = IF NewBar(q, s, r) THEN Cuts(q, s) \cup {n} ELSE Cuts(q, s)
           /\ \A i \in DOMAIN q : BarOf(t, s, i) = BarOf(q, s, i)
<1> DEFINE t == Append(q, r)
           n == Len(q) + 1
<1>1. DOMAIN q = 1..Len(q) /\ Len(q) \in Nat
  BY LenProperties
<1>2. t \in Seq(Delivered) /\ Len(t) = n
  BY AppendProperties
<1>3. t[n] = r /\ \A i \in DOMAIN q : t[i] = q[i]
  BY <1>1, AppendProperties
<1>4. DOMAIN t = 1..n
  BY <1>2, LenProperties
<1>5. DOMAIN t = DOMAIN q \cup {n} /\ n \notin DOMAIN q
  BY <1>1, <1>4
<1>6. t # <<>>
  BY <1>1, <1>2, EmptySeq
<1> HIDE DEF t
<1>7. \A i \in DOMAIN q : i \in Cuts(t, s) <=> i \in Cuts(q, s)
  <2> SUFFICES ASSUME NEW i \in DOMAIN q PROVE i \in Cuts(t, s) <=> i \in Cuts(q, s)
    OBVIOUS
  <2>1. CASE i = 1
    BY <2>1, <1>5 DEF Cuts
  <2>2. CASE i # 1
    <3>1. i - 1 \in DOMAIN q
      BY <2>2, <1>1
    <3>2. t[i] = q[i] /\ t[i - 1] = q[i - 1]
      BY <3>1, <1>3
    <3> QED
      BY <2>2, <3>2, <1>5 DEF Cuts, Bucket
  <2> QED
    BY <2>1, <2>2
<1>8. n \in Cuts(t, s) <=> NewBar(q, s, r)
  <2>1. CASE q = <<>>
    <3>1. n = 1
      BY <2>1, EmptySeq
    <3> QED
      BY <2>1, <3>1, <1>5 DEF Cuts, NewBar
  <2>2. CASE q # <<>>
    <3>1. Len(q) # 0
      BY <2>2, EmptySeq
    <3>2. n # 1 /\ n - 1 = Len(q) /\ Len(q) \in DOMAIN q
      BY <3>1, <1>1
    <3>3. t[n - 1] = q[Len(q)]
      BY <3>2, <1>3
    <3> QED
      BY <2>2, <3>2, <3>3, <1>3, <1>5 DEF Cuts, NewBar, Bucket
  <2> QED
    BY <2>1, <2>2
<1>9. Cuts(q, s) \subseteq DOMAIN q /\ Cuts(t, s) \subseteq DOMAIN t
  BY DEF Cuts
<1>10. Cuts(t, s) = IF NewBar(q, s, r) THEN Cuts(q, s) \cup {n} ELSE Cuts(q, s)
  <2> DEFINE A == Cuts(t, s)
             B == Cuts(q, s)
             D == DOMAIN q
  <2>1. B \subseteq D /\ A \subseteq D \cup {n} /\ n \notin D /\ \A i \in D : i \in A <=> i \in B
    BY <1>5, <1>7, <1>9
  <2> HIDE DEF n, A, B, D
  <2>2. A = IF n \in A THEN B \cup {n} ELSE B
    BY <2>1
  <2> QED
    BY <2>2, <1>8 DEF A, B
<1>11. \A i \in DOMAIN q : i < n
  BY <1>1
<1>12. ASSUME NEW i \in DOMAIN q PROVE BarOf(t, s, i) = BarOf(q, s, i)
  <2>1. ~(n <= i)
    BY <1>1
  <2>2. {j \in Cuts(t, s) : j <= i} = {j \in Cuts(q, s) : j <= i}
    <3> HIDE DEF n
    <3> QED
      BY <2>1, <1>10
  <2> QED
    BY <2>2 DEF BarOf
<1> QED
  BY <1>2, <1>3, <1>5, <1>6, <1>10, <1>11, <1>12 DEF t

(* The first and the last of some ticks. *)
LEMMA FirstAndLast ==
    ASSUME NEW S \in SUBSET Nat, IsFiniteSet(S), S # {}
    PROVE  /\ Max(S) \in S /\ \A y \in S : Max(S) >= y
           /\ Min(S) \in S /\ \A y \in S : Min(S) <= y
<1> DEFINE v == [i \in S |-> i]
<1>1. Values(v, S) = S /\ \A i \in S : v[i] \in Nat
  BY DEF Values
<1> HIDE DEF v
<1> QED
  BY <1>1, HighAndLow

(***************************************************************************)
(* Which ticks belong to which bar after one tick more: those of the bars  *)
(* before are as they were, the tick is alone in a new bar or joins the    *)
(* last one.                                                               *)
(***************************************************************************)
LEMMA TicksOfAppended ==
    ASSUME NEW q \in Seq(Delivered), NEW r \in Delivered, NEW s
    PROVE  LET t == Append(q, r)  n == Len(q) + 1  k == Cardinality(Cuts(q, s)) IN
           /\ k \in Nat
           /\ NewBar(q, s, r) => /\ Cardinality(Cuts(t, s)) = k + 1
                                 /\ \A b \in 1..k : TicksOf(t, s, b) = TicksOf(q, s, b)
                                 /\ TicksOf(t, s, k + 1) = {n}
           /\ ~NewBar(q, s, r) => /\ Cardinality(Cuts(t, s)) = k /\ k # 0
                                  /\ \A b \in 1..(k - 1) : TicksOf(t, s, b) = TicksOf(q, s, b)
                                  /\ TicksOf(t, s, k) = TicksOf(q, s, k) \cup {n}
                                  /\ Len(q) \in TicksOf(q, s, k)
<1> DEFINE t == Append(q, r)
           n == Len(q) + 1
           k == Cardinality(Cuts(q, s))
<1>0. t = Append(q, r) /\ n = Len(q) + 1 /\ k = Cardinality(Cuts(q, s))
  OBVIOUS
<1> HIDE DEF t, n, k
<1> USE <1>0
<1>1. /\ IsFiniteSet(Cuts(q, s)) /\ k \in Nat /\ Cuts(q, s) \in SUBSET (DOMAIN q)
      /\ q # <<>> => /\ Len(q) \in DOMAIN q /\ k # 0
                     /\ BarOf(q, s, Len(q)) = k
      /\ \A i \in DOMAIN q : BarOf(q, s, i) \in 0..k
  BY CutsType
<1>2. /\ t \in Seq(Delivered) /\ Len(t) = n /\ DOMAIN t = DOMAIN q \cup {n}
      /\ n \notin DOMAIN q /\ t # <<>>
      /\ Cuts(t, s) = IF NewBar(q, s, r) THEN Cuts(q, s) \cup {n} ELSE Cuts(q, s)
      /\ \A i \in DOMAIN q : BarOf(t, s, i) = BarOf(q, s, i)
  BY CutsAppended
<1>3. BarOf(t, s, n) = Cardinality(Cuts(t, s))
  BY <1>2, CutsType
<1>4. CASE NewBar(q, s, r)
  <2>1. Cardinality(Cuts(t, s)) = k + 1
    <3> DEFINE C == Cuts(q, s)
    <3>1. IsFiniteSet(C) /\ n \notin C /\ Cuts(t, s) = C \cup {n}
      BY <1>1, <1>2, <1>4
    <3>2. Cardinality(C \cup {n}) = Cardinality(C) + 1
      <4> HIDE DEF C
      <4> QED
        BY <3>1, FS_AddElement
    <3> QED
      BY <3>1, <3>2
  <2>2. \A b : TicksOf(t, s, b) = {i \in DOMAIN q \cup {n} : BarOf(t, s, i) = b}
    BY <1>2 DEF TicksOf
  <2>3. ASSUME NEW b \in 1..k PROVE TicksOf(t, s, b) = TicksOf(q, s, b)
    <3>1. BarOf(t, s, n) # b
      BY <1>1, <1>3, <2>1
    <3> QED
      BY <1>2, <2>2, <3>1 DEF TicksOf
  <2>4. TicksOf(t, s, k + 1) = {n}
    <3>1. \A i \in DOMAIN q : BarOf(t, s, i) # k + 1
      BY <1>1, <1>2
    <3>2. BarOf(t, s, n) = k + 1
      BY <1>3, <2>1
    <3> QED
      BY <2>2, <3>1, <3>2
  <2> QED
    BY <1>1, <1>4, <2>1, <2>3, <2>4
<1>5. CASE ~NewBar(q, s, r)
  <2>1. q # <<>> /\ k # 0 /\ Cardinality(Cuts(t, s)) = k
    BY <1>1, <1>2, <1>5 DEF NewBar
  <2>2. \A b : TicksOf(t, s, b) = {i \in DOMAIN q \cup {n} : BarOf(t, s, i) = b}
    BY <1>2 DEF TicksOf
  <2>3. ASSUME NEW b \in 1..(k - 1) PROVE TicksOf(t, s, b) = TicksOf(q, s, b)
    <3>1. BarOf(t, s, n) # b
      BY <1>1, <1>3, <2>1
    <3> QED
      BY <1>2, <2>2, <3>1 DEF TicksOf
  <2>4. TicksOf(t, s, k) = TicksOf(q, s, k) \cup {n}
    <3>1. BarOf(t, s, n) = k
      BY <1>3, <2>1
    <3> QED
      BY <1>2, <2>2, <3>1 DEF TicksOf
  <2>5. Len(q) \in TicksOf(q, s, k)
    BY <1>1, <2>1 DEF TicksOf
  <2> QED
    BY <1>1, <1>5, <2>1, <2>3, <2>4, <2>5
<1> QED
  BY <1>1, <1>4, <1>5 DEF t, n, k

(* The bars before the last are summed up as before. *)
LEMMA SummaryKept ==
    ASSUME NEW q \in Seq(Delivered), NEW r \in Delivered, NEW s,
           NEW t, t = Append(q, r), NEW S \in SUBSET (DOMAIN q), S # {}
    PROVE  Summary(t, s, S) = Summary(q, s, S)
<1>1. IsFiniteSet(DOMAIN q) /\ DOMAIN q \subseteq Nat
  BY CutsType
<1>2. IsFiniteSet(S) /\ S \in SUBSET Nat
  BY <1>1, FS_Subset
<1>3. Max(S) \in S /\ Min(S) \in S
  BY <1>2, FirstAndLast
<1>4. \A i \in DOMAIN q : t[i] = q[i] /\ i \in DOMAIN t
  BY CutsAppended
<1>5. \A i \in S : t[i] = q[i]
  BY <1>4
<1>6. SumFunctionOnSet(Volumes(t), S) = SumFunctionOnSet(Volumes(q), S)
  <2>1. \A i \in S : Volumes(t)[i] = Volumes(q)[i]
    BY <1>4 DEF Volumes
  <2> QED
    BY <1>2, <2>1, SumSame
<1>7. {t[i].tick.ltp : i \in S} = {q[i].tick.ltp : i \in S}
  BY <1>5
<1> QED
  BY <1>3, <1>5, <1>6, <1>7 DEF Summary, Bucket

(* A single number is the largest and the smallest. *)
LEMMA OfOne == ASSUME NEW n \in Nat PROVE Max({n}) = n /\ Min({n}) = n
<1> DEFINE S == {n}
<1>1. S \subseteq Int /\ n \in S /\ \A y \in S : n >= y /\ n <= y
  OBVIOUS
<1> HIDE DEF S
<1>2. Max(S) = n
  BY <1>1, MaxIs
<1>3. Min(S) = n
  BY <1>1, MinIs
<1> QED
  BY <1>2, <1>3 DEF S

(* A bar of one tick is the bar that tick opens. *)
LEMMA SummaryOfOne ==
    ASSUME NEW q \in Seq(Delivered), NEW s, NEW n \in DOMAIN q
    PROVE  Summary(q, s, {n}) = Opened(q[n].tick, s)
<1>1. n \in Nat /\ q[n] \in Delivered
  BY CutsType, ElementOfSeq
<1>2. q[n].tick.ltp \in Nat /\ q[n].tick.ltq \in Nat
  BY <1>1, DeliveredFields
<1>3. Max({n}) = n /\ Min({n}) = n
  BY <1>1, OfOne
<1> DEFINE p == q[n].tick.ltp
<1>4. Max({p}) = p /\ Min({p}) = p
  BY <1>2, OfOne
<1>5. {q[i].tick.ltp : i \in {n}} = {p}
  OBVIOUS
<1>6. SumFunctionOnSet(Volumes(q), {n}) = q[n].tick.ltq
  <2> DEFINE f == Volumes(q)
  <2>1. f[n] = q[n].tick.ltq /\ f[n] \in Int
    BY <1>2 DEF Volumes
  <2>2. SumFunctionOnSet(f, {}) = 0
    BY SumEmpty
  <2> HIDE DEF f
  <2>3. SumFunctionOnSet(f, {} \cup {n}) = SumFunctionOnSet(f, {}) + f[n]
    BY <2>1, FS_EmptySet, SumAdd
  <2>4. {} \cup {n} = {n}
    OBVIOUS
  <2>5. SumFunctionOnSet(f, {n}) = f[n]
    BY <2>1, <2>2, <2>3, <2>4
  <2> QED
    BY <2>1, <2>5 DEF f
<1> QED
  BY <1>3, <1>4, <1>5, <1>6 DEF Summary, Opened, Bucket

(* A tick that joins a bar extends it as CandleAggregator does. *)
LEMMA SummaryExtended ==
    ASSUME NEW q \in Seq(Delivered), NEW r \in Delivered, NEW s,
           NEW S \in SUBSET (DOMAIN q), S # {}
    PROVE  Summary(Append(q, r), s, S \cup {Len(q) + 1}) = Extended(Summary(q, s, S), r.tick)
<1> DEFINE t == Append(q, r)
           n == Len(q) + 1
<1>0. t = Append(q, r) /\ n = Len(q) + 1
  OBVIOUS
<1> HIDE DEF t, n
<1> USE <1>0
<1> DEFINE T == S \cup {n}
           b == Summary(q, s, S)
           v == [i \in DOMAIN t |-> t[i].tick.ltp]
<1>1. IsFiniteSet(DOMAIN q) /\ DOMAIN q = 1..Len(q) /\ Len(q) \in Nat
  BY CutsType
<1>2. IsFiniteSet(S) /\ S \in SUBSET Nat
  BY <1>1, FS_Subset
<1>3. /\ t \in Seq(Delivered) /\ DOMAIN t = DOMAIN q \cup {n} /\ n \notin DOMAIN q /\ t[n] = r
      /\ \A i \in DOMAIN q : t[i] = q[i] /\ i < n
  BY CutsAppended
<1>4. T \subseteq DOMAIN t /\ n \notin S /\ n \in Nat /\ \A i \in S : i <= n
  BY <1>1, <1>3
<1>5. \A i \in DOMAIN t : t[i].tick.ltp \in Nat /\ t[i].tick.ltq \in Nat
  BY <1>3, ElementOfSeq, LenProperties, DeliveredFields
<1>6. Min(S) \in S /\ Min(T) = Min(S)
  <2>1. Min(S) \in S /\ \A y \in S : Min(S) <= y
    BY <1>2, FirstAndLast
  <2>2. T \subseteq Int /\ Min(S) \in T /\ \A y \in T : Min(S) <= y
    BY <2>1, <1>2, <1>4
  <2> HIDE DEF T
  <2> QED
    BY <2>1, <2>2, MinIs
<1>7. Max(T) = n
  <2>1. T \subseteq Int /\ n \in T /\ \A y \in T : n >= y
    BY <1>2, <1>4
  <2> HIDE DEF T
  <2> QED
    BY <2>1, MaxIs
<1>8. /\ {t[i].tick.ltp : i \in T} = Values(v, T)
      /\ {q[i].tick.ltp : i \in S} = Values(v, S)
  <2>1. \A i \in T : v[i] = t[i].tick.ltp
    BY <1>4
  <2>2. \A i \in S : v[i] = q[i].tick.ltp
    BY <1>3
  <2> HIDE DEF v
  <2> QED
    BY <2>1, <2>2 DEF Values
<1>9. v[n] = r.tick.ltp /\ v[n] \in Nat /\ \A i \in S : v[i] \in Nat
  BY <1>3, <1>4, <1>5
<1>10. /\ Max(Values(v, T)) =
            IF v[n] > Max(Values(v, S)) THEN v[n] ELSE Max(Values(v, S))
       /\ Min(Values(v, T)) =
            IF v[n] < Min(Values(v, S)) THEN v[n] ELSE Min(Values(v, S))
  <2> HIDE DEF v
  <2> QED
    BY <1>2, <1>9, HighAndLowAdded
<1>11. SumFunctionOnSet(Volumes(t), T) = SumFunctionOnSet(Volumes(q), S) + r.tick.ltq
  <2> DEFINE f == Volumes(t)
             g == Volumes(q)
  <2>1. f[n] = r.tick.ltq /\ f[n] \in Int /\ \A i \in S : f[i] \in Int /\ f[i] = g[i]
    BY <1>3, <1>4, <1>5 DEF Volumes
  <2> HIDE DEF f, g
  <2>2. SumFunctionOnSet(f, S \cup {n}) = SumFunctionOnSet(f, S) + f[n]
    BY <1>2, <1>4, <2>1, SumAdd
  <2>3. SumFunctionOnSet(f, S) = SumFunctionOnSet(g, S)
    BY <1>2, <2>1, SumSame
  <2> QED
    BY <2>1, <2>2, <2>3 DEF f, g
<1> DEFINE m == Min(S)
<1>12. Summary(t, s, T) =
         [ts |-> BucketStartFor(t[m].tick.ltt, s), open |-> t[m].tick.ltp,
          high |-> Max(Values(v, T)), low |-> Min(Values(v, T)), close |-> r.tick.ltp,
          volume |-> SumFunctionOnSet(Volumes(q), S) + r.tick.ltq]
  <2> HIDE DEF T, v
  <2> QED
    BY <1>3, <1>6, <1>7, <1>8, <1>11 DEF Summary, Bucket
<1>13. b = [ts |-> BucketStartFor(q[m].tick.ltt, s), open |-> q[m].tick.ltp,
            high |-> Max(Values(v, S)), low |-> Min(Values(v, S)),
            close |-> q[Max(S)].tick.ltp, volume |-> SumFunctionOnSet(Volumes(q), S)]
  <2> HIDE DEF v
  <2> QED
    BY <1>8 DEF Summary, Bucket
<1>14. t[m] = q[m]
  BY <1>3, <1>6
<1> HIDE DEF b, v, T, m
<1> DEFINE high == Max(Values(v, S))
           low == Min(Values(v, S))
           volume == SumFunctionOnSet(Volumes(q), S)
           price == r.tick.ltp
<1>15. Summary(t, s, T) = Extended(b, r.tick)
  <2>1. Summary(t, s, T) =
          [ts |-> BucketStartFor(q[m].tick.ltt, s), open |-> q[m].tick.ltp,
           high |-> IF price > high THEN price ELSE high,
           low |-> IF price < low THEN price ELSE low, close |-> price,
           volume |-> volume + r.tick.ltq]
    BY <1>9, <1>10, <1>12, <1>14
  <2> HIDE DEF high, low, volume
  <2>2. b.high = high /\ b.low = low /\ b.volume = volume
    BY <1>13 DEF high, low, volume
  <2>3. Extended(b, r.tick) =
          [b EXCEPT !.high = IF price > high THEN price ELSE high,
                    !.low = IF price < low THEN price ELSE low,
                    !.close = price, !.volume = volume + r.tick.ltq]
    BY <2>2 DEF Extended
  <2>4. b = [ts |-> BucketStartFor(q[m].tick.ltt, s), open |-> q[m].tick.ltp,
             high |-> high, low |-> low, close |-> q[Max(S)].tick.ltp, volume |-> volume]
    BY <1>13 DEF high, low, volume
  <2> DEFINE newHigh == IF price > high THEN price ELSE high
             newLow == IF price < low THEN price ELSE low
             newVolume == volume + r.tick.ltq
             start == BucketStartFor(q[m].tick.ltt, s)
             first == q[m].tick.ltp
             last == q[Max(S)].tick.ltp
  <2> HIDE DEF newHigh, newLow, newVolume, start, first, last
  <2>5. [b EXCEPT !.high = newHigh, !.low = newLow, !.close = price, !.volume = newVolume] =
          [ts |-> start, open |-> first, high |-> newHigh, low |-> newLow,
           close |-> price, volume |-> newVolume]
    <3>1. b = [ts |-> start, open |-> first, high |-> high, low |-> low,
               close |-> last, volume |-> volume]
      BY <2>4 DEF start, first, last
    <3> DEFINE Bar(x, y, p, u) == [ts |-> start, open |-> first, high |-> x, low |-> y,
                                   close |-> p, volume |-> u]
    <3> HIDE DEF price
    <3>2. [b EXCEPT !.high = newHigh] = Bar(newHigh, low, last, volume)
      BY <3>1
    <3>3. [Bar(newHigh, low, last, volume) EXCEPT !.low = newLow]
            = Bar(newHigh, newLow, last, volume)
      OBVIOUS
    <3>4. [Bar(newHigh, newLow, last, volume) EXCEPT !.close = price]
            = Bar(newHigh, newLow, price, volume)
      OBVIOUS
    <3>5. [Bar(newHigh, newLow, price, volume) EXCEPT !.volume = newVolume]
            = Bar(newHigh, newLow, price, newVolume)
      OBVIOUS
    <3>6. [b EXCEPT !.high = newHigh, !.low = newLow, !.close = price, !.volume = newVolume] =
            [[[[b EXCEPT !.high = newHigh] EXCEPT !.low = newLow]
                EXCEPT !.close = price] EXCEPT !.volume = newVolume]
      OBVIOUS
    <3> HIDE DEF Bar
    <3>7. [b EXCEPT !.high = newHigh, !.low = newLow, !.close = price, !.volume = newVolume]
            = Bar(newHigh, newLow, price, newVolume)
      BY <3>2, <3>3, <3>4, <3>5, <3>6
    <3> QED
      BY <3>7 DEF Bar
  <2> QED
    BY <2>1, <2>3, <2>5 DEF newHigh, newLow, newVolume, start, first
<1> QED
  BY <1>15 DEF T, b, t, n

-----------------------------------------------------------------------------
(***************************************************************************)
(* The inductive invariant.  For every aggregator: the ticks, cut into     *)
(* bars, are the bars that came out; the bar in progress is that of the    *)
(* last tick, and there is none once the feed was flushed behind it.       *)
(***************************************************************************)
Whole(q, s) == \A n \in 1..Cardinality(Cuts(q, s)) : TicksOf(q, s, n) # {}

InProgress(q, s, b) ==
    IF b = None THEN q = <<>> \/ Last(q).epoch < flushes
    ELSE q # <<>> /\ Last(q).epoch = flushes /\ b.ts = Bucket(q, s, Len(q))

BarInv(a) ==
    /\ Whole(ticks[Key(a)], Seconds(a))
    /\ Bars(ticks[Key(a)], Seconds(a)) = CameOut(a)
    /\ InProgress(ticks[Key(a)], Seconds(a), bar[a])

(***************************************************************************)
(* The session: the feed runs, and a bar is in progress, only from the     *)
(* open to the stop job, unless that was skipped or the task has died.     *)
(***************************************************************************)
Over(at) == ~IsOpenAt(at) \/ TimeOfDay(at) = MarketClose

SessionInv ==
    /\ due \subseteq JobsAt(now)
    /\ ~running => task = "none" /\ due = {}
    /\ task = "none" => bar = NoBars
    /\ task # "returned"
    /\ task = "created" => IsOpenAt(now)
    /\ running /\ ~stopMissed /\ "session_stop" \notin due /\ Over(now)
         => task \in {"none", "dead"}

(***************************************************************************)
(* The alarm: it is raised once, and a feed without a last tick had none.  *)
(***************************************************************************)
AlarmInv ==
    /\ ~staleNotified => alarms = 0
    /\ lastTickAt = None => \A k \in Instruments : ticks[k] = <<>>

SoundCandle == {c \in Candle : Sound(c)}

LoopTypes ==
    /\ now \in 0..Horizon /\ running \in BOOLEAN /\ due \subseteq Jobs
    /\ task \in Alive \cup Done \cup {"none"}
    /\ attempt \in 0..MaxAttempts /\ wakeAt \in Nat
    /\ lastTickAt \in Nat \cup {None} /\ staleNotified \in BOOLEAN
    /\ alarms \in Nat /\ stopMissed \in BOOLEAN
    /\ delivered \in 0..MaxTicks

FeedTypes ==
    /\ bar \in [Aggregators -> SoundCandle \cup {None}]
    /\ ticks \in [Instruments -> Seq(Delivered)]
    /\ published \in [Aggregators -> Seq(SoundCandle)]
    /\ flushes \in Nat

IInv ==
    /\ LoopTypes
    /\ FeedTypes
    /\ SessionInv
    /\ AlarmInv
    /\ \A a \in Aggregators : BarInv(a)

-----------------------------------------------------------------------------
(* One tick more adds a bar or extends the last one. *)
LEMMA BarsAppended ==
    ASSUME NEW q \in Seq(Delivered), NEW r \in Delivered, NEW s, Whole(q, s)
    PROVE  LET t == Append(q, r)  k == Cardinality(Cuts(q, s)) IN
           /\ Whole(t, s)
           /\ k \in Nat /\ DOMAIN Bars(q, s) = 1..k
           /\ NewBar(q, s, r) =>
                Bars(t, s) = [n \in 1..(k + 1) |->
                                IF n = k + 1 THEN Opened(r.tick, s) ELSE Bars(q, s)[n]]
           /\ ~NewBar(q, s, r) =>
                /\ k # 0
                /\ Bars(t, s) = [n \in 1..k |->
                                   IF n = k THEN Extended(Bars(q, s)[k], r.tick)
                                   ELSE Bars(q, s)[n]]
<1> DEFINE t == Append(q, r)
           k == Cardinality(Cuts(q, s))
           n0 == Len(q) + 1
<1>0. t = Append(q, r) /\ k = Cardinality(Cuts(q, s))
  OBVIOUS
<1>2. t \in Seq(Delivered) /\ n0 \in DOMAIN t /\ t[n0] = r
  BY CutsAppended
<1> HIDE DEF n0, t, k
<1> USE <1>0
<1>1. /\ k \in Nat
      /\ NewBar(q, s, r) => /\ Cardinality(Cuts(t, s)) = k + 1
                            /\ \A b \in 1..k : TicksOf(t, s, b) = TicksOf(q, s, b)
                            /\ TicksOf(t, s, k + 1) = {n0}
      /\ ~NewBar(q, s, r) => /\ Cardinality(Cuts(t, s)) = k /\ k # 0
                             /\ \A b \in 1..(k - 1) : TicksOf(t, s, b) = TicksOf(q, s, b)
                             /\ TicksOf(t, s, k) = TicksOf(q, s, k) \cup {n0}
                             /\ Len(q) \in TicksOf(q, s, k)
  BY TicksOfAppended DEF n0
<1>3. \A b \in 1..k : TicksOf(q, s, b) # {} /\ TicksOf(q, s, b) \in SUBSET (DOMAIN q)
  BY DEF Whole, TicksOf
<1>4. DOMAIN Bars(q, s) = 1..k /\ \A b \in 1..k : Bars(q, s)[b] = Summary(q, s, TicksOf(q, s, b))
  BY DEF Bars
<1>5. Bars(t, s) = [b \in 1..Cardinality(Cuts(t, s)) |-> Summary(t, s, TicksOf(t, s, b))]
  BY DEF Bars
<1>6. \A b \in 1..k : Summary(t, s, TicksOf(q, s, b)) = Summary(q, s, TicksOf(q, s, b))
  BY <1>3, SummaryKept
<1>8. CASE NewBar(q, s, r)
  <2>1. Cardinality(Cuts(t, s)) = k + 1 /\ k + 1 \in 1..(k + 1) /\ 1..k \subseteq 1..(k + 1)
    BY <1>1, <1>8
  <2>2. \A b \in 1..(k + 1) : b \in 1..k \/ b = k + 1
    BY <1>1
  <2>3. Whole(t, s)
    BY <1>1, <1>3, <1>8, <2>1, <2>2 DEF Whole
  <2>4. Summary(t, s, {n0}) = Opened(r.tick, s)
    BY <1>2, SummaryOfOne
  <2>5. \A b \in 1..(k + 1) : Summary(t, s, TicksOf(t, s, b)) =
                                IF b = k + 1 THEN Opened(r.tick, s) ELSE Bars(q, s)[b]
    BY <1>1, <1>4, <1>6, <1>8, <2>2, <2>4
  <2> QED
    BY <1>1, <1>4, <1>5, <1>8, <2>1, <2>3, <2>5
<1>9. CASE ~NewBar(q, s, r)
  <2>1. Cardinality(Cuts(t, s)) = k /\ k \in 1..k /\ 1..(k - 1) \subseteq 1..k
    BY <1>1, <1>9
  <2>2. \A b \in 1..k : b \in 1..(k - 1) \/ b = k
    BY <1>1
  <2>3. Whole(t, s)
    BY <1>1, <1>3, <1>9, <2>1, <2>2 DEF Whole
  <2>4. Summary(t, s, TicksOf(q, s, k) \cup {n0}) = Extended(Summary(q, s, TicksOf(q, s, k)), r.tick)
    <3> DEFINE S == TicksOf(q, s, k)
    <3>1. S \in SUBSET (DOMAIN q) /\ S # {}
      BY <1>3, <2>1
    <3> HIDE DEF S
    <3>2. Summary(t, s, S \cup {n0}) = Extended(Summary(q, s, S), r.tick)
      BY <3>1, SummaryExtended DEF n0
    <3> QED
      BY <3>2 DEF S
  <2>5. \A b \in 1..k : Summary(t, s, TicksOf(t, s, b)) =
                          IF b = k THEN Extended(Bars(q, s)[k], r.tick) ELSE Bars(q, s)[b]
    BY <1>1, <1>4, <1>6, <1>9, <2>1, <2>2, <2>4
  <2> QED
    BY <1>1, <1>4, <1>5, <1>9, <2>1, <2>3, <2>5
<1> QED
  BY <1>8, <1>9 DEF t, k

-----------------------------------------------------------------------------
(* What identifies an aggregator. *)
LEMMA AggregatorFields ==
    ASSUME NEW a \in Aggregators
    PROVE  Key(a) \in Instruments /\ Seconds(a) \in Nat \ {0}
<1>1. PICK k \in Instruments : a \in {k} \X Subscriptions[k]
  BY DEF Aggregators
<1>2. a[1] = k /\ a[2] \in Subscriptions[k]
  BY <1>1
<1>3. Subscriptions[k] \in SUBSET (Nat \ {0})
  BY MarketDataAssumption
<1> QED
  BY <1>2, <1>3 DEF Key, Seconds

(* A bucket starts at an instant. *)
LEMMA BucketStarts ==
    ASSUME NEW x \in Nat, NEW s \in Nat \ {0}
    PROVE  BucketStartFor(x, s) \in Nat
<1>1. x % s \in Nat /\ x % s <= x
  OBVIOUS
<1> QED
  BY <1>1 DEF BucketStartFor

(* The bar a tick opens and the bar it extends are sound. *)
LEMMA OpenedSound ==
    ASSUME NEW tick \in Tick, NEW s \in Nat \ {0}
    PROVE  Opened(tick, s) \in SoundCandle
<1>1. BucketStartFor(tick.ltt, s) \in Nat
  BY BucketStarts DEF Tick
<1>2. tick.ltp \in Prices /\ tick.ltp \in Nat /\ tick.ltq \in Nat
  BY MarketDataAssumption DEF Tick
<1> QED
  BY <1>1, <1>2 DEF SoundCandle, Sound, Candle, Opened

LEMMA ExtendedSound ==
    ASSUME NEW tick \in Tick, NEW b \in SoundCandle
    PROVE  Extended(b, tick) \in SoundCandle /\ Extended(b, tick).ts = b.ts
<1> DEFINE e == Extended(b, tick)
<1>1. /\ tick.ltp \in Prices /\ tick.ltp \in Nat /\ tick.ltq \in Nat
      /\ b \in Candle /\ b.open \in Prices /\ b.high \in Prices /\ b.low \in Prices
      /\ b.close \in Prices /\ b.volume \in Nat /\ b.ts \in Nat
      /\ b.low <= b.open /\ b.open <= b.high
  BY MarketDataAssumption DEF Tick, SoundCandle, Candle, Sound
<1>2. /\ e.ts = b.ts /\ e.open = b.open /\ e.close = tick.ltp /\ e.volume = b.volume + tick.ltq
      /\ e.high = IF tick.ltp > b.high THEN tick.ltp ELSE b.high
      /\ e.low = IF tick.ltp < b.low THEN tick.ltp ELSE b.low
  BY <1>1 DEF Extended, Candle
<1>3. e \in Candle
  <2> DEFINE high == IF tick.ltp > b.high THEN tick.ltp ELSE b.high
             low == IF tick.ltp < b.low THEN tick.ltp ELSE b.low
             b1 == [b EXCEPT !.high = high]
             b2 == [b1 EXCEPT !.low = low]
             b3 == [b2 EXCEPT !.close = tick.ltp]
             b4 == [b3 EXCEPT !.volume = b.volume + tick.ltq]
  <2>1. high \in Prices /\ low \in Prices /\ b.volume + tick.ltq \in Nat
    BY <1>1
  <2>2. e = b4
    BY DEF Extended
  <2> HIDE DEF high, low
  <2>3. b1 \in Candle
    BY <1>1, <2>1 DEF Candle
  <2> HIDE DEF b1
  <2>4. b2 \in Candle
    BY <2>1, <2>3 DEF Candle
  <2> HIDE DEF b2
  <2>5. b3 \in Candle
    BY <1>1, <2>4 DEF Candle
  <2> HIDE DEF b3
  <2> QED
    BY <2>1, <2>2, <2>5 DEF Candle
<1>4. b.open \in Nat /\ b.high \in Nat /\ b.low \in Nat
  BY <1>1, MarketDataAssumption
<1> HIDE DEF e
<1>5. Sound(e)
  BY <1>1, <1>2, <1>4 DEF Sound
<1> QED
  BY <1>2, <1>3, <1>5 DEF SoundCandle, e

(* What came out of an aggregator, with and without a bar in progress. *)
LEMMA CameOutIs ==
    ASSUME NEW p \in Seq(SoundCandle), NEW b \in SoundCandle \cup {None}
    PROVE  p \o (IF b = None THEN <<>> ELSE <<b>>) = IF b = None THEN p ELSE Append(p, b)
  BY ConcatEmptySeq, AppendIsConcat

LEMMA NoneIsNoCandle == None \notin SoundCandle /\ None \notin Nat
  BY NoneAssumption DEF SoundCandle

-----------------------------------------------------------------------------
(***************************************************************************)
(* CandleAggregator.add_tick agrees with cutting the ticks into bars: if   *)
(* the bars of the ticks so far came out, p and the one in progress b, so  *)
(* do those of one tick more.                                              *)
(***************************************************************************)
CameOutOf(p, b) == p \o (IF b = None THEN <<>> ELSE <<b>>)

LEMMA TickAdded ==
    ASSUME NEW q \in Seq(Delivered), NEW p \in Seq(SoundCandle), NEW s \in Nat \ {0},
           NEW b \in SoundCandle \cup {None}, NEW r \in Delivered,
           flushes \in Nat, r.epoch = flushes,
           Whole(q, s), Bars(q, s) = CameOutOf(p, b), InProgress(q, s, b)
    PROVE  LET t == Append(q, r)
               c == AddTick(b, r.tick, s)
               o == IF Completes(b, r.tick, s) THEN Append(p, b) ELSE p
           IN  /\ c \in SoundCandle /\ o \in Seq(SoundCandle) /\ t \in Seq(Delivered)
               /\ Whole(t, s) /\ Bars(t, s) = CameOutOf(o, c) /\ InProgress(t, s, c)
<1> DEFINE t == Append(q, r)
           c == AddTick(b, r.tick, s)
           o == IF Completes(b, r.tick, s) THEN Append(p, b) ELSE p
           k == Cardinality(Cuts(q, s))
<1>1. /\ Whole(t, s) /\ k \in Nat /\ DOMAIN Bars(q, s) = 1..k
      /\ NewBar(q, s, r) =>
           Bars(t, s) = [n \in 1..(k + 1) |->
                           IF n = k + 1 THEN Opened(r.tick, s) ELSE Bars(q, s)[n]]
      /\ ~NewBar(q, s, r) =>
           /\ k # 0
           /\ Bars(t, s) = [n \in 1..k |->
                              IF n = k THEN Extended(Bars(q, s)[k], r.tick)
                              ELSE Bars(q, s)[n]]
  <2>1. /\ Whole(Append(q, r), s)
        /\ k \in Nat /\ DOMAIN Bars(q, s) = 1..k
    BY BarsAppended
  <2>2. NewBar(q, s, r) =>
          Bars(Append(q, r), s) = [n \in 1..(k + 1) |->
                                     IF n = k + 1 THEN Opened(r.tick, s) ELSE Bars(q, s)[n]]
    BY BarsAppended
  <2>3. ~NewBar(q, s, r) =>
          /\ k # 0
          /\ Bars(Append(q, r), s) = [n \in 1..k |->
                                        IF n = k THEN Extended(Bars(q, s)[k], r.tick)
                                        ELSE Bars(q, s)[n]]
    BY BarsAppended
  <2> QED
    BY <2>1, <2>2, <2>3
<1>2. /\ t \in Seq(Delivered) /\ Len(t) = Len(q) + 1 /\ t # <<>>
      /\ t[Len(q) + 1] = r
  BY CutsAppended
<1>3. Last(t).epoch = flushes /\ Bucket(t, s, Len(t)) = BucketStartFor(r.tick.ltt, s)
  BY <1>2 DEF Last, Bucket
<1>4. r.tick \in Tick
  BY DeliveredFields
<1>5. Opened(r.tick, s) \in SoundCandle /\ Opened(r.tick, s).ts = BucketStartFor(r.tick.ltt, s)
  BY <1>4, OpenedSound DEF Opened
<1>6. None \notin SoundCandle
  BY NoneIsNoCandle
<1>7. Len(p) \in Nat /\ DOMAIN p = 1..Len(p)
  BY LenProperties
<1> HIDE DEF t, k
<1>8. CASE b = None
  <2>1. c = Opened(r.tick, s) /\ o = p
    BY <1>8 DEF AddTick, Completes
  <2>2. NewBar(q, s, r)
    <3>1. q = <<>> \/ Last(q).epoch < flushes
      BY <1>8 DEF InProgress
    <3>2. CASE q = <<>>
      BY <3>2 DEF NewBar
    <3>3. CASE q # <<>> /\ Last(q).epoch < flushes
      BY <3>3 DEF NewBar, Last
    <3> QED
      BY <3>1, <3>2, <3>3
  <2>3. Bars(q, s) = p
    BY <1>8, CameOutIs DEF CameOutOf
  <2>4. k = Len(p)
    BY <1>1, <1>7, <2>3
  <2>5. CameOutOf(o, c) = Append(p, c)
    BY <1>5, <1>6, <2>1, CameOutIs DEF CameOutOf
  <2>6. Append(p, c) = [n \in 1..(k + 1) |-> IF n = k + 1 THEN c ELSE p[n]]
    BY <2>4
  <2> QED
    BY <1>1, <1>2, <1>3, <1>5, <1>6, <2>1, <2>2, <2>3, <2>5, <2>6 DEF InProgress, t
<1>9. CASE b # None
  <2>1. b \in SoundCandle /\ q # <<>> /\ Last(q).epoch = flushes /\ b.ts = Bucket(q, s, Len(q))
    BY <1>9 DEF InProgress
  <2>2. Bars(q, s) = Append(p, b)
    BY <1>9, <2>1, CameOutIs DEF CameOutOf
  <2>3. Append(p, b) \in Seq(SoundCandle) /\ Len(Append(p, b)) = Len(p) + 1
    BY <2>1, AppendProperties
  <2>4. k = Len(p) + 1
    <3>1. DOMAIN Append(p, b) = 1..(Len(p) + 1)
      BY <2>3, LenProperties
    <3> QED
      BY <1>1, <1>7, <2>2, <3>1
  <2>5. NewBar(q, s, r) <=> Completes(b, r.tick, s)
    BY <1>9, <2>1 DEF NewBar, Completes, Last
  <2>6. CASE Completes(b, r.tick, s)
    <3>1. c = Opened(r.tick, s) /\ o = Append(p, b)
      BY <2>6 DEF AddTick
    <3> DEFINE u == Append(p, b)
    <3>2. u \in Seq(SoundCandle) /\ Len(u) = k
      BY <2>3, <2>4
    <3> HIDE DEF u
    <3>3. Append(u, c) = [n \in 1..(k + 1) |-> IF n = k + 1 THEN c ELSE u[n]]
      BY <3>2
    <3>4. CameOutOf(u, c) = Append(u, c)
      BY <1>5, <1>6, <3>1, <3>2, CameOutIs DEF CameOutOf
    <3>5. Bars(t, s) = [n \in 1..(k + 1) |-> IF n = k + 1 THEN c ELSE u[n]]
      BY <1>1, <2>2, <2>5, <2>6, <3>1 DEF u
    <3> QED
      BY <1>1, <1>2, <1>3, <1>5, <1>6, <3>1, <3>2, <3>3, <3>4, <3>5 DEF InProgress, t, u
  <2>7. CASE ~Completes(b, r.tick, s)
    <3>1. c = Extended(b, r.tick) /\ o = p
      BY <1>9, <2>7 DEF AddTick
    <3>2. c \in SoundCandle /\ c.ts = b.ts
      BY <1>4, <2>1, <3>1, ExtendedSound
    <3>3. b.ts = BucketStartFor(r.tick.ltt, s)
      BY <1>9, <2>7 DEF Completes
    <3>4. Append(p, b)[k] = b /\ \A n \in 1..k : n # k => Append(p, b)[n] = p[n]
      BY <2>1, <2>4, <1>7, AppendProperties
    <3>5. Append(p, c) = [n \in 1..k |-> IF n = k THEN c ELSE p[n]]
      BY <2>4
    <3>6. CameOutOf(o, c) = Append(p, c)
      BY <1>6, <3>1, <3>2, CameOutIs DEF CameOutOf
    <3>7. Bars(t, s) = [n \in 1..k |-> IF n = k THEN c ELSE p[n]]
      BY <1>1, <2>2, <2>5, <2>7, <3>1, <3>4
    <3> QED
      BY <1>1, <1>2, <1>3, <1>6, <3>1, <3>2, <3>3, <3>5, <3>6, <3>7 DEF InProgress, t
  <2> QED
    BY <2>6, <2>7
<1> QED
  BY <1>8, <1>9 DEF t

-----------------------------------------------------------------------------
(* No tick, no bar. *)
LEMMA NoTicks ==
    ASSUME NEW s
    PROVE  Whole(<<>>, s) /\ Bars(<<>>, s) = <<>>
<1>1. Cuts(<<>>, s) = {}
  BY DEF Cuts
<1>2. Cardinality(Cuts(<<>>, s)) = 0
  BY <1>1, FS_EmptySet
<1> QED
  BY <1>2 DEF Whole, Bars

(* The bar invariant depends on the feed's variables only. *)
LEMMA FeedUnchanged ==
    ASSUME FeedTypes, \A a \in Aggregators : BarInv(a),
           UNCHANGED <<bar, ticks, published, flushes>>
    PROVE  FeedTypes' /\ \A a \in Aggregators : BarInv(a)'
  BY DEF FeedTypes, BarInv, CameOut, InProgress

(***************************************************************************)
(* on_tick: each aggregator gets the quote of its instrument or none.      *)
(***************************************************************************)
LEMMA MessageKeepsBars ==
    ASSUME LoopTypes, FeedTypes, \A a \in Aggregators : BarInv(a), Message
    PROVE  FeedTypes' /\ \A a \in Aggregators : BarInv(a)'
<1>1. PICK keys \in SUBSET Instruments :
         \E quotes \in [keys -> RecentTicks] : OnTicks(quotes)
  BY DEF Message
<1>2. PICK quotes \in [keys -> RecentTicks] : OnTicks(quotes)
  BY <1>1
<1>3. DOMAIN quotes = keys /\ \A k \in keys : quotes[k] \in Tick
  BY <1>2 DEF RecentTicks, Tick, LoopTypes
<1> DEFINE Row(k) == [tick |-> quotes[k], epoch |-> flushes]
           Fed(a) == Key(a) \in keys
<1>4. \A k \in keys : Row(k) \in Delivered
  BY <1>3 DEF Delivered, FeedTypes
<1>5. /\ bar' = [a \in Aggregators |->
                   IF Fed(a) THEN AddTick(bar[a], quotes[Key(a)], Seconds(a)) ELSE bar[a]]
      /\ published' = [a \in Aggregators |->
                   IF Fed(a) /\ Completes(bar[a], quotes[Key(a)], Seconds(a))
                   THEN Append(published[a], bar[a]) ELSE published[a]]
      /\ ticks' = [k \in Instruments |->
                   IF k \in keys THEN Append(ticks[k], Row(k)) ELSE ticks[k]]
      /\ flushes' = flushes
  <2>1. \A a \in Aggregators :
           a \in {x \in Aggregators : Key(x) \in DOMAIN quotes} <=> Fed(a)
    BY <1>3
  <2> QED
    BY <1>2, <1>3, <2>1 DEF OnTicks
<1>6. /\ \A a \in Aggregators : bar[a] \in SoundCandle \cup {None}
                                  /\ published[a] \in Seq(SoundCandle)
      /\ \A k \in Instruments : ticks[k] \in Seq(Delivered)
      /\ flushes \in Nat
  BY DEF FeedTypes
<1>7. ASSUME NEW a \in Aggregators, Fed(a)
      PROVE  bar'[a] \in SoundCandle /\ published'[a] \in Seq(SoundCandle) /\ BarInv(a)'
  <2> DEFINE k == Key(a)
             s == Seconds(a)
             q == ticks[k]
             p == published[a]
             b == bar[a]
             r == Row(k)
             t == Append(q, r)
             c == AddTick(b, r.tick, s)
             o == IF Completes(b, r.tick, s) THEN Append(p, b) ELSE p
  <2>1. k \in Instruments /\ s \in Nat \ {0} /\ r \in Delivered /\ r.epoch = flushes
          /\ r.tick = quotes[k]
    BY <1>4, <1>7, AggregatorFields
  <2>2. q \in Seq(Delivered) /\ p \in Seq(SoundCandle) /\ b \in SoundCandle \cup {None}
    BY <1>6, <2>1
  <2>3. Whole(q, s) /\ Bars(q, s) = CameOutOf(p, b) /\ InProgress(q, s, b)
    BY DEF BarInv, CameOut, CameOutOf
  <2>4. bar'[a] = c /\ published'[a] = o /\ ticks'[k] = t
    BY <1>5, <1>7, <2>1
  <2> HIDE DEF q, p, b, r, s
  <2>5. /\ c \in SoundCandle /\ o \in Seq(SoundCandle)
        /\ Whole(t, s) /\ Bars(t, s) = CameOutOf(o, c) /\ InProgress(t, s, c)
    BY <1>6, <2>1, <2>2, <2>3, TickAdded
  <2> HIDE DEF t, c, o
  <2> QED
    BY <1>5, <2>4, <2>5 DEF BarInv, CameOut, CameOutOf, InProgress, s
<1>8. ASSUME NEW a \in Aggregators, ~Fed(a)
      PROVE  bar'[a] = bar[a] /\ published'[a] = published[a] /\ BarInv(a)'
  <2>1. bar'[a] = bar[a] /\ published'[a] = published[a]
    BY <1>5, <1>8
  <2>2. ticks'[Key(a)] = ticks[Key(a)]
    BY <1>5, <1>8, AggregatorFields
  <2>3. BarInv(a)
    OBVIOUS
  <2> QED
    BY <1>5, <2>1, <2>2, <2>3 DEF BarInv, CameOut, InProgress
<1>9. FeedTypes'
  <2>1. \A k \in keys : Append(ticks[k], Row(k)) \in Seq(Delivered)
    <3> HIDE DEF Row
    <3> QED
      BY <1>4, <1>6, AppendProperties
  <2>2. ticks' \in [Instruments -> Seq(Delivered)]
    BY <1>5, <1>6, <2>1
  <2>3. \A a \in Aggregators : bar'[a] \in SoundCandle \cup {None}
                                 /\ published'[a] \in Seq(SoundCandle)
    BY <1>6, <1>7, <1>8
  <2> HIDE DEF Fed
  <2>4. bar' = [a \in Aggregators |-> bar'[a]] /\ published' = [a \in Aggregators |-> published'[a]]
    BY <1>5
  <2> QED
    BY <1>5, <1>6, <2>2, <2>3, <2>4 DEF FeedTypes
<1> QED
  BY <1>7, <1>8, <1>9

(***************************************************************************)
(* flush: what was in progress has come out, and the next tick begins.     *)
(***************************************************************************)
LEMMA FlushKeepsBars ==
    ASSUME FeedTypes, \A a \in Aggregators : BarInv(a), Flush, UNCHANGED ticks
    PROVE  FeedTypes' /\ \A a \in Aggregators : BarInv(a)'
<1>1. /\ \A a \in Aggregators : bar[a] \in SoundCandle \cup {None}
                                  /\ published[a] \in Seq(SoundCandle)
      /\ \A k \in Instruments : ticks[k] \in Seq(Delivered)
      /\ flushes \in Nat /\ flushes' = flushes + 1
  BY DEF FeedTypes, Flush
<1>2. ASSUME NEW a \in Aggregators
      PROVE  /\ bar'[a] = None /\ published'[a] \in Seq(SoundCandle)
             /\ published'[a] = CameOut(a) /\ CameOut(a)' = CameOut(a)
  <2> DEFINE p == published[a]
             b == bar[a]
             o == IF b = None THEN p ELSE Append(p, b)
  <2>1. bar'[a] = None /\ published'[a] = o
    BY DEF Flush, NoBars
  <2>2. p \in Seq(SoundCandle) /\ b \in SoundCandle \cup {None}
    BY <1>1
  <2> HIDE DEF p, b
  <2>3. o \in Seq(SoundCandle)
    BY <2>2, AppendProperties
  <2>4. p \o (IF b = None THEN <<>> ELSE <<b>>) = o
    BY <2>2, CameOutIs
  <2>5. CameOut(a) = o
    BY <2>4 DEF CameOut, p, b
  <2> HIDE DEF o
  <2>6. o \o <<>> = o
    BY <2>3, ConcatEmptySeq
  <2>7. CameOut(a)' = o
    BY <2>1, <2>6 DEF CameOut
  <2> QED
    BY <2>1, <2>3, <2>5, <2>7
<1>3. ASSUME NEW a \in Aggregators PROVE BarInv(a)'
  <2> DEFINE q == ticks[Key(a)]
             s == Seconds(a)
  <2>1. BarInv(a) /\ ticks'[Key(a)] = q /\ q \in Seq(Delivered)
    BY <1>1, AggregatorFields
  <2>2. q = <<>> \/ Last(q).epoch < flushes'
    <3>1. InProgress(q, s, bar[a])
      BY <2>1 DEF BarInv
    <3>2. CASE q # <<>>
      <4> HIDE DEF q
      <4>1. Len(q) \in 1..Len(q)
        BY <2>1, <3>2, EmptySeq
      <4>2. Last(q).epoch \in Nat
        BY <2>1, <4>1, ElementOfSeq, DeliveredFields DEF Last
      <4> QED
        BY <1>1, <3>1, <3>2, <4>2 DEF InProgress
    <3> QED
      BY <3>2
  <2>3. InProgress(q, s, None)'
    BY <2>1, <2>2 DEF InProgress
  <2> QED
    BY <1>2, <2>1, <2>3 DEF BarInv
<1>4. FeedTypes'
  <2>1. \A a \in Aggregators : published'[a] \in Seq(SoundCandle)
    BY <1>2
  <2>2. published' = [a \in Aggregators |-> published'[a]] /\ bar' = NoBars
    BY DEF Flush
  <2> QED
    BY <1>1, <2>1, <2>2 DEF FeedTypes, NoBars
<1> QED
  BY <1>3, <1>4

(* A new process has neither ticks nor bars. *)
LEMMA ForgetKeepsBars ==
    ASSUME bar' = NoBars, ticks' = [k \in Instruments |-> <<>>],
           published' = [a \in Aggregators |-> <<>>], flushes' = 0
    PROVE  FeedTypes' /\ \A a \in Aggregators : BarInv(a)'
<1>1. FeedTypes'
  BY EmptySeq DEF FeedTypes, NoBars
<1>2. ASSUME NEW a \in Aggregators PROVE BarInv(a)'
  <2>1. ticks'[Key(a)] = <<>> /\ bar'[a] = None /\ published'[a] = <<>>
    BY AggregatorFields DEF NoBars
  <2>2. Whole(<<>>, Seconds(a)) /\ Bars(<<>>, Seconds(a)) = <<>>
    BY NoTicks
  <2>3. <<>> \o <<>> = <<>>
    BY EmptySeq, ConcatEmptySeq
  <2> QED
    BY <2>1, <2>2, <2>3 DEF BarInv, CameOut, InProgress
<1> QED
  BY <1>1, <1>2

(***************************************************************************)
(* Every step keeps the bars.                                              *)
(***************************************************************************)
LEMMA BarsKept ==
    ASSUME IInv, [Next]_vars
    PROVE  FeedTypes' /\ \A a \in Aggregators : BarInv(a)'
<1> USE DEF IInv
<1>1. CASE Message
  BY <1>1, MessageKeepsBars
<1>2. CASE SessionStop
  <2>1. CASE Flush
    BY <1>2, <2>1, FlushKeepsBars DEF SessionStop
  <2>2. CASE UNCHANGED <<bar, published, flushes>>
    BY <1>2, <2>2, FeedUnchanged DEF SessionStop
  <2> QED
    BY <1>2, <2>1, <2>2 DEF SessionStop, StopFeed
<1>3. CASE EndProcess
  BY <1>3, ForgetKeepsBars DEF EndProcess, Forget
<1>4. ASSUME UNCHANGED <<bar, ticks, published, flushes>>
      PROVE  FeedTypes' /\ \A a \in Aggregators : BarInv(a)'
  BY <1>4, FeedUnchanged
<1>5. CASE Advance \/ StartProcess \/ SessionStart \/ (\E job \in Jobs : Misfire(job))
  BY <1>4, <1>5 DEF Advance, StartProcess, SessionStart, Misfire, feed, history
<1>6. CASE Housekeeping
  BY <1>4, <1>6 DEF Housekeeping
<1>7. CASE FeedRun \/ Connect \/ Fails \/ Wake \/ ClosedOK \/ Dies \/ EmptyMessage
  BY <1>4, <1>7 DEF FeedRun, Connect, Fails, Wake, ClosedOK, Dies, EmptyMessage, Stays,
                    feed, history
<1>8. CASE UNCHANGED vars
  BY <1>4, <1>8 DEF vars, feed, history
<1> QED
  BY <1>1, <1>2, <1>3, <1>5, <1>6, <1>7, <1>8 DEF Next

-----------------------------------------------------------------------------
(***************************************************************************)
(* The session.  The instant after one that is not over is not over either *)
(* or it is the close, at which the stop job comes due.                    *)
(***************************************************************************)
LEMMA StaysOver ==
    ASSUME NEW x \in Nat, ~Over(x), NEW y \in Nat, y = x + 1
    PROVE  ~Over(y) \/ TimeOfDay(y) = MarketClose
<1>1. DayLength \in Nat \ {0} /\ MarketOpen \in Nat /\ MarketClose \in Nat /\ MarketClose < DayLength
  BY CalendarAssumption
<1> DEFINE d == x \div DayLength
<1>2. d \in Int /\ d * DayLength \in Int
  BY <1>1
<1>3. /\ IsTradingDay(d)
      /\ MarketOpen <= x - d * DayLength /\ x - d * DayLength < MarketClose
  <2>1. IsOpenAt(x) /\ TimeOfDay(x) # MarketClose
    BY DEF Over
  <2>2. TimeOfDay(x) = x - d * DayLength
    BY DEF TimeOfDay, IstMidnight, IstTradingDate
  <2>3. MarketOpen <= TimeOfDay(x) /\ TimeOfDay(x) <= MarketClose /\ IsTradingDay(d)
    BY <2>1 DEF IsOpenAt, IstTradingDate
  <2> HIDE DEF d
  <2>4. TimeOfDay(x) \in Int
    BY <1>2, <2>2
  <2> QED
    BY <1>1, <2>1, <2>2, <2>3, <2>4
<1>4. y \div DayLength = d
  <2>1. x - (x \div DayLength) * DayLength < MarketClose
    BY <1>3
  <2>2. (x + 1) \div DayLength = x \div DayLength
    BY <1>1, <2>1
  <2> QED
    BY <2>2
<1>5. TimeOfDay(y) = y - d * DayLength
  BY <1>4 DEF TimeOfDay, IstMidnight, IstTradingDate
<1> DEFINE m == d * DayLength
<1>6. m \in Int /\ TimeOfDay(y) = y - m /\ MarketOpen <= x - m /\ x - m < MarketClose
  BY <1>2, <1>3, <1>5
<1> HIDE DEF m
<1>7. MarketOpen <= TimeOfDay(y) /\ TimeOfDay(y) <= MarketClose
  BY <1>1, <1>6
<1>8. IsTradingDay(y \div DayLength)
  BY <1>3, <1>4
<1> QED
  BY <1>7, <1>8 DEF Over, IsOpenAt, IstTradingDate

(* The jobs of an instant. *)
LEMMA JobsAtClose ==
    ASSUME NEW x
    PROVE  /\ "session_stop" \in JobsAt(x) <=> TimeOfDay(x) = MarketClose
           /\ "session_start" \in JobsAt(x) <=> TimeOfDay(x) = MarketOpen
           /\ JobsAt(x) \subseteq Jobs
  BY DEF JobsAt, Jobs

(***************************************************************************)
(* A trading day's session is open, and not over, when its start job fires. *)
(***************************************************************************)
LEMMA OpenAtOpen ==
    ASSUME NEW x \in Nat, TimeOfDay(x) = MarketOpen, IsTradingDay(IstTradingDate(x))
    PROVE  IsOpenAt(x) /\ ~Over(x)
  BY CalendarAssumption DEF IsOpenAt, Over

(***************************************************************************)
(* Every step keeps the session invariant.                                 *)
(***************************************************************************)
LEMMA SessionKept ==
    ASSUME IInv, [Next]_vars
    PROVE  SessionInv'
<1>1. now \in Nat /\ due \subseteq Jobs /\ running \in BOOLEAN /\ stopMissed \in BOOLEAN
        /\ task \in Alive \cup Done \cup {"none"}
  BY MarketDataAssumption DEF IInv, LoopTypes
<1>2. SessionInv
  BY DEF IInv
<1>3. CASE Advance
  <2>1. now' = now + 1 /\ due = {} /\ task # "created"
          /\ due' = (IF running THEN JobsAt(now') ELSE {})
          /\ UNCHANGED <<running, task, bar, stopMissed>>
    BY <1>3 DEF Advance, feed
  <2>2. ASSUME running, ~stopMissed, "session_stop" \notin due', Over(now')
        PROVE  task \in {"none", "dead"}
    <3>1. TimeOfDay(now') # MarketClose /\ Over(now') /\ now' \in Nat
      BY <1>1, <2>1, <2>2, JobsAtClose
    <3>2. Over(now)
      BY <1>1, <2>1, <3>1, StaysOver
    <3> QED
      BY <1>2, <2>1, <2>2, <3>2 DEF SessionInv
  <2>3. NoBars' = NoBars
    BY DEF NoBars
  <2> QED
    BY <1>2, <2>1, <2>2, <2>3 DEF SessionInv
<1>4. CASE StartProcess
  <2>1. ~running /\ running' /\ due' = JobsAt(now) /\ task = "none"
          /\ task' = (IF IsOpenAt(now) THEN "created" ELSE "none")
          /\ UNCHANGED <<now, bar, stopMissed>>
    BY <1>2, <1>4 DEF StartProcess, SessionInv, StartFeed, Alive, feed
  <2>2. "session_stop" \notin due' /\ Over(now) => ~IsOpenAt(now)
    BY <2>1, JobsAtClose DEF Over
  <2> QED
    BY <1>2, <2>1, <2>2 DEF SessionInv, NoBars
<1>5. CASE EndProcess
  BY <1>5 DEF EndProcess, Forget, SessionInv, NoBars
<1>6. CASE SessionStart
  <2>1. "session_start" \in due /\ due' = due \ {"session_start"}
          /\ task' = (IF IsTradingDay(IstTradingDate(now)) THEN StartFeed(task) ELSE task)
          /\ UNCHANGED <<now, running, bar, stopMissed>>
    BY <1>6 DEF SessionStart, feed
  <2>2. TimeOfDay(now) = MarketOpen
    BY <1>2, <2>1, JobsAtClose DEF SessionInv
  <2>3. running
    BY <1>2, <2>1 DEF SessionInv
  <2>4. CASE IsTradingDay(IstTradingDate(now))
    <3>1. IsOpenAt(now) /\ ~Over(now)
      BY <1>1, <2>2, <2>4, OpenAtOpen
    <3>2. task' \in Alive
      BY <2>1, <2>4 DEF StartFeed, Alive
    <3> QED
      BY <1>2, <2>1, <2>3, <3>1, <3>2 DEF SessionInv, NoBars, Alive
  <2>5. CASE ~IsTradingDay(IstTradingDate(now))
    <3>1. task' = task /\ ("session_stop" \in due' <=> "session_stop" \in due)
      BY <2>1, <2>5
    <3> QED
      BY <1>2, <2>1, <2>3, <3>1 DEF SessionInv, NoBars
  <2> QED
    BY <2>4, <2>5
<1>7. CASE SessionStop
  <2>1. due' = due \ {"session_stop"} /\ "session_stop" \in due
          /\ UNCHANGED <<now, running, stopMissed>> /\ StopFeed
    BY <1>7 DEF SessionStop
  <2>2. running
    BY <1>2, <2>1 DEF SessionInv
  <2>3. \/ task' = "none" /\ bar' = NoBars
        \/ task \in {"none", "dead"} /\ task' = task /\ bar' = bar
    BY <2>1 DEF StopFeed, Flush
  <2> QED
    BY <1>2, <2>1, <2>2, <2>3 DEF SessionInv, NoBars
<1>8. ASSUME NEW job \in Jobs, Misfire(job) PROVE SessionInv'
  <2>1. job \in due /\ due' = due \ {job} /\ stopMissed' = (stopMissed \/ job = "session_stop")
          /\ UNCHANGED <<now, running, task, bar>>
    BY <1>8 DEF Misfire, feed
  <2>2. running
    BY <1>2, <2>1 DEF SessionInv
  <2>3. ~stopMissed' /\ "session_stop" \notin due' => ~stopMissed /\ "session_stop" \notin due
    BY <2>1
  <2> QED
    BY <1>2, <2>1, <2>2, <2>3 DEF SessionInv, NoBars
<1>9. CASE Housekeeping
  BY <1>2, <1>9 DEF Housekeeping, SessionInv, process, NoBars
<1>10. CASE FeedRun
  BY <1>2, <1>10 DEF FeedRun, Stays, feed, SessionInv, NoBars
<1>11. CASE Connect \/ Fails \/ Wake \/ ClosedOK \/ Dies \/ EmptyMessage
  BY <1>2, <1>11 DEF Connect, Fails, BacksOff, Wake, ClosedOK, Dies, EmptyMessage, Stays,
                     feed, SessionInv, NoBars
<1>12. CASE Message
  <2>1. task = "streaming" /\ UNCHANGED <<now, running, due, task, stopMissed>>
    BY <1>12 DEF Message, process
  <2> QED
    BY <1>2, <2>1 DEF SessionInv
<1>13. CASE UNCHANGED vars
  BY <1>2, <1>13 DEF vars, process, feed, SessionInv, NoBars
<1> QED
  BY <1>3, <1>4, <1>5, <1>6, <1>7, <1>8, <1>9, <1>10, <1>11, <1>12, <1>13 DEF Next

-----------------------------------------------------------------------------
(* A delay is a duration. *)
LEMMA Delays == ASSUME NEW n \in Nat PROVE DelayFor(n) \in Nat
<1>1. 2^n \in Nat /\ BaseDelay \in Nat /\ MaxDelay \in Nat
  BY Powers, MarketDataAssumption
<1> DEFINE p == 2^n
<1>2. BaseDelay * p \in Nat
  <2> HIDE DEF p
  <2>1. p \in Nat
    BY <1>1 DEF p
  <2> QED
    BY <1>1, <2>1
<1> QED
  BY <1>1, <1>2 DEF DelayFor

(***************************************************************************)
(* What a message does besides the bars.                                   *)
(***************************************************************************)
LEMMA MessageEffect ==
    ASSUME LoopTypes, Message
    PROVE  /\ lastTickAt' \in Nat /\ staleNotified' = FALSE /\ alarms' = 0 /\ attempt' = 0
           /\ delivered' \in 0..MaxTicks
           /\ UNCHANGED <<now, running, due, task, wakeAt, stopMissed>>
<1>0. PICK keys \in SUBSET Instruments :
         /\ delivered + Cardinality(keys) <= MaxTicks
         /\ \E quotes \in [keys -> RecentTicks] : OnTicks(quotes)
  BY DEF Message
<1>1. PICK quotes \in [keys -> RecentTicks] : OnTicks(quotes)
  BY <1>0
<1>2. Cardinality(keys) \in Nat
  BY MarketDataAssumption, FS_Subset, FS_CardinalityType
<1>3. DOMAIN quotes = keys /\ \A k \in keys : quotes[k].ltt \in Nat
  BY DEF RecentTicks, LoopTypes
<1>4. PICK k \in keys : lastTickAt' = quotes[k].ltt
  BY <1>1, <1>3 DEF OnTicks
<1>5. delivered' = delivered + Cardinality(keys) /\ delivered \in Nat /\ MaxTicks \in Nat
  BY <1>1, <1>3, MarketDataAssumption DEF OnTicks, LoopTypes
<1>6. delivered' \in 0..MaxTicks
  BY <1>0, <1>2, <1>5
<1> QED
  BY <1>1, <1>3, <1>4, <1>6 DEF OnTicks, ClearAlarm, Message, process

(***************************************************************************)
(* Every step keeps the types of the loop's variables.                     *)
(***************************************************************************)
LEMMA LoopKept ==
    ASSUME IInv, [Next]_vars
    PROVE  LoopTypes'
<1>1. /\ LoopTypes /\ now \in Nat /\ Horizon \in Nat /\ MaxTicks \in Nat
      /\ MaxAttempts \in Nat \ {0} /\ attempt \in 0..MaxAttempts
      /\ 0 \in 0..MaxAttempts /\ 0 \in 0..MaxTicks
  BY MarketDataAssumption DEF IInv, LoopTypes
<1>2. JobsAt(now) \subseteq Jobs /\ JobsAt(now') \subseteq Jobs
  BY JobsAtClose
<1>3. CASE Advance
  <2>1. now' \in 0..Horizon /\ due' \subseteq Jobs
    BY <1>1, <1>2, <1>3 DEF Advance
  <2> QED
    BY <1>1, <1>3, <2>1 DEF Advance, LoopTypes, stream, feed, history
<1>4. CASE StartProcess
  BY <1>1, <1>2, <1>4 DEF StartProcess, StartFeed, LoopTypes, stream, feed, history, Alive
<1>5. CASE EndProcess
  <2>1. /\ running' = FALSE /\ due' = {} /\ task' = "none" /\ attempt' = 0 /\ wakeAt' = 0
        /\ lastTickAt' = None /\ staleNotified' = FALSE /\ alarms' = 0 /\ stopMissed' = FALSE
        /\ UNCHANGED <<now, delivered>>
    BY <1>5 DEF EndProcess, Forget
  <2> QED
    BY <1>1, <2>1 DEF LoopTypes
<1>6. CASE SessionStart
  BY <1>1, <1>6 DEF SessionStart, StartFeed, LoopTypes, stream, feed, history, Alive
<1>7. CASE SessionStop
  BY <1>1, <1>7 DEF SessionStop, StopFeed, LoopTypes, stream
<1>8. ASSUME NEW job \in Jobs, Misfire(job) PROVE LoopTypes'
  BY <1>1, <1>8 DEF Misfire, LoopTypes, stream, feed, history
<1>9. CASE Housekeeping
  BY <1>1, <1>9 DEF Housekeeping, Alarm, LoopTypes, stream, process
<1>10. CASE Fails
  <2>1. attempt' \in 1..MaxAttempts
    <3>1. attempt' = IF attempt < MaxAttempts THEN attempt + 1 ELSE attempt
      BY <1>10 DEF Fails, BacksOff
    <3> QED
      BY <1>1, <3>1
  <2>2. attempt' - 1 \in Nat /\ attempt' \in 0..MaxAttempts
    <3>1. MaxAttempts \in Nat
      BY <1>1
    <3>2. \A n \in 1..MaxAttempts : n - 1 \in Nat /\ n \in 0..MaxAttempts
      BY <3>1
    <3> QED
      BY <2>1, <3>2
  <2>3. DelayFor(attempt' - 1) \in Nat
    BY <2>2, Delays
  <2>4. wakeAt' \in Nat
    BY <1>1, <1>10, <2>3 DEF Fails, BacksOff
  <2>5. Stays /\ task' = "sleeping"
    BY <1>10 DEF Fails, BacksOff
  <2> QED
    BY <1>1, <2>2, <2>4, <2>5 DEF Stays, LoopTypes, feed, history, Alive
<1>11. CASE FeedRun \/ Connect \/ Wake \/ ClosedOK \/ Dies \/ EmptyMessage
  <2>1. /\ task' \in Alive \cup Done \cup {"none"}
        /\ attempt' \in 0..MaxAttempts /\ wakeAt' \in Nat
    BY <1>1, <1>11 DEF FeedRun, Connect, Wake, ClosedOK, Dies, EmptyMessage,
                       LoopTypes, stream, Alive, Done
  <2>2. Stays
    BY <1>11 DEF FeedRun, Connect, Wake, ClosedOK, Dies, EmptyMessage
  <2> QED
    BY <1>1, <2>1, <2>2 DEF Stays, LoopTypes, feed, history
<1>12. CASE Message
  <2>1. /\ lastTickAt' \in Nat /\ staleNotified' = FALSE /\ alarms' = 0 /\ attempt' = 0
        /\ delivered' \in 0..MaxTicks
        /\ UNCHANGED <<now, running, due, task, wakeAt, stopMissed>>
    BY <1>1, <1>12, MessageEffect
  <2> QED
    BY <1>1, <2>1 DEF LoopTypes
<1>13. CASE UNCHANGED vars
  BY <1>1, <1>13 DEF vars, process, stream, feed, history, LoopTypes
<1> QED
  BY <1>3, <1>4, <1>5, <1>6, <1>7, <1>8, <1>9, <1>10, <1>11, <1>12, <1>13 DEF Next

(***************************************************************************)
(* Every step keeps the alarm invariant.                                   *)
(***************************************************************************)
LEMMA AlarmKept ==
    ASSUME IInv, [Next]_vars
    PROVE  AlarmInv'
<1>1. AlarmInv /\ LoopTypes
  BY DEF IInv
<1>2. CASE Message
  BY <1>1, <1>2, MessageEffect, NoneIsNoCandle DEF AlarmInv
<1>3. CASE Housekeeping
  BY <1>1, <1>3 DEF Housekeeping, Alarm, AlarmInv
<1>4. CASE EndProcess
  BY <1>4 DEF EndProcess, Forget, AlarmInv
<1>5. ASSUME UNCHANGED <<staleNotified, alarms, lastTickAt, ticks>> PROVE AlarmInv'
  BY <1>1, <1>5 DEF AlarmInv
<1>6. CASE Advance \/ StartProcess \/ SessionStart \/ SessionStop
             \/ (\E job \in Jobs : Misfire(job))
  BY <1>5, <1>6 DEF Advance, StartProcess, SessionStart, SessionStop, Misfire, feed, history
<1>7. CASE FeedRun \/ Connect \/ Fails \/ Wake \/ ClosedOK \/ Dies \/ EmptyMessage
  BY <1>5, <1>7 DEF FeedRun, Connect, Fails, Wake, ClosedOK, Dies, EmptyMessage, Stays,
                    feed, history
<1>8. CASE UNCHANGED vars
  BY <1>5, <1>8 DEF vars, feed, history
<1> QED
  BY <1>2, <1>3, <1>4, <1>6, <1>7, <1>8 DEF Next

-----------------------------------------------------------------------------
(***************************************************************************)
(* The initial states.                                                     *)
(***************************************************************************)
LEMMA InitHolds == ASSUME Init PROVE IInv
<1>1. now \in 0..Horizon
  <2>1. /\ FirstDay \in Nat /\ Horizon \in Nat /\ DayLength \in Nat
        /\ (FirstDay + 1) * DayLength <= Horizon + 1
    BY MarketDataAssumption, CalendarAssumption
  <2>2. FirstDay * DayLength \in Nat /\ (FirstDay + 1) * DayLength \in Nat
    BY <2>1
  <2>3. now \in FirstDay * DayLength .. (FirstDay + 1) * DayLength - 1
    BY DEF Init
  <2> DEFINE f == FirstDay * DayLength
             l == (FirstDay + 1) * DayLength
  <2> HIDE DEF f, l
  <2>4. f \in Nat /\ l \in Nat /\ l <= Horizon + 1 /\ now \in f..(l - 1)
    BY <2>1, <2>2, <2>3 DEF f, l
  <2> QED
    BY <2>1, <2>4
<1>2. LoopTypes
  <2>1. 0 \in 0..MaxAttempts /\ 0 \in 0..MaxTicks
    BY MarketDataAssumption
  <2> QED
    BY <1>1, <2>1 DEF Init, LoopTypes
<1>3. FeedTypes
  BY EmptySeq DEF Init, FeedTypes, NoBars
<1>4. SessionInv /\ AlarmInv
  BY DEF Init, SessionInv, AlarmInv
<1>5. ASSUME NEW a \in Aggregators PROVE BarInv(a)
  <2>1. ticks[Key(a)] = <<>> /\ bar[a] = None /\ published[a] = <<>>
    BY AggregatorFields DEF Init, NoBars
  <2>2. Whole(<<>>, Seconds(a)) /\ Bars(<<>>, Seconds(a)) = <<>>
    BY NoTicks
  <2>3. <<>> \o <<>> = <<>>
    BY EmptySeq, ConcatEmptySeq
  <2> QED
    BY <2>1, <2>2, <2>3 DEF BarInv, CameOut, InProgress
<1> QED
  BY <1>2, <1>3, <1>4, <1>5 DEF IInv

(***************************************************************************)
(* The invariant holds in every state of the feed: types, bars, session    *)
(* and alarm together.                                                     *)
(***************************************************************************)
THEOREM Invariance == Spec => []IInv
<1>1. Init => IInv
  BY InitHolds
<1>2. IInv /\ [Next]_vars => IInv'
  BY BarsKept, SessionKept, LoopKept, AlarmKept DEF IInv
<1> QED
  BY <1>1, <1>2, PTL DEF Spec

(***************************************************************************)
(* Every variable keeps its type, and every bar its order of prices        *)
(* (CandleAggregator, LiveFeed).                                           *)
(***************************************************************************)
THEOREM TypeCorrect == Spec => []TypeOK
<1>1. IInv => TypeOK
  <2> SUFFICES ASSUME IInv PROVE TypeOK
    OBVIOUS
  <2>1. LoopTypes /\ FeedTypes
    BY DEF IInv
  <2>2. \A k \in Instruments : \A i \in DOMAIN ticks[k] :
           ticks[k][i] \in [tick : Tick, epoch : Nat]
    <3> SUFFICES ASSUME NEW k \in Instruments, NEW i \in DOMAIN ticks[k]
                 PROVE  ticks[k][i] \in Delivered
      BY DEF Delivered
    <3>1. ticks[k] \in Seq(Delivered)
      BY <2>1 DEF FeedTypes
    <3>2. i \in 1..Len(ticks[k])
      BY <3>1, LenProperties
    <3> QED
      BY <3>1, <3>2, ElementOfSeq
  <2>3. ASSUME NEW a \in Aggregators, NEW i \in DOMAIN published[a]
        PROVE  published[a][i] \in Candle /\ Sound(published[a][i])
    <3>1. published[a] \in Seq(SoundCandle)
      BY <2>1 DEF FeedTypes
    <3>2. i \in 1..Len(published[a])
      BY <3>1, LenProperties
    <3>3. published[a][i] \in SoundCandle
      BY <3>1, <3>2, ElementOfSeq
    <3> QED
      BY <3>3 DEF SoundCandle
  <2>4. /\ bar \in [Aggregators -> Candle \cup {None}]
        /\ \A a \in Aggregators : bar[a] # None => Sound(bar[a])
    BY <2>1 DEF FeedTypes, SoundCandle
  <2> QED
    BY <2>1, <2>2, <2>3, <2>4 DEF TypeOK, LoopTypes, FeedTypes
<1> QED
  BY <1>1, Invariance, PTL

(***************************************************************************)
(* The bars that came out are the bars of the ticks that went in, however  *)
(* many instruments, bar lengths, ticks, reconnects and flushes there are  *)
(* (CandleAggregator.add_tick, LiveFeed.flush).                            *)
(***************************************************************************)
THEOREM BarsCorrect == Spec => []BarsAreOfTheTicks
<1>1. IInv => BarsAreOfTheTicks
  BY DEF IInv, BarInv, BarsAreOfTheTicks
<1> QED
  BY <1>1, Invariance, PTL

(***************************************************************************)
(* A bar in progress outside the session means that the feed task died or  *)
(* the stop job was skipped (Orchestrator.stop_feed).                      *)
(***************************************************************************)
THEOREM SessionsCorrect == Spec => []NoBarOutlivesItsSession
<1>1. IInv => NoBarOutlivesItsSession
  BY DEF IInv, SessionInv, NoBarOutlivesItsSession, Over
<1> QED
  BY <1>1, Invariance, PTL

(***************************************************************************)
(* FeedStale is the first since the last tick and means silence            *)
(* (LiveFeed.check_staleness).                                             *)
(***************************************************************************)
THEOREM AlarmCorrect == Spec => AlarmMeansSilence
<1> DEFINE Silent == alarms' > alarms =>
             /\ alarms = 0
             /\ \A k \in Instruments : \A i \in DOMAIN ticks[k] :
                   \/ now - ticks[k][i].tick.ltt >= Threshold
                   \/ ticks[k][i].tick.ltt > lastTickAt
<1>1. ASSUME IInv, [Next]_vars PROVE [Silent]_vars
  <2>1. LoopTypes /\ FeedTypes /\ AlarmInv
    BY <1>1 DEF IInv
  <2>2. CASE Housekeeping
    <3>1. alarms = 0 /\ IsStale(now)
      BY <2>1, <2>2 DEF Housekeeping, AlarmInv
    <3>2. ASSUME NEW k \in Instruments, NEW i \in DOMAIN ticks[k]
          PROVE  \/ now - ticks[k][i].tick.ltt >= Threshold
                 \/ ticks[k][i].tick.ltt > lastTickAt
      <4>1. ticks[k] \in Seq(Delivered)
        BY <2>1 DEF FeedTypes
      <4>2. i \in 1..Len(ticks[k])
        BY <4>1, LenProperties
      <4>3. ticks[k] # <<>> /\ ticks[k][i].tick.ltt \in Nat
        BY <4>1, <4>2, ElementOfSeq, DeliveredFields
      <4>4. lastTickAt \in Nat /\ lastTickAt # None
        BY <2>1, <4>3 DEF AlarmInv, LoopTypes
      <4>5. now - lastTickAt >= Threshold
        BY <3>1, <4>4 DEF IsStale
      <4>6. now \in Nat /\ Threshold \in Nat
        BY <2>1, MarketDataAssumption DEF LoopTypes
      <4> DEFINE x == ticks[k][i].tick.ltt
      <4> HIDE DEF x
      <4>7. x \in Nat
        BY <4>3 DEF x
      <4>8. now - x >= Threshold \/ x > lastTickAt
        BY <4>4, <4>5, <4>6, <4>7
      <4> QED
        BY <4>8 DEF x
    <3> QED
      BY <3>1, <3>2
  <2>3. ASSUME alarms' = alarms \/ alarms' = 0 PROVE Silent
    BY <2>1, <2>3 DEF LoopTypes
  <2>4. CASE Message
    BY <2>1, <2>3, <2>4, MessageEffect
  <2>5. CASE EndProcess
    BY <2>3, <2>5 DEF EndProcess, Forget
  <2>6. CASE Advance \/ StartProcess \/ SessionStart \/ SessionStop
               \/ (\E job \in Jobs : Misfire(job))
    <3>1. alarms' = alarms
      BY <2>6 DEF Advance, StartProcess, SessionStart, SessionStop, Misfire, history
    <3> QED
      BY <2>3, <3>1
  <2>7. CASE FeedRun \/ Connect \/ Fails \/ Wake \/ ClosedOK \/ Dies \/ EmptyMessage
    <3>1. alarms' = alarms
      BY <2>7 DEF FeedRun, Connect, Fails, Wake, ClosedOK, Dies, EmptyMessage, Stays, history
    <3> QED
      BY <2>3, <3>1
  <2>8. CASE UNCHANGED vars
    BY <2>8
  <2> HIDE DEF Silent
  <2> QED
    BY <1>1, <2>2, <2>4, <2>5, <2>6, <2>7, <2>8 DEF Next
<1>2. Spec => [][Silent]_vars
  BY <1>1, Invariance, PTL DEF Spec
<1> QED
  BY <1>2 DEF AlarmMeansSilence
=============================================================================
