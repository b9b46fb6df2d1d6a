---------------------------- MODULE LedgerProofs ----------------------------
(***************************************************************************)
(* Facts about the operators the trading modules share: sums over the rows *)
(* of a table, the cost model, the position row, the fills of a table of   *)
(* orders, the risk engine's approval, the kill switch row and the order   *)
(* state machine.                                                          *)
(***************************************************************************)
EXTENDS Costs, Positions, RiskEngine, OrderStates, FiniteSetTheorems, SequenceTheorems, TLAPS

(***************************************************************************)
(* Sums over finite sets, for the tables whose rows the trading modules    *)
(* add up: the fills of the orders for an instrument (FilledFor), the cost *)
(* and the realized P&L of the positions.  SumFunctionOnSet is a recursive *)
(* function over the subsets of its set that takes out one chosen element  *)
(* at a time.  The lemmas say that the recursion is well-defined for a     *)
(* finite set and that the order of the elements does not matter; each     *)
(* induction is by a least counterexample, since the subsets of a finite   *)
(* set are well-founded.                                                   *)
(*                                                                         *)
(* The element the fold takes out next, and what a function is that obeys  *)
(* the recursion on the sets of D.                                         *)
(***************************************************************************)
Chosen(s) == CHOOSE x \in s : TRUE

(***************************************************************************)
(* The chosen element is one of the set's.                                 *)
(***************************************************************************)
LEMMA ChosenIn == ASSUME NEW s, s # {} PROVE Chosen(s) \in s
  BY DEF Chosen

Unfolds(f, D, g) ==
    g = [s \in D |-> IF s = {} THEN 0 ELSE f[Chosen(s)] + g[s \ {Chosen(s)}]]

(***************************************************************************)
(* The sum the tables are added up with is the value of such a function.   *)
(***************************************************************************)
LEMMA SumDef ==
    ASSUME NEW f, NEW S
    PROVE  SumFunctionOnSet(f, S) = (CHOOSE g : Unfolds(f, SUBSET S, g))[S]
  BY DEF SumFunctionOnSet, FoldFunctionOnSet, MapThenFoldSet, Unfolds, Chosen

(***************************************************************************)
(* A set of naturals that is not empty has a least element.                *)
(***************************************************************************)
LEMMA LeastElement ==
    ASSUME NEW T, T \subseteq Nat, T # {}
    PROVE \E n \in T : \A m \in T : n <= m
<1>1. PICK x \in T : \A y \in T : ~ (<<y, x>> \in OpToRel(<,Nat))
  BY WFMin, NatLessThanWellFounded
<1>2. \A y \in T : ~(y < x)
  BY <1>1 DEF OpToRel
<1> QED BY <1>2

(***************************************************************************)
(* The subsets of S of at most n elements.                                 *)
(***************************************************************************)
UpTo(S, n) == {s \in SUBSET S : Cardinality(s) <= n}

(***************************************************************************)
(* Taking the chosen element out makes a finite set smaller by one.        *)
(***************************************************************************)
LEMMA SmallerSet ==
    ASSUME NEW S, IsFiniteSet(S), NEW s \in SUBSET S, s # {}
    PROVE  /\ s \ {Chosen(s)} \in SUBSET S
           /\ Cardinality(s) \in Nat
           /\ Cardinality(s \ {Chosen(s)}) = Cardinality(s) - 1
           /\ Cardinality(s) # 0
<1>1. IsFiniteSet(s)
  BY FS_Subset
<1>2. Cardinality(s) \in Nat /\ Cardinality(s) # 0
  BY <1>1, FS_CardinalityType, FS_EmptySet
<1>3. Cardinality(s \ {Chosen(s)}) = Cardinality(s) - 1
  BY <1>1, ChosenIn, FS_RemoveElement
<1> QED BY <1>2, <1>3

(***************************************************************************)
(* The recursion has a solution on the subsets of at most n elements:      *)
(* extend the one on those of at most n - 1.                               *)
(***************************************************************************)
LEMMA UnfoldsUpTo ==
    ASSUME NEW f, NEW S, IsFiniteSet(S)
    PROVE  \A n \in Nat : \E g : Unfolds(f, UpTo(S, n), g)
<1> DEFINE Bad == {n \in Nat : ~ \E g : Unfolds(f, UpTo(S, n), g)}
<1> SUFFICES ASSUME Bad # {} PROVE FALSE
  OBVIOUS
<1>1. PICK n \in Bad : \A m \in Bad : n <= m
  <2>1. Bad \subseteq Nat OBVIOUS
  <2> HIDE DEF Bad
  <2> QED BY <2>1, LeastElement
<1>2. CASE n = 0
  <2> DEFINE g == [s \in UpTo(S, 0) |-> 0]
  <2>1. \A s \in UpTo(S, 0) : s = {}
    <3> SUFFICES ASSUME NEW s \in UpTo(S, 0), s # {} PROVE FALSE
      OBVIOUS
    <3>1. s \in SUBSET S /\ Cardinality(s) <= 0
      BY DEF UpTo
    <3>2. Cardinality(s) \in Nat /\ Cardinality(s) # 0
      BY <3>1, SmallerSet
    <3> QED BY <3>1, <3>2
  <2>2. Unfolds(f, UpTo(S, 0), g)
    BY <2>1 DEF Unfolds
  <2> QED BY <1>2, <2>2
<1>3. CASE n # 0
  <2>1. n - 1 \in Nat /\ n - 1 \notin Bad
    BY <1>1, <1>3
  <2>2. PICK g : Unfolds(f, UpTo(S, n - 1), g)
    BY <2>1
  <2> DEFINE h == [s \in UpTo(S, n) |->
                     IF s = {} THEN 0 ELSE f[Chosen(s)] + g[s \ {Chosen(s)}]]
  <2>3. \A s \in UpTo(S, n - 1) : s \in UpTo(S, n) /\ h[s] = g[s]
    <3> SUFFICES ASSUME NEW s \in UpTo(S, n - 1)
                 PROVE  s \in UpTo(S, n) /\ h[s] = g[s]
      OBVIOUS
    <3>1. s \in UpTo(S, n)
      <4>1. Cardinality(s) \in Nat
        BY FS_Subset, FS_CardinalityType DEF UpTo
      <4> QED BY <4>1, <2>1 DEF UpTo
    <3>2. g[s] = IF s = {} THEN 0 ELSE f[Chosen(s)] + g[s \ {Chosen(s)}]
      BY <2>2 DEF Unfolds
    <3> QED BY <3>1, <3>2
  <2>4. \A s \in UpTo(S, n) : s # {} => s \ {Chosen(s)} \in UpTo(S, n - 1)
    BY SmallerSet, <2>1 DEF UpTo
  <2>5. Unfolds(f, UpTo(S, n), h)
    BY <2>3, <2>4 DEF Unfolds
  <2> QED BY <2>5
<1> QED BY <1>2, <1>3

(***************************************************************************)
(* The recursion has a solution on all subsets of a finite set, so the sum *)
(* over the rows of a table is defined.                                    *)
(***************************************************************************)
LEMMA UnfoldsAll ==
    ASSUME NEW f, NEW S, IsFiniteSet(S)
    PROVE  \E g : Unfolds(f, SUBSET S, g)
<1>1. Cardinality(S) \in Nat
  BY FS_CardinalityType
<1>2. SUBSET S = UpTo(S, Cardinality(S))
  BY FS_Subset DEF UpTo
<1>3. PICK g : Unfolds(f, UpTo(S, Cardinality(S)), g)
  BY <1>1, UnfoldsUpTo
<1>4. Unfolds(f, SUBSET S, g)
  BY <1>2, <1>3
<1> QED BY <1>4

(***************************************************************************)
(* A family of subsets of a finite set that is not empty has a member      *)
(* without a proper subset in the family.                                  *)
(***************************************************************************)
LEMMA MinimalSubset ==
    ASSUME NEW S, IsFiniteSet(S), NEW F, F \subseteq SUBSET S, F # {}
    PROVE  \E m \in F : \A t \in F : t \subseteq m => t = m
<1>1. FiniteSubsetsOf(S) = SUBSET S
  BY FS_FiniteSubsetsOfFinite
<1>2. IsWellFoundedOn(StrictSubsetOrdering(S), SUBSET S)
  BY <1>1, FS_StrictSubsetOrderingWellFounded
<1>3. PICK m \in F : \A t \in F : ~ (<<t, m>> \in StrictSubsetOrdering(S))
  BY <1>2, WFMin
<1>4. \A t \in F : t \subseteq m => t = m
  BY <1>3 DEF StrictSubsetOrdering
<1> QED BY <1>4

(***************************************************************************)
(* Solutions on a set and on a subset of it agree where both are defined.  *)
(***************************************************************************)
LEMMA UnfoldsAgree ==
    ASSUME NEW f, NEW S, NEW T \in SUBSET S, IsFiniteSet(S), NEW g, NEW h,
           Unfolds(f, SUBSET S, g), Unfolds(f, SUBSET T, h)
    PROVE  \A s \in SUBSET T : g[s] = h[s]
<1> DEFINE Bad == {s \in SUBSET T : g[s] # h[s]}
<1> SUFFICES ASSUME Bad # {} PROVE FALSE
  OBVIOUS
<1>1. PICK m \in Bad : \A t \in Bad : t \subseteq m => t = m
  <2>1. Bad \subseteq SUBSET S OBVIOUS
  <2> HIDE DEF Bad
  <2> QED BY <2>1, MinimalSubset
<1>2. /\ g[m] = IF m = {} THEN 0 ELSE f[Chosen(m)] + g[m \ {Chosen(m)}]
      /\ h[m] = IF m = {} THEN 0 ELSE f[Chosen(m)] + h[m \ {Chosen(m)}]
  BY DEF Unfolds
<1>3. m # {}
  BY <1>1, <1>2
<1>4. m \ {Chosen(m)} \subseteq m /\ m \ {Chosen(m)} # m /\ m \ {Chosen(m)} \in SUBSET T
  BY <1>3, ChosenIn
<1>5. m \ {Chosen(m)} \notin Bad
  BY <1>1, <1>4
<1> QED BY <1>1, <1>2, <1>3, <1>4, <1>5

(***************************************************************************)
(* A table without rows adds up to zero.                                   *)
(***************************************************************************)
LEMMA SumEmpty ==
    ASSUME NEW f PROVE SumFunctionOnSet(f, {}) = 0
<1> DEFINE g == CHOOSE g : Unfolds(f, SUBSET {}, g)
<1>1. Unfolds(f, SUBSET {}, g)
  BY UnfoldsAll, FS_EmptySet
<1>2. g[{}] = 0
  <2> HIDE DEF g
  <2>1. {} \in SUBSET {}
    OBVIOUS
  <2> QED BY <1>1, <2>1 DEF Unfolds
<1> QED BY <1>2, SumDef

(***************************************************************************)
(* One step of the recursion.                                              *)
(***************************************************************************)
LEMMA SumChosen ==
    ASSUME NEW f, NEW S, IsFiniteSet(S), S # {}
    PROVE  SumFunctionOnSet(f, S) = f[Chosen(S)] + SumFunctionOnSet(f, S \ {Chosen(S)})
<1> DEFINE T == S \ {Chosen(S)}
           g == CHOOSE g : Unfolds(f, SUBSET S, g)
           h == CHOOSE h : Unfolds(f, SUBSET T, h)
<1>1. T \in SUBSET S /\ IsFiniteSet(T)
  BY FS_RemoveElement
<1>2. Unfolds(f, SUBSET S, g) /\ Unfolds(f, SUBSET T, h)
  <2> HIDE DEF T
  <2> QED BY <1>1, UnfoldsAll
<1>3. SumFunctionOnSet(f, S) = g[S] /\ SumFunctionOnSet(f, T) = h[T]
  <2> HIDE DEF T
  <2> QED BY SumDef
<1> HIDE DEF g, h
<1>4. g[S] = f[Chosen(S)] + g[T]
  <2>1. S \in SUBSET S
    OBVIOUS
  <2> QED BY <1>2, <2>1 DEF Unfolds
<1>5. g[T] = h[T]
  <2> HIDE DEF T
  <2> QED BY <1>1, <1>2, UnfoldsAgree
<1> QED BY <1>3, <1>4, <1>5

(***************************************************************************)
(* Integers add up to an integer.                                          *)
(***************************************************************************)
LEMMA SumType ==
    ASSUME NEW f, NEW S, IsFiniteSet(S), \A x \in S : f[x] \in Int
    PROVE  SumFunctionOnSet(f, S) \in Int
<1> DEFINE Bad == {s \in SUBSET S : SumFunctionOnSet(f, s) \notin Int}
<1> SUFFICES ASSUME Bad # {} PROVE FALSE
  OBVIOUS
<1>1. PICK m \in Bad : \A t \in Bad : t \subseteq m => t = m
  <2>1. Bad \subseteq SUBSET S OBVIOUS
  <2> HIDE DEF Bad
  <2> QED BY <2>1, MinimalSubset
<1>2. IsFiniteSet(m)
  BY FS_Subset
<1>3. m # {}
  <2>1. SumFunctionOnSet(f, m) \notin Int
    BY <1>1
  <2>2. SumFunctionOnSet(f, {}) \in Int
    BY SumEmpty
  <2> QED BY <2>1, <2>2
<1>4. /\ Chosen(m) \in S
      /\ m \ {Chosen(m)} \subseteq m /\ m \ {Chosen(m)} # m /\ m \ {Chosen(m)} \in SUBSET S
  BY <1>3, ChosenIn
<1>5. SumFunctionOnSet(f, m \ {Chosen(m)}) \in Int
  BY <1>1, <1>4
<1>6. SumFunctionOnSet(f, m) = f[Chosen(m)] + SumFunctionOnSet(f, m \ {Chosen(m)})
  BY <1>2, <1>3, SumChosen
<1> QED BY <1>1, <1>4, <1>5, <1>6

(***************************************************************************)
(* Any row can be taken out of the sum first, not only the chosen one.     *)
(***************************************************************************)
LEMMA SumRemove ==
    ASSUME NEW f, NEW S, IsFiniteSet(S), \A y \in S : f[y] \in Int, NEW x \in S
    PROVE  SumFunctionOnSet(f, S) = f[x] + SumFunctionOnSet(f, S \ {x})
<1> DEFINE Sum(s) == SumFunctionOnSet(f, s)
           Bad == {s \in SUBSET S : \E y \in s : Sum(s) # f[y] + Sum(s \ {y})}
<1> SUFFICES ASSUME Bad # {} PROVE FALSE
  <2>1. S \notin Bad => Sum(S) = f[x] + Sum(S \ {x})
    OBVIOUS
  <2> QED BY <2>1
<1>1. PICK m \in Bad : \A t \in Bad : t \subseteq m => t = m
  <2>1. Bad \subseteq SUBSET S OBVIOUS
  <2> HIDE DEF Bad
  <2> QED BY <2>1, MinimalSubset
<1>2. PICK y \in m : Sum(m) # f[y] + Sum(m \ {y})
  BY <1>1
<1> DEFINE c == Chosen(m)
<1>3. c \in m /\ m \in SUBSET S
  BY <1>2, ChosenIn
<1>4. IsFiniteSet(m)
  BY <1>3, FS_Subset
<1>5. Sum(m) = f[c] + Sum(m \ {c})
  BY <1>2, <1>4, SumChosen
<1>6. c # y
  BY <1>2, <1>5
<1> HIDE DEF c, Sum
<1>7. \A z \in m : \A w \in m \ {z} : Sum(m \ {z}) = f[w] + Sum((m \ {z}) \ {w})
  <2> SUFFICES ASSUME NEW z \in m, NEW w \in m \ {z},
                      Sum(m \ {z}) # f[w] + Sum((m \ {z}) \ {w})
               PROVE  FALSE
    OBVIOUS
  <2>1. m \ {z} \in Bad
    BY <1>3
  <2> QED BY <1>1, <2>1
<1>8. Sum(m \ {c}) = f[y] + Sum((m \ {c}) \ {y})
  BY <1>3, <1>6, <1>7
<1>9. Sum(m \ {y}) = f[c] + Sum((m \ {y}) \ {c})
  BY <1>3, <1>6, <1>7
<1>10. (m \ {c}) \ {y} = (m \ {y}) \ {c}
  OBVIOUS
<1>11. Sum((m \ {y}) \ {c}) \in Int /\ f[c] \in Int /\ f[y] \in Int
  <2>1. (m \ {y}) \ {c} \in SUBSET S
    BY <1>3
  <2>2. IsFiniteSet((m \ {y}) \ {c})
    BY <2>1, FS_Subset
  <2> QED BY <1>3, <2>1, <2>2, SumType DEF Sum
<1> DEFINE r == Sum((m \ {y}) \ {c})
<1>12. Sum(m) = f[c] + (f[y] + r) /\ Sum(m \ {y}) = f[c] + r
  BY <1>5, <1>8, <1>9, <1>10
<1>13. f[c] + (f[y] + r) = f[y] + (f[c] + r)
  <2> HIDE DEF r
  <2> QED BY <1>11 DEF r
<1> QED BY <1>2, <1>12, <1>13

(***************************************************************************)
(* A new row adds its value to the sum.                                    *)
(***************************************************************************)
LEMMA SumAdd ==
    ASSUME NEW f, NEW S, IsFiniteSet(S), NEW x, x \notin S,
           f[x] \in Int, \A y \in S : f[y] \in Int
    PROVE  SumFunctionOnSet(f, S \cup {x}) = SumFunctionOnSet(f, S) + f[x]
<1> DEFINE T == S \cup {x}
<1>1. IsFiniteSet(T) /\ x \in T /\ T \ {x} = S /\ \A y \in T : f[y] \in Int
  BY FS_AddElement
<1>2. SumFunctionOnSet(f, T) = f[x] + SumFunctionOnSet(f, T \ {x})
  <2> HIDE DEF T
  <2> QED BY <1>1, SumRemove
<1>3. SumFunctionOnSet(f, S) \in Int
  BY SumType
<1>4. SumFunctionOnSet(f, T) = f[x] + SumFunctionOnSet(f, S)
  BY <1>1, <1>2
<1> HIDE DEF T
<1>5. SumFunctionOnSet(f, T) = SumFunctionOnSet(f, S) + f[x]
  BY <1>3, <1>4
<1> QED BY <1>5 DEF T

(***************************************************************************)
(* The sum depends only on the values of the rows that are added up.       *)
(***************************************************************************)
LEMMA SumSame ==
    ASSUME NEW f, NEW g, NEW S, IsFiniteSet(S), \A x \in S : f[x] = g[x]
    PROVE  SumFunctionOnSet(f, S) = SumFunctionOnSet(g, S)
<1> DEFINE Bad == {s \in SUBSET S : SumFunctionOnSet(f, s) # SumFunctionOnSet(g, s)}
<1> SUFFICES ASSUME Bad # {} PROVE FALSE
  OBVIOUS
<1>1. PICK m \in Bad : \A t \in Bad : t \subseteq m => t = m
  <2>1. Bad \subseteq SUBSET S OBVIOUS
  <2> HIDE DEF Bad
  <2> QED BY <2>1, MinimalSubset
<1>2. IsFiniteSet(m)
  BY FS_Subset
<1>3. m # {}
  BY <1>1, SumEmpty
<1>4. /\ Chosen(m) \in S
      /\ m \ {Chosen(m)} \subseteq m /\ m \ {Chosen(m)} # m /\ m \ {Chosen(m)} \in SUBSET S
  BY <1>3, ChosenIn
<1>5. SumFunctionOnSet(f, m \ {Chosen(m)}) = SumFunctionOnSet(g, m \ {Chosen(m)})
  BY <1>1, <1>4
<1>6. /\ SumFunctionOnSet(f, m) = f[Chosen(m)] + SumFunctionOnSet(f, m \ {Chosen(m)})
      /\ SumFunctionOnSet(g, m) = g[Chosen(m)] + SumFunctionOnSet(g, m \ {Chosen(m)})
  BY <1>2, <1>3, SumChosen
<1> QED BY <1>1, <1>4, <1>5, <1>6

(***************************************************************************)
(* Updating one row changes the sum by the change of its value.            *)
(***************************************************************************)
LEMMA SumChange ==
    ASSUME NEW f, NEW g, NEW S, IsFiniteSet(S), NEW x \in S,
           \A y \in S : f[y] \in Int /\ g[y] \in Int,
           \A y \in S \ {x} : f[y] = g[y]
    PROVE  SumFunctionOnSet(g, S) = SumFunctionOnSet(f, S) + (g[x] - f[x])
<1> DEFINE T == S \ {x}
<1>1. IsFiniteSet(T) /\ \A y \in T : f[y] \in Int /\ f[y] = g[y]
  BY FS_RemoveElement
<1>2. /\ SumFunctionOnSet(f, S) = f[x] + SumFunctionOnSet(f, T)
      /\ SumFunctionOnSet(g, S) = g[x] + SumFunctionOnSet(g, T)
  BY SumRemove
<1> HIDE DEF T
<1>3. SumFunctionOnSet(f, T) = SumFunctionOnSet(g, T)
  BY <1>1, SumSame
<1>4. SumFunctionOnSet(f, T) \in Int
  BY <1>1, SumType
<1> QED BY <1>2, <1>3, <1>4

(***************************************************************************)
(* Renaming the rows one to one leaves the sum alone: the local orders and *)
(* the exchange's, matched by broker_order_id, add up to the same.         *)
(***************************************************************************)
LEMMA SumRenamed ==
    ASSUME NEW f, NEW g, NEW S, IsFiniteSet(S), NEW T, IsFiniteSet(T), NEW b \in [S -> T],
           \A x, y \in S : b[x] = b[y] => x = y,
           \A z \in T : \E x \in S : b[x] = z,
           \A x \in S : f[x] \in Int /\ g[b[x]] = f[x]
    PROVE  SumFunctionOnSet(f, S) = SumFunctionOnSet(g, T)
<1> DEFINE Img(s) == {b[x] : x \in s}
           Bad == {s \in SUBSET S : SumFunctionOnSet(f, s) # SumFunctionOnSet(g, Img(s))}
<1>0. Img(S) = T
  OBVIOUS
<1> SUFFICES ASSUME Bad # {} PROVE FALSE
  <2>1. S \notin Bad => SumFunctionOnSet(f, S) = SumFunctionOnSet(g, Img(S))
    OBVIOUS
  <2> QED BY <1>0, <2>1
<1>1. PICK m \in Bad : \A t \in Bad : t \subseteq m => t = m
  <2>1. Bad \subseteq SUBSET S OBVIOUS
  <2> HIDE DEF Bad
  <2> QED BY <2>1, MinimalSubset
<1>2. m \in SUBSET S /\ SumFunctionOnSet(f, m) # SumFunctionOnSet(g, Img(m))
  BY <1>1
<1>3. m # {}
  <2>1. Img({}) = {}
    OBVIOUS
  <2> HIDE DEF Img
  <2> QED BY <1>2, <2>1, SumEmpty
<1> DEFINE x == Chosen(m)
           r == m \ {x}
<1>4. x \in m /\ r \in SUBSET S /\ r \subseteq m /\ r # m
  BY <1>2, <1>3, ChosenIn
<1> HIDE DEF x
<1>5. SumFunctionOnSet(f, r) = SumFunctionOnSet(g, Img(r))
  BY <1>1, <1>4
<1>6. SumFunctionOnSet(f, m) = f[x] + SumFunctionOnSet(f, r)
  <2>1. IsFiniteSet(m) /\ \A y \in m : f[y] \in Int
    BY <1>2, FS_Subset
  <2> QED BY <1>4, <2>1, SumRemove
<1>7. SumFunctionOnSet(g, Img(m)) = g[b[x]] + SumFunctionOnSet(g, Img(r))
  <2>1. Img(m) \in SUBSET T /\ b[x] \in Img(m) /\ Img(m) \ {b[x]} = Img(r)
    BY <1>2, <1>4
  <2>2. IsFiniteSet(Img(m)) /\ \A z \in Img(m) : g[z] \in Int
    BY <1>2, <2>1, FS_Subset
  <2> HIDE DEF Img, r
  <2> QED BY <2>1, <2>2, SumRemove
<1>8. g[b[x]] = f[x]
  BY <1>2, <1>4
<1> QED BY <1>2, <1>5, <1>6, <1>7, <1>8

-----------------------------------------------------------------------------
(***************************************************************************)
(* A part of an amount is a natural number and, scaled up again, no more   *)
(* than amount times rate (costs.py computes amount * rate).               *)
(***************************************************************************)
LEMMA PartBound ==
    ASSUME NEW amount \in Nat, NEW rate \in Nat
    PROVE  /\ Part(amount, rate) \in Nat
           /\ Scale * Part(amount, rate) <= amount * rate
<1>1. amount * rate \in Nat
  OBVIOUS
<1>2. Scale \in Nat /\ Scale > 0
  BY CostAssumption
<1>3. \A n \in Nat : n \div Scale \in Nat /\ Scale * (n \div Scale) <= n
  BY <1>2, SMT
<1> QED
  BY <1>1, <1>3 DEF Part

(* Every rate of the configuration is a natural number. *)
LEMMA RateTypes ==
    \A r \in RateNames : Rates[r] \in Nat
  BY CostAssumption

(***************************************************************************)
(* calculate_costs never gives a negative charge, and a sale's charges     *)
(* never exceed its turnover.                                              *)
(***************************************************************************)
LEMMA ChargesBound ==
    ASSUME NEW side \in Side, NEW turnover \in Nat
    PROVE  /\ Charges(side, turnover) \in Nat
           /\ side = "SELL" => Charges(side, turnover) <= turnover
<1> DEFINE b == Brokerage(turnover)
           p == Part(turnover, Rates["brokerage"])
           stt == IF Segment = "DELIVERY" \/ side = "SELL"
                  THEN Part(turnover, Rates["stt"]) ELSE 0
           stamp == IF side = "BUY" THEN Part(turnover, Rates["stampBuy"]) ELSE 0
           ex == Part(turnover, Rates["exchange"])
           sebi == Part(turnover, Rates["sebi"])
           gst == Part(b + ex + sebi, Rates["gst"])
<1>1. /\ Rates["brokerage"] \in Nat /\ Rates["brokerageMax"] \in Nat
      /\ Rates["stt"] \in Nat /\ Rates["stampBuy"] \in Nat
      /\ Rates["exchange"] \in Nat /\ Rates["sebi"] \in Nat /\ Rates["gst"] \in Nat
  BY RateTypes DEF RateNames
<1>2. Scale \in Nat /\ Scale > 0
  BY CostAssumption
<1>3. p \in Nat /\ Scale * p <= turnover * Rates["brokerage"]
  BY <1>1, PartBound
<1>4. b \in Nat /\ b <= p
  BY <1>1, <1>3 DEF Brokerage
<1>5. ex \in Nat /\ Scale * ex <= turnover * Rates["exchange"]
  BY <1>1, PartBound
<1>6. sebi \in Nat /\ Scale * sebi <= turnover * Rates["sebi"]
  BY <1>1, PartBound
<1>7. /\ Part(turnover, Rates["stt"]) \in Nat
      /\ Scale * Part(turnover, Rates["stt"]) <= turnover * Rates["stt"]
      /\ Part(turnover, Rates["stampBuy"]) \in Nat
  BY <1>1, PartBound
<1>8. gst \in Nat /\ Scale * gst <= (b + ex + sebi) * Rates["gst"]
  <2>1. b + ex + sebi \in Nat
    BY <1>4, <1>5, <1>6
  <2> QED
    BY <2>1, <1>1, PartBound
<1>9. Charges(side, turnover) = b + stt + stamp + ex + sebi + gst
  BY DEF Charges
<1>10. Charges(side, turnover) \in Nat
  <2> HIDE DEF b, ex, sebi, gst
  <2> QED
    BY <1>4, <1>5, <1>6, <1>7, <1>8, <1>9
<1>11. ASSUME side = "SELL" PROVE Charges(side, turnover) <= turnover
  <2> DEFINE s == Part(turnover, Rates["stt"])
             n == b + ex + sebi
  <2>1. Charges(side, turnover) = n + s + gst
    <3> HIDE DEF b, ex, sebi, gst
    <3> QED
      BY <1>11, <1>4, <1>5, <1>6, <1>7, <1>8, <1>9 DEF Side
  <2>2. s \in Nat /\ n \in Nat
    BY <1>4, <1>5, <1>6, <1>7
  <2>3. gst <= n
    <3>1. \A g \in Nat, m \in Nat, r \in Nat, S \in Nat :
             S > 0 /\ r <= S /\ S * g <= m * r => g <= m
      <4> SUFFICES ASSUME NEW g \in Nat, NEW m \in Nat, NEW r \in Nat, NEW S \in Nat,
                          S > 0, r <= S, S * g <= m * r
                   PROVE  g <= m
        OBVIOUS
      <4>1. m * r <= m * S
        OBVIOUS
      <4>2. S * g <= S * m
        BY <4>1
      <4> QED
        BY <4>2
    <3> HIDE DEF n, gst
    <3> QED
      BY <3>1, <2>2, <1>1, <1>2, <1>8, ChargesAssumption DEF n
  <2>4. Scale * (n + n + s) <= turnover * Scale
    <3> DEFINE R == Rates["brokerage"] + Rates["exchange"] + Rates["sebi"]
    <3>1. Scale * b <= turnover * Rates["brokerage"]
      <4>1. Scale * b <= Scale * p
        <5> HIDE DEF b, p
        <5> QED  BY <1>2, <1>3, <1>4
      <4> HIDE DEF b, p
      <4> QED
        BY <4>1, <1>1, <1>2, <1>3, <1>4
    <3>2. Scale * n <= turnover * R
      <4> HIDE DEF b, ex, sebi
      <4> QED
        BY <3>1, <1>1, <1>2, <1>4, <1>5, <1>6 DEF n
    <3>3. Scale * (n + n + s) <= turnover * (2 * R + Rates["stt"])
      <4> HIDE DEF n, s
      <4>1. R \in Nat
        BY <1>1
      <4> HIDE DEF R
      <4> QED
        BY <3>2, <2>2, <1>1, <1>2, <1>7, <4>1 DEF s
    <3>4. turnover * (2 * R + Rates["stt"]) <= turnover * Scale
      <4>1. 2 * R + Rates["stt"] \in Nat /\ 2 * R + Rates["stt"] <= Scale
        BY <1>1, ChargesAssumption
      <4> HIDE DEF R
      <4> QED
        BY <4>1, <1>2
    <3> HIDE DEF n, s, R
    <3>5. n + n + s \in Nat /\ 2 * R + Rates["stt"] \in Nat
      BY <2>2, <1>1 DEF R
    <3> QED
      BY <3>3, <3>4, <3>5, <1>2
  <2>5. n + n + s <= turnover
    <3> HIDE DEF n, s
    <3>1. n + n + s \in Nat
      BY <2>2
    <3>2. \A m \in Nat, S \in Nat, t \in Nat : S > 0 /\ S * m <= t * S => m <= t
      OBVIOUS
    <3> QED
      BY <2>4, <3>1, <3>2, <1>2
  <2> HIDE DEF n, s, gst
  <2> QED
    BY <2>1, <2>2, <2>3, <2>5, <1>8
<1> QED
  BY <1>10, <1>11

(***************************************************************************)
(* TradeCosts.net_amount is a natural number: a buyer pays, a seller       *)
(* receives, never the other way round.                                    *)
(***************************************************************************)
LEMMA NetAmountType ==
    ASSUME NEW side \in Side, NEW price \in Nat, NEW qty \in Nat
    PROVE  NetAmount(side, price, qty) \in Nat
<1>1. price * qty \in Nat
  OBVIOUS
<1> DEFINE t == price * qty
<1>2. /\ Charges(side, t) \in Nat
      /\ side = "SELL" => Charges(side, t) <= t
  BY <1>1, ChargesBound
<1>3. NetAmount(side, price, qty) =
        IF side = "SELL" THEN t - Charges(side, t) ELSE t + Charges(side, t)
  BY DEF NetAmount
<1> HIDE DEF t
<1>4. t \in Nat
  BY <1>1 DEF t
<1> QED
  BY <1>2, <1>3, <1>4

(* apply_slippage keeps a price a natural number. *)
LEMMA SlippageType ==
    ASSUME NEW price \in Nat, NEW side
    PROVE  ApplySlippage(price, side) \in Nat
<1> DEFINE f == IF side = "BUY" THEN 10000 + SlippageBps ELSE 10000 - SlippageBps
<1>1. f \in Nat
  BY CostAssumption
<1>2. price * f \in Nat
  BY <1>1
<1>3. \A n \in Nat : n \div 10000 \in Nat
  OBVIOUS
<1> QED
  BY <1>2, <1>3 DEF ApplySlippage

(***************************************************************************)
(* The loop of _clamp_to_cash ends with a quantity the cash can pay for,   *)
(* no larger than asked, and no affordable one is larger.                  *)
(***************************************************************************)
LEMMA ClampIsLargestAffordable ==
    ASSUME NEW qty \in Nat, NEW price, NEW cash
    PROVE  /\ ClampToCash(qty, price, cash) \in 0..qty
           /\ Affordable(ClampToCash(qty, price, cash), price, cash)
           /\ \A r \in 0..qty : Affordable(r, price, cash)
                 => r <= ClampToCash(qty, price, cash)
<1> DEFINE T == {n \in 0..qty : Affordable(qty - n, price, cash)}
           Least(q) == /\ Affordable(q, price, cash)
                       /\ \A r \in 0..qty : Affordable(r, price, cash) => r <= q
<1>1. qty \in T
  BY DEF Affordable
<1>2. T \subseteq Nat
  OBVIOUS
<1>3. PICK x \in T : \A y \in T : <<y, x>> \notin OpToRel(<, Nat)
  <2> HIDE DEF T
  <2> QED
    BY <1>1, <1>2, NatLessThanWellFounded, WFMin, Zenon
<1>4. ASSUME NEW y \in T PROVE x <= y
  <2>1. x \in Nat /\ y \in Nat
    BY <1>2
  <2>2. y < x => <<y, x>> \in OpToRel(<, Nat)
    BY <2>1 DEF OpToRel
  <2>3. ~(y < x)
    BY <2>2, <1>3
  <2> QED
    BY <2>1, <2>3
<1>5. qty - x \in 0..qty /\ Affordable(qty - x, price, cash)
  OBVIOUS
<1>6. ASSUME NEW r \in 0..qty, Affordable(r, price, cash)
      PROVE  r <= qty - x
  <2>1. qty - r \in 0..qty /\ qty - (qty - r) = r
    OBVIOUS
  <2>2. qty - r \in T
    BY <2>1, <1>6
  <2>3. x <= qty - r
    BY <2>2, <1>4
  <2> QED
    BY <2>1, <2>3
<1>7. \E q \in 0..qty : Least(q)
  BY <1>5, <1>6
<1>8. ClampToCash(qty, price, cash) = CHOOSE q \in 0..qty : Least(q)
  BY DEF ClampToCash
<1> HIDE DEF Least
<1>9. /\ ClampToCash(qty, price, cash) \in 0..qty
      /\ Least(ClampToCash(qty, price, cash))
  BY <1>7, <1>8, Zenon
<1> QED
  BY <1>9 DEF Least

-----------------------------------------------------------------------------
(***************************************************************************)
(* Cost carried by n of q shares that cost m: all of m for n = q, no more  *)
(* for fewer, no less for more.                                            *)
(***************************************************************************)
LEMMA ProRata ==
    ASSUME NEW m \in Nat, NEW n \in Nat, NEW q \in Nat \ {0}
    PROVE  /\ (m * n) \div q \in Nat
           /\ n <= q => (m * n) \div q <= m
           /\ n >= q => (m * n) \div q >= m
<1>1. m * n \in Nat
  OBVIOUS
<1> DEFINE d == (m * n) \div q
<1>2. d \in Nat /\ q * d <= m * n /\ m * n < q * d + q
  <2>1. \A k \in Nat : /\ k \div q \in Nat
                       /\ q * (k \div q) <= k
                       /\ k < q * (k \div q) + q
    BY SMT
  <2> QED
    BY <1>1, <2>1
<1> HIDE DEF d
<1>3. n <= q => m * n <= q * m
  OBVIOUS
<1>4. n >= q => m * n >= q * m
  OBVIOUS
<1>5. q * d <= q * m => d <= m
  BY <1>2
<1>6. q * m < q * d + q => m <= d
  <2>1. q * d + q = q * (d + 1)
    BY <1>2
  <2>2. q * m < q * (d + 1) => m < d + 1
    BY <1>2
  <2> QED
    BY <2>1, <2>2, <1>2
<1>7. n <= q => d <= m
  BY <1>2, <1>3, <1>5
<1>8. n >= q => d >= m
  BY <1>2, <1>4, <1>6
<1> QED
  BY <1>2, <1>7, <1>8 DEF d

(***************************************************************************)
(* _apply_fill_to_position: the row keeps its types and the sign of its    *)
(* cost, its quantity moves by the leg, and what it realizes is exactly    *)
(* the cash of the leg plus the change of the cost held.                   *)
(***************************************************************************)
LEMMA ApplyFillBalances ==
    ASSUME NEW pos \in Position, CostSigned(pos), NEW side \in Side,
           NEW n \in Nat \ {0}, NEW net \in Nat
    PROVE  LET new == ApplyFill(pos, side, n, net)
           IN  /\ new \in Position
               /\ CostSigned(new)
               /\ new.qty = pos.qty + Signed(side, n)
               /\ new.realized - new.basis = pos.realized - pos.basis - Signed(side, net)
               /\ Realizes(pos, side, n, net) \in Int
<1> DEFINE new == ApplyFill(pos, side, n, net)
           a == AvgPriceTimes(pos, n)
<1>1. pos.qty \in Int /\ pos.basis \in Int /\ pos.realized \in Int
  BY DEF Position
<1>2. side = "BUY" \/ side = "SELL"
  BY DEF Side
<1>3. Signed(side, n) \in Int /\ Signed(side, net) \in Int
  BY DEF Signed
<1>4. /\ new.qty = pos.qty + Signed(side, n)
      /\ new.basis = IF Adding(pos, side) THEN pos.basis + Signed(side, net)
                     ELSE IF pos.qty + Signed(side, n) = 0 THEN 0
                     ELSE pos.basis + Signed(side, a)
      /\ new.realized = pos.realized + Realizes(pos, side, n, net)
      /\ new = [qty |-> new.qty, basis |-> new.basis, realized |-> new.realized]
  BY DEF ApplyFill
<1>5. CASE Adding(pos, side)
  <2>1. Realizes(pos, side, n, net) = 0
    BY <1>5 DEF Realizes
  <2>2. new.basis = pos.basis + Signed(side, net)
    BY <1>4, <1>5
  <2>3. new \in Position
    BY <2>1, <2>2, <1>1, <1>3, <1>4 DEF Position
  <2>4. CostSigned(new)
    <3> HIDE DEF new
    <3> QED
      BY <2>2, <1>1, <1>2, <1>4, <1>5 DEF CostSigned, Adding, Signed
  <2>5. new.realized - new.basis = pos.realized - pos.basis - Signed(side, net)
    <3> HIDE DEF new
    <3> QED
      BY <2>1, <2>2, <1>1, <1>3, <1>4
  <2> QED
    BY <2>1, <2>3, <2>4, <2>5, <1>4
<1>6. CASE ~Adding(pos, side)
  <2>1. pos.qty # 0 /\ (pos.qty > 0 <=> side = "SELL")
    BY <1>6, <1>1, <1>2 DEF Adding
  <2> DEFINE m == Magnitude(pos.basis)
             q == Magnitude(pos.qty)
  <2>2. m \in Nat /\ q \in Nat \ {0}
    BY <2>1, <1>1 DEF Magnitude
  <2>3. /\ a \in Nat
        /\ n <= q => a <= m
        /\ n >= q => a >= m
    <3> HIDE DEF m, q
    <3>1. a = (m * n) \div q
      BY DEF AvgPriceTimes, m, q
    <3> QED
      BY <3>1, <2>2, ProRata
  <2>4. Realizes(pos, side, n, net) = IF side = "SELL" THEN net - a ELSE a - net
    BY <1>6 DEF Realizes
  <2>5. Realizes(pos, side, n, net) \in Int
    <3> HIDE DEF a
    <3> QED
      BY <2>3, <2>4
  <2>6. new.basis = pos.basis + Signed(side, a)
    <3>1. CASE pos.qty + Signed(side, n) = 0
      <4>1. n = q
        BY <3>1, <2>1, <1>1, <1>2 DEF Signed, Magnitude
      <4>2. a = m
        <5> HIDE DEF a, m, q
        <5> QED
          BY <4>1, <2>2, <2>3
      <4>3. pos.basis + Signed(side, m) = 0
        BY <2>1, <1>1, <1>2 DEF Signed, Magnitude, CostSigned
      <4> HIDE DEF a, m, new
      <4> QED
        BY <3>1, <4>2, <4>3, <1>4, <1>6
    <3>2. CASE pos.qty + Signed(side, n) # 0
      BY <3>2, <1>4, <1>6
    <3> QED
      BY <3>1, <3>2
  <2>7. Signed(side, a) \in Int
    <3> HIDE DEF a
    <3> QED
      BY <2>3 DEF Signed
  <2>8. new \in Position
    <3>1. new.qty \in Int /\ new.basis \in Int /\ new.realized \in Int
      <4> HIDE DEF new, a
      <4> QED
        BY <2>5, <2>6, <2>7, <1>1, <1>3, <1>4
    <3> HIDE DEF new
    <3> QED
      BY <3>1, <1>4 DEF Position
  <2>9. CostSigned(new)
    <3> HIDE DEF new, a
    <3> QED
      BY <2>1, <2>3, <2>6, <1>1, <1>2, <1>4 DEF CostSigned, Signed, Magnitude
  <2>10. new.realized - new.basis = pos.realized - pos.basis - Signed(side, net)
    <3> HIDE DEF new, a
    <3> QED
      BY <2>3, <2>4, <2>6, <1>1, <1>2, <1>4 DEF Signed
  <2> QED
    BY <2>5, <2>8, <2>9, <2>10, <1>4
<1> QED
  BY <1>5, <1>6

-----------------------------------------------------------------------------
(***************************************************************************)
(* RiskEngine.evaluate: what it approves is an order that can be placed.   *)
(***************************************************************************)
LEMMA ApprovalType ==
    ASSUME NEW direction \in Direction, NEW refPrice, NEW c, c.posQty \in Int,
           Evaluate(direction, refPrice, c).ok
    PROVE  /\ Evaluate(direction, refPrice, c).side \in Side
           /\ Evaluate(direction, refPrice, c).qty \in Nat \ {0}
           /\ ~c.tripped
<1> DEFINE B == {k \in 1..7 : Blocks(CheckOrder[k], direction, refPrice, c)}
           v == Evaluate(direction, refPrice, c)
<1>1. B = {}
  BY DEF Evaluate
<1>2. /\ v.side = ApprovedSide(direction, c)
      /\ v.qty = ApprovedQty(direction, refPrice, c)
  BY <1>1 DEF Evaluate
<1>3. \A k \in 1..7 : ~Blocks(CheckOrder[k], direction, refPrice, c)
  BY <1>1
<1>4. /\ ~Blocks("KILL_SWITCH_TRIPPED", direction, refPrice, c)
      /\ ~Blocks("NO_OPEN_POSITION", direction, refPrice, c)
      /\ ~Blocks("ZERO_QUANTITY", direction, refPrice, c)
  BY <1>3 DEF CheckOrder
<1>5. ~c.tripped
  BY <1>4 DEF Blocks
<1>6. direction = "EXIT" => c.posQty # 0
  BY <1>4 DEF Blocks
<1>7. direction # "EXIT" => Size(c.equity, ToTick(refPrice)) \in Nat \ {0}
  BY <1>4 DEF Blocks
<1>8. ApprovedQty(direction, refPrice, c) \in Nat \ {0}
  BY <1>6, <1>7 DEF ApprovedQty
<1>9. ApprovedSide(direction, c) \in Side
  BY DEF ApprovedSide, Side
<1> QED
  BY <1>2, <1>5, <1>8, <1>9

(***************************************************************************)
(* Without SHORT signals and short positions, all that is sold is what is  *)
(* held.                                                                   *)
(***************************************************************************)
LEMMA ApprovedLongOnly ==
    ASSUME NEW direction \in {"LONG", "EXIT"}, NEW refPrice, NEW c, c.posQty \in Nat,
           Evaluate(direction, refPrice, c).ok
    PROVE  \/ Evaluate(direction, refPrice, c).side = "BUY"
           \/ /\ Evaluate(direction, refPrice, c).side = "SELL"
              /\ Evaluate(direction, refPrice, c).qty = c.posQty
<1> DEFINE v == Evaluate(direction, refPrice, c)
<1>1. /\ v.side = ApprovedSide(direction, c)
      /\ v.qty = ApprovedQty(direction, refPrice, c)
  BY DEF Evaluate
<1> HIDE DEF v
<1>2. CASE direction = "LONG"
  BY <1>1, <1>2 DEF ApprovedSide, v
<1>3. CASE direction = "EXIT"
  <2>1. v.side = "SELL"
    BY <1>1, <1>3 DEF ApprovedSide
  <2>2. v.qty = c.posQty
    BY <1>1, <1>3 DEF ApprovedQty
  <2> QED
    BY <2>1, <2>2 DEF v
<1> QED
  BY <1>2, <1>3

(* The rows of the kill switch keep their type, and stay tripped. *)
LEMMA KillRows ==
    ASSUME NEW k \in KillSwitchRow
    PROVE  /\ RecordSuccess(k) \in KillSwitchRow /\ RecordSuccess(k).tripped = k.tripped
           /\ RecordError(k) \in KillSwitchRow /\ (k.tripped => RecordError(k).tripped)
           /\ Trip(k) \in KillSwitchRow /\ Trip(k).tripped
           /\ Reset(k) \in KillSwitchRow
<1>1. k.tripped \in BOOLEAN /\ k.errors \in Nat
  BY DEF KillSwitchRow
<1>2. RecordSuccess(k) \in KillSwitchRow /\ RecordSuccess(k).tripped = k.tripped
  BY DEF RecordSuccess, KillSwitchRow
<1>3. Trip(k) \in KillSwitchRow /\ Trip(k).tripped
  BY DEF Trip, KillSwitchRow
<1>4. Reset(k) \in KillSwitchRow
  BY DEF Reset, KillSwitchRow
<1>5. RecordError(k) \in KillSwitchRow /\ (k.tripped => RecordError(k).tripped)
  <2> DEFINE t == k.tripped \/ k.errors + 1 >= MaxConsecutiveErrors
  <2>1. t \in BOOLEAN /\ k.errors + 1 \in Nat
    BY <1>1
  <2>2. RecordError(k) = [k EXCEPT !.tripped = t, !.errors = k.errors + 1]
    BY DEF RecordError
  <2>3. k.tripped => t
    OBVIOUS
  <2> HIDE DEF t
  <2> QED
    BY <2>1, <2>2, <2>3 DEF KillSwitchRow
<1> QED
  BY <1>2, <1>3, <1>4, <1>5

-----------------------------------------------------------------------------
(***************************************************************************)
(* The orders for an instrument are finitely many, and their signed fills  *)
(* are integers that add up to an integer.                                 *)
(***************************************************************************)
LEMMA FilledType ==
    ASSUME NEW R, \A r \in R : r.filled \in Nat, NEW s \in Seq(R), NEW i
    PROVE  /\ IsFiniteSet(DOMAIN s) /\ IsFiniteSet(OrdersFor(s, i))
           /\ \A o \in DOMAIN s : SignedFills(s)[o] \in Int
           /\ FilledFor(s, i) \in Int
<1>1. DOMAIN s = 1..Len(s) /\ Len(s) \in Nat
  BY LenProperties
<1>2. IsFiniteSet(DOMAIN s)
  BY <1>1, FS_Interval
<1>3. OrdersFor(s, i) \in SUBSET (DOMAIN s)
  BY DEF OrdersFor
<1>4. IsFiniteSet(OrdersFor(s, i))
  BY <1>2, <1>3, FS_Subset
<1>5. \A o \in DOMAIN s : SignedFills(s)[o] \in Int
  BY ElementOfSeq, <1>1 DEF SignedFills, Signed
<1> HIDE DEF OrdersFor
<1>6. FilledFor(s, i) \in Int
  BY <1>3, <1>4, <1>5, SumType DEF FilledFor
<1> QED
  BY <1>2, <1>4, <1>5, <1>6

(***************************************************************************)
(* A table without rows has filled nothing.                                *)
(***************************************************************************)
LEMMA FilledNothing ==
    ASSUME NEW i PROVE FilledFor(<<>>, i) = 0
<1>1. OrdersFor(<<>>, i) = {}
  BY DEF OrdersFor
<1> QED
  BY <1>1, SumEmpty DEF FilledFor

(***************************************************************************)
(* Updating one order of a table changes what its instrument has filled by *)
(* what the order has filled more, and no other instrument's.              *)
(***************************************************************************)
LEMMA FilledUpdated ==
    ASSUME NEW R, \A r \in R : r.filled \in Nat, NEW s \in Seq(R), NEW o \in DOMAIN s,
           NEW row \in R, row.inst = s[o].inst, row.side = s[o].side, NEW i
    PROVE  FilledFor([s EXCEPT ![o] = row], i) =
             FilledFor(s, i)
               + (IF i = s[o].inst THEN Signed(row.side, row.filled - s[o].filled) ELSE 0)
<1> DEFINE t == [s EXCEPT ![o] = row]
           f == SignedFills(s)
           g == SignedFills(t)
           S == OrdersFor(s, i)
<1>1. s \in [1..Len(s) -> R] /\ DOMAIN s = 1..Len(s)
  BY LenProperties
<1>2. DOMAIN t = DOMAIN s /\ t[o] = row /\ \A p \in DOMAIN s \ {o} : t[p] = s[p]
  BY <1>1
<1>3. t \in Seq(R)
  BY <1>1, ExceptSeq
<1> HIDE DEF t
<1>4. OrdersFor(t, i) = S
  BY <1>2 DEF OrdersFor
<1>5. /\ IsFiniteSet(S) /\ FilledFor(s, i) \in Int
      /\ \A p \in DOMAIN s : f[p] \in Int /\ g[p] \in Int
  BY <1>2, <1>3, FilledType
<1>6. \A p \in DOMAIN s \ {o} : f[p] = g[p]
  BY <1>2 DEF SignedFills
<1>7. g[o] - f[o] = Signed(row.side, row.filled - s[o].filled)
  <2>1. s[o].filled \in Nat /\ row.filled \in Nat
    BY <1>1
  <2>2. g[o] = Signed(row.side, row.filled) /\ f[o] = Signed(row.side, s[o].filled)
    BY <1>2 DEF SignedFills
  <2> HIDE DEF f, g
  <2> QED
    BY <2>1, <2>2 DEF Signed
<1>8. /\ FilledFor(s, i) = SumFunctionOnSet(f, S)
      /\ FilledFor(t, i) = SumFunctionOnSet(g, S)
      /\ \A p \in S : p \in DOMAIN s
      /\ o \in S <=> i = s[o].inst
  BY <1>4 DEF FilledFor, OrdersFor
<1> HIDE DEF f, g, S
<1>9. CASE i = s[o].inst
  <2>1. SumFunctionOnSet(g, S) = SumFunctionOnSet(f, S) + (g[o] - f[o])
    BY <1>5, <1>6, <1>8, <1>9, SumChange
  <2> QED
    BY <2>1, <1>7, <1>8, <1>9 DEF t
<1>10. CASE i # s[o].inst
  <2>1. SumFunctionOnSet(g, S) = SumFunctionOnSet(f, S)
    BY <1>5, <1>6, <1>8, <1>10, SumSame
  <2> QED
    BY <2>1, <1>5, <1>8, <1>10 DEF t
<1> QED
  BY <1>9, <1>10

(***************************************************************************)
(* place_order adds a row that has filled nothing yet.                     *)
(***************************************************************************)
LEMMA FilledAppended ==
    ASSUME NEW R, \A r \in R : r.filled \in Nat, NEW s \in Seq(R), NEW row \in R,
           row.filled = 0, NEW i
    PROVE  FilledFor(Append(s, row), i) = FilledFor(s, i)
<1> DEFINE t == Append(s, row)
           n == Len(s) + 1
           f == SignedFills(s)
           g == SignedFills(t)
           S == OrdersFor(s, i)
<1>1. /\ t \in Seq(R) /\ DOMAIN s = 1..Len(s) /\ Len(s) \in Nat
      /\ DOMAIN t = DOMAIN s \cup {n} /\ n \notin DOMAIN s
      /\ t[n] = row /\ \A p \in DOMAIN s : t[p] = s[p]
  <2>1. DOMAIN s = 1..Len(s) /\ Len(s) \in Nat
    BY LenProperties
  <2>2. /\ t \in Seq(R) /\ Len(t) = n
        /\ t[n] = row /\ \A p \in 1..Len(s) : t[p] = s[p]
    BY AppendProperties
  <2>3. DOMAIN t = 1..n
    BY <2>2, LenProperties
  <2> QED
    BY <2>1, <2>2, <2>3
<1> HIDE DEF t, n
<1>2. /\ IsFiniteSet(S) /\ FilledFor(s, i) \in Int
      /\ (\A p \in DOMAIN s : f[p] \in Int) /\ \A p \in DOMAIN t : g[p] \in Int
  BY <1>1, FilledType
<1>3. S \subseteq DOMAIN s
  BY DEF OrdersFor
<1>4. \A p \in S : f[p] = g[p]
  BY <1>1, <1>3 DEF SignedFills
<1>5. g[n] = 0
  BY <1>1 DEF SignedFills, Signed
<1>6. OrdersFor(t, i) = S \/ OrdersFor(t, i) = S \cup {n}
  BY <1>1 DEF OrdersFor
<1>7. n \notin S
  BY <1>1, <1>3
<1>8. /\ FilledFor(s, i) = SumFunctionOnSet(f, S)
      /\ FilledFor(t, i) = SumFunctionOnSet(g, OrdersFor(t, i))
  BY DEF FilledFor
<1> HIDE DEF f, g, S
<1>9. SumFunctionOnSet(f, S) = SumFunctionOnSet(g, S)
  BY <1>2, <1>4, SumSame
<1>10. SumFunctionOnSet(g, S \cup {n}) = SumFunctionOnSet(g, S) + g[n]
  <2>1. g[n] \in Int /\ \A p \in S : g[p] \in Int
    BY <1>1, <1>2, <1>3
  <2> QED
    BY <2>1, <1>2, <1>7, SumAdd
<1>11. FilledFor(t, i) = FilledFor(s, i)
  <2>1. CASE OrdersFor(t, i) = S
    BY <2>1, <1>8, <1>9
  <2>2. CASE OrdersFor(t, i) = S \cup {n}
    <3>1. FilledFor(t, i) = SumFunctionOnSet(g, S \cup {n})
      BY <2>2, <1>8
    <3>2. SumFunctionOnSet(g, S) \in Int
      BY <1>2, <1>8, <1>9
    <3>3. SumFunctionOnSet(g, S) + 0 = SumFunctionOnSet(g, S)
      BY <3>2
    <3>4. SumFunctionOnSet(g, S \cup {n}) = SumFunctionOnSet(g, S)
      BY <3>3, <1>5, <1>10
    <3> QED
      BY <3>1, <3>4, <1>8, <1>9
  <2> QED
    BY <2>1, <2>2, <1>6
<1> QED
  BY <1>11 DEF t

(***************************************************************************)
(* A change that leaves instruments, sides and fills alone leaves what is  *)
(* filled alone.                                                           *)
(***************************************************************************)
LEMMA FilledKept ==
    ASSUME NEW R, \A r \in R : r.filled \in Nat, NEW s \in Seq(R), NEW t \in Seq(R),
           DOMAIN t = DOMAIN s,
           \A o \in DOMAIN s : /\ t[o].inst = s[o].inst /\ t[o].side = s[o].side
                               /\ t[o].filled = s[o].filled,
           NEW i
    PROVE  FilledFor(t, i) = FilledFor(s, i)
<1>1. SignedFills(t) = SignedFills(s) /\ OrdersFor(t, i) = OrdersFor(s, i)
  BY DEF SignedFills, OrdersFor
<1> QED
  BY <1>1 DEF FilledFor
=============================================================================
