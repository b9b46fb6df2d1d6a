--------------------------- MODULE BacktestProofs ---------------------------
(***************************************************************************)
(* Proofs about Backtest, for any capital, symbols, candles, sizing, costs *)
(* and parameters of the strategies.                                       *)
(***************************************************************************)
EXTENDS Backtest, LedgerProofs

(***************************************************************************)
(* Types of what the loop is at, and of the ledger.                        *)
(***************************************************************************)
Trade == [index : Nat, signalIndex : Nat, side : Side, qty : Nat \ {0}, net : Nat,
          wanted : Nat]
Portfolio == [cash : Nat, position : Position]
Pending == [direction : {"LONG", "SHORT", "EXIT"}, index : Nat]

LoopInv ==
    /\ strategy \in StrategiesUsed
    /\ candles \in [SymbolSet -> Seq(Candle)]
    /\ \A s \in SymbolSet : Increasing(candles[s])
    /\ current \in DOMAIN Symbols
    /\ phase \in {"load", "loop", "persisted", "failed"}
    /\ i \in Nat /\ (phase = "loop" => i <= Len(Bars))

LedgerInv ==
    /\ portfolio \in Portfolio
    /\ trades \in Seq(Trade)
    /\ pending = None \/ pending.index \in Nat

-----------------------------------------------------------------------------
(***************************************************************************)
(* The constants, and the bars of a symbol.                                *)
(***************************************************************************)
LEMMA ConstantFacts ==
    /\ Len(Symbols) \in Nat \ {0} /\ DOMAIN Symbols = 1..Len(Symbols)
    /\ PerSymbolCapital \in Nat
    /\ \A k \in DOMAIN Symbols : Symbols[k] \in SymbolSet
<1>1. Symbols \in Seq(SymbolSet) /\ Symbols # <<>> /\ InitialCapital \in Nat
  BY BacktestAssumption
<1>2. Len(Symbols) \in Nat /\ DOMAIN Symbols = 1..Len(Symbols) /\ Len(Symbols) # 0
  BY <1>1, LenProperties, EmptySeq
<1> DEFINE m == Len(Symbols)
<1>3. m \in Nat \ {0} /\ DOMAIN Symbols = 1..m
  BY <1>2
<1>4. PerSymbolCapital = InitialCapital \div m
  BY DEF PerSymbolCapital
<1> HIDE DEF m
<1>5. PerSymbolCapital \in Nat
  BY <1>1, <1>3, <1>4
<1>6. \A k \in DOMAIN Symbols : Symbols[k] \in SymbolSet
  BY DEF SymbolSet
<1> QED BY <1>3, <1>5, <1>6 DEF m

LEMMA BarsAre ==
    ASSUME LoopInv
    PROVE  /\ Bars \in Seq(Candle) /\ Len(Bars) \in Nat /\ DOMAIN Bars = 1..Len(Bars)
           /\ \A n \in 1..Len(Bars) : /\ Bars[n] \in Candle /\ Bars[n].open \in Nat
                                      /\ Bars[n].close \in Nat
           /\ Increasing(Bars)
<1>1. Bars \in Seq(Candle) /\ Increasing(Bars)
  BY ConstantFacts DEF LoopInv, Bars
<1>2. Len(Bars) \in Nat /\ DOMAIN Bars = 1..Len(Bars)
  BY <1>1, LenProperties
<1>3. \A n \in 1..Len(Bars) : Bars[n] \in Candle
  BY <1>1
<1>4. \A c \in Candle : c.open \in Nat /\ c.close \in Nat
  BY DEF Candle
<1> QED BY <1>1, <1>2, <1>3, <1>4

LEMMA FreshIs ==
    FreshPortfolio \in Portfolio /\ FreshPortfolio.position = FlatPosition
    /\ FreshPortfolio.cash = PerSymbolCapital
  BY ConstantFacts DEF FreshPortfolio, Portfolio, FlatPosition, Position

-----------------------------------------------------------------------------
(***************************************************************************)
(* The side a signal trades: it closes what is open, or opens from flat.   *)
(***************************************************************************)
LEMMA ResolvedSide ==
    ASSUME NEW qty \in Int, NEW direction, ResolveAction(qty, direction) # None
    PROVE  /\ ResolveAction(qty, direction) \in Side
           /\ qty > 0 => ResolveAction(qty, direction) = "SELL"
           /\ qty < 0 => ResolveAction(qty, direction) = "BUY"
  BY DEF ResolveAction, Side

(* The quantity is one that the cash pays for. *)
LEMMA SizeType ==
    ASSUME NEW worth \in Int, NEW price \in Nat PROVE Size(worth, price) \in Nat
<1>1. CASE price <= 0 \/ worth <= 0
  BY <1>1 DEF Size
<1>2. CASE price > 0 /\ worth > 0
  <2>1. worth * RiskPct \in Nat
    <3>1. RiskPct \in Nat /\ worth \in Nat
      BY <1>2, SizingAssumption
    <3> QED BY <3>1
  <2>2. 100 * price \in Nat \ {0}
    BY <1>2
  <2>3. \A a \in Nat, b \in Nat \ {0} : a \div b \in Nat
    OBVIOUS
  <2>4. (worth * RiskPct) \div (100 * price) \in Nat
    BY <2>1, <2>2, <2>3
  <2> QED BY <1>2, <2>4 DEF Size
<1> QED BY <1>1, <1>2

LEMMA FillQtyIs ==
    ASSUME NEW p \in Portfolio, NEW side \in Side, NEW open \in Nat
    PROVE  /\ FillQty(p, side, open) \in Nat
           /\ side = "BUY" => Affordable(FillQty(p, side, open), ApplySlippage(open, side), p.cash)
           /\ p.position.qty # 0 => FillQty(p, side, open) <= Magnitude(p.position.qty)
           /\ p.position.qty # 0 /\ side = "SELL" =>
                 FillQty(p, side, open) = Magnitude(p.position.qty)
<1> DEFINE qty == p.position.qty
           wanted == IF qty # 0 THEN Magnitude(qty) ELSE Size(EquityAt(p, open), open)
           price == ApplySlippage(open, side)
<1>1. qty \in Int /\ p.cash \in Nat
  BY DEF Portfolio, Position
<1>2. Magnitude(qty) \in Nat
  BY <1>1 DEF Magnitude
<1>3. EquityAt(p, open) \in Int
  <2>1. EquityAt(p, open) = p.cash + qty * open
    BY DEF EquityAt
  <2> HIDE DEF qty
  <2> QED BY <1>1, <2>1
<1>4. wanted \in Nat
  BY <1>2, <1>3, SizeType
<1>5. FillQty(p, side, open) = IF side = "BUY" THEN ClampToCash(wanted, price, p.cash) ELSE wanted
  BY DEF FillQty
<1>6. qty # 0 => wanted = Magnitude(qty)
  OBVIOUS
<1> HIDE DEF wanted, price
<1>7. /\ ClampToCash(wanted, price, p.cash) \in 0..wanted
      /\ Affordable(ClampToCash(wanted, price, p.cash), price, p.cash)
  BY <1>4, ClampIsLargestAffordable
<1> DEFINE clamped == ClampToCash(wanted, price, p.cash)
<1>8. clamped \in Nat /\ clamped <= wanted
  BY <1>4, <1>7
<1> QED BY <1>4, <1>5, <1>6, <1>7, <1>8 DEF price

(***************************************************************************)
(* A fill: its trade, and what it makes of the portfolio.                  *)
(***************************************************************************)
Filled(p, side, qty, net) ==
    [cash |-> p.cash - Signed(side, net),
     position |-> IF p.position.qty # 0 THEN Closed(p.position, side, qty, net)
                  ELSE OpenedPosition(p.position, side, qty, net)]

LEMMA RealizesType ==
    ASSUME NEW pos \in Position, NEW side, NEW qty \in Nat, NEW net \in Nat
    PROVE  Realizes(pos, side, qty, net) \in Int
<1>1. pos.qty \in Int /\ pos.basis \in Int
  BY DEF Position
<1>2. CASE Adding(pos, side)
  BY <1>2 DEF Realizes
<1>3. CASE ~Adding(pos, side)
  <2>1. Magnitude(pos.qty) \in Nat \ {0} /\ Magnitude(pos.basis) \in Nat
    BY <1>1, <1>3 DEF Adding, Magnitude
  <2>2. AvgPriceTimes(pos, qty) \in Nat
    BY <2>1, ProRata DEF AvgPriceTimes
  <2> QED BY <1>3, <2>2 DEF Realizes
<1> QED BY <1>2, <1>3

LEMMA FilledIs ==
    ASSUME NEW p \in Portfolio, NEW side \in Side, NEW qty \in Nat, NEW net \in Nat,
           side = "BUY" => net <= p.cash
    PROVE  Filled(p, side, qty, net) \in Portfolio
<1> DEFINE new == Filled(p, side, qty, net)
           pos == p.position
           closed == Closed(pos, side, qty, net)
           opened == OpenedPosition(pos, side, qty, net)
<1>1. p.cash \in Nat /\ pos \in Position /\ pos.realized \in Int
  BY DEF Portfolio, Position
<1>2. p.cash - Signed(side, net) \in Nat
  BY <1>1 DEF Side, Signed
<1>3. closed \in Position
  <2>1. Realizes(pos, side, qty, net) \in Int
    BY <1>1, RealizesType
  <2> QED BY <1>1, <2>1 DEF Closed, Position
<1>4. opened \in Position
  <2>1. Signed(side, qty) \in Int /\ Signed(side, net) \in Int
    BY DEF Signed
  <2> QED BY <1>1, <2>1 DEF OpenedPosition, Position
<1> HIDE DEF closed, opened, pos
<1>5. new = [cash |-> p.cash - Signed(side, net),
             position |-> IF pos.qty # 0 THEN closed ELSE opened]
  BY DEF Filled, closed, opened, pos
<1> HIDE DEF new
<1>6. new \in Portfolio
  BY <1>2, <1>3, <1>4, <1>5 DEF Portfolio
<1> QED BY <1>6 DEF new

LEMMA ExecutedIs ==
    ASSUME NEW p \in Portfolio, NEW signal, signal.index \in Nat, NEW n \in Nat, NEW open \in Nat
    PROVE  LET fill == ExecuteSignal(p, signal, n, open)
           IN \/ fill.portfolio = p /\ fill.trades = <<>>
              \/ \E t \in Trade :
                    /\ fill.trades = <<t>>
                    /\ fill.portfolio = Filled(p, t.side, t.qty, t.net)
                    /\ fill.portfolio \in Portfolio
                    /\ t.wanted = Magnitude(p.position.qty)
                    /\ p.position.qty # 0 =>
                          /\ t.side = IF p.position.qty > 0 THEN "SELL" ELSE "BUY"
                          /\ t.qty <= t.wanted
                          /\ t.side = "SELL" => t.qty = t.wanted
<1> DEFINE fill == ExecuteSignal(p, signal, n, open)
           pos == p.position
           side == ResolveAction(pos.qty, signal.direction)
           qty == FillQty(p, side, open)
           price == ApplySlippage(open, side)
           net == NetAmount(side, price, qty)
           t == [index |-> n, signalIndex |-> signal.index, side |-> side, qty |-> qty,
                 net |-> net, wanted |-> Magnitude(pos.qty)]
<1>1. fill = IF side = None THEN [portfolio |-> p, trades |-> <<>>]
             ELSE IF qty <= 0 THEN [portfolio |-> p, trades |-> <<>>]
             ELSE [portfolio |-> Filled(p, side, qty, net), trades |-> <<t>>]
  BY DEF ExecuteSignal, Filled
<1> HIDE DEF fill
<1>2. CASE side = None
  BY <1>1, <1>2 DEF fill
<1>3. CASE side # None
  <2>1. pos.qty \in Int /\ pos \in Position /\ p.cash \in Nat
    BY DEF Portfolio, Position
  <2>2. /\ side \in Side /\ (pos.qty > 0 => side = "SELL") /\ (pos.qty < 0 => side = "BUY")
    BY <1>3, <2>1, ResolvedSide
  <2> HIDE DEF side
  <2>3. /\ qty \in Nat /\ (side = "BUY" => Affordable(qty, price, p.cash))
        /\ pos.qty # 0 => qty <= Magnitude(pos.qty)
        /\ pos.qty # 0 /\ side = "SELL" => qty = Magnitude(pos.qty)
    BY <2>2, FillQtyIs
  <2>4. price \in Nat
    BY SlippageType
  <2> HIDE DEF qty, price
  <2>5. net \in Nat
    BY <2>2, <2>3, <2>4, NetAmountType
  <2>6. CASE qty <= 0
    BY <1>1, <2>6 DEF fill, side, qty
  <2>7. CASE qty > 0
    <3>1. side = "BUY" => net <= p.cash
      BY <2>3, <2>7 DEF Affordable
    <3> HIDE DEF net
    <3>2. Filled(p, side, qty, net) \in Portfolio
      BY <2>2, <2>3, <2>5, <3>1, FilledIs
    <3>3. Magnitude(pos.qty) \in Nat
      BY <2>1 DEF Magnitude
    <3>4. t \in Trade
      BY <2>2, <2>3, <2>5, <2>7, <3>3 DEF Trade
    <3>5. t.side = side /\ t.qty = qty /\ t.net = net /\ t.wanted = Magnitude(pos.qty)
      OBVIOUS
    <3> HIDE DEF t
    <3>6. fill.trades = <<t>> /\ fill.portfolio = Filled(p, side, qty, net)
      <4>1. ~(qty <= 0)
        BY <2>3, <2>7
      <4>2. fill = [portfolio |-> Filled(p, side, qty, net), trades |-> <<t>>]
        <5>1. fill = IF side = None THEN [portfolio |-> p, trades |-> <<>>]
                     ELSE IF qty <= 0 THEN [portfolio |-> p, trades |-> <<>>]
                     ELSE [portfolio |-> Filled(p, side, qty, net), trades |-> <<t>>]
          BY <1>1 DEF t, net, qty, side, price
        <5> QED BY <1>3, <4>1, <5>1 DEF side
      <4> QED BY <4>2
    <3>7. pos.qty # 0 => /\ t.side = IF pos.qty > 0 THEN "SELL" ELSE "BUY"
                         /\ t.qty <= t.wanted
                         /\ t.side = "SELL" => t.qty = t.wanted
      BY <2>1, <2>2, <2>3, <3>5
    <3> QED BY <3>2, <3>4, <3>5, <3>6, <3>7 DEF fill
  <2> QED BY <2>3, <2>6, <2>7
<1> QED BY <1>2, <1>3

-----------------------------------------------------------------------------
(***************************************************************************)
(* The trades replayed as the brokers book them: a fold, which takes the   *)
(* last trade out first.  The step, and what a function is that obeys the  *)
(* recursion on the sets of D:                                             *)
(***************************************************************************)
Booked(pos, t) == ApplyFill(pos, t.side, t.qty, t.net)

Replayed(list) ==
    FoldLeft(LAMBDA pos, t : ApplyFill(pos, t.side, t.qty, t.net), FlatPosition, list)

Replays(list, D, g) ==
    g = [s \in D |-> IF s = {} THEN FlatPosition ELSE Booked(g[s \ {Max(s)}], list[Max(s)])]

LEMMA ReplayedDef ==
    ASSUME NEW list
    PROVE  Replayed(list) = (CHOOSE g : Replays(list, SUBSET DOMAIN list, g))[DOMAIN list]
  BY DEF Replayed, FoldLeft, MapThenFoldSet, Replays, Booked

LEMMA PlacesAreFinite ==
    ASSUME NEW n \in Nat PROVE IsFiniteSet(1..n) /\ Cardinality(1..n) = n
<1>1. 1 \in Int /\ n \in Int /\ (1 > n => n = 0) /\ n - 1 + 1 = n
  OBVIOUS
<1> QED BY <1>1, FS_Interval

(* The last position is one of them, and without it there is one less. *)
LEMMA LastOut ==
    ASSUME NEW n \in Nat, NEW s \in SUBSET (1..n), s # {}
    PROVE  /\ Max(s) \in s /\ s \ {Max(s)} \in SUBSET (1..n)
           /\ Cardinality(s) \in Nat \ {0}
           /\ Cardinality(s \ {Max(s)}) = Cardinality(s) - 1
<1> DEFINE mirror == {n - x : x \in s}
<1>0. \A x \in s : x \in Int /\ 1 <= x /\ x <= n /\ n - x \in Nat
  OBVIOUS
<1>1. mirror \subseteq Nat /\ mirror # {}
  BY <1>0
<1>2. PICK m \in mirror : \A k \in mirror : m <= k
  <2> HIDE DEF mirror
  <2> QED BY <1>1, LeastElement
<1>3. PICK x \in s : \A y \in s : x >= y
  <2>1. PICK x \in s : m = n - x
    BY <1>2
  <2>2. \A y \in s : n - y \in mirror
    OBVIOUS
  <2>3. \A y \in s : n - x <= n - y
    BY <1>2, <2>1, <2>2
  <2>4. \A y \in s : x >= y
    BY <1>0, <2>3
  <2> QED BY <2>4
<1>4. Max(s) \in s
  BY <1>3 DEF Max
<1>5. IsFiniteSet(s)
  <2>1. IsFiniteSet(1..n)
    BY PlacesAreFinite
  <2> QED BY <2>1, FS_Subset
<1>6. Cardinality(s) \in Nat /\ Cardinality(s) # 0
  BY <1>5, FS_CardinalityType, FS_EmptySet
<1>7. Cardinality(s \ {Max(s)}) = Cardinality(s) - 1
  BY <1>4, <1>5, FS_RemoveElement
<1> QED BY <1>4, <1>6, <1>7

LEMMA ReplaysUpTo ==
    ASSUME NEW list, NEW n \in Nat, DOMAIN list = 1..n
    PROVE  \A k \in Nat : \E g : Replays(list, UpTo(1..n, k), g)
<1> DEFINE S == 1..n
           Bad == {k \in Nat : ~ \E g : Replays(list, UpTo(S, k), g)}
<1> SUFFICES ASSUME Bad # {} PROVE FALSE
  OBVIOUS
<1>1. PICK k \in Bad : \A m \in Bad : k <= m
  <2>1. Bad \subseteq Nat OBVIOUS
  <2> HIDE DEF Bad
  <2> QED BY <2>1, LeastElement
<1>a. \A s \in SUBSET S : s # {} => /\ s \ {Max(s)} \in SUBSET S
                                    /\ Cardinality(s) \in Nat \ {0}
                                    /\ Cardinality(s \ {Max(s)}) = Cardinality(s) - 1
  BY LastOut
<1>b. \A s \in SUBSET S : Cardinality(s) \in Nat
  <2> SUFFICES ASSUME NEW s \in SUBSET S PROVE Cardinality(s) \in Nat
    OBVIOUS
  <2>1. IsFiniteSet(S)
    BY PlacesAreFinite
  <2> QED BY <2>1, FS_Subset, FS_CardinalityType
<1>2. CASE k = 0
  <2> DEFINE g == [s \in UpTo(S, 0) |-> FlatPosition]
  <2>1. \A s \in UpTo(S, 0) : s = {}
    <3> SUFFICES ASSUME NEW s \in UpTo(S, 0), s # {} PROVE FALSE
      OBVIOUS
    <3>1. s \in SUBSET S /\ Cardinality(s) <= 0
      BY DEF UpTo
    <3>2. Cardinality(s) \in Nat \ {0}
      BY <1>a, <3>1
    <3> QED BY <3>1, <3>2
  <2>2. Replays(list, UpTo(S, 0), g)
    BY <2>1 DEF Replays
  <2> QED BY <1>2, <2>2
<1>3. CASE k # 0
  <2>1. k - 1 \in Nat /\ k - 1 \notin Bad
    BY <1>1, <1>3
  <2>2. PICK g : Replays(list, UpTo(S, k - 1), g)
    BY <2>1
  <2> DEFINE h == [s \in UpTo(S, k) |->
                     IF s = {} THEN FlatPosition ELSE Booked(g[s \ {Max(s)}], list[Max(s)])]
  <2>3. \A s \in UpTo(S, k - 1) : s \in UpTo(S, k) /\ h[s] = g[s]
    <3> SUFFICES ASSUME NEW s \in UpTo(S, k - 1)
                 PROVE  s \in UpTo(S, k) /\ h[s] = g[s]
      OBVIOUS
    <3>1. s \in UpTo(S, k)
      <4>1. s \in SUBSET S /\ Cardinality(s) \in Nat /\ Cardinality(s) <= k - 1
        BY <1>b DEF UpTo
      <4> QED BY <4>1, <2>1 DEF UpTo
    <3>2. g[s] = IF s = {} THEN FlatPosition ELSE Booked(g[s \ {Max(s)}], list[Max(s)])
      BY <2>2 DEF Replays
    <3> QED BY <3>1, <3>2
  <2>4. \A s \in UpTo(S, k) : s # {} => s \ {Max(s)} \in UpTo(S, k - 1)
    <3> SUFFICES ASSUME NEW s \in UpTo(S, k), s # {}
                 PROVE  s \ {Max(s)} \in UpTo(S, k - 1)
      OBVIOUS
    <3>1. s \in SUBSET S /\ Cardinality(s) <= k
      BY DEF UpTo
    <3>2. /\ s \ {Max(s)} \in SUBSET S /\ Cardinality(s) \in Nat
          /\ Cardinality(s \ {Max(s)}) = Cardinality(s) - 1
      BY <1>a, <3>1
    <3>3. Cardinality(s \ {Max(s)}) <= k - 1
      BY <1>1, <3>1, <3>2
    <3> QED BY <3>2, <3>3 DEF UpTo
  <2>5. Replays(list, UpTo(S, k), h)
    BY <2>3, <2>4 DEF Replays
  <2> QED BY <2>5
<1> QED BY <1>2, <1>3

(* The recursion has a solution on the sets of places of a list of trades. *)
LEMMA ReplaysAll ==
    ASSUME NEW list, NEW n \in Nat, DOMAIN list = 1..n
    PROVE  \E g : Replays(list, SUBSET (1..n), g)
<1>1. \A s \in SUBSET (1..n) : Cardinality(s) <= n
  <2>1. IsFiniteSet(1..n) /\ Cardinality(1..n) = n
    BY PlacesAreFinite
  <2> QED BY <2>1, FS_Subset
<1>2. SUBSET (1..n) = UpTo(1..n, n)
  BY <1>1 DEF UpTo
<1>3. PICK g : Replays(list, UpTo(1..n, n), g)
  BY ReplaysUpTo
<1>4. Replays(list, SUBSET (1..n), g)
  BY <1>2, <1>3
<1> QED BY <1>4

(***************************************************************************)
(* So there are positions, one after each trade, the last of them the      *)
(* replayed one.                                                           *)
(***************************************************************************)
OnTheWay(list, n, after) ==
    /\ after[0] = FlatPosition
    /\ after[n] = Replayed(list)
    /\ \A k \in 1..n : after[k] = Booked(after[k - 1], list[k])

LEMMA PositionsOnTheWay ==
    ASSUME NEW list, NEW n \in Nat, DOMAIN list = 1..n
    PROVE  \E after : OnTheWay(list, n, after)
<1> DEFINE g == CHOOSE g : Replays(list, SUBSET (1..n), g)
           after == [k \in 0..n |-> g[1..k]]
<1>1. Replays(list, SUBSET (1..n), g)
  BY ReplaysAll
<1>2. Replayed(list) = g[1..n]
  BY ReplayedDef
<1> HIDE DEF g
<1>3. after[0] = FlatPosition
  <2>1. 1..0 = {} /\ {} \in SUBSET (1..n) /\ after[0] = g[1..0]
    OBVIOUS
  <2> QED BY <1>1, <2>1 DEF Replays
<1>4. after[n] = Replayed(list)
  BY <1>2
<1>5. ASSUME NEW k \in 1..n PROVE after[k] = Booked(after[k - 1], list[k])
  <2>1. 1..k \in SUBSET (1..n) /\ k \in 1..k
    OBVIOUS
  <2>2. \E x \in 1..k : \A y \in 1..k : x >= y
    BY <2>1
  <2>3. Max(1..k) \in 1..k /\ \A y \in 1..k : Max(1..k) >= y
    BY <2>2 DEF Max
  <2>4. Max(1..k) = k
    BY <2>1, <2>3
  <2>5. (1..k) \ {k} = 1..(k - 1)
    OBVIOUS
  <2>6. g[1..k] = Booked(g[(1..k) \ {Max(1..k)}], list[Max(1..k)])
    BY <1>1, <2>1 DEF Replays
  <2>7. k - 1 \in 0..n /\ k \in 0..n
    OBVIOUS
  <2> QED BY <2>4, <2>5, <2>6, <2>7
<1> HIDE DEF after
<1> QED BY <1>3, <1>4, <1>5 DEF OnTheWay

LEMMA ReplayedNothing == Replayed(<<>>) = FlatPosition
<1> DEFINE list == <<>>
           n == 0
<1>1. n \in Nat /\ DOMAIN list = 1..n
  OBVIOUS
<1> HIDE DEF list, n
<1>2. PICK after : OnTheWay(list, n, after)
  BY <1>1, PositionsOnTheWay
<1> QED BY <1>2 DEF OnTheWay, list, n

(* One trade more. *)
LEMMA ReplayedAppend ==
    ASSUME NEW list \in Seq(Trade), NEW t \in Trade
    PROVE  Replayed(Append(list, t)) = Booked(Replayed(list), t)
<1> DEFINE n == Len(list)
           longer == Append(list, t)
           m == n + 1
<1>1. n \in Nat /\ DOMAIN list = 1..n
  BY LenProperties
<1>2. /\ DOMAIN longer = 1..m /\ longer[m] = t
      /\ \A k \in 1..n : longer[k] = list[k]
  BY AppendProperties, LenProperties
<1> HIDE DEF n, longer
<1>2a. m \in Nat /\ m - 1 = n /\ m \in 1..m
  BY <1>1
<1>2b. \A k \in 1..n : k \in 1..m /\ k - 1 \in 0..n /\ k # 0
  BY <1>1
<1> HIDE DEF m
<1>3. PICK after : OnTheWay(list, n, after)
  BY <1>1, PositionsOnTheWay
<1>4. PICK later : OnTheWay(longer, m, later)
  <2>1. DOMAIN longer = 1..m
    BY <1>2
  <2> QED BY <1>2a, <2>1, PositionsOnTheWay
<1> DEFINE Bad == {k \in 0..n : later[k] # after[k]}
<1>5. Bad = {}
  <2> SUFFICES ASSUME Bad # {} PROVE FALSE
    OBVIOUS
  <2>1. PICK k \in Bad : \A j \in Bad : k <= j
    <3>1. Bad \subseteq Nat
      BY <1>1
    <3> HIDE DEF Bad
    <3> QED BY <3>1, LeastElement
  <2>2. k \in 1..n
    BY <1>1, <1>3, <1>4, <2>1 DEF OnTheWay
  <2>3. k - 1 \in 0..n /\ k - 1 \notin Bad
    BY <1>1, <2>1, <2>2
  <2>4. later[k - 1] = after[k - 1]
    BY <2>3
  <2>5. later[k] = Booked(later[k - 1], longer[k]) /\ after[k] = Booked(after[k - 1], list[k])
    BY <1>2b, <1>3, <1>4, <2>2 DEF OnTheWay
  <2>6. longer[k] = list[k]
    BY <1>2, <2>2
  <2> QED BY <2>1, <2>4, <2>5, <2>6
<1>6. later[n] = after[n]
  <2>1. n \in 0..n
    BY <1>1
  <2> QED BY <1>5, <2>1
<1>7. later[m] = Booked(later[n], t)
  BY <1>2, <1>2a, <1>4 DEF OnTheWay
<1> QED BY <1>3, <1>4, <1>6, <1>7 DEF OnTheWay, longer

-----------------------------------------------------------------------------
(***************************************************************************)
(* The shares owed after a list of trades.                                 *)
(***************************************************************************)
Missed(list) == [k \in DOMAIN list |-> Dropped(list[k])]
Owed(list) == SumFunctionOnSet(Missed(list), DOMAIN list)

LEMMA DroppedType == ASSUME NEW t \in Trade PROVE Dropped(t) \in Nat
<1>1. t.wanted \in Nat /\ t.qty \in Nat
  BY DEF Trade
<1> QED BY <1>1 DEF Dropped

LEMMA OwedNothing == Owed(<<>>) = 0
<1>1. DOMAIN <<>> = {}
  OBVIOUS
<1> QED BY <1>1, SumEmpty DEF Owed

LEMMA OwedAppend ==
    ASSUME NEW list \in Seq(Trade), NEW t \in Trade
    PROVE  Owed(list) \in Int /\ Owed(Append(list, t)) = Owed(list) + Dropped(t)
<1> DEFINE n == Len(list)
           x == n + 1
           longer == Append(list, t)
           f == Missed(longer)
           g == Missed(list)
           S == DOMAIN list
<1>1. n \in Nat /\ S = 1..n /\ DOMAIN longer = 1..x /\ longer[x] = t
      /\ (\A k \in 1..n : longer[k] = list[k])
  BY AppendProperties, LenProperties
<1>2. \A k \in S : list[k] \in Trade
  OBVIOUS
<1> HIDE DEF n, longer, S
<1>3. IsFiniteSet(S) /\ x \notin S /\ DOMAIN longer = S \cup {x} /\ S \subseteq DOMAIN longer
      /\ x \in DOMAIN longer
  <2>1. 1..x = 1..n \cup {x} /\ x \notin 1..n /\ 1..n \subseteq 1..x /\ x \in 1..x
    BY <1>1
  <2>2. IsFiniteSet(1..n)
    BY <1>1, FS_Interval
  <2> HIDE DEF x
  <2> QED BY <1>1, <2>1, <2>2
<1> HIDE DEF x
<1>4. f[x] = Dropped(t) /\ \A k \in S : f[k] = g[k] /\ g[k] = Dropped(list[k])
  BY <1>1, <1>3 DEF Missed, S
<1>5. Dropped(t) \in Int /\ \A k \in S : g[k] \in Int
  BY <1>2, <1>4, DroppedType
<1> HIDE DEF f, g
<1>6. SumFunctionOnSet(f, S \cup {x}) = SumFunctionOnSet(f, S) + f[x]
  BY <1>3, <1>4, <1>5, SumAdd
<1>7. SumFunctionOnSet(f, S) = SumFunctionOnSet(g, S)
  BY <1>3, <1>4, SumSame
<1>8. SumFunctionOnSet(g, S) \in Int
  BY <1>3, <1>5, SumType
<1> QED BY <1>3, <1>4, <1>6, <1>7, <1>8 DEF Owed, f, g, S, longer

-----------------------------------------------------------------------------
(***************************************************************************)
(* The books.  What the trades give when they are replayed has a cost with *)
(* the sign of its quantity and leaves the cash; the shares owed separate  *)
(* it from the engine's position, which is the same while there are none.  *)
(***************************************************************************)
Agree(p, list) ==
    LET replayed == Replayed(list)
    IN /\ replayed \in Position /\ CostSigned(replayed)
       /\ p.cash = PerSymbolCapital + replayed.realized - replayed.basis
       /\ Owed(list) \in Nat
       /\ p.position.qty = replayed.qty + Owed(list)
       /\ Owed(list) = 0 => p.position = replayed

BooksInv == Agree(portfolio, trades)

(* A fill that is not a cut cover is booked as the brokers book it. *)
LEMMA FilledAsBooked ==
    ASSUME NEW p \in Portfolio, NEW t \in Trade, CostSigned(p.position),
           p.position.qty # 0 =>
               /\ t.side = IF p.position.qty > 0 THEN "SELL" ELSE "BUY"
               /\ t.qty = Magnitude(p.position.qty)
    PROVE  Filled(p, t.side, t.qty, t.net).position = Booked(p.position, t)
<1> DEFINE pos == p.position
           new == Filled(p, t.side, t.qty, t.net)
           booked == Booked(pos, t)
<1>1. /\ pos \in Position /\ pos.qty \in Int /\ pos.basis \in Int /\ pos.realized \in Int
      /\ t.side \in Side /\ t.qty \in Nat \ {0} /\ t.net \in Nat
  BY DEF Portfolio, Position, Trade
<1>2. CASE pos.qty = 0
  <2>1. new.position = OpenedPosition(pos, t.side, t.qty, t.net)
    BY <1>2 DEF Filled
  <2>2. pos.basis = 0 /\ Adding(pos, t.side)
    BY <1>2 DEF CostSigned, Adding
  <2>3. Signed(t.side, t.qty) \in Int /\ Signed(t.side, t.net) \in Int
    BY <1>1 DEF Signed
  <2>4. booked = [qty |-> Signed(t.side, t.qty), basis |-> Signed(t.side, t.net),
                  realized |-> pos.realized]
    BY <1>1, <1>2, <2>2, <2>3 DEF Booked, ApplyFill, Realizes
  <2> QED BY <2>1, <2>4 DEF OpenedPosition
<1>3. CASE pos.qty # 0
  <2>1. new.position = Closed(pos, t.side, t.qty, t.net)
    BY <1>3 DEF Filled
  <2>2. ~Adding(pos, t.side) /\ pos.qty + Signed(t.side, t.qty) = 0
    BY <1>1, <1>3 DEF Adding, Signed, Magnitude
  <2>3. booked = [qty |-> 0, basis |-> 0,
                  realized |-> pos.realized + Realizes(pos, t.side, t.qty, t.net)]
    BY <2>2 DEF Booked, ApplyFill
  <2> QED BY <2>1, <2>3 DEF Closed
<1> QED BY <1>2, <1>3

(***************************************************************************)
(* Any fill keeps the books: an entry is of what it says, a close ends the *)
(* position and what it lacks is owed.                                     *)
(***************************************************************************)
LEMMA FillAgrees ==
    ASSUME NEW p \in Portfolio, NEW list \in Seq(Trade), Agree(p, list), NEW t \in Trade,
           t.wanted = Magnitude(p.position.qty),
           p.position.qty # 0 =>
               /\ t.side = IF p.position.qty > 0 THEN "SELL" ELSE "BUY"
               /\ t.qty <= t.wanted
               /\ t.side = "SELL" => t.qty = t.wanted
    PROVE  Agree(Filled(p, t.side, t.qty, t.net), Append(list, t))
<1> DEFINE pos == p.position
           new == Filled(p, t.side, t.qty, t.net)
           old == Replayed(list)
           booked == Booked(old, t)
           owed == Owed(list)
           dropped == Dropped(t)
           capital == PerSymbolCapital
           shares == Signed(t.side, t.qty)
           paid == Signed(t.side, t.net)
<1>1. /\ pos.qty \in Int /\ p.cash \in Int
      /\ t.side \in Side /\ t.qty \in Nat \ {0} /\ t.net \in Nat /\ t.wanted \in Nat
      /\ capital \in Int
  BY ConstantFacts DEF Portfolio, Position, Trade
<1>2. /\ old \in Position /\ CostSigned(old) /\ owed \in Nat
      /\ p.cash = capital + old.realized - old.basis
      /\ pos.qty = old.qty + owed
      /\ owed = 0 => pos = old
  BY DEF Agree
<1>3. /\ booked \in Position /\ CostSigned(booked)
      /\ booked.qty = old.qty + shares
      /\ booked.realized - booked.basis = old.realized - old.basis - paid
  <2>1. old \in Position /\ CostSigned(old) /\ t.side \in Side /\ t.qty \in Nat \ {0}
        /\ t.net \in Nat
    BY <1>1, <1>2
  <2>2. booked = ApplyFill(old, t.side, t.qty, t.net)
    BY DEF Booked
  <2> HIDE DEF old, booked
  <2> QED BY <2>1, <2>2, ApplyFillBalances
<1>4. Replayed(Append(list, t)) = booked
  BY ReplayedAppend
<1>5. Owed(Append(list, t)) = owed + dropped /\ dropped \in Nat
  BY OwedAppend, DroppedType
<1>6. new.cash = p.cash - paid
  BY DEF Filled
<1>7. shares \in Int /\ paid \in Int /\ old.qty \in Int /\ old.realized \in Int
      /\ old.basis \in Int /\ booked.realized \in Int /\ booked.basis \in Int
  <2>1. shares \in Int /\ paid \in Int
    BY <1>1 DEF Signed
  <2> HIDE DEF booked, old
  <2>2. \A q \in Position : q.qty \in Int /\ q.realized \in Int /\ q.basis \in Int
    BY DEF Position
  <2> QED BY <1>2, <1>3, <2>1, <2>2
<1>8. new.position.qty = pos.qty + shares + dropped
  <2>1. CASE pos.qty = 0
    <3>1. new.position.qty = shares
      BY <2>1 DEF Filled, OpenedPosition
    <3>2. dropped = 0
      BY <1>1, <2>1 DEF Dropped, Magnitude
    <3> HIDE DEF shares, dropped, new, pos
    <3> QED BY <1>7, <2>1, <3>1, <3>2
  <2>2. CASE pos.qty # 0
    <3>1. new.position.qty = 0
      BY <2>2 DEF Filled, Closed
    <3>2. pos.qty + shares + dropped = 0
      BY <1>1, <2>2 DEF Signed, Magnitude, Dropped
    <3> QED BY <3>1, <3>2
  <2> QED BY <2>1, <2>2
<1>9. ASSUME owed = 0, dropped = 0 PROVE new.position = booked
  <2>1. pos = old /\ CostSigned(pos)
    BY <1>2, <1>9
  <2>2. pos.qty # 0 => t.qty = Magnitude(pos.qty)
    BY <1>1, <1>9 DEF Dropped
  <2>3. new.position = Booked(pos, t)
    BY <2>1, <2>2, FilledAsBooked
  <2> QED BY <2>1, <2>3
<1> HIDE DEF new, booked, old, owed, dropped, capital, shares, paid, pos
<1>10. new.cash = capital + booked.realized - booked.basis
  <2> DEFINE c == p.cash
             d == new.cash
             r == old.realized
             b == old.basis
             s == booked.realized
             e == booked.basis
  <2>1. /\ c \in Int /\ r \in Int /\ b \in Int /\ s \in Int /\ e \in Int
        /\ capital \in Int /\ paid \in Int
        /\ c = capital + r - b /\ s - e = r - b - paid /\ d = c - paid
    BY <1>1, <1>2, <1>3, <1>6, <1>7
  <2> HIDE DEF c, d, r, b, s, e
  <2>2. d = capital + s - e
    BY <2>1
  <2> QED BY <2>2 DEF d, s, e
<1>11. new.position.qty = booked.qty + (owed + dropped) /\ owed + dropped \in Nat
  <2> DEFINE q == pos.qty
             r == old.qty
             u == new.position.qty
             v == booked.qty
  <2>1. /\ q \in Int /\ r \in Int /\ shares \in Int /\ owed \in Nat /\ dropped \in Nat
        /\ q = r + owed /\ v = r + shares /\ u = q + shares + dropped
    BY <1>1, <1>2, <1>3, <1>5, <1>7, <1>8
  <2> HIDE DEF q, r, u, v
  <2>2. u = v + (owed + dropped) /\ owed + dropped \in Nat
    BY <2>1
  <2> QED BY <2>2 DEF u, v
<1>12. owed + dropped = 0 => owed = 0 /\ dropped = 0
  BY <1>2, <1>5
<1>13. owed + dropped = 0 => new.position = booked
  BY <1>9, <1>12
<1> QED BY <1>3, <1>4, <1>5, <1>10, <1>11, <1>13 DEF Agree, new, capital

-----------------------------------------------------------------------------
(***************************************************************************)
(* A bar.                                                                  *)
(***************************************************************************)
FillAt(n) ==
    IF pending = None THEN [portfolio |-> portfolio, trades |-> <<>>]
    ELSE ExecuteSignal(portfolio, pending, n, Bars[n].open)

LEMMA BarIs ==
    ASSUME LoopInv, NEW choice, Bar(choice)
    PROVE  /\ phase = "loop" /\ i < Len(Bars) /\ i' = i + 1 /\ i + 1 \in 1..Len(Bars)
           /\ portfolio' = FillAt(i + 1).portfolio
           /\ trades' = trades \o FillAt(i + 1).trades
           /\ equity' = Append(equity, EquityAt(portfolio', Bars[i + 1].close))
           /\ pending' = None \/ pending'.index = i + 1
           /\ UNCHANGED <<strategy, candles, current, phase, series, results>>
           /\ Bars' = Bars
<1>1. i \in Nat /\ Len(Bars) \in Nat /\ i < Len(Bars)
  BY BarsAre DEF LoopInv, Bar
<1>2. i + 1 \in 1..Len(Bars)
  BY <1>1
<1>3. /\ phase = "loop" /\ i' = i + 1
      /\ portfolio' = FillAt(i + 1).portfolio
      /\ trades' = trades \o FillAt(i + 1).trades
      /\ equity' = Append(equity, EquityAt(FillAt(i + 1).portfolio, Bars[i + 1].close))
      /\ UNCHANGED <<strategy, candles, current, phase, series, results>>
  BY DEF Bar, FillAt
<1>4. pending' = None \/ pending'.index = i + 1
  BY DEF Bar
<1>5. Bars' = Bars
  BY <1>3 DEF Bars
<1> QED BY <1>1, <1>2, <1>3, <1>4, <1>5

LEMMA BarFills ==
    ASSUME LoopInv, LedgerInv, NEW choice, Bar(choice)
    PROVE  \/ portfolio' = portfolio /\ trades' = trades
           \/ \E t \in Trade :
                 /\ trades' = Append(trades, t)
                 /\ portfolio' = Filled(portfolio, t.side, t.qty, t.net)
                 /\ portfolio' \in Portfolio
                 /\ t.wanted = Magnitude(portfolio.position.qty)
                 /\ portfolio.position.qty # 0 =>
                       /\ t.side = IF portfolio.position.qty > 0 THEN "SELL" ELSE "BUY"
                       /\ t.qty <= t.wanted
                       /\ t.side = "SELL" => t.qty = t.wanted
<1> DEFINE fill == FillAt(i + 1)
<1>1. /\ i + 1 \in Nat /\ i + 1 \in 1..Len(Bars)
      /\ portfolio' = fill.portfolio /\ trades' = trades \o fill.trades
  BY BarIs DEF LoopInv
<1>2. portfolio \in Portfolio /\ trades \in Seq(Trade) /\ Bars[i + 1].open \in Nat
  BY <1>1, BarsAre DEF LedgerInv
<1>3. trades \o <<>> = trades
  BY <1>2
<1>4. CASE pending = None
  BY <1>1, <1>3, <1>4 DEF FillAt
<1>5. CASE pending # None
  <2>1. fill = ExecuteSignal(portfolio, pending, i + 1, Bars[i + 1].open) /\ pending.index \in Nat
    BY <1>5 DEF FillAt, LedgerInv
  <2> HIDE DEF fill
  <2>2. \/ fill.portfolio = portfolio /\ fill.trades = <<>>
        \/ \E t \in Trade :
              /\ fill.trades = <<t>>
              /\ fill.portfolio = Filled(portfolio, t.side, t.qty, t.net)
              /\ fill.portfolio \in Portfolio
              /\ t.wanted = Magnitude(portfolio.position.qty)
              /\ portfolio.position.qty # 0 =>
                    /\ t.side = IF portfolio.position.qty > 0 THEN "SELL" ELSE "BUY"
                    /\ t.qty <= t.wanted
                    /\ t.side = "SELL" => t.qty = t.wanted
    BY <1>1, <1>2, <2>1, ExecutedIs
  <2>3. \A t \in Trade : trades \o <<t>> = Append(trades, t)
    BY <1>2
  <2> QED BY <1>1, <1>3, <2>2, <2>3
<1> QED BY <1>4, <1>5

LEMMA BarKeepsBooks ==
    ASSUME LoopInv, LedgerInv, BooksInv, NEW choice, Bar(choice)
    PROVE  LoopInv' /\ LedgerInv' /\ BooksInv'
<1>1. /\ phase = "loop" /\ i' = i + 1 /\ i + 1 \in 1..Len(Bars) /\ Bars' = Bars
      /\ UNCHANGED <<strategy, candles, current, phase>>
      /\ pending' = None \/ pending'.index = i + 1
  BY BarIs
<1>2. i \in Nat /\ i + 1 \in Nat /\ i + 1 <= Len(Bars)
  BY <1>1 DEF LoopInv
<1>3. LoopInv'
  BY <1>1, <1>2 DEF LoopInv
<1>4. portfolio \in Portfolio /\ trades \in Seq(Trade)
  BY DEF LedgerInv
<1>5. CASE portfolio' = portfolio /\ trades' = trades
  <2>1. LedgerInv'
    BY <1>1, <1>2, <1>4, <1>5 DEF LedgerInv
  <2>2. BooksInv'
    BY <1>5 DEF BooksInv, Agree
  <2> QED BY <1>3, <2>1, <2>2
<1>6. ASSUME NEW t \in Trade, trades' = Append(trades, t),
             portfolio' = Filled(portfolio, t.side, t.qty, t.net), portfolio' \in Portfolio,
             t.wanted = Magnitude(portfolio.position.qty),
             portfolio.position.qty # 0 =>
                /\ t.side = IF portfolio.position.qty > 0 THEN "SELL" ELSE "BUY"
                /\ t.qty <= t.wanted
                /\ t.side = "SELL" => t.qty = t.wanted
      PROVE  LedgerInv' /\ BooksInv'
  <2>1. trades' \in Seq(Trade)
    BY <1>4, <1>6, AppendProperties
  <2>2. LedgerInv'
    BY <1>1, <1>2, <1>6, <2>1 DEF LedgerInv
  <2>3. Agree(portfolio', trades')
    BY <1>4, <1>6, FillAgrees DEF BooksInv
  <2> QED BY <2>2, <2>3 DEF BooksInv, Agree
<1> QED BY <1>3, <1>5, <1>6, BarFills

-----------------------------------------------------------------------------
(***************************************************************************)
(* The other steps.                                                        *)
(***************************************************************************)
LEMMA BooksAtFirst == Agree(FreshPortfolio, <<>>)
<1>1. FreshPortfolio.position = FlatPosition /\ FreshPortfolio.cash = PerSymbolCapital
  BY FreshIs
<1>2. FlatPosition \in Position /\ CostSigned(FlatPosition)
      /\ FlatPosition.realized = 0 /\ FlatPosition.basis = 0 /\ FlatPosition.qty = 0
  BY DEF FlatPosition, CostSigned, Position
<1>3. PerSymbolCapital = PerSymbolCapital + 0 - 0
  BY ConstantFacts
<1> QED BY <1>1, <1>2, <1>3, ReplayedNothing, OwedNothing DEF Agree

IInv == LoopInv /\ LedgerInv /\ BooksInv

LEMMA InitSound == ASSUME Init PROVE IInv
<1>1. 1 \in DOMAIN Symbols
  BY ConstantFacts
<1>2. LoopInv
  BY <1>1, BacktestAssumption DEF Init, LoopInv
<1>3. LedgerInv /\ BooksInv
  BY FreshIs, BooksAtFirst DEF Init, LedgerInv, BooksInv
<1> QED BY <1>2, <1>3 DEF IInv

LEMMA StepSound == ASSUME IInv, [Next]_vars PROVE IInv'
<1>1. CASE LoadSymbol
  <2>1. /\ portfolio' = FreshPortfolio /\ trades' = <<>> /\ pending' = None
        /\ phase' = "loop" /\ i' = 0 /\ UNCHANGED <<strategy, candles, current>>
    BY <1>1 DEF LoadSymbol, Fresh
  <2>2. LoopInv'
    <3>1. Bars' = Bars /\ 0 <= Len(Bars)
      BY <2>1, BarsAre DEF Bars, IInv
    <3> QED BY <2>1, <3>1 DEF IInv, LoopInv
  <2>3. (LedgerInv /\ BooksInv)'
    <3>1. LedgerInv'
      BY <2>1, FreshIs DEF LedgerInv
    <3>2. BooksInv'
      BY <2>1, BooksAtFirst DEF BooksInv, Agree
    <3> QED BY <3>1, <3>2
  <2> QED BY <2>2, <2>3 DEF IInv
<1>2. CASE NoData
  BY <1>2 DEF NoData, loop, IInv, LoopInv, LedgerInv, BooksInv, Agree, Bars
<1>3. CASE \E choice \in MaySignal(strategy) : Bar(choice)
  BY <1>3, BarKeepsBooks DEF IInv
<1>4. CASE FinishSymbol
  <2>1. /\ UNCHANGED <<strategy, candles, i, portfolio, trades, pending>>
        /\ phase' \in {"load", "persisted"}
        /\ \/ current < Len(Symbols) /\ current' = current + 1
           \/ current' = current
    BY <1>4 DEF FinishSymbol, loop
  <2>2. current' \in DOMAIN Symbols
    BY <2>1, ConstantFacts DEF IInv, LoopInv
  <2>3. LoopInv'
    BY <2>1, <2>2 DEF IInv, LoopInv
  <2>4. (LedgerInv /\ BooksInv)'
    BY <2>1 DEF IInv, LedgerInv, BooksInv, Agree
  <2> QED BY <2>3, <2>4 DEF IInv
<1>5. CASE UNCHANGED vars
  BY <1>5 DEF vars, loop, IInv, LoopInv, LedgerInv, BooksInv, Agree, Bars
<1> QED BY <1>1, <1>2, <1>3, <1>4, <1>5 DEF Next

(***************************************************************************)
(* Whatever the candles and the strategies' signals, the types and the     *)
(* books of the ledger hold.                                               *)
(***************************************************************************)
THEOREM Invariance == Spec => []IInv
<1>1. Init => IInv
  BY InitSound
<1>2. IInv /\ [Next]_vars => IInv'
  BY StepSound
<1> QED BY <1>1, <1>2, PTL DEF Spec

(***************************************************************************)
(* CashNeverNegative: entries and covers alike are cut to what the cash    *)
(* pays for (_clamp_to_cash).                                              *)
(***************************************************************************)
THEOREM CashCorrect == Spec => []CashNeverNegative
<1>1. IInv => CashNeverNegative
  BY DEF IInv, LedgerInv, Portfolio, CashNeverNegative
<1> QED BY <1>1, Invariance, PTL

(***************************************************************************)
(* BooksAgreeWithBrokers: the trades replayed with                         *)
(* _apply_fill_to_position give the engine's cash always, and its position *)
(* until a cover is cut; then they are short of it by the shares that the  *)
(* covers did not buy back (_close, _open_or_add).                         *)
(***************************************************************************)
THEOREM BooksCorrect == Spec => []BooksAgreeWithBrokers
<1>1. IInv => BooksAgreeWithBrokers
  <2>1. SharesOwed = Owed(trades)
    BY DEF SharesOwed, Owed, Missed
  <2> QED BY <2>1 DEF IInv, BooksInv, Agree, Replayed, BooksAgreeWithBrokers
<1> QED BY <1>1, Invariance, PTL

-----------------------------------------------------------------------------
(***************************************************************************)
(* The equity curves: one point per bar, the first of them the capital, as *)
(* nothing trades on the first bar.                                        *)
(***************************************************************************)
Result == [symbol : SymbolSet, trades : Seq(Trade), equity : Seq(Int)]

EquityInv ==
    phase = "loop" =>
        /\ Len(Bars) > 0 /\ equity \in Seq(Int) /\ Len(equity) = i
        /\ i = 0 => pending = None /\ portfolio = FreshPortfolio
        /\ i > 0 => equity[1] = PerSymbolCapital

Reported(r, s) ==
    /\ r.symbol = s
    /\ Len(candles[s]) > 0 /\ Len(r.equity) = Len(candles[s])
    /\ r.equity[1] = PerSymbolCapital

ResultsInv ==
    /\ results \in Seq(Result)
    /\ phase \in {"load", "loop"} => Len(results) = current - 1
    /\ phase = "persisted" => Len(results) = Len(Symbols)
    /\ \A k \in DOMAIN results : Reported(results[k], Symbols[k])

CurveInv == IInv /\ EquityInv /\ ResultsInv

LEMMA CurveAtFirst == ASSUME Init PROVE CurveInv
<1>1. EquityInv
  BY DEF Init, EquityInv
<1>2. ResultsInv
  BY DEF Init, ResultsInv
<1> QED BY <1>1, <1>2, InitSound DEF CurveInv

LEMMA BarKeepsCurve ==
    ASSUME CurveInv, NEW choice, Bar(choice)
    PROVE  EquityInv' /\ ResultsInv'
<1>1. /\ phase = "loop" /\ i' = i + 1 /\ i + 1 \in 1..Len(Bars) /\ Bars' = Bars
      /\ equity' = Append(equity, EquityAt(portfolio', Bars[i + 1].close))
      /\ portfolio' = FillAt(i + 1).portfolio
      /\ UNCHANGED <<strategy, candles, current, phase, series, results>>
      /\ LoopInv /\ LedgerInv
  BY BarIs DEF CurveInv, IInv
<1>2. i \in Nat /\ Len(Bars) \in Nat /\ Bars[i + 1].close \in Nat
  BY <1>1, BarsAre DEF LoopInv
<1>3. Len(Bars) > 0 /\ equity \in Seq(Int) /\ Len(equity) = i
  BY <1>1 DEF CurveInv, EquityInv
<1> DEFINE price == Bars[i + 1].close
           worth == EquityAt(portfolio', price)
<1>4. portfolio' \in Portfolio
  BY <1>1, BarKeepsBooks DEF LedgerInv, CurveInv, IInv
<1>5. worth \in Int
  <2>1. portfolio'.cash \in Int /\ portfolio'.position.qty \in Int
    BY <1>4 DEF Portfolio, Position
  <2>2. price \in Int
    BY <1>2
  <2> HIDE DEF price
  <2>3. \A a, b, c \in Int : a + b * c \in Int
    OBVIOUS
  <2> QED BY <2>1, <2>2, <2>3 DEF EquityAt
<1>6. i = 0 => worth = PerSymbolCapital
  <2> SUFFICES ASSUME i = 0 PROVE worth = PerSymbolCapital
    OBVIOUS
  <2>1. portfolio' = FreshPortfolio
    BY <1>1 DEF CurveInv, EquityInv, FillAt
  <2>2. worth = PerSymbolCapital + 0 * price
    BY <2>1, FreshIs DEF EquityAt, FlatPosition
  <2>3. price \in Nat /\ PerSymbolCapital \in Nat
    BY <1>2, ConstantFacts
  <2> HIDE DEF price, worth
  <2> QED BY <2>2, <2>3
<1> HIDE DEF worth
<1>7. /\ equity' \in Seq(Int) /\ Len(equity') = i + 1
      /\ equity'[i + 1] = worth
      /\ i > 0 => equity'[1] = equity[1]
  BY <1>1, <1>2, <1>3, <1>5, AppendProperties DEF worth
<1>8. EquityInv'
  <2>1. equity'[1] = PerSymbolCapital
    <3>1. CASE i = 0
      BY <1>6, <1>7, <3>1
    <3>2. CASE i # 0
      BY <1>1, <1>2, <1>7, <3>2 DEF CurveInv, EquityInv
    <3> QED BY <3>1, <3>2
  <2>2. i + 1 # 0
    BY <1>2
  <2> QED BY <1>1, <1>3, <1>7, <2>1, <2>2 DEF EquityInv
<1>9. ResultsInv'
  BY <1>1 DEF CurveInv, ResultsInv, Reported
<1> QED BY <1>8, <1>9

LEMMA FinishKeepsCurve ==
    ASSUME CurveInv, FinishSymbol
    PROVE  EquityInv' /\ ResultsInv'
<1> DEFINE s == Symbols[current]
           r == [symbol |-> s, trades |-> trades, equity |-> equity]
<1>1. /\ phase = "loop" /\ i = Len(Bars) /\ results' = Append(results, r)
      /\ candles' = candles
      /\ \/ current < Len(Symbols) /\ current' = current + 1 /\ phase' = "load"
         \/ current = Len(Symbols) /\ phase' = "persisted"
  BY DEF FinishSymbol
<1>2. LoopInv /\ LedgerInv /\ EquityInv /\ ResultsInv
  BY DEF CurveInv, IInv
<1>3. current \in 1..Len(Symbols) /\ Len(Symbols) \in Nat /\ s \in SymbolSet /\ Bars = candles[s]
  BY <1>2, ConstantFacts DEF LoopInv, Bars
<1>4. /\ equity \in Seq(Int) /\ trades \in Seq(Trade) /\ Len(equity) = Len(Bars)
      /\ Len(Bars) > 0 /\ equity[1] = PerSymbolCapital
  BY <1>1, <1>2 DEF EquityInv, LedgerInv
<1> HIDE DEF s
<1>5. r \in Result /\ r.symbol = s /\ r.equity = equity
  BY <1>3, <1>4 DEF Result
<1> HIDE DEF r
<1>6. Reported(r, s)
  BY <1>3, <1>4, <1>5 DEF Reported
<1>7. results \in Seq(Result) /\ Len(results) = current - 1
      /\ \A k \in DOMAIN results : Reported(results[k], Symbols[k])
  BY <1>1, <1>2 DEF ResultsInv
<1>8. /\ results' \in Seq(Result) /\ Len(results') = current
      /\ DOMAIN results = 1..(current - 1) /\ DOMAIN results' = 1..current
      /\ results'[current] = r
      /\ \A k \in 1..(current - 1) : results'[k] = results[k]
  <2>1. Len(results) + 1 = current
    BY <1>3, <1>7
  <2> QED BY <1>1, <1>5, <1>7, <2>1, AppendProperties, LenProperties
<1>9. \A k \in DOMAIN results' : Reported(results'[k], Symbols[k])
  <2> SUFFICES ASSUME NEW k \in 1..current PROVE Reported(results'[k], Symbols[k])
    BY <1>8
  <2>1. CASE k = current
    BY <1>6, <1>8, <2>1 DEF s
  <2>2. CASE k # current
    <3>1. k \in 1..(current - 1)
      BY <1>3, <2>2
    <3> QED BY <1>7, <1>8, <3>1
  <2> QED BY <2>1, <2>2
<1>10. (\A k \in DOMAIN results : Reported(results[k], Symbols[k]))'
  BY <1>1, <1>9 DEF Reported
<1>11. ResultsInv'
  <2>1. phase' \in {"load", "loop"} => Len(results') = current' - 1
    BY <1>1, <1>3, <1>8
  <2>2. phase' = "persisted" => Len(results') = Len(Symbols)
    BY <1>1, <1>8
  <2> QED BY <1>8, <1>10, <2>1, <2>2 DEF ResultsInv
<1> QED BY <1>1, <1>11 DEF EquityInv

LEMMA CurveStep == ASSUME CurveInv, [Next]_vars PROVE CurveInv'
<1>0. IInv'
  BY StepSound DEF CurveInv
<1>1. CASE LoadSymbol
  <2>1. /\ phase = "load" /\ phase' = "loop" /\ i' = 0 /\ equity' = <<>> /\ pending' = None
        /\ portfolio' = FreshPortfolio /\ Bars # <<>>
        /\ UNCHANGED <<strategy, candles, current, results>>
    BY <1>1 DEF LoadSymbol, Fresh
  <2>2. Len(Bars) > 0 /\ Bars' = Bars
    <3>1. Bars \in Seq(Candle)
      BY BarsAre DEF CurveInv, IInv
    <3>2. Len(Bars) \in Nat /\ Len(Bars) # 0
      BY <2>1, <3>1, EmptySeq, LenProperties
    <3> QED BY <2>1, <3>2 DEF Bars
  <2>3. EquityInv'
    BY <2>1, <2>2 DEF EquityInv, FreshPortfolio
  <2>4. ResultsInv'
    BY <2>1 DEF CurveInv, ResultsInv, Reported
  <2> QED BY <1>0, <2>3, <2>4 DEF CurveInv
<1>2. CASE NoData
  <2>1. phase' = "failed" /\ UNCHANGED <<results, candles>>
    BY <1>2 DEF NoData
  <2> QED BY <1>0, <2>1 DEF CurveInv, EquityInv, ResultsInv, Reported
<1>3. CASE \E choice \in MaySignal(strategy) : Bar(choice)
  BY <1>0, <1>3, BarKeepsCurve DEF CurveInv
<1>4. CASE FinishSymbol
  BY <1>0, <1>4, FinishKeepsCurve DEF CurveInv
<1>5. CASE UNCHANGED vars
  <2>1. EquityInv' /\ ResultsInv'
    BY <1>5 DEF vars, loop, CurveInv, EquityInv, ResultsInv, Reported, Bars
  <2> QED BY <1>0, <2>1 DEF CurveInv
<1> QED BY <1>1, <1>2, <1>3, <1>4, <1>5 DEF Next

-----------------------------------------------------------------------------
(***************************************************************************)
(* The aggregate: at every time a sum over the results, like the sums over *)
(* tables.                                                                 *)
(***************************************************************************)
ValuesAt(rs, t) == [k \in DOMAIN rs |-> ValueAt(rs[k], t)]
LastValues(rs) == [k \in DOMAIN rs |-> Last(rs[k].equity)]

LEMMA SumOfValues ==
    ASSUME NEW rs, IsFiniteSet(DOMAIN rs), NEW t
    PROVE  FoldFunction(LAMBDA r, sum : ValueAt(r, t) + sum, 0, rs) =
              SumFunctionOnSet(ValuesAt(rs, t), DOMAIN rs)
<1> DEFINE f == ValuesAt(rs, t)
           S == DOMAIN rs
           Solves(g) == g = [s \in SUBSET S |->
                               IF s = {} THEN 0
                               ELSE ValueAt(rs[Chosen(s)], t) + g[s \ {Chosen(s)}]]
           mine == CHOOSE g : Solves(g)
           theirs == CHOOSE g : Unfolds(f, SUBSET S, g)
<1>1. FoldFunction(LAMBDA r, sum : ValueAt(r, t) + sum, 0, rs) = mine[S]
  BY DEF FoldFunction, FoldFunctionOnSet, MapThenFoldSet, Chosen
<1>2. SumFunctionOnSet(f, S) = theirs[S]
  BY SumDef
<1>3. \A s \in SUBSET S : s # {} => f[Chosen(s)] = ValueAt(rs[Chosen(s)], t)
  BY ChosenIn DEF ValuesAt
<1>4. \A g : Solves(g) <=> Unfolds(f, SUBSET S, g)
  BY <1>3 DEF Unfolds
<1>5. Unfolds(f, SUBSET S, theirs)
  BY UnfoldsAll
<1> HIDE DEF f, Solves
<1>6. Solves(mine)
  BY <1>4, <1>5
<1>7. Unfolds(f, SUBSET S, mine)
  BY <1>4, <1>6
<1> HIDE DEF mine, theirs
<1>8. mine[S] = theirs[S]
  BY <1>5, <1>7, UnfoldsAgree
<1> QED BY <1>1, <1>2, <1>8 DEF f

LEMMA SumOfLasts ==
    ASSUME NEW rs, IsFiniteSet(DOMAIN rs)
    PROVE  FoldFunction(LAMBDA r, sum : Last(r.equity) + sum, 0, rs) =
              SumFunctionOnSet(LastValues(rs), DOMAIN rs)
<1> DEFINE f == LastValues(rs)
           S == DOMAIN rs
           Solves(g) == g = [s \in SUBSET S |->
                               IF s = {} THEN 0
                               ELSE Last(rs[Chosen(s)].equity) + g[s \ {Chosen(s)}]]
           mine == CHOOSE g : Solves(g)
           theirs == CHOOSE g : Unfolds(f, SUBSET S, g)
<1>1. FoldFunction(LAMBDA r, sum : Last(r.equity) + sum, 0, rs) = mine[S]
  BY DEF FoldFunction, FoldFunctionOnSet, MapThenFoldSet, Chosen
<1>2. SumFunctionOnSet(f, S) = theirs[S]
  BY SumDef
<1>3. \A s \in SUBSET S : s # {} => f[Chosen(s)] = Last(rs[Chosen(s)].equity)
  BY ChosenIn DEF LastValues
<1>4. \A g : Solves(g) <=> Unfolds(f, SUBSET S, g)
  BY <1>3 DEF Unfolds
<1>5. Unfolds(f, SUBSET S, theirs)
  BY UnfoldsAll
<1> HIDE DEF f, Solves
<1>6. Solves(mine)
  BY <1>4, <1>5
<1>7. Unfolds(f, SUBSET S, mine)
  BY <1>4, <1>6
<1> HIDE DEF mine, theirs
<1>8. mine[S] = theirs[S]
  BY <1>5, <1>7, UnfoldsAgree
<1> QED BY <1>1, <1>2, <1>8 DEF f

(* The sum of a constant. *)
LEMMA SumConstant ==
    ASSUME NEW c \in Int, NEW n \in Nat, NEW f, \A k \in 1..n : f[k] = c
    PROVE  SumFunctionOnSet(f, 1..n) = c * n
<1> DEFINE Bad == {m \in 0..n : SumFunctionOnSet(f, 1..m) # c * m}
<1> SUFFICES ASSUME Bad # {} PROVE FALSE
  <2>1. n \in 0..n
    OBVIOUS
  <2> QED BY <2>1
<1>1. PICK m \in Bad : \A j \in Bad : m <= j
  <2>1. Bad \subseteq Nat
    OBVIOUS
  <2> HIDE DEF Bad
  <2> QED BY <2>1, LeastElement
<1>2. m # 0
  <2>1. 1..0 = {} /\ c * 0 = 0
    OBVIOUS
  <2> QED BY <1>1, <2>1, SumEmpty
<1>3. m \in 1..n /\ m - 1 \in 0..n /\ m - 1 < m /\ m \notin 1..(m - 1)
      /\ 1..m = (1..(m - 1)) \cup {m}
  BY <1>1, <1>2
<1>4. SumFunctionOnSet(f, 1..(m - 1)) = c * (m - 1)
  BY <1>1, <1>3
<1>5. SumFunctionOnSet(f, 1..m) = SumFunctionOnSet(f, 1..(m - 1)) + f[m]
  <2> DEFINE S == 1..(m - 1)
  <2>1. IsFiniteSet(S)
    BY <1>3, PlacesAreFinite
  <2>2. f[m] \in Int /\ \A y \in S : f[y] \in Int
    BY <1>3
  <2>3. m \notin S /\ 1..m = S \cup {m}
    BY <1>3
  <2> HIDE DEF S
  <2>4. SumFunctionOnSet(f, S \cup {m}) = SumFunctionOnSet(f, S) + f[m]
    BY <2>1, <2>2, <2>3, SumAdd
  <2> QED BY <2>3, <2>4 DEF S
<1>6. c * m = c * (m - 1) + c
  BY <1>3
<1> QED BY <1>1, <1>3, <1>4, <1>5, <1>6

(* The largest of finitely many numbers. *)
LEMMA LargestOf ==
    ASSUME NEW n \in Nat \ {0}, NEW f, \A k \in 1..n : f[k] \in Int
    PROVE  \E k \in 1..n : \A j \in 1..n : f[j] <= f[k]
<1> DEFINE Bad == {m \in 1..n : ~ \E k \in 1..m : \A j \in 1..m : f[j] <= f[k]}
<1> SUFFICES ASSUME Bad # {} PROVE FALSE
  <2>1. n \in 1..n
    OBVIOUS
  <2> QED BY <2>1
<1>1. PICK m \in Bad : \A j \in Bad : m <= j
  <2>1. Bad \subseteq Nat
    OBVIOUS
  <2> HIDE DEF Bad
  <2> QED BY <2>1, LeastElement
<1>2. m # 1
  BY <1>1
<1>3. m \in 1..n /\ m - 1 \in 1..n /\ m - 1 < m
  BY <1>1, <1>2
<1>4. m - 1 \notin Bad
  <2>1. ~(m <= m - 1)
    BY <1>3
  <2> HIDE DEF Bad
  <2> QED BY <1>1, <2>1
<1>5. m - 1 \in 1..n
  BY <1>3
<1>6. PICK k \in 1..(m - 1) : \A j \in 1..(m - 1) : f[j] <= f[k]
  <2>1. 1..(m - 1) \subseteq 1..n
    BY <1>3
  <2> QED BY <1>4, <1>5
<1>7. k \in 1..m /\ m \in 1..m /\ f[k] \in Int /\ f[m] \in Int
      /\ \A j \in 1..m : f[j] \in Int /\ (j \in 1..(m - 1) \/ j = m)
  BY <1>3
<1> DEFINE top == IF f[m] <= f[k] THEN k ELSE m
<1>8. \A j \in 1..m : f[j] <= f[top]
  <2> TAKE j \in 1..m
  <2>1. f[k] <= f[top] /\ f[m] <= f[top]
    <3>1. f[k] <= f[k] /\ f[m] <= f[m] /\ (f[m] <= f[k] \/ f[k] <= f[m])
      BY <1>7
    <3> QED BY <3>1
  <2>2. f[j] \in Int /\ f[k] \in Int /\ f[top] \in Int
    BY <1>7
  <2>3. f[j] <= f[k] \/ j = m
    BY <1>6, <1>7
  <2>4. \A x, y, z \in Int : x <= y /\ y <= z => x <= z
    OBVIOUS
  <2> HIDE DEF top
  <2> QED BY <2>1, <2>2, <2>3, <2>4
<1>9. top \in 1..m
  BY <1>7
<1> QED BY <1>1, <1>8, <1>9


-----------------------------------------------------------------------------
(***************************************************************************)
(* The first and the last time of the portfolio's curve.                   *)
(***************************************************************************)
LEMMA LeastIs ==
    ASSUME NEW S, NEW a \in S, S \subseteq Int, \A y \in S : a <= y
    PROVE  Min(S) = a
<1>1. a \in S /\ (\A y \in S : a =< y)
  OBVIOUS
<1>2. Min(S) \in S /\ \A y \in S : Min(S) =< y
  BY <1>1 DEF Min
<1>3. a \in Int /\ Min(S) \in Int /\ a <= Min(S) /\ Min(S) <= a
  BY <1>1, <1>2
<1> QED BY <1>3

LEMMA GreatestIs ==
    ASSUME NEW S, NEW a \in S, S \subseteq Int, \A y \in S : y <= a
    PROVE  Max(S) = a
<1>1. a \in S /\ (\A y \in S : a >= y)
  OBVIOUS
<1>2. Max(S) \in S /\ \A y \in S : Max(S) >= y
  BY <1>1 DEF Max
<1>3. a \in Int /\ Max(S) \in Int /\ a <= Max(S) /\ Max(S) <= a
  BY <1>1, <1>2
<1> QED BY <1>3

LEMMA SeriesAre ==
    ASSUME LoopInv, NEW s \in SymbolSet
    PROVE  /\ candles[s] \in Seq(Candle) /\ Increasing(candles[s])
           /\ Len(candles[s]) \in Nat /\ DOMAIN candles[s] = 1..Len(candles[s])
           /\ \A j \in 1..Len(candles[s]) : candles[s][j].ts \in Nat
<1>1. candles[s] \in Seq(Candle) /\ Increasing(candles[s])
  BY BacktestAssumption DEF LoopInv
<1>2. \A j \in 1..Len(candles[s]) : candles[s][j] \in Candle
  BY <1>1
<1>3. \A c \in Candle : c.ts \in Nat
  BY DEF Candle
<1> QED BY <1>1, <1>2, <1>3

\* What a result counts for before all the bars but the first, and after all.
LEMMA ValueAtFirst ==
    ASSUME NEW r, NEW t \in Int, NEW n \in Nat \ {0},
           DOMAIN candles[r.symbol] = 1..n, Increasing(candles[r.symbol]),
           \A j \in 1..n : candles[r.symbol][j].ts \in Nat /\ t <= candles[r.symbol][j].ts
    PROVE  ValueAt(r, t) = r.equity[1]
<1> DEFINE bars == candles[r.symbol]
           upTo == {k \in DOMAIN bars : bars[k].ts <= t}
<1>1. upTo \subseteq {1}
  <2> SUFFICES ASSUME NEW k \in upTo, k # 1 PROVE FALSE
    OBVIOUS
  <2>1. k \in 1..n /\ bars[k].ts <= t /\ 1 \in 1..n /\ 1 < k
    OBVIOUS
  <2>2. bars[1].ts < bars[k].ts
    BY <2>1 DEF Increasing
  <2>3. bars[1].ts \in Nat /\ bars[k].ts \in Nat /\ t <= bars[1].ts
    BY <2>1
  <2> HIDE DEF bars
  <2> QED BY <2>1, <2>2, <2>3
<1>2. upTo # {} => Max(upTo) = 1
  <2> SUFFICES ASSUME upTo # {} PROVE Max(upTo) = 1
    OBVIOUS
  <2>1. 1 \in upTo /\ upTo \subseteq Int /\ \A y \in upTo : y <= 1
    BY <1>1
  <2> HIDE DEF upTo
  <2> QED BY <2>1, GreatestIs
<1>3. ValueAt(r, t) = IF upTo = {} THEN r.equity[1] ELSE r.equity[Max(upTo)]
  BY DEF ValueAt
<1> HIDE DEF upTo
<1> QED BY <1>2, <1>3

LEMMA ValueAtLast ==
    ASSUME NEW r, NEW t \in Int, NEW n \in Nat \ {0},
           DOMAIN candles[r.symbol] = 1..n,
           \A j \in 1..n : candles[r.symbol][j].ts <= t
    PROVE  ValueAt(r, t) = r.equity[n]
<1> DEFINE bars == candles[r.symbol]
           upTo == {k \in DOMAIN bars : bars[k].ts <= t}
<1>1. upTo = 1..n
  OBVIOUS
<1>2. Max(1..n) = n
  <2>1. n \in 1..n /\ 1..n \subseteq Int /\ \A y \in 1..n : y <= n
    OBVIOUS
  <2> QED BY <2>1, GreatestIs
<1>3. ValueAt(r, t) = IF upTo = {} THEN r.equity[1] ELSE r.equity[Max(upTo)]
  BY DEF ValueAt
<1>4. 1..n # {}
  OBVIOUS
<1> HIDE DEF upTo
<1> QED BY <1>1, <1>2, <1>3, <1>4

LEMMA BarsIncrease ==
    ASSUME NEW s \in SymbolSet, LoopInv, NEW j \in 1..Len(candles[s])
    PROVE  candles[s][j].ts <= candles[s][Len(candles[s])].ts
<1> DEFINE n == Len(candles[s])
<1>1. /\ n \in Nat /\ DOMAIN candles[s] = 1..n /\ j \in 1..n /\ Increasing(candles[s])
      /\ \A k \in 1..n : candles[s][k].ts \in Nat
  BY SeriesAre
<1> HIDE DEF n
<1>2. n \in 1..n /\ (j = n \/ j < n)
  BY <1>1
<1>3. CASE j = n
  BY <1>1, <1>3 DEF n
<1>4. CASE j < n
  <2>1. candles[s][j].ts < candles[s][n].ts
    BY <1>1, <1>2, <1>4 DEF Increasing
  <2> QED BY <1>1, <1>2, <2>1 DEF n
<1> QED BY <1>2, <1>3, <1>4


-----------------------------------------------------------------------------
(***************************************************************************)
(* The portfolio's curve when all the symbols are done.                    *)
(***************************************************************************)
CurveTimes == UNION {Times(s) : s \in SymbolSet}

LEMMA TimesAre ==
    ASSUME LoopInv
    PROVE  /\ CurveTimes \subseteq Nat
           /\ \A s \in SymbolSet : \A j \in 1..Len(candles[s]) : candles[s][j].ts \in CurveTimes
           /\ \A t \in CurveTimes : \E s \in SymbolSet : \E j \in 1..Len(candles[s]) :
                 t = candles[s][j].ts
<1>1. \A s \in SymbolSet : Times(s) = {candles[s][j].ts : j \in 1..Len(candles[s])}
  BY SeriesAre DEF Times
<1>2. \A s \in SymbolSet : \A j \in 1..Len(candles[s]) : candles[s][j].ts \in Nat
  BY SeriesAre
<1> QED BY <1>1, <1>2 DEF CurveTimes

LEMMA SymbolsAre ==
    ASSUME CurveInv, phase = "persisted"
    PROVE  /\ Len(Symbols) \in Nat \ {0} /\ DOMAIN results = 1..Len(Symbols)
           /\ \A k \in 1..Len(Symbols) :
                 /\ Symbols[k] \in SymbolSet /\ Reported(results[k], Symbols[k])
                 /\ results[k].equity \in Seq(Int)
           /\ \A s \in SymbolSet : \E k \in 1..Len(Symbols) : s = Symbols[k]
<1>1. /\ results \in Seq(Result) /\ Len(results) = Len(Symbols)
      /\ \A k \in DOMAIN results : Reported(results[k], Symbols[k])
  BY DEF CurveInv, ResultsInv
<1>2. /\ Len(Symbols) \in Nat \ {0} /\ DOMAIN Symbols = 1..Len(Symbols)
  <2>1. Symbols # <<>> /\ Symbols \in Seq(SymbolSet)
    BY BacktestAssumption
  <2> QED BY <2>1, EmptySeq, LenProperties
<1>3. DOMAIN results = 1..Len(Symbols)
  BY <1>1, LenProperties
<1>4. \A k \in 1..Len(Symbols) : results[k] \in Result
  BY <1>1, <1>3
<1>5. \A r \in Result : r.equity \in Seq(Int)
  BY DEF Result
<1> QED BY <1>1, <1>2, <1>3, <1>4, <1>5 DEF SymbolSet

LEMMA CurveIsSum ==
    ASSUME CurveInv, phase = "persisted", NEW t \in CurveTimes
    PROVE  AggregateEquity[t] = SumFunctionOnSet(ValuesAt(results, t), 1..Len(Symbols))
<1>1. DOMAIN results = 1..Len(Symbols) /\ Len(Symbols) \in Nat
  BY SymbolsAre
<1>2. IsFiniteSet(DOMAIN results)
  BY <1>1, PlacesAreFinite
<1>3. AggregateEquity[t] = FoldFunction(LAMBDA r, sum : ValueAt(r, t) + sum, 0, results)
  BY DEF AggregateEquity, CurveTimes
<1> QED BY <1>1, <1>2, <1>3, SumOfValues

LEMMA CurveStarts ==
    ASSUME CurveInv, phase = "persisted"
    PROVE  AggregateEquity[Min(CurveTimes)] = PerSymbolCapital * Len(Symbols)
<1>1. LoopInv
  BY DEF CurveInv, IInv
<1>2. PICK t \in CurveTimes : \A y \in CurveTimes : t <= y
  <2>1. CurveTimes \subseteq Nat
    BY <1>1, TimesAre
  <2>2. 1 \in 1..Len(Symbols)
    BY SymbolsAre
  <2>3. Symbols[1] \in SymbolSet /\ Len(candles[Symbols[1]]) > 0
    BY <2>2, SymbolsAre DEF Reported
  <2>4. 1 \in 1..Len(candles[Symbols[1]])
    BY <1>1, <2>3, SeriesAre
  <2>5. CurveTimes # {}
    BY <1>1, <2>3, <2>4, TimesAre
  <2> QED BY <2>1, <2>5, LeastElement
<1>3. CurveTimes \subseteq Nat /\ t \in Nat
  BY <1>1, <1>2, TimesAre
<1>4. Min(CurveTimes) = t
  <2>1. CurveTimes \subseteq Int
    BY <1>3
  <2> QED BY <1>2, <2>1, LeastIs
<1>5. \A k \in 1..Len(Symbols) : ValuesAt(results, t)[k] = PerSymbolCapital
  <2> SUFFICES ASSUME NEW k \in 1..Len(Symbols)
               PROVE  ValuesAt(results, t)[k] = PerSymbolCapital
    OBVIOUS
  <2> DEFINE r == results[k]
             n == Len(candles[r.symbol])
  <2>1. Symbols[k] \in SymbolSet /\ Reported(r, Symbols[k]) /\ k \in DOMAIN results
    BY SymbolsAre
  <2>2. /\ r.symbol \in SymbolSet /\ n > 0 /\ r.equity[1] = PerSymbolCapital
    BY <2>1 DEF Reported
  <2> HIDE DEF r
  <2>3. /\ n \in Nat \ {0} /\ DOMAIN candles[r.symbol] = 1..n /\ Increasing(candles[r.symbol])
        /\ \A j \in 1..n : candles[r.symbol][j].ts \in Nat
    BY <1>1, <2>2, SeriesAre
  <2>4. \A j \in 1..n : candles[r.symbol][j].ts \in CurveTimes
    BY <1>1, <2>2, TimesAre
  <2>5. \A j \in 1..n : candles[r.symbol][j].ts \in Nat /\ t <= candles[r.symbol][j].ts
    BY <1>2, <2>3, <2>4
  <2>6. t \in Int
    BY <1>3
  <2> HIDE DEF n
  <2>7. ValueAt(r, t) = r.equity[1]
    BY <2>3, <2>5, <2>6, ValueAtFirst
  <2>8. ValuesAt(results, t)[k] = ValueAt(r, t)
    BY <2>1 DEF ValuesAt, r
  <2> QED BY <2>2, <2>7, <2>8
<1>6. PerSymbolCapital \in Int /\ Len(Symbols) \in Nat
  BY SymbolsAre, ConstantFacts
<1>7. SumFunctionOnSet(ValuesAt(results, t), 1..Len(Symbols)) = PerSymbolCapital * Len(Symbols)
  <2> DEFINE f == ValuesAt(results, t)
  <2>1. \A k \in 1..Len(Symbols) : f[k] = PerSymbolCapital
    BY <1>5
  <2> HIDE DEF f
  <2> QED BY <1>6, <2>1, SumConstant DEF f
<1> QED BY <1>2, <1>4, <1>7, CurveIsSum

LEMMA CurveEnds ==
    ASSUME CurveInv, phase = "persisted"
    PROVE  AggregateEquity[Max(CurveTimes)] =
              FoldFunction(LAMBDA r, sum : Last(r.equity) + sum, 0, results)
<1>1. LoopInv
  BY DEF CurveInv, IInv
<1> DEFINE N == Len(Symbols)
           ends == [k \in 1..N |-> candles[Symbols[k]][Len(candles[Symbols[k]])].ts]
<1>2. N \in Nat \ {0} /\ DOMAIN results = 1..N
  BY SymbolsAre
<1>3. \A k \in 1..N : /\ Symbols[k] \in SymbolSet
                      /\ Len(candles[Symbols[k]]) \in 1..Len(candles[Symbols[k]])
  <2> SUFFICES ASSUME NEW k \in 1..N
               PROVE  /\ Symbols[k] \in SymbolSet
                      /\ Len(candles[Symbols[k]]) \in 1..Len(candles[Symbols[k]])
    OBVIOUS
  <2>1. Symbols[k] \in SymbolSet /\ Len(candles[Symbols[k]]) > 0
    BY SymbolsAre DEF Reported
  <2>2. Len(candles[Symbols[k]]) \in Nat
    BY <1>1, <2>1, SeriesAre
  <2> QED BY <2>1, <2>2
<1>4. \A k \in 1..N : ends[k] \in CurveTimes
  BY <1>1, <1>3, TimesAre
<1>5. CurveTimes \subseteq Int
  BY <1>1, TimesAre
<1>6. \A k \in 1..N : \A j \in 1..Len(candles[Symbols[k]]) :
          candles[Symbols[k]][j].ts <= ends[k]
  BY <1>1, <1>3, BarsIncrease
<1>7. PICK top \in 1..N : \A k \in 1..N : ends[k] <= ends[top]
  <2>1. \A k \in 1..N : ends[k] \in Int
    BY <1>4, <1>5
  <2> HIDE DEF ends, N
  <2> QED BY <1>2, <2>1, LargestOf
<1> DEFINE t == ends[top]
<1>8. t \in CurveTimes /\ t \in Int
  BY <1>4, <1>5, <1>7
<1>9. \A k \in 1..N : \A j \in 1..Len(candles[Symbols[k]]) : candles[Symbols[k]][j].ts <= t
  <2> SUFFICES ASSUME NEW k \in 1..N, NEW j \in 1..Len(candles[Symbols[k]])
               PROVE  candles[Symbols[k]][j].ts <= t
    OBVIOUS
  <2> DEFINE x == candles[Symbols[k]][j].ts
  <2>1. x \in CurveTimes /\ x <= ends[k] /\ ends[k] <= t
    BY <1>1, <1>3, <1>6, <1>7, TimesAre
  <2>2. x \in Int /\ ends[k] \in Int /\ t \in Int
    BY <1>4, <1>5, <1>8, <2>1
  <2> HIDE DEF x, ends, t
  <2>3. x <= t
    BY <2>1, <2>2
  <2> QED BY <2>3 DEF x
<1> HIDE DEF t, ends
<1>10. Max(CurveTimes) = t
  <2>1. \A y \in CurveTimes : y <= t
    <3> SUFFICES ASSUME NEW y \in CurveTimes PROVE y <= t
      OBVIOUS
    <3>1. PICK s \in SymbolSet : \E j \in 1..Len(candles[s]) : y = candles[s][j].ts
      BY <1>1, TimesAre
    <3>2. PICK k \in 1..N : s = Symbols[k]
      BY SymbolsAre
    <3> QED BY <1>9, <3>1, <3>2
  <2> QED BY <1>5, <1>8, <2>1, GreatestIs
<1>11. \A k \in 1..N : ValuesAt(results, t)[k] = LastValues(results)[k]
  <2> SUFFICES ASSUME NEW k \in 1..N PROVE ValuesAt(results, t)[k] = LastValues(results)[k]
    OBVIOUS
  <2> DEFINE r == results[k]
             n == Len(candles[r.symbol])
  <2>1. /\ Symbols[k] \in SymbolSet /\ Reported(r, Symbols[k]) /\ r.equity \in Seq(Int)
        /\ k \in DOMAIN results
    BY SymbolsAre
  <2>2. r.symbol = Symbols[k] /\ r.symbol \in SymbolSet /\ Len(r.equity) = n /\ n > 0
    BY <2>1 DEF Reported
  <2> HIDE DEF r
  <2>3. n \in Nat \ {0} /\ DOMAIN candles[r.symbol] = 1..n
    BY <1>1, <2>2, SeriesAre
  <2>4. \A j \in 1..n : candles[r.symbol][j].ts <= t
    BY <1>9, <2>2
  <2>5. Len(r.equity) = n
    BY <2>2
  <2> HIDE DEF n
  <2>6. ValueAt(r, t) = r.equity[n]
    BY <1>8, <2>3, <2>4, ValueAtLast
  <2>7. Last(r.equity) = r.equity[n]
    BY <2>5 DEF Last
  <2> QED BY <2>1, <2>6, <2>7 DEF ValuesAt, LastValues, r
<1>12. IsFiniteSet(1..N)
  BY <1>2, PlacesAreFinite
<1>13. SumFunctionOnSet(ValuesAt(results, t), 1..N) = SumFunctionOnSet(LastValues(results), 1..N)
  <2> DEFINE f == ValuesAt(results, t)
             g == LastValues(results)
  <2>1. \A k \in 1..N : f[k] = g[k]
    BY <1>11
  <2> HIDE DEF f, g, N
  <2>2. SumFunctionOnSet(f, 1..N) = SumFunctionOnSet(g, 1..N)
    BY <1>12, <2>1, SumSame
  <2> QED BY <2>2 DEF f, g
<1>14. AggregateEquity[t] = SumFunctionOnSet(ValuesAt(results, t), 1..N)
  BY <1>8, CurveIsSum
<1>15. FoldFunction(LAMBDA r, sum : Last(r.equity) + sum, 0, results) =
          SumFunctionOnSet(LastValues(results), 1..N)
  BY <1>2, <1>12, SumOfLasts
<1> QED BY <1>10, <1>13, <1>14, <1>15

(***************************************************************************)
(* The curve the metrics are computed from starts at the capital put in    *)
(* and ends at what the symbols are worth (_aggregate_equity), for every   *)
(* number of symbols, every series and whatever the strategy signals.      *)
(***************************************************************************)
THEOREM CurveCorrect == Spec => []CurveFromCapitalToWorth
<1>1. Init => CurveInv
  BY CurveAtFirst
<1>2. CurveInv /\ [Next]_vars => CurveInv'
  BY CurveStep
<1>3. CurveInv => CurveFromCapitalToWorth
  <2>1. DOMAIN AggregateEquity = CurveTimes
    BY DEF AggregateEquity, CurveTimes
  <2> QED BY <2>1, CurveStarts, CurveEnds DEF CurveFromCapitalToWorth
<1> QED BY <1>1, <1>2, <1>3, PTL DEF Spec
=============================================================================
