------------------------- MODULE PaperTradingProofs -------------------------
(***************************************************************************)
(* Proofs about PaperTrading, for any instruments, prices, rates, limits   *)
(* and bounds its assumptions admit.                                       *)
(***************************************************************************)
EXTENDS PaperTrading, LedgerProofs

-----------------------------------------------------------------------------
(***************************************************************************)
(* What every transaction assumes of the database and re-establishes.      *)
(***************************************************************************)
OrdersMatch(d) == \A i \in Instruments : d.pos[i].qty = FilledFor(d.orders, i)

DbInv(d) ==
    /\ d \in Database
    /\ d.cash >= 0
    /\ LedgerMatches(d)
    /\ Balanced(d)
    /\ OrdersMatch(d)
    /\ \A o \in DOMAIN d.orders : OrderSound(d.orders[o])

(* What the rows of the order table have in common with any other. *)
LEMMA OrderFills == \A r \in Order : r.filled \in Nat
  BY DEF Order

(* What one order's progress does to what is filled. *)
LEMMA OrderProgress ==
    ASSUME NEW s \in Seq(Order), NEW o \in DOMAIN s, NEW row \in Order,
           row.inst = s[o].inst, row.side = s[o].side, NEW i
    PROVE  FilledFor([s EXCEPT ![o] = row], i) =
             FilledFor(s, i)
               + (IF i = s[o].inst THEN Signed(row.side, row.filled - s[o].filled) ELSE 0)
  BY FilledUpdated, OrderFills

(* The sum of a column of which one row changes. *)
LEMMA ColumnChange ==
    ASSUME NEW S, IsFiniteSet(S), NEW i \in S, NEW b \in [S -> Int], NEW c \in [S -> Int],
           \A k \in S \ {i} : b[k] = c[k]
    PROVE  /\ SumFunctionOnSet(b, S) \in Int
           /\ SumFunctionOnSet(c, S) = SumFunctionOnSet(b, S) + (c[i] - b[i])
<1>1. /\ \A k \in S : b[k] \in Int /\ c[k] \in Int
      /\ \A k \in S : b[k] \in Int
  OBVIOUS
<1> QED
  BY <1>1, SumType, SumChange

(***************************************************************************)
(* One position row that changes by as much as the cash does leaves the    *)
(* books balanced, whatever the other rows are.                            *)
(***************************************************************************)
LEMMA FillBalances ==
    ASSUME NEW d, d.pos \in [Instruments -> Position], d.cash \in Int, Balanced(d),
           NEW i \in Instruments, NEW row \in Position, NEW paid \in Int,
           row.realized - row.basis = d.pos[i].realized - d.pos[i].basis - paid,
           NEW e, e.cash = d.cash - paid, e.pos = [d.pos EXCEPT ![i] = row]
    PROVE  Balanced(e)
<1> DEFINE b == Column(d, "basis")     c == Column(e, "basis")
           r == Column(d, "realized")  q == Column(e, "realized")
           Sum(f) == SumFunctionOnSet(f, Instruments)
<1>1. /\ b \in [Instruments -> Int] /\ r \in [Instruments -> Int]
      /\ c \in [Instruments -> Int] /\ q \in [Instruments -> Int]
  <2>1. \A k \in Instruments : d.pos[k] \in Position /\ e.pos[k] \in Position
    OBVIOUS
  <2> QED
    BY <2>1 DEF Column, Position
<1>2. /\ \A k \in Instruments \ {i} : b[k] = c[k]
      /\ \A k \in Instruments \ {i} : r[k] = q[k]
  BY DEF Column
<1>3. q[i] - c[i] = r[i] - b[i] - paid
  BY DEF Column
<1>4. /\ d.cash + Sum(b) = InitialCash + Sum(r)
      /\ Balanced(e) <=> e.cash + Sum(c) = InitialCash + Sum(q)
  BY <1>1 DEF Balanced, SumFunction
<1>5. IsFiniteSet(Instruments) /\ InitialCash \in Int
  BY PaperAssumption
<1> HIDE DEF b, c, r, q
<1>6. Sum(b) \in Int /\ Sum(c) = Sum(b) + (c[i] - b[i])
  BY <1>1, <1>2, <1>5, ColumnChange
<1>7. Sum(r) \in Int /\ Sum(q) = Sum(r) + (q[i] - r[i])
  BY <1>1, <1>2, <1>5, ColumnChange
<1> HIDE DEF Sum
<1>8. b[i] \in Int /\ c[i] \in Int /\ r[i] \in Int /\ q[i] \in Int
  BY <1>1
<1>9. e.cash + Sum(c) = InitialCash + Sum(q)
  BY <1>3, <1>4, <1>5, <1>6, <1>7, <1>8
<1> QED
  BY <1>4, <1>9

(* The fields a fill writes, one by one. *)
LEMMA ExecuteFillFields ==
    ASSUME NEW d \in Database, NEW o, NEW qty, NEW price
    PROVE  LET ord == d.orders[o]
               net == NetAmount(ord.side, price, qty)
               e   == ExecuteFill(d, o, qty, price)
           IN  /\ e.cash = d.cash - Signed(ord.side, net)
               /\ e.pos = [d.pos EXCEPT ![ord.inst] =
                             ApplyFill(d.pos[ord.inst], ord.side, qty, net)]
               /\ e.orders = [d.orders EXCEPT ![o] = Progressed(ord, qty)]
               /\ e.trades = AddTrade(d.trades, ord.inst, ord.side, qty, net)
               /\ e.dayPnl = d.dayPnl + Realizes(d.pos[ord.inst], ord.side, qty, net)
               /\ e.kill = d.kill
               /\ (/\ e.cash \in Int /\ e.pos \in [Instruments -> Position]
                   /\ e.orders \in Seq(Order) /\ e.trades \in Trades
                   /\ e.dayPnl \in Int /\ e.kill \in KillSwitchRow)
                  => e \in Database
<1> DEFINE ord == d.orders[o]
           net == NetAmount(ord.side, price, qty)
           n == [d.pos EXCEPT ![ord.inst] = ApplyFill(d.pos[ord.inst], ord.side, qty, net)]
           t == AddTrade(d.trades, ord.inst, ord.side, qty, net)
           c == d.cash - Signed(ord.side, net)
           y == d.dayPnl + Realizes(d.pos[ord.inst], ord.side, qty, net)
           r == [d.orders EXCEPT ![o] = Progressed(ord, qty)]
           e == [d EXCEPT !.trades = t, !.pos = n, !.cash = c, !.dayPnl = y, !.orders = r]
<1>1. ExecuteFill(d, o, qty, price) = e
  <2> DEFINE new == ApplyFill(d.pos[ord.inst], ord.side, qty, net)
             row == Progressed(ord, qty)
             i == ord.inst
  <2>1. ExecuteFill(d, o, qty, price) =
          [d EXCEPT !.trades = t, !.pos[i] = new, !.cash = c, !.dayPnl = y, !.orders[o] = row]
    BY DEF ExecuteFill
  <2> HIDE DEF t, new, c, y, row, i
  <2>2. [d EXCEPT !.trades = t, !.pos[i] = new, !.cash = c, !.dayPnl = y, !.orders[o] = row]
          = [d EXCEPT !.trades = t, !.pos = [d.pos EXCEPT ![i] = new], !.cash = c,
                      !.dayPnl = y, !.orders = [d.orders EXCEPT ![o] = row]]
    BY DEF Database
  <2>3. n = [d.pos EXCEPT ![i] = new] /\ r = [d.orders EXCEPT ![o] = row]
    BY DEF i, new, row
  <2> QED
    BY <2>1, <2>2, <2>3
<1> HIDE DEF t, n, c, y, r
<1>2. /\ e.cash = c /\ e.pos = n /\ e.orders = r /\ e.trades = t
      /\ e.dayPnl = y /\ e.kill = d.kill
  BY DEF Database
<1>3. (/\ c \in Int /\ n \in [Instruments -> Position] /\ r \in Seq(Order)
       /\ t \in Trades /\ y \in Int /\ d.kill \in KillSwitchRow) => e \in Database
  BY DEF Database
<1> HIDE DEF e
<1> QED
  BY <1>1, <1>2, <1>3 DEF t, n, c, y, r

(***************************************************************************)
(* A fill of at most what is left of the order, paid for by the cash if it *)
(* is a purchase, keeps the database's invariant.                          *)
(***************************************************************************)
LEMMA ExecuteFillKeeps ==
    ASSUME NEW d, DbInv(d), NEW o \in DOMAIN d.orders,
           NEW qty \in Nat \ {0}, NEW price \in Nat,
           d.orders[o].filled + qty <= d.orders[o].qty,
           d.orders[o].side = "BUY" => NetAmount("BUY", price, qty) <= d.cash
    PROVE  DbInv(ExecuteFill(d, o, qty, price))
<1> DEFINE ord == d.orders[o]
           net == NetAmount(ord.side, price, qty)
           pos == d.pos[ord.inst]
           e == ExecuteFill(d, o, qty, price)
<1>1. d \in Database
  BY DEF DbInv
<1>2. /\ d.cash \in Int /\ d.dayPnl \in Int /\ d.kill \in KillSwitchRow
      /\ d.pos \in [Instruments -> Position] /\ d.trades \in Trades
      /\ d.orders \in Seq(Order)
  BY <1>1 DEF Database
<1>3. ord \in Order
  BY <1>2, ElementOfSeq
<1>4. /\ ord.inst \in Instruments /\ ord.side \in Side
      /\ ord.qty \in Nat \ {0} /\ ord.filled \in Nat
  BY <1>3 DEF Order
<1>5. net \in Nat
  BY <1>4, NetAmountType
<1>6. pos \in Position /\ CostSigned(pos)
  BY <1>2, <1>4 DEF DbInv, LedgerMatches
<1> DEFINE new == ApplyFill(pos, ord.side, qty, net)
<1>7. /\ new \in Position
      /\ CostSigned(new)
      /\ new.qty = pos.qty + Signed(ord.side, qty)
      /\ new.realized - new.basis = pos.realized - pos.basis - Signed(ord.side, net)
      /\ Realizes(pos, ord.side, qty, net) \in Int
  <2> HIDE DEF net, pos, ord
  <2> QED
    BY <1>4, <1>5, <1>6, ApplyFillBalances
<1>8. Signed(ord.side, net) \in Int /\ Signed(ord.side, qty) \in Int
  <2> HIDE DEF net, ord
  <2> QED
    BY <1>5 DEF Signed
<1> DEFINE row == Progressed(ord, qty)
<1>9. /\ e.cash = d.cash - Signed(ord.side, net)
      /\ e.pos = [d.pos EXCEPT ![ord.inst] = new]
      /\ e.orders = [d.orders EXCEPT ![o] = row]
      /\ e.trades = AddTrade(d.trades, ord.inst, ord.side, qty, net)
      /\ e.dayPnl = d.dayPnl + Realizes(pos, ord.side, qty, net)
      /\ e.kill = d.kill
      /\ (/\ e.cash \in Int /\ e.pos \in [Instruments -> Position]
          /\ e.orders \in Seq(Order) /\ e.trades \in Trades
          /\ e.dayPnl \in Int /\ e.kill \in KillSwitchRow)
         => e \in Database
  BY <1>1, ExecuteFillFields, Zenon
<1>10. row \in Order /\ OrderSound(row)
  <2> DEFINE st == IF ord.filled + qty >= ord.qty THEN "FILLED" ELSE "PARTIALLY_FILLED"
  <2>1. st \in OrderState
    BY DEF OrderState
  <2>2. \A f \in Nat, s \in OrderState : [ord EXCEPT !.filled = f, !.state = s] \in Order
    <3> HIDE DEF ord
    <3> QED
      BY <1>3 DEF Order
  <2>3. row = [ord EXCEPT !.filled = ord.filled + qty, !.state = st]
    BY DEF Progressed
  <2>4. row \in Order
    <3>1. ord.filled + qty \in Nat
      BY <1>4
    <3> HIDE DEF st, ord, row
    <3> QED
      BY <2>1, <2>2, <2>3, <3>1
  <2>5. row.filled = ord.filled + qty /\ row.qty = ord.qty /\ row.state = st
    BY <2>3, <1>3 DEF Order
  <2>6. OrderSound(row)
    <3> HIDE DEF row
    <3> QED
      BY <2>5, <1>4 DEF OrderSound
  <2> QED
    BY <2>4, <2>6
<1> HIDE DEF e, row, new, net, pos
<1>12. e.orders \in Seq(Order) /\ DOMAIN e.orders = DOMAIN d.orders
  <2>1. o \in 1..Len(d.orders)
    BY <1>2, LenProperties
  <2> QED
    BY <2>1, <1>2, <1>10, <1>9, ExceptSeq, LenProperties
<1>13. \A p \in DOMAIN e.orders : OrderSound(e.orders[p])
  BY <1>2, <1>10, <1>9, <1>12 DEF DbInv
<1>14. d.trades.net \in Int /\ d.trades.qty \in [Instruments -> Int]
         /\ d.trades.flow \in [Instruments -> Int]
  BY <1>2 DEF Trades
<1>15. /\ e.trades.net = d.trades.net - Signed(ord.side, net)
       /\ e.trades.qty = [d.trades.qty EXCEPT ![ord.inst] =
                            d.trades.qty[ord.inst] + Signed(ord.side, qty)]
       /\ e.trades.flow = [d.trades.flow EXCEPT ![ord.inst] =
                            d.trades.flow[ord.inst] - Signed(ord.side, net)]
  BY <1>9 DEF AddTrade
<1>16. e.trades \in Trades
  <2>1. /\ e.trades.net \in Int
        /\ e.trades.qty \in [Instruments -> Int]
        /\ e.trades.flow \in [Instruments -> Int]
    BY <1>4, <1>8, <1>14, <1>15
  <2>2. e.trades = [net |-> e.trades.net, qty |-> e.trades.qty, flow |-> e.trades.flow]
    BY <1>9 DEF AddTrade
  <2> QED
    BY <2>1, <2>2 DEF Trades
<1>17. e.cash \in Int /\ e.dayPnl \in Int
  BY <1>2, <1>7, <1>8, <1>9
<1>18. e \in Database
  <2>1. e.pos \in [Instruments -> Position]
    BY <1>2, <1>7, <1>9
  <2> QED
    BY <2>1, <1>2, <1>9, <1>12, <1>16, <1>17
<1>19. e.cash >= 0
  <2>1. d.cash >= 0
    BY DEF DbInv
  <2>2. CASE ord.side = "BUY"
    BY <2>1, <2>2, <1>2, <1>5, <1>9 DEF Signed, net
  <2>3. CASE ord.side = "SELL"
    BY <2>1, <2>3, <1>2, <1>5, <1>9 DEF Signed
  <2> QED
    BY <2>2, <2>3, <1>4 DEF Side
<1>20. LedgerMatches(e)
  <2>1. e.cash = InitialCash + e.trades.net
    BY <1>2, <1>8, <1>9, <1>14, <1>15, PaperAssumption DEF DbInv, LedgerMatches
  <2>2. ASSUME NEW i \in Instruments
        PROVE  /\ e.pos[i].qty = e.trades.qty[i]
               /\ e.trades.flow[i] + e.pos[i].basis = e.pos[i].realized
               /\ CostSigned(e.pos[i])
    <3>1. /\ d.pos[i].qty = d.trades.qty[i]
          /\ d.trades.flow[i] + d.pos[i].basis = d.pos[i].realized
          /\ CostSigned(d.pos[i])
      BY DEF DbInv, LedgerMatches
    <3>2. CASE i # ord.inst
      BY <3>1, <3>2, <1>2, <1>4, <1>9, <1>14, <1>15
    <3>3. CASE i = ord.inst
      <4>1. /\ e.pos[i] = new
            /\ e.trades.qty[i] = d.trades.qty[i] + Signed(ord.side, qty)
            /\ e.trades.flow[i] = d.trades.flow[i] - Signed(ord.side, net)
            /\ d.pos[i] = pos
        BY <3>3, <1>2, <1>4, <1>9, <1>14, <1>15 DEF pos
      <4>2. /\ new.basis \in Int /\ new.realized \in Int
            /\ pos.basis \in Int /\ pos.realized \in Int
            /\ d.trades.flow[i] \in Int
        BY <1>6, <1>7, <1>14 DEF Position
      <4> QED
        BY <3>1, <4>1, <4>2, <1>7, <1>8
    <3> QED
      BY <3>2, <3>3
  <2> QED
    BY <2>1, <2>2 DEF LedgerMatches
<1>21. Balanced(e)
  <2>1. Balanced(d)
    BY DEF DbInv
  <2>2. new.realized - new.basis
          = d.pos[ord.inst].realized - d.pos[ord.inst].basis - Signed(ord.side, net)
    BY <1>7 DEF pos
  <2>3. /\ e.cash = d.cash - Signed(ord.side, net)
        /\ e.pos = [d.pos EXCEPT ![ord.inst] = new]
    BY <1>9
  <2>4. d.pos \in [Instruments -> Position] /\ d.cash \in Int
    BY <1>2
  <2>5. ord.inst \in Instruments /\ new \in Position
    BY <1>4, <1>7
  <2> DEFINE paid == Signed(ord.side, net)
             inst == ord.inst
  <2>6. paid \in Int
    BY <1>8
  <2> HIDE DEF ord, e, new, paid, inst
  <2> QED
    BY <2>1, <2>2, <2>3, <2>4, <2>5, <2>6, FillBalances DEF paid, inst
<1>22. OrdersMatch(e)
  <2> SUFFICES ASSUME NEW i \in Instruments PROVE e.pos[i].qty = FilledFor(e.orders, i)
    BY DEF OrdersMatch
  <2>1. /\ d.pos[i].qty = FilledFor(d.orders, i)
        /\ d.pos[i].qty \in Int
    BY <1>2 DEF DbInv, OrdersMatch, Position
  <2>2. /\ row.inst = ord.inst /\ row.side = ord.side
        /\ row.filled - ord.filled = qty
    <3>1. row.inst = ord.inst /\ row.side = ord.side /\ row.filled = ord.filled + qty
      BY <1>3 DEF row, Progressed, Order
    <3> QED
      BY <3>1, <1>4
  <2>3. FilledFor(e.orders, i) = FilledFor(d.orders, i)
          + (IF i = ord.inst THEN Signed(ord.side, qty) ELSE 0)
    <3>1. FilledFor([d.orders EXCEPT ![o] = row], i) = FilledFor(d.orders, i)
            + (IF i = d.orders[o].inst THEN Signed(row.side, row.filled - d.orders[o].filled)
                                       ELSE 0)
      <4>1. row \in Order /\ row.inst = d.orders[o].inst /\ row.side = d.orders[o].side
        BY <2>2, <1>10
      <4>2. d.orders \in Seq(Order)
        BY <1>2
      <4> QED
        BY <4>1, <4>2, OrderProgress
    <3> QED
      BY <3>1, <2>2, <1>9
  <2>4. CASE i = ord.inst
    BY <2>1, <2>3, <2>4, <1>2, <1>4, <1>7, <1>8, <1>9 DEF pos
  <2>5. CASE i # ord.inst
    BY <2>1, <2>3, <2>5, <1>2, <1>4, <1>9
  <2> QED
    BY <2>4, <2>5
<1> QED
  BY <1>13, <1>18, <1>19, <1>20, <1>21, <1>22 DEF DbInv, e

(***************************************************************************)
(* Replacing one order by a sound one, or appending one, keeps the         *)
(* database's invariant.                                                   *)
(***************************************************************************)
LEMMA WithOrders ==
    ASSUME NEW d, DbInv(d), NEW s \in Seq(Order),
           \A o \in DOMAIN s : OrderSound(s[o]),
           \A i \in Instruments : FilledFor(s, i) = FilledFor(d.orders, i)
    PROVE  /\ DbInv([d EXCEPT !.orders = s])
           /\ [d EXCEPT !.orders = s].orders = s
           /\ [d EXCEPT !.orders = s].kill = d.kill
           /\ [d EXCEPT !.orders = s].cash = d.cash
           /\ [d EXCEPT !.orders = s].pos = d.pos
<1> DEFINE e == [d EXCEPT !.orders = s]
<1>1. d \in Database
  BY DEF DbInv
<1>2. /\ e \in Database /\ e.orders = s /\ e.kill = d.kill /\ e.cash = d.cash
      /\ e.pos = d.pos /\ e.trades = d.trades
  BY <1>1 DEF Database
<1> HIDE DEF e
<1>3. LedgerMatches(e) /\ Balanced(e)
  BY <1>2 DEF DbInv, LedgerMatches, Balanced, Column
<1>4. OrdersMatch(e)
  BY <1>2 DEF DbInv, OrdersMatch
<1>5. DbInv(e)
  BY <1>2, <1>3, <1>4 DEF DbInv
<1> QED
  BY <1>2, <1>5 DEF e

(* Replacing one order row by another sound one keeps the table sound. *)
LEMMA ReplaceOrder ==
    ASSUME NEW d, DbInv(d), NEW o \in DOMAIN d.orders, NEW row \in Order, OrderSound(row),
           row.inst = d.orders[o].inst, row.side = d.orders[o].side,
           row.filled = d.orders[o].filled
    PROVE  /\ [d.orders EXCEPT ![o] = row] \in Seq(Order)
           /\ DOMAIN [d.orders EXCEPT ![o] = row] = DOMAIN d.orders
           /\ \A p \in DOMAIN d.orders : OrderSound([d.orders EXCEPT ![o] = row][p])
           /\ \A i \in Instruments :
                 FilledFor([d.orders EXCEPT ![o] = row], i) = FilledFor(d.orders, i)
<1>1. d.orders \in Seq(Order)
  BY DEF DbInv, Database
<1>2. o \in 1..Len(d.orders)
  BY <1>1, LenProperties
<1>3. [d.orders EXCEPT ![o] = row] \in Seq(Order)
  BY <1>1, <1>2, ExceptSeq
<1>4. \A p \in DOMAIN d.orders : OrderSound([d.orders EXCEPT ![o] = row][p])
  BY DEF DbInv
<1>5. ASSUME NEW i PROVE FilledFor([d.orders EXCEPT ![o] = row], i) = FilledFor(d.orders, i)
  <2> DEFINE t == [d.orders EXCEPT ![o] = row]
  <2>1. DOMAIN t = DOMAIN d.orders
    OBVIOUS
  <2>2. \A p \in DOMAIN d.orders : /\ t[p].inst = d.orders[p].inst
                                   /\ t[p].side = d.orders[p].side
                                   /\ t[p].filled = d.orders[p].filled
    OBVIOUS
  <2> HIDE DEF t
  <2>3. t \in Seq(Order)
    BY <1>3 DEF t
  <2>4. FilledFor(t, i) = FilledFor(d.orders, i)
    BY <1>1, <2>1, <2>2, <2>3, FilledKept, OrderFills
  <2> QED
    BY <2>4 DEF t
<1> QED
  BY <1>3, <1>4, <1>5

(***************************************************************************)
(* The moves an attempt to fill can make with an order.                    *)
(***************************************************************************)
Moved(old, new) ==
    \/ new = old
    \/ /\ old.state \in {"OPEN", "PARTIALLY_FILLED"}
       /\ new.qty = old.qty /\ new.by = old.by
       /\ new.inst = old.inst /\ new.side = old.side
       /\ new.filled >= old.filled
       /\ new.state \in {"PARTIALLY_FILLED", "FILLED", "CANCELLED"}

OnlyMoved(old, new, o) ==
    /\ DOMAIN new = DOMAIN old
    /\ \A p \in DOMAIN old \ {o} : new[p] = old[p]
    /\ Moved(old[o], new[o])

(***************************************************************************)
(* _try_fill on an order that is not terminal keeps the invariant, moves   *)
(* that order forward and touches no other, nor the kill switch.           *)
(***************************************************************************)
LEMMA TryFillKeeps ==
    ASSUME NEW d, DbInv(d), NEW o \in DOMAIN d.orders,
           d.orders[o].state \in {"OPEN", "PARTIALLY_FILLED"},
           NEW quote \in Prices \cup {NoQuote}
    PROVE  /\ DbInv(TryFill(d, o, quote))
           /\ OnlyMoved(d.orders, TryFill(d, o, quote).orders, o)
           /\ TryFill(d, o, quote).kill = d.kill
<1> DEFINE ord == d.orders[o]
           price == ApplySlippage(quote, ord.side)
           qty == FillQty(d, ord, price)
<1>1. ord \in Order /\ OrderSound(ord)
  BY ElementOfSeq DEF DbInv, Database
<1>2. ord.qty \in Nat \ {0} /\ ord.filled \in Nat /\ ord.side \in Side
  BY <1>1 DEF Order
<1>3. d.cash \in Int
  BY DEF DbInv, Database
<1>4. CASE ord.filled >= ord.qty \/ quote = NoQuote \/ ~Marketable(ord, quote)
  <2>1. TryFill(d, o, quote) = d
    BY <1>4 DEF TryFill
  <2> QED
    BY <2>1 DEF OnlyMoved, Moved
<1>5. CASE ~(ord.filled >= ord.qty \/ quote = NoQuote \/ ~Marketable(ord, quote))
  <2>1. quote \in Nat
    BY <1>5, PaperAssumption
  <2>2. price \in Nat
    BY <2>1, SlippageType
  <2>3. ord.qty - ord.filled \in Nat \ {0}
    BY <1>2, <1>5
  <2>4. /\ qty \in 0..(ord.qty - ord.filled)
        /\ ord.side = "BUY" => Affordable(qty, price, d.cash)
    <3>1. CASE ord.side = "BUY"
      <4>1. qty = ClampToCash(ord.qty - ord.filled, price, d.cash)
        BY <3>1 DEF FillQty
      <4> HIDE DEF qty, price, ord
      <4> QED
        BY <4>1, <2>3, ClampIsLargestAffordable
    <3>2. CASE ord.side # "BUY"
      <4>1. qty = ord.qty - ord.filled
        BY <3>2 DEF FillQty
      <4> HIDE DEF qty, price, ord
      <4> QED
        BY <3>2, <4>1, <2>3
    <3> QED
      BY <3>1, <3>2
  <2>5. CASE qty = 0
    <3> DEFINE row == [ord EXCEPT !.state = "CANCELLED"]
    <3>1. row \in Order /\ OrderSound(row)
      <4>1. "CANCELLED" \in OrderState
        BY DEF OrderState
      <4>2. row \in Order
        <5> HIDE DEF ord
        <5> QED
          BY <1>1, <4>1 DEF Order
      <4>3. row.qty = ord.qty /\ row.filled = ord.filled /\ row.state = "CANCELLED"
        BY <1>1 DEF Order
      <4>4. OrderSound(row)
        <5> HIDE DEF row
        <5> QED
          BY <4>3, <1>2, <1>5 DEF OrderSound
      <4> QED
        BY <4>2, <4>4
    <3>2. TryFill(d, o, quote) = [d EXCEPT !.orders = [d.orders EXCEPT ![o] = row]]
      <4>1. TryFill(d, o, quote) = [d EXCEPT !.orders[o].state = "CANCELLED"]
        BY <1>5, <2>5 DEF TryFill
      <4> QED
        BY <4>1
    <3> HIDE DEF row
    <3> DEFINE s == [d.orders EXCEPT ![o] = row]
    <3>3. /\ s \in Seq(Order)
          /\ DOMAIN s = DOMAIN d.orders
          /\ \A p \in DOMAIN d.orders : OrderSound(s[p])
          /\ \A i \in Instruments : FilledFor(s, i) = FilledFor(d.orders, i)
      <4>1. row.inst = ord.inst /\ row.side = ord.side /\ row.filled = ord.filled
        BY <1>1 DEF row, Order
      <4> QED
        BY <3>1, <4>1, ReplaceOrder
    <3>4. OnlyMoved(d.orders, s, o)
      <4>1. Moved(d.orders[o], row)
        BY <1>1, <1>2 DEF Moved, row, Order
      <4> QED
        BY <4>1 DEF OnlyMoved
    <3> HIDE DEF s
    <3>5. /\ DbInv([d EXCEPT !.orders = s])
          /\ [d EXCEPT !.orders = s].orders = s
          /\ [d EXCEPT !.orders = s].kill = d.kill
      BY <3>3, WithOrders
    <3>6. TryFill(d, o, quote) = [d EXCEPT !.orders = s]
      BY <3>2 DEF s
    <3> QED
      BY <3>4, <3>5, <3>6
  <2>6. CASE qty # 0
    <3>1. TryFill(d, o, quote) = ExecuteFill(d, o, qty, price)
      BY <1>5, <2>6 DEF TryFill
    <3>2. qty \in Nat \ {0} /\ ord.filled + qty <= ord.qty
      <4> HIDE DEF qty, ord
      <4> QED
        BY <2>4, <2>6, <1>2
    <3>3. ord.side = "BUY" => NetAmount("BUY", price, qty) <= d.cash
      BY <2>4, <2>6 DEF Affordable
    <3> HIDE DEF qty, price
    <3>4. DbInv(ExecuteFill(d, o, qty, price))
      BY <3>2, <3>3, <2>2, ExecuteFillKeeps
    <3>5. /\ ExecuteFill(d, o, qty, price).orders = [d.orders EXCEPT ![o] = Progressed(ord, qty)]
          /\ ExecuteFill(d, o, qty, price).kill = d.kill
      <4>1. d \in Database
        BY DEF DbInv
      <4> DEFINE net == NetAmount(ord.side, price, qty)
                 e == ExecuteFill(d, o, qty, price)
      <4>2. /\ e.cash = d.cash - Signed(ord.side, net)
            /\ e.pos = [d.pos EXCEPT ![ord.inst] =
                          ApplyFill(d.pos[ord.inst], ord.side, qty, net)]
            /\ e.orders = [d.orders EXCEPT ![o] = Progressed(ord, qty)]
            /\ e.trades = AddTrade(d.trades, ord.inst, ord.side, qty, net)
            /\ e.dayPnl = d.dayPnl + Realizes(d.pos[ord.inst], ord.side, qty, net)
            /\ e.kill = d.kill
            /\ (/\ e.cash \in Int /\ e.pos \in [Instruments -> Position]
                /\ e.orders \in Seq(Order) /\ e.trades \in Trades
                /\ e.dayPnl \in Int /\ e.kill \in KillSwitchRow)
               => e \in Database
        BY <4>1, ExecuteFillFields, Zenon
      <4> HIDE DEF e, net
      <4>3. e.orders = [d.orders EXCEPT ![o] = Progressed(ord, qty)] /\ e.kill = d.kill
        BY <4>2
      <4> QED
        BY <4>3 DEF e
    <3>6. Moved(ord, Progressed(ord, qty))
      BY <1>1, <1>2, <3>2 DEF Moved, Progressed, Order
    <3>7. OnlyMoved(d.orders, ExecuteFill(d, o, qty, price).orders, o)
      BY <3>5, <3>6 DEF OnlyMoved
    <3> QED
      BY <3>1, <3>4, <3>5, <3>7
  <2> QED
    BY <2>5, <2>6
<1> QED
  BY <1>4, <1>5

(***************************************************************************)
(* place_order keeps the invariant, adds one order and touches no other.   *)
(***************************************************************************)
LEMMA PlaceOrderKeeps ==
    ASSUME NEW d, DbInv(d), NEW ord \in Order, ord.state = "OPEN", ord.filled = 0,
           NEW quote \in Prices \cup {NoQuote}
    PROVE  LET e == PlaceOrder(d, ord, quote)
           IN  /\ DbInv(e)
               /\ DOMAIN e.orders = DOMAIN d.orders \cup {Len(d.orders) + 1}
               /\ Len(d.orders) + 1 \notin DOMAIN d.orders
               /\ \A p \in DOMAIN d.orders : e.orders[p] = d.orders[p]
               /\ Moved(ord, e.orders[Len(d.orders) + 1])
               /\ e.kill = d.kill
<1> DEFINE s == Append(d.orders, ord)
           n == Len(d.orders) + 1
           f == [d EXCEPT !.orders = s]
<1>1. d.orders \in Seq(Order)
  BY DEF DbInv, Database
<1>2. Len(d.orders) \in Nat /\ DOMAIN d.orders = 1..Len(d.orders)
  BY <1>1, LenProperties
<1>3. s \in Seq(Order) /\ Len(s) = n /\ s[n] = ord
        /\ \A p \in 1..Len(d.orders) : s[p] = d.orders[p]
  BY <1>1, AppendProperties
<1>4. DOMAIN s = DOMAIN d.orders \cup {n} /\ n \notin DOMAIN d.orders
  BY <1>2, <1>3, LenProperties
<1>5. OrderSound(ord)
  <2>1. ord.qty \in Nat \ {0}
    BY DEF Order
  <2> QED
    BY <2>1 DEF OrderSound
<1>6. \A o \in DOMAIN s : OrderSound(s[o])
  <2> HIDE DEF s, n
  <2> QED
    BY <1>2, <1>3, <1>4, <1>5 DEF DbInv
<1>12. \A i \in Instruments : FilledFor(s, i) = FilledFor(d.orders, i)
  BY <1>1, FilledAppended, OrderFills
<1> HIDE DEF s
<1>7. DbInv(f) /\ f.orders = s /\ f.kill = d.kill
  BY <1>3, <1>6, <1>12, WithOrders
<1>8. PlaceOrder(d, ord, quote) = TryFill(f, n, quote)
  BY DEF PlaceOrder, s
<1> HIDE DEF f, n
<1>9. /\ DbInv(TryFill(f, n, quote))
      /\ OnlyMoved(f.orders, TryFill(f, n, quote).orders, n)
      /\ TryFill(f, n, quote).kill = f.kill
  <2>1. n \in DOMAIN f.orders /\ f.orders[n].state = "OPEN"
    BY <1>3, <1>4, <1>7
  <2> QED
    BY <1>7, <2>1, TryFillKeeps
<1>10. Len(d.orders) + 1 = n
  BY DEF n
<1> DEFINE e == TryFill(f, n, quote)
<1>11. /\ DOMAIN e.orders = DOMAIN d.orders \cup {n}
       /\ \A p \in DOMAIN d.orders : e.orders[p] = d.orders[p]
       /\ Moved(ord, e.orders[n])
       /\ e.kill = d.kill
  <2> HIDE DEF e
  <2>1. /\ DOMAIN e.orders = DOMAIN s
        /\ \A p \in DOMAIN s \ {n} : e.orders[p] = s[p]
        /\ Moved(s[n], e.orders[n])
        /\ e.kill = d.kill
    BY <1>7, <1>9 DEF OnlyMoved, e
  <2> QED
    BY <2>1, <1>2, <1>3, <1>4
<1> HIDE DEF e
<1> QED
  BY <1>4, <1>8, <1>9, <1>10, <1>11 DEF e

-----------------------------------------------------------------------------
(***************************************************************************)
(* The inductive invariant.  The safety properties speak of db, but a      *)
(* commit installs tx.db: the working copy satisfies the same invariant,   *)
(* and during a tick it differs from db only by moves of orders that are   *)
(* no longer in todo.                                                      *)
(***************************************************************************)
TickInv ==
    /\ tx.todo \subseteq DOMAIN tx.db.orders
    /\ DOMAIN tx.db.orders = DOMAIN db.orders
    /\ tx.db.kill = db.kill
    /\ \A o \in DOMAIN db.orders : Moved(db.orders[o], tx.db.orders[o])
    /\ \A o \in tx.todo : /\ tx.db.orders[o] = db.orders[o]
                          /\ db.orders[o].state \in {"OPEN", "PARTIALLY_FILLED"}

IInv ==
    /\ DbInv(db)
    /\ DbInv(tx.db)
    /\ tx \in [active : BOOLEAN, db : Database, todo : SUBSET Nat]
    /\ ltp \in [Instruments -> Prices \cup {NoQuote}]
    /\ tx.active => TickInv

(***************************************************************************)
(* What a step does to the committed orders.                               *)
(***************************************************************************)
OrdersEvolve ==
    /\ \A o \in DOMAIN db.orders :
          o \in DOMAIN db'.orders /\ Moved(db.orders[o], db'.orders[o])

(* The database before the first order satisfies the invariant. *)
LEMMA EmptyDbInv == DbInv(EmptyDb)
<1>1. FlatPosition \in Position /\ CostSigned(FlatPosition)
  BY DEF FlatPosition, Position, CostSigned
<1>2. ClearRow \in KillSwitchRow
  BY DEF ClearRow, KillSwitchRow
<1>3. <<>> \in Seq(Order) /\ DOMAIN <<>> = {}
  BY EmptySeq, LenProperties
<1>4. EmptyDb.trades \in Trades
  BY DEF EmptyDb, Trades
<1>5. EmptyDb \in Database
  BY <1>1, <1>2, <1>3, <1>4, PaperAssumption DEF EmptyDb, Database
<1>6. LedgerMatches(EmptyDb)
  BY <1>1, PaperAssumption DEF EmptyDb, LedgerMatches, FlatPosition
<1>7. EmptyDb.orders = <<>> /\ EmptyDb.cash >= 0
  BY PaperAssumption DEF EmptyDb
<1>8. Balanced(EmptyDb)
  <2>1. Column(EmptyDb, "basis") = Column(EmptyDb, "realized")
    BY DEF Column, EmptyDb, FlatPosition
  <2> QED
    BY <2>1 DEF Balanced, EmptyDb
<1>9. OrdersMatch(EmptyDb)
  BY <1>7, FilledNothing DEF OrdersMatch, EmptyDb, FlatPosition
<1> QED
  BY <1>3, <1>5, <1>6, <1>7, <1>8, <1>9 DEF DbInv

(* No housekeeping transaction is open between ticks. *)
LEMMA IdleType ==
    /\ Idle \in [active : BOOLEAN, db : Database, todo : SUBSET Nat]
    /\ Idle.db = EmptyDb /\ Idle.active = FALSE
<1>1. EmptyDb \in Database
  BY EmptyDbInv DEF DbInv
<1> QED
  BY <1>1 DEF Idle

(* A change of the kill switch row or of the day's P&L alone. *)
LEMMA WithKill ==
    ASSUME NEW d, DbInv(d), NEW k \in KillSwitchRow
    PROVE  /\ DbInv([d EXCEPT !.kill = k])
           /\ [d EXCEPT !.kill = k].orders = d.orders
           /\ [d EXCEPT !.kill = k].kill = k
<1> DEFINE e == [d EXCEPT !.kill = k]
<1>1. d \in Database
  BY DEF DbInv
<1>2. /\ e \in Database /\ e.orders = d.orders /\ e.kill = k /\ e.cash = d.cash
      /\ e.pos = d.pos /\ e.trades = d.trades
  BY <1>1 DEF Database
<1> HIDE DEF e
<1>3. DbInv(e)
  BY <1>2 DEF DbInv, LedgerMatches, Balanced, Column, OrdersMatch
<1> QED
  BY <1>2, <1>3 DEF e

(* Midnight's reset of the day's P&L leaves everything else alone. *)
LEMMA WithDayPnl ==
    ASSUME NEW d, DbInv(d), NEW n \in Int
    PROVE  /\ DbInv([d EXCEPT !.dayPnl = n])
           /\ [d EXCEPT !.dayPnl = n].orders = d.orders
           /\ [d EXCEPT !.dayPnl = n].kill = d.kill
<1> DEFINE e == [d EXCEPT !.dayPnl = n]
<1>1. d \in Database
  BY DEF DbInv
<1>2. /\ e \in Database /\ e.orders = d.orders /\ e.kill = d.kill /\ e.cash = d.cash
      /\ e.pos = d.pos /\ e.trades = d.trades
  BY <1>1 DEF Database
<1> HIDE DEF e
<1>3. DbInv(e)
  BY <1>2 DEF DbInv, LedgerMatches, Balanced, Column, OrdersMatch
<1> QED
  BY <1>2, <1>3 DEF e

(* Startup reconciliation finds nothing to fail. *)
LEMMA ReconcileNothing ==
    ASSUME NEW d, DbInv(d)
    PROVE  Reconcile(d) = d
<1>1. d \in Database /\ d.orders \in Seq(Order)
  BY DEF DbInv, Database
<1>2. \A o \in DOMAIN d.orders : d.orders[o].state \notin {"SUBMITTING", "SUBMITTED"}
  BY DEF DbInv, OrderSound
<1>3. d.orders = [o \in DOMAIN d.orders |-> d.orders[o]]
  <2>1. d.orders \in [1..Len(d.orders) -> Order]
    BY <1>1, LenProperties
  <2> QED
    BY <2>1
<1>4. Reconcile(d) = [d EXCEPT !.orders = d.orders]
  <2>1. [o \in DOMAIN d.orders |->
            IF d.orders[o].state \in {"SUBMITTING", "SUBMITTED"}
            THEN [d.orders[o] EXCEPT !.state = "FAILED"] ELSE d.orders[o]]
        = [o \in DOMAIN d.orders |-> d.orders[o]]
    BY <1>2
  <2> QED
    BY <2>1, <1>3 DEF Reconcile
<1>5. [d EXCEPT !.orders = d.orders] = d
  BY <1>1 DEF Database
<1> QED
  BY <1>4, <1>5

(***************************************************************************)
(* A step outside a tick that installs a database e keeps the invariant    *)
(* when e has it.                                                          *)
(***************************************************************************)
LEMMA CommitKeeps ==
    ASSUME IInv, ~tx.active, UNCHANGED tx, DbInv(db'),
           ltp' \in [Instruments -> Prices \cup {NoQuote}]
    PROVE  IInv'
  BY DEF IInv

(* _on_candle records the bar's close as the quote of its instrument. *)
LEMMA QuotedType ==
    ASSUME IInv, NEW i \in Universe, NEW p \in Prices
    PROVE  Quoted(i, p) \in [Instruments -> Prices \cup {NoQuote}] /\ Quoted(i, p)[i] = p
  BY PaperAssumption DEF IInv, Quoted

(* A new row of the order table. *)
LEMMA NewOrderType ==
    ASSUME NEW i \in Instruments, NEW side \in Side, NEW type \in {"MARKET", "LIMIT"},
           NEW limit \in Nat, NEW qty \in Nat \ {0}, NEW by \in {"SIGNAL", "CLI"}
    PROVE  /\ NewOrder(i, side, type, limit, qty, by) \in Order
           /\ NewOrder(i, side, type, limit, qty, by).state = "OPEN"
           /\ NewOrder(i, side, type, limit, qty, by).filled = 0
           /\ NewOrder(i, side, type, limit, qty, by).by = by
<1>1. "OPEN" \in OrderState
  BY DEF OrderState
<1> QED
  BY <1>1 DEF NewOrder, Order

(* _process_candle: a judged signal, placed or refused. *)
LEMMA CandleWithSignalStep ==
    ASSUME IInv, NEW i \in Universe, NEW p \in Prices, NEW dir \in Directions,
           CandleWithSignal(i, p, dir)
    PROVE  IInv' /\ OrdersEvolve /\ HaltStep
<1> DEFINE q == Quoted(i, p)
           v == Verdict(db, q, i, p, dir)
           ord == NewOrder(i, v.side, "MARKET", 0, v.qty, "SIGNAL")
           e == PlaceOrder(db, ord, q[i])
<1>1. DbInv(db) /\ ~tx.active
  BY DEF IInv, CandleWithSignal, Unlocked
<1>2. q \in [Instruments -> Prices \cup {NoQuote}] /\ q[i] = p /\ i \in Instruments
  BY QuotedType, PaperAssumption
<1>3. ltp' = q /\ tx' = tx
  BY DEF CandleWithSignal
<1>4. db' = IF v.ok THEN [e EXCEPT !.kill = RecordSuccess(@)] ELSE db
  BY <1>3 DEF CandleWithSignal, ProcessSignal
<1>5. CASE ~v.ok
  <2>1. db' = db
    BY <1>4, <1>5
  <2>2. IInv'
    BY <2>1, <1>1, <1>2, <1>3, CommitKeeps
  <2> QED
    BY <2>1, <2>2 DEF OrdersEvolve, HaltStep, Moved
<1>6. CASE v.ok
  <2>1. v.side \in Side /\ v.qty \in Nat \ {0} /\ ~db.kill.tripped
    <3> DEFINE c == RiskContext(db, q, i)
    <3>1. c.posQty = db.pos[i].qty /\ c.tripped = db.kill.tripped
      BY DEF RiskContext
    <3>2. db.pos[i].qty \in Int
      BY <1>1, <1>2 DEF DbInv, Database, Position
    <3>3. v = Evaluate(dir, p, c)
      BY DEF Verdict
    <3>4. dir \in Direction
      BY PaperAssumption
    <3> HIDE DEF c, v, q
    <3> QED
      BY <3>1, <3>2, <3>3, <3>4, <1>6, ApprovalType
  <2> HIDE DEF v
  <2>2. ord \in Order /\ ord.state = "OPEN" /\ ord.filled = 0
    BY <2>1, <1>2, NewOrderType
  <2> HIDE DEF ord, q
  <2>3. /\ DbInv(e)
        /\ DOMAIN e.orders = DOMAIN db.orders \cup {Len(db.orders) + 1}
        /\ \A o \in DOMAIN db.orders : e.orders[o] = db.orders[o]
    BY <2>2, <1>1, <1>2, PlaceOrderKeeps
  <2> HIDE DEF e
  <2>4. RecordSuccess(e.kill) \in KillSwitchRow
    BY <2>3, KillRows DEF DbInv, Database
  <2>5. db' = [e EXCEPT !.kill = RecordSuccess(e.kill)]
    BY <1>4, <1>6
  <2>6. DbInv(db') /\ db'.orders = e.orders
    BY <2>3, <2>4, <2>5, WithKill
  <2>7. IInv'
    BY <2>6, <1>1, <1>2, <1>3, CommitKeeps
  <2> QED
    BY <2>1, <2>3, <2>6, <2>7 DEF OrdersEvolve, HaltStep, Moved
<1> QED
  BY <1>5, <1>6

(* `pt paper order`: a manual order past the risk engine. *)
LEMMA CliOrderStep ==
    ASSUME IInv, NEW i \in Instruments, NEW side \in Side, NEW type \in {"MARKET", "LIMIT"},
           NEW limit \in Nat, NEW qty \in CliQtys, NEW quote \in Prices \cup {NoQuote},
           CliOrder(i, side, type, limit, qty, quote)
    PROVE  IInv' /\ OrdersEvolve /\ HaltStep
<1> DEFINE ord == NewOrder(i, side, type, limit, qty, "CLI")
           e == PlaceOrder(db, ord, quote)
           n == Len(db.orders) + 1
<1>1. DbInv(db) /\ ~tx.active /\ tx' = tx /\ ltp' = ltp
  BY DEF IInv, CliOrder, Unlocked
<1>2. db' = e
  BY DEF CliOrder
<1>3. qty \in Nat \ {0}
  BY PaperAssumption
<1>4. ord \in Order /\ ord.state = "OPEN" /\ ord.filled = 0 /\ ord.by = "CLI"
  BY <1>3, NewOrderType
<1> HIDE DEF ord
<1>5. /\ DbInv(e)
      /\ DOMAIN e.orders = DOMAIN db.orders \cup {n}
      /\ \A o \in DOMAIN db.orders : e.orders[o] = db.orders[o]
      /\ Moved(ord, e.orders[n])
      /\ e.kill = db.kill
  BY <1>1, <1>4, PlaceOrderKeeps
<1> HIDE DEF e, n
<1>6. e.orders[n].by = "CLI"
  BY <1>4, <1>5 DEF Moved
<1>7. IInv'
  BY <1>1, <1>2, <1>5, CommitKeeps DEF IInv
<1> QED
  BY <1>2, <1>5, <1>6, <1>7 DEF OrdersEvolve, HaltStep, Moved

(* check_resting_orders: one order of the tick, on the working copy. *)
LEMMA TickOrderStep ==
    ASSUME IInv, NEW o, TickOrder(o)
    PROVE  IInv' /\ OrdersEvolve /\ HaltStep
<1>1. /\ tx.active /\ o \in tx.todo /\ db' = db /\ ltp' = ltp
      /\ DbInv(db) /\ DbInv(tx.db) /\ TickInv
  BY DEF IInv, TickOrder
<1>2. o \in DOMAIN tx.db.orders
  BY <1>1 DEF TickInv
<1> DEFINE q == ltp[tx.db.orders[o].inst]
           e == TryFill(tx.db, o, q)
<1>3. tx.db.orders[o].state \in {"OPEN", "PARTIALLY_FILLED"}
  BY <1>1 DEF TickInv
<1>4. q \in Prices \cup {NoQuote}
  <2>1. tx.db.orders \in Seq(Order)
    BY <1>1 DEF DbInv, Database
  <2>2. tx.db.orders[o] \in Order
    BY <2>1, <1>2, ElementOfSeq
  <2>3. tx.db.orders[o].inst \in Instruments
    BY <2>2 DEF Order
  <2> QED
    BY <2>3 DEF IInv
<1>5. /\ DbInv(e)
      /\ OnlyMoved(tx.db.orders, e.orders, o)
      /\ e.kill = tx.db.kill
  <2> HIDE DEF q
  <2> QED
    BY <1>1, <1>2, <1>3, <1>4, TryFillKeeps
<1>6. tx' = [tx EXCEPT !.db = e, !.todo = tx.todo \ {o}]
  BY DEF TickOrder
<1> HIDE DEF e
<1>7. tx'.active = tx.active /\ tx'.db = e /\ tx'.todo = tx.todo \ {o}
  BY <1>6 DEF IInv
<1>8. tx' \in [active : BOOLEAN, db : Database, todo : SUBSET Nat]
  <2>1. e \in Database
    BY <1>5 DEF DbInv
  <2> QED
    BY <2>1, <1>6 DEF IInv
<1>9. TickInv'
  <2>1. DOMAIN e.orders = DOMAIN db.orders
    BY <1>1, <1>5 DEF TickInv, OnlyMoved
  <2>2. \A p \in DOMAIN db.orders : Moved(db.orders[p], e.orders[p])
    <3>1. Moved(db.orders[o], e.orders[o])
      BY <1>1, <1>5 DEF TickInv, OnlyMoved
    <3>2. \A p \in DOMAIN db.orders \ {o} : e.orders[p] = tx.db.orders[p]
      BY <1>1, <1>5 DEF TickInv, OnlyMoved
    <3> QED
      BY <3>1, <3>2, <1>1 DEF TickInv
  <2>3. \A p \in tx.todo \ {o} : /\ e.orders[p] = db.orders[p]
                                /\ db.orders[p].state \in {"OPEN", "PARTIALLY_FILLED"}
    BY <1>1, <1>5 DEF TickInv, OnlyMoved
  <2>4. tx.todo \ {o} \subseteq DOMAIN e.orders /\ e.kill = db.kill
    BY <2>1, <1>1, <1>5 DEF TickInv
  <2> QED
    BY <2>1, <2>2, <2>3, <2>4, <1>1, <1>7 DEF TickInv
<1>10. IInv'
  BY <1>1, <1>5, <1>7, <1>8, <1>9 DEF IInv
<1> QED
  BY <1>1, <1>10 DEF OrdersEvolve, HaltStep, Moved

(* run_housekeeping opens its transaction. *)
LEMMA TickBeginStep ==
    ASSUME IInv, TickBegin
    PROVE  IInv' /\ OrdersEvolve /\ HaltStep
<1>1. DbInv(db) /\ db' = db /\ ltp' = ltp
        /\ tx' = [active |-> TRUE, db |-> db, todo |-> OpenOrders(db)]
  BY DEF IInv, TickBegin
<1>2. OpenOrders(db) \subseteq DOMAIN db.orders
  BY DEF OpenOrders
<1>3. DOMAIN db.orders \subseteq Nat
  BY <1>1, LenProperties DEF DbInv, Database
<1>4. \A o \in OpenOrders(db) : db.orders[o].state \in {"OPEN", "PARTIALLY_FILLED"}
  BY <1>1, <1>2 DEF OpenOrders, ListOpen, DbInv, OrderSound
<1>5. tx' \in [active : BOOLEAN, db : Database, todo : SUBSET Nat]
  BY <1>1, <1>2, <1>3 DEF DbInv
<1>6. TickInv'
  BY <1>1, <1>2, <1>4 DEF TickInv, Moved
<1>7. IInv'
  BY <1>1, <1>5, <1>6 DEF IInv
<1> QED
  BY <1>1, <1>7 DEF OrdersEvolve, HaltStep, Moved

(* run_housekeeping commits its transaction or loses it. *)
LEMMA TickEndStep ==
    ASSUME IInv, TickCommit \/ TickFails
    PROVE  IInv' /\ OrdersEvolve /\ HaltStep
<1>1. tx' = Idle /\ ltp' = ltp /\ (db' = tx.db \/ db' = db)
  BY DEF TickCommit, TickFails
<1>2. tx.active /\ TickInv /\ DbInv(db) /\ DbInv(tx.db)
  BY DEF TickCommit, TickFails, IInv
<1>3. DbInv(db')
  BY <1>1, <1>2
<1>4. IInv'
  BY <1>1, <1>3, IdleType, EmptyDbInv DEF IInv
<1>5. OrdersEvolve
  BY <1>1, <1>2 DEF OrdersEvolve, TickInv, Moved
<1>6. HaltStep
  BY <1>1, <1>2 DEF HaltStep, TickInv
<1> QED
  BY <1>4, <1>5, <1>6

(* cancel_order on an order that still rests. *)
LEMMA CancelOrderStep ==
    ASSUME IInv, NEW o, CancelOrder(o)
    PROVE  IInv' /\ OrdersEvolve /\ HaltStep
<1> DEFINE ord == db.orders[o]
           row == [ord EXCEPT !.state = "CANCELLED"]
           s == [db.orders EXCEPT ![o] = row]
<1>1. /\ DbInv(db) /\ ~tx.active /\ tx' = tx /\ ltp' = ltp /\ o \in DOMAIN db.orders
      /\ ord.state \in {"OPEN", "PARTIALLY_FILLED"}
      /\ db' = [db EXCEPT !.orders[o].state = "CANCELLED"]
  BY DEF IInv, CancelOrder, Unlocked
<1>2. ord \in Order /\ OrderSound(ord)
  BY <1>1, ElementOfSeq DEF DbInv, Database
<1>3. ord.qty \in Nat \ {0} /\ ord.filled \in Nat
  BY <1>2 DEF Order
<1>4. row.qty = ord.qty /\ row.filled = ord.filled /\ row.by = ord.by
        /\ row.state = "CANCELLED" /\ row.inst = ord.inst /\ row.side = ord.side
  BY <1>2 DEF Order
<1>5. row \in Order
  <2>1. "CANCELLED" \in OrderState
    BY DEF OrderState
  <2> HIDE DEF ord
  <2> QED
    BY <1>2, <2>1 DEF Order
<1>6. db' = [db EXCEPT !.orders = s]
  BY <1>1
<1> HIDE DEF row
<1>7. OrderSound(row)
  BY <1>1, <1>2, <1>3, <1>4 DEF OrderSound
<1>8. Moved(ord, row)
  BY <1>1, <1>3, <1>4 DEF Moved
<1>9. /\ s \in Seq(Order) /\ DOMAIN s = DOMAIN db.orders
      /\ \A p \in DOMAIN s : OrderSound(s[p])
      /\ \A i \in Instruments : FilledFor(s, i) = FilledFor(db.orders, i)
  BY <1>1, <1>4, <1>5, <1>7, ReplaceOrder
<1>10. \A p \in DOMAIN db.orders : Moved(db.orders[p], s[p])
  BY <1>8 DEF Moved
<1> HIDE DEF s
<1>11. DbInv(db') /\ db'.orders = s /\ db'.kill = db.kill
  <2>1. /\ DbInv([db EXCEPT !.orders = s])
        /\ [db EXCEPT !.orders = s].orders = s
        /\ [db EXCEPT !.orders = s].kill = db.kill
    BY <1>1, <1>9, WithOrders
  <2> QED
    BY <2>1, <1>6
<1>12. IInv'
  BY <1>1, <1>11, CommitKeeps DEF IInv
<1> QED
  BY <1>9, <1>10, <1>11, <1>12 DEF OrdersEvolve, HaltStep

(* Steps that leave the orders alone: the kill switch and the calendar. *)
LEMMA KillAndDaySteps ==
    ASSUME IInv,
           \/ \E i \in Universe, p \in Prices : CandleFails(i, p)
           \/ TripKillSwitch \/ ResetKillSwitch \/ NewDay
    PROVE  IInv' /\ OrdersEvolve /\ HaltStep
<1>1. DbInv(db) /\ db.kill \in KillSwitchRow
  BY DEF IInv, DbInv, Database
<1>2. ASSUME NEW i \in Universe, NEW p \in Prices, CandleFails(i, p)
      PROVE  IInv' /\ OrdersEvolve /\ HaltStep
  <2>1. /\ ~tx.active /\ tx' = tx /\ ltp' = Quoted(i, p)
        /\ db' = [db EXCEPT !.kill = RecordError(db.kill)]
    BY <1>2 DEF CandleFails, Unlocked
  <2>2. RecordError(db.kill) \in KillSwitchRow
          /\ (db.kill.tripped => RecordError(db.kill).tripped)
    BY <1>1, KillRows
  <2>3. DbInv(db') /\ db'.orders = db.orders /\ db'.kill = RecordError(db.kill)
    BY <2>1, <2>2, <1>1, WithKill
  <2>4. IInv'
    BY <2>1, <2>3, QuotedType, CommitKeeps
  <2> QED
    BY <2>2, <2>3, <2>4 DEF OrdersEvolve, HaltStep, Moved
<1>3. CASE TripKillSwitch
  <2>1. /\ ~tx.active /\ tx' = tx /\ ltp' = ltp /\ ~db.kill.tripped
        /\ db' = [db EXCEPT !.kill = Trip(db.kill)]
    BY <1>3 DEF TripKillSwitch, Unlocked
  <2>2. DbInv(db') /\ db'.orders = db.orders
    BY <2>1, <1>1, KillRows, WithKill
  <2>3. IInv'
    BY <2>1, <2>2, CommitKeeps DEF IInv
  <2> QED
    BY <2>1, <2>2, <2>3 DEF OrdersEvolve, HaltStep, Moved
<1>4. CASE ResetKillSwitch
  <2>1. /\ ~tx.active /\ tx' = tx /\ ltp' = ltp
        /\ db' = [db EXCEPT !.kill = Reset(db.kill)]
    BY <1>4 DEF ResetKillSwitch, Unlocked
  <2>2. DbInv(db') /\ db'.orders = db.orders
    BY <2>1, <1>1, KillRows, WithKill
  <2>3. IInv'
    BY <2>1, <2>2, CommitKeeps DEF IInv
  <2> QED
    BY <1>4, <2>2, <2>3 DEF OrdersEvolve, HaltStep, Moved
<1>5. CASE NewDay
  <2>1. /\ ~tx.active /\ tx' = tx /\ ltp' = ltp /\ db' = [db EXCEPT !.dayPnl = 0]
    BY <1>5 DEF NewDay, Unlocked
  <2>2. DbInv(db') /\ db'.orders = db.orders /\ db'.kill = db.kill
    BY <2>1, <1>1, WithDayPnl
  <2>3. IInv'
    BY <2>1, <2>2, CommitKeeps DEF IInv
  <2> QED
    BY <2>2, <2>3 DEF OrdersEvolve, HaltStep, Moved
<1> QED
  BY <1>2, <1>3, <1>4, <1>5

(* A crash at any point and the restart that reconciles. *)
LEMMA CrashRestartStep ==
    ASSUME IInv, CrashRestart
    PROVE  IInv' /\ OrdersEvolve /\ HaltStep
<1>1. DbInv(db)
  BY DEF IInv
<1>2. db' = db /\ tx' = Idle /\ ltp' = [i \in Instruments |-> NoQuote]
  BY <1>1, ReconcileNothing DEF CrashRestart
<1>3. IInv'
  BY <1>1, <1>2, IdleType, EmptyDbInv DEF IInv
<1> QED
  BY <1>2, <1>3 DEF OrdersEvolve, HaltStep, Moved

(***************************************************************************)
(* Every step keeps the invariant, moves orders only forward and respects  *)
(* a halt.                                                                 *)
(***************************************************************************)
LEMMA NextStep ==
    ASSUME IInv, [Next]_vars
    PROVE  IInv' /\ OrdersEvolve /\ HaltStep
<1>1. ASSUME NEW i \in Universe, NEW p \in Prices, Candle(i, p)
      PROVE  IInv' /\ OrdersEvolve /\ HaltStep
  <2>1. ~tx.active /\ tx' = tx /\ db' = db /\ ltp' = Quoted(i, p) /\ DbInv(db)
    BY <1>1 DEF Candle, Unlocked, IInv
  <2>2. IInv'
    BY <2>1, QuotedType, CommitKeeps
  <2> QED
    BY <2>1, <2>2 DEF OrdersEvolve, HaltStep, Moved
<1>2. ASSUME NEW i \in Universe, NEW p \in Prices, NEW dir \in Directions,
             CandleWithSignal(i, p, dir)
      PROVE  IInv' /\ OrdersEvolve /\ HaltStep
  BY <1>2, CandleWithSignalStep
<1>3. ASSUME NEW i \in Instruments, NEW side \in Side, NEW qty \in CliQtys,
             NEW quote \in Prices \cup {NoQuote},
             \/ CliMarketOrder(i, side, qty, quote)
             \/ \E p \in Prices : CliOrder(i, side, "LIMIT", p, qty, quote)
      PROVE  IInv' /\ OrdersEvolve /\ HaltStep
  <2>1. Prices \subseteq Nat
    BY PaperAssumption
  <2>2. CASE CliMarketOrder(i, side, qty, quote)
    <3>1. CliOrder(i, side, "MARKET", 0, qty, quote)
      BY <2>2 DEF CliMarketOrder
    <3> QED
      BY <3>1, CliOrderStep
  <2>3. ASSUME NEW p \in Prices, CliOrder(i, side, "LIMIT", p, qty, quote)
        PROVE  IInv' /\ OrdersEvolve /\ HaltStep
    <3>1. p \in Nat
      BY <2>1
    <3> QED
      BY <3>1, <2>3, CliOrderStep
  <2> QED
    BY <2>2, <2>3, <1>3
<1>4. CASE UNCHANGED vars
  <2>1. db' = db /\ tx' = tx /\ ltp' = ltp
    BY <1>4 DEF vars
  <2>2. IInv'
    BY <2>1 DEF IInv, TickInv
  <2> QED
    BY <2>1, <2>2 DEF OrdersEvolve, HaltStep, Moved
<1>5. CASE Next
  BY <1>1, <1>2, <1>3, <1>5, KillAndDaySteps, TickBeginStep, TickOrderStep, TickEndStep,
     CancelOrderStep, CrashRestartStep DEF Next
<1> QED
  BY <1>4, <1>5

(* A fresh database, before the first candle. *)
LEMMA InitInv == Init => IInv
<1> SUFFICES ASSUME Init PROVE IInv
  OBVIOUS
<1>1. db = EmptyDb /\ tx = Idle /\ ltp = [i \in Instruments |-> NoQuote]
  BY DEF Init
<1> QED
  BY <1>1, EmptyDbInv, IdleType DEF IInv

(***************************************************************************)
(* The inductive invariant holds in every reachable state.                 *)
(***************************************************************************)
THEOREM Invariance == Spec => []IInv
<1>1. Init => IInv
  BY InitInv
<1>2. IInv /\ [Next]_vars => IInv'
  BY NextStep
<1> QED
  BY <1>1, <1>2, PTL DEF Spec

(***************************************************************************)
(* Type correctness of the paper-trading process and its database.         *)
(***************************************************************************)
THEOREM TypeCorrect == Spec => []TypeOK
<1>1. IInv => TypeOK
  BY DEF IInv, TickInv, TypeOK, DbInv
<1> QED
  BY <1>1, Invariance, PTL

(***************************************************************************)
(* The account, the positions and the trades always agree, for any number  *)
(* of orders, fills, instruments and prices.                               *)
(***************************************************************************)
THEOREM LedgerCorrect == Spec => []LedgerMatchesTrades
<1>1. IInv => LedgerMatchesTrades
  BY DEF IInv, DbInv, LedgerMatchesTrades
<1> QED
  BY <1>1, Invariance, PTL

(***************************************************************************)
(* No money appears or vanishes, however many positions the cash is        *)
(* spread over.                                                            *)
(***************************************************************************)
THEOREM BooksCorrect == Spec => []BooksBalance
<1>1. IInv => BooksBalance
  BY DEF IInv, DbInv, BooksBalance
<1> QED
  BY <1>1, Invariance, PTL

(***************************************************************************)
(* Every position is what the order table says was filled, for any number  *)
(* of orders.                                                              *)
(***************************************************************************)
THEOREM PositionsCorrect == Spec => []PositionMatchesOrders
<1>1. IInv => PositionMatchesOrders
  BY DEF IInv, DbInv, OrdersMatch, PositionMatchesOrders
<1> QED
  BY <1>1, Invariance, PTL

(***************************************************************************)
(* The paper account is never overdrawn.                                   *)
(***************************************************************************)
THEOREM Solvent == Spec => []CashNeverNegative
<1>1. IInv => CashNeverNegative
  BY DEF IInv, DbInv, CashNeverNegative
<1> QED
  BY <1>1, Invariance, PTL

(***************************************************************************)
(* The state of an order always agrees with its filled quantity, and no    *)
(* order is ever committed half-way through place_order.                   *)
(***************************************************************************)
THEOREM OrdersCorrect == Spec => []OrdersSound
<1>1. IInv => OrdersSound
  BY DEF IInv, DbInv, OrdersSound
<1> QED
  BY <1>1, Invariance, PTL

(***************************************************************************)
(* A tripped kill switch stays tripped until a human resets it, and no     *)
(* signal becomes an order meanwhile.                                      *)
(***************************************************************************)
THEOREM HaltCorrect == Spec => HaltHolds
<1>1. IInv /\ [Next]_vars => [HaltStep]_vars
  BY NextStep
<1> QED
  BY <1>1, Invariance, PTL DEF Spec, HaltHolds

-----------------------------------------------------------------------------
(***************************************************************************)
(* Long-only trading.  What keeps a position from being sold twice is that *)
(* no sale ever rests: an EXIT fills whole in the transaction that places  *)
(* it, so what a tick retries are purchases.                               *)
(***************************************************************************)
NeverShort(d) ==
    /\ \A i \in Instruments : d.pos[i].qty >= 0
    /\ \A o \in DOMAIN d.orders : d.orders[o].side = "SELL" => d.orders[o].state = "FILLED"

LongInv == IInv /\ NeverShort(db) /\ NeverShort(tx.db)

(* An order's progress and its position's are the same. *)
LEMMA PositionMoves ==
    ASSUME NEW d, DbInv(d), NEW e, DbInv(e), NEW o \in DOMAIN d.orders,
           OnlyMoved(d.orders, e.orders, o), NEW i \in Instruments
    PROVE  /\ e.orders[o].side = d.orders[o].side
           /\ e.orders[o].filled - d.orders[o].filled \in Nat
           /\ e.pos[i].qty = d.pos[i].qty
                + (IF i = d.orders[o].inst
                   THEN Signed(d.orders[o].side, e.orders[o].filled - d.orders[o].filled)
                   ELSE 0)
<1> DEFINE row == e.orders[o]
<1>1. d.orders \in Seq(Order) /\ e.orders \in Seq(Order)
  BY DEF DbInv, Database
<1>2. /\ DOMAIN e.orders = DOMAIN d.orders
      /\ \A p \in DOMAIN d.orders \ {o} : e.orders[p] = d.orders[p]
      /\ Moved(d.orders[o], row)
  BY DEF OnlyMoved
<1>3. d.orders[o] \in Order /\ row \in Order
  BY <1>1, <1>2, ElementOfSeq
<1>4. d.orders[o].filled \in Nat /\ row.filled \in Nat
  BY <1>3 DEF Order
<1>5. row.inst = d.orders[o].inst /\ row.side = d.orders[o].side
        /\ row.filled >= d.orders[o].filled
  BY <1>2, <1>4 DEF Moved
<1>6. e.orders = [d.orders EXCEPT ![o] = row]
  <2>1. d.orders \in [1..Len(d.orders) -> Order] /\ e.orders \in [1..Len(e.orders) -> Order]
    BY <1>1, LenProperties
  <2> QED
    BY <2>1, <1>2
<1> HIDE DEF row
<1>7. FilledFor(e.orders, i) = FilledFor(d.orders, i)
        + (IF i = d.orders[o].inst THEN Signed(row.side, row.filled - d.orders[o].filled) ELSE 0)
  BY <1>1, <1>3, <1>5, <1>6, OrderProgress
<1>8. e.pos[i].qty = FilledFor(e.orders, i) /\ d.pos[i].qty = FilledFor(d.orders, i)
  BY DEF DbInv, OrdersMatch
<1>9. row.filled - d.orders[o].filled \in Nat
  BY <1>4, <1>5
<1> QED
  BY <1>5, <1>7, <1>8, <1>9 DEF row

(* A sale at the market has no cash to wait for. *)
LEMMA SaleFillsWhole ==
    ASSUME NEW d, DbInv(d), NEW o \in DOMAIN d.orders, d.orders[o].side = "SELL",
           d.orders[o].type = "MARKET", d.orders[o].filled = 0, NEW quote \in Prices
    PROVE  TryFill(d, o, quote).orders[o].state = "FILLED"
<1> DEFINE ord == d.orders[o]
           price == ApplySlippage(quote, "SELL")
           e == ExecuteFill(d, o, ord.qty, price)
<1>1. d \in Database /\ ord \in Order /\ o \in DOMAIN d.orders
  BY ElementOfSeq DEF DbInv, Database
<1>2. ord.qty \in Nat \ {0} /\ ord.filled = 0
  BY <1>1 DEF Order
<1>3. quote # NoQuote
  BY PaperAssumption
<1>4. TryFill(d, o, quote) = e
  <2>1. ~(ord.filled >= ord.qty \/ quote = NoQuote \/ ~Marketable(ord, quote))
    BY <1>2, <1>3 DEF Marketable
  <2>2. FillQty(d, ord, price) = ord.qty
    BY <1>2 DEF FillQty
  <2> QED
    BY <1>2, <2>1, <2>2 DEF TryFill
<1>5. e.orders = [d.orders EXCEPT ![o] = Progressed(ord, ord.qty)]
  <2> DEFINE net == NetAmount(ord.side, price, ord.qty)
  <2>1. /\ e.cash = d.cash - Signed(ord.side, net)
        /\ e.pos = [d.pos EXCEPT ![ord.inst] =
                      ApplyFill(d.pos[ord.inst], ord.side, ord.qty, net)]
        /\ e.orders = [d.orders EXCEPT ![o] = Progressed(ord, ord.qty)]
        /\ e.trades = AddTrade(d.trades, ord.inst, ord.side, ord.qty, net)
        /\ e.dayPnl = d.dayPnl + Realizes(d.pos[ord.inst], ord.side, ord.qty, net)
        /\ e.kill = d.kill
        /\ (/\ e.cash \in Int /\ e.pos \in [Instruments -> Position]
            /\ e.orders \in Seq(Order) /\ e.trades \in Trades
            /\ e.dayPnl \in Int /\ e.kill \in KillSwitchRow)
           => e \in Database
    BY <1>1, ExecuteFillFields, Zenon
  <2> HIDE DEF e, net
  <2> QED
    BY <2>1
<1>6. Progressed(ord, ord.qty).state = "FILLED"
  BY <1>1, <1>2 DEF Progressed, Order
<1> HIDE DEF e
<1> QED
  BY <1>4, <1>5, <1>6

(* Retrying a purchase makes no position short. *)
LEMMA PurchaseStaysLong ==
    ASSUME NEW d, DbInv(d), NeverShort(d), NEW o \in DOMAIN d.orders,
           d.orders[o].state \in {"OPEN", "PARTIALLY_FILLED"},
           NEW quote \in Prices \cup {NoQuote}
    PROVE  NeverShort(TryFill(d, o, quote))
<1> DEFINE e == TryFill(d, o, quote)
<1>1. DbInv(e) /\ OnlyMoved(d.orders, e.orders, o)
  BY TryFillKeeps
<1> HIDE DEF e
<1>2. d.orders[o].side # "SELL"
  BY DEF NeverShort
<1>3. d.orders[o].side = "BUY"
  <2>1. d.orders[o] \in Order
    BY ElementOfSeq DEF DbInv, Database
  <2> QED
    BY <1>2, <2>1 DEF Order, Side
<1>4. ASSUME NEW i \in Instruments PROVE e.pos[i].qty >= 0
  <2>1. d.pos[i].qty >= 0 /\ d.pos[i].qty \in Int
    BY DEF NeverShort, DbInv, Database, Position
  <2>2. /\ e.orders[o].filled - d.orders[o].filled \in Nat
        /\ e.pos[i].qty = d.pos[i].qty
             + (IF i = d.orders[o].inst
                THEN Signed("BUY", e.orders[o].filled - d.orders[o].filled) ELSE 0)
    BY <1>1, <1>3, PositionMoves
  <2> QED
    BY <2>1, <2>2 DEF Signed
<1>5. \A p \in DOMAIN e.orders : e.orders[p].side = "SELL" => e.orders[p].state = "FILLED"
  <2>1. e.orders[o].side = "BUY"
    BY <1>1, <1>3 DEF OnlyMoved, Moved
  <2> QED
    BY <2>1, <1>1 DEF OnlyMoved, NeverShort
<1>6. NeverShort(e)
  BY <1>4, <1>5 DEF NeverShort
<1> QED
  BY <1>6 DEF e

(* Placing a purchase, or the sale of at most what is held. *)
LEMMA PlacedStaysLong ==
    ASSUME NEW d, DbInv(d), NeverShort(d), NEW ord \in Order, ord.state = "OPEN",
           ord.filled = 0, ord.type = "MARKET", NEW quote \in Prices,
           ord.side = "SELL" => ord.qty <= d.pos[ord.inst].qty
    PROVE  NeverShort(PlaceOrder(d, ord, quote))
<1> DEFINE s == Append(d.orders, ord)
           n == Len(d.orders) + 1
           f == [d EXCEPT !.orders = s]
           e == TryFill(f, n, quote)
<1>1. d.orders \in Seq(Order) /\ d.pos \in [Instruments -> Position]
  BY DEF DbInv, Database
<1>2. Len(d.orders) \in Nat /\ DOMAIN d.orders = 1..Len(d.orders)
  BY <1>1, LenProperties
<1>3. s \in Seq(Order) /\ Len(s) = n /\ s[n] = ord
        /\ \A p \in 1..Len(d.orders) : s[p] = d.orders[p]
  BY <1>1, AppendProperties
<1>4. DOMAIN s = DOMAIN d.orders \cup {n} /\ n \notin DOMAIN d.orders
  BY <1>2, <1>3, LenProperties
<1>5. ord.qty \in Nat \ {0} /\ ord.side \in Side /\ ord.inst \in Instruments
  BY DEF Order
<1>6. OrderSound(ord)
  BY <1>5 DEF OrderSound
<1>7. \A i \in Instruments : FilledFor(s, i) = FilledFor(d.orders, i)
  BY <1>1, FilledAppended, OrderFills
<1>8. PlaceOrder(d, ord, quote) = e
  BY DEF PlaceOrder
<1> HIDE DEF s, n
<1>9. \A o \in DOMAIN s : OrderSound(s[o])
  BY <1>2, <1>3, <1>4, <1>6 DEF DbInv
<1>10. DbInv(f) /\ f.orders = s /\ f.pos = d.pos
  BY <1>3, <1>7, <1>9, WithOrders
<1> HIDE DEF f
<1>11. n \in DOMAIN f.orders /\ f.orders[n] = ord
  BY <1>3, <1>4, <1>10
<1>12. DbInv(e) /\ OnlyMoved(f.orders, e.orders, n)
  BY <1>10, <1>11, TryFillKeeps
<1>13. ord.side = "SELL" => e.orders[n].state = "FILLED"
  BY <1>10, <1>11, SaleFillsWhole
<1> HIDE DEF e
<1>14. e.orders[n] \in Order /\ OrderSound(e.orders[n]) /\ n \in DOMAIN e.orders
  BY <1>11, <1>12, ElementOfSeq DEF DbInv, Database, OnlyMoved
<1>15. e.orders[n].qty = ord.qty /\ e.orders[n].side = ord.side
  BY <1>11, <1>12 DEF OnlyMoved, Moved
<1>16. e.orders[n].filled \in Nat
  BY <1>14 DEF Order
<1>17. ord.side = "SELL" => e.orders[n].filled = ord.qty
  BY <1>13, <1>14, <1>15, <1>16 DEF OrderSound
<1>18. ASSUME NEW i \in Instruments PROVE e.pos[i].qty >= 0
  <2>1. d.pos[i].qty >= 0 /\ d.pos[i].qty \in Int
    BY <1>1 DEF NeverShort, Position
  <2>2. e.pos[i].qty = d.pos[i].qty
          + (IF i = ord.inst THEN Signed(ord.side, e.orders[n].filled - 0) ELSE 0)
    BY <1>10, <1>11, <1>12, PositionMoves
  <2>3. CASE ord.side = "SELL"
    BY <2>1, <2>2, <2>3, <1>5, <1>17 DEF Signed
  <2>4. CASE ord.side = "BUY"
    BY <2>1, <2>2, <2>4, <1>16 DEF Signed
  <2> QED
    BY <2>3, <2>4, <1>5 DEF Side
<1>19. \A p \in DOMAIN e.orders : e.orders[p].side = "SELL" => e.orders[p].state = "FILLED"
  <2>1. \A p \in DOMAIN d.orders : e.orders[p] = d.orders[p]
    BY <1>2, <1>3, <1>4, <1>10, <1>12 DEF OnlyMoved
  <2>2. DOMAIN e.orders = DOMAIN d.orders \cup {n}
    BY <1>4, <1>10, <1>12 DEF OnlyMoved
  <2> QED
    BY <2>1, <2>2, <1>13, <1>15 DEF NeverShort
<1> QED
  BY <1>8, <1>18, <1>19 DEF NeverShort

(* A step keeps every position of a long-only book at or above zero. *)
LEMMA LongStep ==
    ASSUME Directions \subseteq {"LONG", "EXIT"}, CliQtys = {}, LongInv, [Next]_vars
    PROVE  LongInv'
<1>1. IInv' /\ IInv /\ NeverShort(db) /\ NeverShort(tx.db) /\ DbInv(db)
  BY NextStep DEF LongInv, IInv
<1>2. NeverShort(EmptyDb)
  BY DEF NeverShort, EmptyDb, FlatPosition
<1>3. Idle.db = EmptyDb
  BY IdleType
<1>4. ASSUME NEW e, NeverShort(e), db' = e, tx' = tx \/ tx' = Idle PROVE LongInv'
  BY <1>1, <1>2, <1>3, <1>4 DEF LongInv
<1>5. ASSUME db'.pos = db.pos, db'.orders = db.orders, tx' = tx PROVE LongInv'
  <2>1. NeverShort(db')
    BY <1>1, <1>5 DEF NeverShort
  <2> QED
    BY <2>1, <1>4, <1>5
<1>6. ASSUME NEW i \in Universe, NEW p \in Prices, NEW dir \in Directions,
             CandleWithSignal(i, p, dir)
      PROVE  LongInv'
  <2> DEFINE q == Quoted(i, p)
             v == Verdict(db, q, i, p, dir)
             ord == NewOrder(i, v.side, "MARKET", 0, v.qty, "SIGNAL")
             e == PlaceOrder(db, ord, q[i])
  <2>1. q[i] = p /\ i \in Instruments
    BY <1>1, QuotedType, PaperAssumption
  <2>2. ltp' = q /\ tx' = tx
    BY <1>6 DEF CandleWithSignal
  <2>3. db' = IF v.ok THEN [e EXCEPT !.kill = RecordSuccess(@)] ELSE db
    BY <1>6, <2>2 DEF CandleWithSignal, ProcessSignal
  <2>4. CASE ~v.ok
    BY <2>2, <2>3, <2>4, <1>5
  <2>5. CASE v.ok
    <3> DEFINE c == RiskContext(db, q, i)
    <3>1. c.posQty = db.pos[i].qty
      BY DEF RiskContext
    <3>2. db.pos[i].qty \in Nat
      <4>1. db.pos[i].qty \in Int
        BY <1>1, <2>1 DEF DbInv, Database, Position
      <4> QED
        BY <1>1, <2>1, <4>1 DEF NeverShort
    <3>3. v = Evaluate(dir, p, c)
      BY DEF Verdict
    <3>4. dir \in Direction /\ dir \in {"LONG", "EXIT"}
      BY PaperAssumption
    <3> HIDE DEF c, v, q
    <3>5. v.side \in Side /\ v.qty \in Nat \ {0}
      BY <3>1, <3>2, <3>3, <3>4, <2>5, ApprovalType
    <3>6. v.side = "BUY" \/ v.qty = db.pos[i].qty
      BY <3>1, <3>2, <3>3, <3>4, <2>5, ApprovedLongOnly
    <3>7. ord \in Order /\ ord.state = "OPEN" /\ ord.filled = 0
      BY <3>5, <2>1, NewOrderType
    <3>8. ord.type = "MARKET" /\ ord.side = v.side /\ ord.qty = v.qty /\ ord.inst = i
      BY DEF NewOrder
    <3> HIDE DEF ord
    <3>9. ord.side = "SELL" => ord.qty <= db.pos[ord.inst].qty
      BY <3>2, <3>6, <3>8
    <3>10. NeverShort(e) /\ DbInv(e)
      BY <1>1, <2>1, <3>7, <3>8, <3>9, PlacedStaysLong, PlaceOrderKeeps
    <3> HIDE DEF e
    <3>11. db'.pos = e.pos /\ db'.orders = e.orders
      BY <2>3, <2>5, <3>10 DEF DbInv, Database
    <3>12. NeverShort(db')
      BY <3>10, <3>11 DEF NeverShort
    <3> QED
      BY <3>12, <2>2, <1>4
  <2> QED
    BY <2>4, <2>5
<1>7. ASSUME NEW o, TickOrder(o) PROVE LongInv'
  <2>1. /\ tx.active /\ o \in tx.todo /\ db' = db
        /\ tx' = [tx EXCEPT !.db = TryFill(tx.db, o, ltp[tx.db.orders[o].inst]),
                            !.todo = tx.todo \ {o}]
    BY <1>7 DEF TickOrder
  <2>2. /\ DbInv(tx.db) /\ o \in DOMAIN tx.db.orders
        /\ tx.db.orders[o].state \in {"OPEN", "PARTIALLY_FILLED"}
    BY <1>1, <2>1 DEF IInv, TickInv
  <2>3. ltp[tx.db.orders[o].inst] \in Prices \cup {NoQuote}
    <3>1. tx.db.orders[o] \in Order
      BY <2>2, ElementOfSeq DEF DbInv, Database
    <3>2. tx.db.orders[o].inst \in Instruments
      BY <3>1 DEF Order
    <3> QED
      BY <3>2, <1>1 DEF IInv
  <2>4. NeverShort(TryFill(tx.db, o, ltp[tx.db.orders[o].inst]))
    BY <1>1, <2>2, <2>3, PurchaseStaysLong
  <2>5. tx'.db = TryFill(tx.db, o, ltp[tx.db.orders[o].inst])
    BY <1>1, <2>1 DEF IInv
  <2> QED
    BY <1>1, <2>1, <2>4, <2>5 DEF LongInv
<1>8. CASE TickBegin
  BY <1>1, <1>8 DEF TickBegin, LongInv
<1>9. CASE TickCommit \/ TickFails
  BY <1>1, <1>4, <1>9 DEF TickCommit, TickFails
<1>10. CASE CrashRestart
  BY <1>1, <1>4, <1>10, ReconcileNothing DEF CrashRestart
<1>11. ASSUME NEW o, CancelOrder(o) PROVE LongInv'
  <2>1. /\ o \in DOMAIN db.orders /\ db.orders[o].state \in {"OPEN", "PARTIALLY_FILLED"}
        /\ db' = [db EXCEPT !.orders[o].state = "CANCELLED"] /\ tx' = tx
    BY <1>11 DEF CancelOrder
  <2>2. db.orders[o] \in Order
    BY <1>1, <2>1, ElementOfSeq DEF DbInv, Database
  <2>3. /\ db'.pos = db.pos
        /\ db'.orders = [db.orders EXCEPT ![o] = [db.orders[o] EXCEPT !.state = "CANCELLED"]]
    BY <1>1, <2>1 DEF DbInv, Database
  <2>4. [db.orders[o] EXCEPT !.state = "CANCELLED"].side = db.orders[o].side
    BY <2>2 DEF Order
  <2>5. NeverShort(db')
    BY <1>1, <2>1, <2>3, <2>4 DEF NeverShort
  <2> QED
    BY <2>1, <2>5, <1>4
<1>12. ASSUME NEW i, NEW p, Candle(i, p) \/ CandleFails(i, p) PROVE LongInv'
  BY <1>1, <1>5, <1>12 DEF Candle, CandleFails, DbInv, Database
<1>13. CASE TripKillSwitch \/ ResetKillSwitch \/ NewDay
  BY <1>1, <1>5, <1>13 DEF TripKillSwitch, ResetKillSwitch, NewDay, DbInv, Database
<1>14. CASE UNCHANGED vars
  BY <1>5, <1>14 DEF vars
<1>15. CASE Next
  BY <1>6, <1>7, <1>8, <1>9, <1>10, <1>11, <1>12, <1>13, <1>15 DEF Next
<1> QED
  BY <1>14, <1>15

(***************************************************************************)
(* With strategies that emit only LONG and EXIT, and nobody placing orders *)
(* by hand, no position is ever short, whatever fills partly, rests, is    *)
(* retried, cancelled or lost in a crash.                                  *)
(***************************************************************************)
THEOREM LongOnlyCorrect ==
    ASSUME Directions \subseteq {"LONG", "EXIT"}, CliQtys = {}
    PROVE  Spec => []LongOnlyNeverShort
<1>1. Init => LongInv
  <2>1. NeverShort(EmptyDb)
    BY DEF NeverShort, EmptyDb, FlatPosition
  <2> QED
    BY <2>1, InitInv, IdleType DEF Init, LongInv
<1>2. LongInv /\ [Next]_vars => LongInv'
  BY LongStep
<1>3. LongInv => LongOnlyNeverShort
  BY DEF LongInv, NeverShort, LongOnlyNeverShort
<1> QED
  BY <1>1, <1>2, <1>3, PTL DEF Spec

-----------------------------------------------------------------------------
(***************************************************************************)
(* The orders implement OrderLifecycle.                                    *)
(***************************************************************************)
(***************************************************************************)
(* The paths of ALLOWED_ORDER_TRANSITIONS the paper broker walks.          *)
(***************************************************************************)
LEMMA WidenGrows ==
    ASSUME NEW S, NEW s \in S
    PROVE  s \in Lifecycle!Widen(S) /\ Lifecycle!AllowedFrom(s) \subseteq Lifecycle!Widen(S)
  BY DEF Lifecycle!Widen

(* The transitions of core/enums.py the paper broker composes in a commit. *)
LEMMA Paths ==
    /\ {"OPEN", "PARTIALLY_FILLED", "FILLED", "CANCELLED"} \subseteq Lifecycle!Reach("PENDING_RISK")
    /\ \A s \in {"OPEN", "PARTIALLY_FILLED"} :
          /\ {"PARTIALLY_FILLED", "FILLED", "CANCELLED"} \subseteq Lifecycle!Reach(s)
          /\ s \notin Lifecycle!Terminal
<1> DEFINE W1(s) == Lifecycle!Widen({s})
           W2(s) == Lifecycle!Widen(W1(s))
           W3(s) == Lifecycle!Widen(W2(s))
           W4(s) == Lifecycle!Widen(W3(s))
           W5(s) == Lifecycle!Widen(W4(s))
<1>1. \A s : Lifecycle!Reach(s) = W5(s)
  BY DEF Lifecycle!Reach
<1>2. \A s : s \in W1(s) /\ Lifecycle!AllowedFrom(s) \subseteq W1(s)
  BY WidenGrows
<1>3. \A s : W1(s) \subseteq W2(s) /\ W2(s) \subseteq W3(s)
               /\ W3(s) \subseteq W4(s) /\ W4(s) \subseteq W5(s)
  BY DEF Lifecycle!Widen
<1>4. /\ Lifecycle!AllowedFrom("PENDING_RISK") = {"REJECTED_RISK", "SUBMITTING"}
      /\ Lifecycle!AllowedFrom("SUBMITTING") = {"SUBMITTED", "FAILED"}
      /\ Lifecycle!AllowedFrom("SUBMITTED") = {"OPEN", "REJECTED_BROKER", "FAILED"}
      /\ \A s \in {"OPEN", "PARTIALLY_FILLED"} :
            Lifecycle!AllowedFrom(s) = {"PARTIALLY_FILLED", "FILLED", "CANCELLED", "EXPIRED"}
  BY DEF Lifecycle!AllowedFrom
<1>5. "SUBMITTING" \in W1("PENDING_RISK")
  BY <1>2, <1>4
<1>6. "SUBMITTED" \in W2("PENDING_RISK")
  <2> HIDE DEF W1
  <2> QED
    BY <1>4, <1>5, WidenGrows
<1>7. "OPEN" \in W3("PENDING_RISK")
  <2> HIDE DEF W2
  <2> QED
    BY <1>4, <1>6, WidenGrows
<1>8. /\ "OPEN" \in W4("PENDING_RISK")
      /\ {"PARTIALLY_FILLED", "FILLED", "CANCELLED"} \subseteq W4("PENDING_RISK")
  <2> HIDE DEF W3
  <2> QED
    BY <1>4, <1>7, WidenGrows
<1>9. \A s \in {"OPEN", "PARTIALLY_FILLED"} : s \notin Lifecycle!Terminal
  BY <1>4 DEF Lifecycle!Terminal
<1> HIDE DEF W1, W2, W3, W4, W5
<1>10. \A s \in {"OPEN", "PARTIALLY_FILLED"} :
          {"PARTIALLY_FILLED", "FILLED", "CANCELLED"} \subseteq W1(s)
  BY <1>2, <1>4
<1> QED
  BY <1>1, <1>3, <1>8, <1>9, <1>10

(* A sound order row is a row OrderLifecycle can commit. *)
LEMMA RowSound ==
    ASSUME NEW d, DbInv(d), NEW o \in DOMAIN d.orders
    PROVE  /\ Lifecycle!Sound(Row(d, o))
           /\ Row(d, o).state = d.orders[o].state
           /\ Row(d, o).qty = d.orders[o].qty
           /\ Row(d, o).filled = d.orders[o].filled
           /\ Row(d, o).state \in {"OPEN", "PARTIALLY_FILLED", "FILLED", "CANCELLED"}
<1> DEFINE ord == d.orders[o]
<1>1. ord \in Order /\ OrderSound(ord)
  BY ElementOfSeq DEF DbInv, Database
<1>2. ord.qty \in Nat \ {0} /\ ord.filled \in Nat
  BY <1>1 DEF Order
<1>3. /\ Row(d, o).state = ord.state /\ Row(d, o).qty = ord.qty
      /\ Row(d, o).filled = ord.filled
  BY DEF Row
<1>4. ord.state \in {"OPEN", "PARTIALLY_FILLED", "FILLED", "CANCELLED"}
  BY <1>1 DEF OrderSound
<1>5. Lifecycle!Sound(Row(d, o))
  <2> HIDE DEF ord
  <2> QED
    BY <1>1, <1>2, <1>3 DEF OrderSound, Lifecycle!Sound
<1> QED
  BY <1>3, <1>4, <1>5

(* One commit moves one order as OrderLifecycle allows. *)
LEMMA RowStep ==
    ASSUME IInv, IInv', OrdersEvolve, NEW o \in OrderIds
    PROVE  Lifecycle!Step(Row(db, o), Row(db', o))
<1>0. DbInv(db) /\ DbInv(db')
  BY DEF IInv
<1>1. CASE o \notin DOMAIN db'.orders
  <2>1. o \notin DOMAIN db.orders
    BY <1>1 DEF OrdersEvolve
  <2>2. Row(db', o) = Row(db, o)
    BY <2>1, <1>1 DEF Row
  <2> QED
    BY <2>2 DEF Lifecycle!Step
<1>2. CASE o \in DOMAIN db'.orders /\ o \notin DOMAIN db.orders
  <2>1. Row(db, o) = Lifecycle!Absent
    BY <1>2 DEF Row, Lifecycle!Absent
  <2>2. /\ Lifecycle!Sound(Row(db', o))
        /\ Row(db', o).state \in {"OPEN", "PARTIALLY_FILLED", "FILLED", "CANCELLED"}
    BY <1>0, <1>2, RowSound
  <2>3. Lifecycle!Born(Row(db', o))
    BY <2>2, Paths DEF Lifecycle!Born
  <2> QED
    BY <2>1, <2>3 DEF Lifecycle!Step
<1>3. CASE o \in DOMAIN db.orders
  <2>1. o \in DOMAIN db'.orders /\ Moved(db.orders[o], db'.orders[o])
    BY <1>3 DEF OrdersEvolve
  <2>2. CASE db'.orders[o] = db.orders[o]
    <3>1. Row(db', o) = Row(db, o)
      BY <2>1, <2>2, <1>3 DEF Row
    <3> QED
      BY <3>1 DEF Lifecycle!Step
  <2>3. CASE db'.orders[o] # db.orders[o]
    <3> DEFINE old == Row(db, o)
               new == Row(db', o)
    <3>1. /\ Lifecycle!Sound(new) /\ new.state = db'.orders[o].state
          /\ new.qty = db'.orders[o].qty /\ new.filled = db'.orders[o].filled
      BY <2>1, <1>0, RowSound
    <3>2. /\ old.state = db.orders[o].state
          /\ old.qty = db.orders[o].qty /\ old.filled = db.orders[o].filled
          /\ old.state \in {"OPEN", "PARTIALLY_FILLED", "FILLED", "CANCELLED"}
      BY <1>0, <1>3, RowSound
    <3> HIDE DEF old, new
    <3>3. /\ old.state \in {"OPEN", "PARTIALLY_FILLED"}
          /\ new.qty = old.qty
          /\ new.filled >= old.filled
          /\ new.state \in {"PARTIALLY_FILLED", "FILLED", "CANCELLED"}
      BY <2>1, <2>3, <3>1, <3>2 DEF Moved
    <3>4. new.state \in Lifecycle!Reach(old.state) /\ old.state \notin Lifecycle!Terminal
      BY <3>3, Paths
    <3>5. Lifecycle!Advances(old, new)
      BY <3>1, <3>3, <3>4 DEF Lifecycle!Advances
    <3>6. old # Lifecycle!Absent
      BY <3>2 DEF Lifecycle!Absent
    <3>7. Lifecycle!Step(old, new)
      BY <3>5, <3>6 DEF Lifecycle!Step
    <3> QED
      BY <3>7 DEF old, new
  <2> QED
    BY <2>2, <2>3
<1> QED
  BY <1>1, <1>2, <1>3

(***************************************************************************)
(* PaperTrading implements OrderLifecycle: whatever candles, ticks, manual *)
(* orders, cancellations and crashes do, committed orders only move along  *)
(* the state machine and a terminal order never changes.                   *)
(***************************************************************************)
THEOREM LifecycleRefined == Spec => KeepsLifecycle
<1>1. Init => Lifecycle!Init
  <2> SUFFICES ASSUME Init PROVE Lifecycle!Init
    OBVIOUS
  <2>1. DOMAIN db.orders = {}
    BY EmptySeq, LenProperties DEF Init, EmptyDb
  <2>2. \A o \in OrderIds : Row(db, o) = Lifecycle!Absent
    BY <2>1 DEF Row, Lifecycle!Absent
  <2> QED
    BY <2>2 DEF Lifecycle!Init
<1>2. IInv /\ [Next]_vars => [Lifecycle!Next]_([o \in OrderIds |-> Row(db, o)])
  <2> SUFFICES ASSUME IInv, [Next]_vars PROVE Lifecycle!Next
    OBVIOUS
  <2>1. IInv' /\ OrdersEvolve
    BY NextStep
  <2>2. \A o \in OrderIds : Lifecycle!Step(Row(db, o), Row(db', o))
    BY <2>1, RowStep
  <2> QED
    BY <2>2 DEF Lifecycle!Next
<1> QED
  BY <1>1, <1>2, Invariance, PTL DEF Spec, KeepsLifecycle, Lifecycle!Spec
=============================================================================
