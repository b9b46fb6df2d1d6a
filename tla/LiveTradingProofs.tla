------------------------- MODULE LiveTradingProofs -------------------------
(***************************************************************************)
(* Proofs about LiveTrading, for any instruments, prices, rates, limits    *)
(* and bounds its assumptions admit.                                       *)
(***************************************************************************)
EXTENDS LiveTrading, LedgerProofs

(***************************************************************************)
(* The exchange: how far an order is filled agrees with its status, and a  *)
(* status other than open is final.                                        *)
(***************************************************************************)
ExchangeSound(x) ==
    /\ x.filled <= x.qty
    /\ x.status \in {"open", "cancelled"} => x.filled < x.qty
    /\ x.status = "complete" => x.filled = x.qty
    /\ x.status = "rejected" => x.filled = 0

ExchangeInv(ex) == ex \in Seq(ExchangeOrder) /\ \A k \in DOMAIN ex : ExchangeSound(ex[k])

(***************************************************************************)
(* A committed order row and the exchange order it was acknowledged as.    *)
(* The last two conjuncts need every fill to be booked with the update     *)
(* that reports it, which an answer without average_price prevents.        *)
(***************************************************************************)
Working == {"SUBMITTED", "OPEN", "PARTIALLY_FILLED"}
Done == {"FILLED", "REJECTED_BROKER", "CANCELLED"}

SameOrder(a, b) == a.cid = b.cid /\ a.inst = b.inst /\ a.side = b.side /\ a.qty = b.qty

Booked(ord, x) ==
    /\ ord.state \in Done => ord.state = MapStatus(x) /\ ord.filled = x.filled
    /\ ord.state \in {"SUBMITTED", "OPEN"} => ord.filled = 0
    /\ ord.state = "PARTIALLY_FILLED" => ord.filled \in 1..(ord.qty - 1)

RowInv(ord, x) ==
    /\ SameOrder(ord, x)
    /\ ord.filled <= x.filled
    /\ ord.state \in Working \cup Done
    /\ ~MayOmitAverage => Booked(ord, x)

(***************************************************************************)
(* What every transaction assumes of the database, given the exchange's    *)
(* order book ex, and re-establishes.                                      *)
(***************************************************************************)
BookInv(d, ex) ==
    /\ d \in Database
    /\ \A o \in DOMAIN d.orders :
          d.orders[o].broker \in DOMAIN ex /\ RowInv(d.orders[o], ex[d.orders[o].broker])
    /\ \A o, p \in DOMAIN d.orders : d.orders[o].broker = d.orders[p].broker => o = p
    /\ \A i \in Instruments : d.traded[i] = FilledFor(d.orders, i)
    /\ \A i \in Instruments : CostSigned(d.pos[i])
    /\ \A i \in Instruments \ d.corrected : d.pos[i].qty = d.traded[i]

(***************************************************************************)
(* What a poll may do to an order.                                         *)
(***************************************************************************)
Evolved(old, new) ==
    \/ new = old
    \/ /\ old.state \in Working
       /\ new.qty = old.qty /\ new.filled >= old.filled
       /\ \/ new.state = old.state
          \/ old.state = "SUBMITTED" /\ new.state \in (Working \cup Done) \ {"SUBMITTED"}
          \/ new.state \in {"PARTIALLY_FILLED", "FILLED", "CANCELLED"}

(***************************************************************************)
(* The transaction: an order on its way to the exchange was approved with  *)
(* the switch untripped and is nobody else's; a tick or a startup works on *)
(* a copy that differs from db only in the orders it has polled.           *)
(***************************************************************************)
Kinds == {"idle", "place", "await", "tick", "startup", "down"}
InFlight == tx.kind \in {"place", "await"}
Polling == tx.kind \in {"tick", "startup"}

TxType ==
    /\ tx \in [kind : Kinds, db : Database, todo : SUBSET Nat, order : Order \cup {<<>>},
               tries : Nat, got : Nat]
    /\ tx.got \in 0..Len(exch)
    /\ tx.todo \subseteq DOMAIN tx.db.orders

FlightInv ==
    /\ ~db.kill.tripped
    /\ tx.order \in Order /\ tx.order.filled = 0 /\ tx.order.state = "SUBMITTING"
    /\ tx.tries \in 0..MaxRetries
    /\ tx.got # 0 => /\ SameOrder(tx.order, exch[tx.got])
                     /\ \A o \in DOMAIN db.orders : db.orders[o].broker # tx.got

PollInv ==
    /\ tx.db.kill = db.kill
    /\ DOMAIN tx.db.orders = DOMAIN db.orders
    /\ \A o \in DOMAIN db.orders : Evolved(db.orders[o], tx.db.orders[o])
    /\ \A o \in tx.todo : tx.db.orders[o] = db.orders[o] /\ db.orders[o].state \in Working

IInv ==
    /\ BookInv(db, exch)
    /\ BookInv(tx.db, exch)
    /\ ExchangeInv(exch)
    /\ TxType
    /\ InFlight => FlightInv
    /\ Polling => PollInv
    /\ issued \in Nat /\ faults \in Nat

-----------------------------------------------------------------------------
(* The columns the sums over both order tables read. *)
LEMMA Fills ==
    /\ \A r \in Order : r.filled \in Nat
    /\ \A r \in ExchangeOrder : r.filled \in Nat
  BY DEF Order, ExchangeOrder

(* What one order's progress does to what is filled. *)
LEMMA OrderProgress ==
    ASSUME NEW s \in Seq(Order), NEW o \in DOMAIN s, NEW row \in Order,
           row.inst = s[o].inst, row.side = s[o].side, NEW i
    PROVE  FilledFor([s EXCEPT ![o] = row], i) =
             FilledFor(s, i)
               + (IF i = s[o].inst THEN Signed(row.side, row.filled - s[o].filled) ELSE 0)
  BY FilledUpdated, Fills, SMTT(30)

(* _map_status, status by status. *)
LEMMA Statuses ==
    ASSUME NEW x \in ExchangeOrder
    PROVE  /\ x.status = "complete" => MapStatus(x) = "FILLED"
           /\ x.status = "rejected" => MapStatus(x) = "REJECTED_BROKER"
           /\ x.status = "cancelled" => MapStatus(x) = "CANCELLED"
           /\ x.status = "open" => MapStatus(x) = IF x.filled > 0 THEN "PARTIALLY_FILLED" ELSE "OPEN"
           /\ x.status \in {"open", "complete", "rejected", "cancelled"}
           /\ x.filled \in Nat /\ x.value \in Nat /\ x.qty \in Nat \ {0}
<1>1. /\ x.status \in {"open", "complete", "rejected", "cancelled"}
      /\ x.filled \in Nat /\ x.value \in Nat /\ x.qty \in Nat \ {0}
  BY DEF ExchangeOrder
<1> QED
  BY <1>1 DEF MapStatus

(* What the mapped status says of the fills. *)
LEMMA StatusFills ==
    ASSUME NEW x \in ExchangeOrder, ExchangeSound(x)
    PROVE  /\ MapStatus(x) = "OPEN" => x.filled = 0
           /\ MapStatus(x) = "PARTIALLY_FILLED" => x.filled \in 1..(x.qty - 1)
<1>1. /\ x.status \in {"open", "complete", "rejected", "cancelled"}
      /\ x.filled \in Nat /\ x.qty \in Nat \ {0}
  BY Statuses
<1>2. CASE x.status = "open"
  BY <1>1, <1>2 DEF MapStatus, ExchangeSound
<1>3. CASE x.status # "open"
  BY <1>1, <1>3 DEF MapStatus
<1> QED
  BY <1>2, <1>3

(* The fields of an order row. *)
LEMMA OrderFields ==
    ASSUME NEW r \in Order
    PROVE  /\ r.cid \in Nat /\ r.inst \in Instruments /\ r.side \in Side /\ r.qty \in Nat \ {0}
           /\ r.filled \in Nat /\ r.value \in Nat /\ r.state \in OrderState /\ r.broker \in Nat
  BY DEF Order

(* The fields of the database. *)
LEMMA DbFields ==
    ASSUME NEW d \in Database
    PROVE  /\ d.orders \in Seq(Order) /\ d.pos \in [Instruments -> Position]
           /\ d.traded \in [Instruments -> Int] /\ d.dayPnl \in Int
           /\ d.kill \in KillSwitchRow /\ d.corrected \in SUBSET Instruments
  BY DEF Database

(* The rows of a table of orders. *)
LEMMA OrderRows ==
    ASSUME NEW d \in Database, NEW o \in DOMAIN d.orders
    PROVE  d.orders[o] \in Order /\ o \in Nat
<1>1. d.orders \in Seq(Order)
  BY DbFields
<1> QED
  BY <1>1, ElementOfSeq, LenProperties

(* The exchange's rows. *)
LEMMA ExchangeRows ==
    ASSUME NEW ex, ExchangeInv(ex), NEW k \in DOMAIN ex
    PROVE  ex[k] \in ExchangeOrder /\ ExchangeSound(ex[k]) /\ k \in 1..Len(ex)
<1>1. ex \in Seq(ExchangeOrder)
  BY DEF ExchangeInv
<1> QED
  BY <1>1, ElementOfSeq, LenProperties DEF ExchangeInv

(***************************************************************************)
(* The exchange's order book only grows: orders are added, filled further, *)
(* and final once they are no longer open.                                 *)
(***************************************************************************)
Grows(ex, ey) ==
    \A k \in DOMAIN ex :
       /\ k \in DOMAIN ey
       /\ SameOrder(ex[k], ey[k])
       /\ ex[k].filled <= ey[k].filled
       /\ ex[k].status # "open" => ey[k] = ex[k]

(* The local rows stay true of a book that has grown. *)
LEMMA RowGrows ==
    ASSUME NEW x \in ExchangeOrder, NEW y \in ExchangeOrder, NEW ord \in Order,
           SameOrder(x, y), x.filled <= y.filled, x.status # "open" => y = x,
           RowInv(ord, x)
    PROVE  RowInv(ord, y)
<1>1. x.filled \in Nat /\ y.filled \in Nat /\ ord.filled \in Nat
  BY Fills
<1>2. SameOrder(ord, y)
  BY DEF RowInv, SameOrder
<1>3. ord.filled <= y.filled
  BY <1>1 DEF RowInv
<1>4. ASSUME ~MayOmitAverage PROVE Booked(ord, y)
  <2>1. Booked(ord, x)
    BY <1>4 DEF RowInv
  <2>2. CASE ord.state \in Done
    <3>1. MapStatus(x) \in Done
      BY <2>1, <2>2 DEF Booked
    <3>2. x.status # "open"
      BY <3>1, Statuses DEF Done
    <3> QED
      BY <2>1, <3>2
  <2>3. CASE ord.state \notin Done
    BY <2>1, <2>3 DEF Booked
  <2> QED
    BY <2>2, <2>3
<1> QED
  BY <1>2, <1>3, <1>4 DEF RowInv

(* And so does the database. *)
LEMMA BookGrows ==
    ASSUME NEW d, NEW ex, NEW ey, BookInv(d, ex), ExchangeInv(ex), ExchangeInv(ey),
           Grows(ex, ey)
    PROVE  BookInv(d, ey)
<1>1. ASSUME NEW o \in DOMAIN d.orders
      PROVE  d.orders[o].broker \in DOMAIN ey /\ RowInv(d.orders[o], ey[d.orders[o].broker])
  <2> DEFINE k == d.orders[o].broker
  <2>1. k \in DOMAIN ex /\ RowInv(d.orders[o], ex[k]) /\ d.orders[o] \in Order
    BY OrderRows DEF BookInv
  <2>2. /\ k \in DOMAIN ey /\ SameOrder(ex[k], ey[k]) /\ ex[k].filled <= ey[k].filled
        /\ ex[k].status # "open" => ey[k] = ex[k]
    BY <2>1 DEF Grows
  <2>3. ex[k] \in ExchangeOrder /\ ey[k] \in ExchangeOrder
    BY <2>1, <2>2, ExchangeRows
  <2> HIDE DEF k
  <2>4. RowInv(d.orders[o], ey[k])
    BY <2>1, <2>2, <2>3, RowGrows
  <2> QED
    BY <2>2, <2>4 DEF k
<1> QED
  BY <1>1 DEF BookInv

(* A fresh database is true of any exchange. *)
LEMMA EmptyBook ==
    /\ EmptyDb \in Database
    /\ DOMAIN EmptyDb.orders = {}
    /\ \A ex : BookInv(EmptyDb, ex)
<1>1. FlatPosition \in Position /\ CostSigned(FlatPosition) /\ FlatPosition.qty = 0
  BY DEF FlatPosition, Position, CostSigned
<1>2. ClearRow \in KillSwitchRow
  BY DEF ClearRow, KillSwitchRow
<1>3. <<>> \in Seq(Order) /\ DOMAIN <<>> = {}
  BY EmptySeq, LenProperties
<1>4. EmptyDb \in Database
  BY <1>1, <1>2, <1>3 DEF EmptyDb, Database
<1>5. EmptyDb.orders = <<>>
  BY DEF EmptyDb
<1>6. \A i \in Instruments : /\ EmptyDb.pos[i] = FlatPosition /\ EmptyDb.traded[i] = 0
                             /\ FilledFor(EmptyDb.orders, i) = 0
  BY <1>5, FilledNothing DEF EmptyDb
<1> QED
  BY <1>1, <1>3, <1>4, <1>5, <1>6 DEF BookInv

-----------------------------------------------------------------------------
(***************************************************************************)
(* One order brought forward, with its trade and its position, keeps the   *)
(* books true.                                                             *)
(***************************************************************************)
LEMMA BookUpdated ==
    ASSUME NEW d, NEW ex, BookInv(d, ex), NEW o \in DOMAIN d.orders, NEW row \in Order,
           row.inst = d.orders[o].inst, row.side = d.orders[o].side,
           row.broker = d.orders[o].broker, RowInv(row, ex[row.broker]),
           NEW n \in Int, n = Signed(row.side, row.filled - d.orders[o].filled),
           NEW new \in Position, CostSigned(new), new.qty = d.pos[row.inst].qty + n,
           NEW e \in Database, e.orders = [d.orders EXCEPT ![o] = row],
           e.pos = [d.pos EXCEPT ![row.inst] = new],
           e.traded = [d.traded EXCEPT ![row.inst] = d.traded[row.inst] + n],
           e.corrected = d.corrected
    PROVE  BookInv(e, ex)
<1>1. d \in Database
  BY DEF BookInv
<1>2. /\ d.orders \in Seq(Order) /\ d.pos \in [Instruments -> Position]
      /\ d.traded \in [Instruments -> Int]
  BY <1>1, DbFields
<1>3. DOMAIN e.orders = DOMAIN d.orders /\ e.orders[o] = row
        /\ \A p \in DOMAIN d.orders \ {o} : e.orders[p] = d.orders[p]
  OBVIOUS
<1>4. \A p \in DOMAIN e.orders :
         e.orders[p].broker \in DOMAIN ex /\ RowInv(e.orders[p], ex[e.orders[p].broker])
  <2>1. ASSUME NEW p \in DOMAIN d.orders
        PROVE  d.orders[p].broker \in DOMAIN ex /\ RowInv(d.orders[p], ex[d.orders[p].broker])
    BY DEF BookInv
  <2> QED
    BY <1>3, <2>1
<1>5. \A p \in DOMAIN d.orders : e.orders[p].broker = d.orders[p].broker
  BY <1>3
<1>6. \A p, q \in DOMAIN e.orders : e.orders[p].broker = e.orders[q].broker => p = q
  BY <1>3, <1>5 DEF BookInv
<1>7. row.inst \in Instruments
  BY OrderFields
<1>8. ASSUME NEW i \in Instruments
      PROVE  /\ e.traded[i] = FilledFor(e.orders, i)
             /\ CostSigned(e.pos[i])
             /\ i \notin e.corrected => e.pos[i].qty = e.traded[i]
  <2>1. /\ d.traded[i] = FilledFor(d.orders, i) /\ d.traded[i] \in Int
        /\ CostSigned(d.pos[i])
        /\ i \notin e.corrected => d.pos[i].qty = d.traded[i]
    BY <1>2 DEF BookInv
  <2>2. FilledFor(e.orders, i) = FilledFor(d.orders, i) + (IF i = row.inst THEN n ELSE 0)
    <3>1. FilledFor([d.orders EXCEPT ![o] = row], i) = FilledFor(d.orders, i)
            + (IF i = d.orders[o].inst THEN Signed(row.side, row.filled - d.orders[o].filled)
                                       ELSE 0)
      <4> DEFINE s == d.orders
      <4>1. s \in Seq(Order) /\ o \in DOMAIN s /\ row.inst = s[o].inst /\ row.side = s[o].side
        BY <1>2
      <4> HIDE DEF s
      <4>2. FilledFor([s EXCEPT ![o] = row], i) = FilledFor(s, i)
              + (IF i = s[o].inst THEN Signed(row.side, row.filled - s[o].filled) ELSE 0)
        BY <4>1, OrderProgress
      <4> QED
        BY <4>2 DEF s
    <3> QED
      BY <3>1
  <2>3. CASE i = row.inst
    BY <2>1, <2>2, <2>3, <1>2
  <2>4. CASE i # row.inst
    <3>1. e.traded[i] = d.traded[i] /\ e.pos[i] = d.pos[i]
      BY <2>4, <1>2, <1>7
    <3>2. FilledFor(e.orders, i) = FilledFor(d.orders, i)
      BY <2>1, <2>2, <2>4
    <3> QED
      BY <2>1, <3>1, <3>2
  <2> QED
    BY <2>3, <2>4
<1> QED
  BY <1>4, <1>6, <1>8 DEF BookInv

(***************************************************************************)
(* The fields _apply_order_update writes with a fill, and without one.     *)
(***************************************************************************)
Forwarded(ord, qty, price, state) ==
    [ord EXCEPT !.filled = @ + qty, !.value = @ + price * qty, !.state = state]

WithFill(d, o, qty, price, state) ==
    LET ord == d.orders[o]
        net == NetAmount(ord.side, price, qty)
        pos == d.pos[ord.inst]
    IN  [d EXCEPT !.pos = [d.pos EXCEPT ![ord.inst] = ApplyFill(pos, ord.side, qty, net)],
                  !.traded = [d.traded EXCEPT ![ord.inst] =
                                 d.traded[ord.inst] + Signed(ord.side, qty)],
                  !.dayPnl = d.dayPnl + Realizes(pos, ord.side, qty, net),
                  !.orders = [d.orders EXCEPT ![o] = Forwarded(ord, qty, price, state)]]

LEMMA BookedFields ==
    ASSUME NEW d \in Database, NEW o \in DOMAIN d.orders, NEW qty, NEW price, NEW s
    PROVE  [RecordFill(d, o, qty, price) EXCEPT !.orders[o].state = s]
             = WithFill(d, o, qty, price, s)
<1> DEFINE ord == d.orders[o]
           i == ord.inst
           net == NetAmount(ord.side, price, qty)
           pos == d.pos[ord.inst]
           new == ApplyFill(pos, ord.side, qty, net)
           more == Signed(ord.side, qty)
           won == Realizes(pos, ord.side, qty, net)
           worth == price * qty
<1>1. ord \in Order /\ d.orders \in Seq(Order)
  BY OrderRows, DbFields
<1>2. RecordFill(d, o, qty, price) =
        [d EXCEPT !.pos[i] = new, !.traded[i] = @ + more, !.dayPnl = @ + won,
                  !.orders[o].filled = @ + qty, !.orders[o].value = @ + worth]
  BY DEF RecordFill
<1>3. Forwarded(ord, qty, price, s) =
        [ord EXCEPT !.filled = @ + qty, !.value = @ + worth, !.state = s]
  BY DEF Forwarded
<1> DEFINE f == [d EXCEPT !.pos[i] = new, !.traded[i] = @ + more, !.dayPnl = @ + won,
                          !.orders[o].filled = @ + qty, !.orders[o].value = @ + worth]
           half == [ord EXCEPT !.filled = @ + qty, !.value = @ + worth]
           g == [d EXCEPT !.pos = [d.pos EXCEPT ![i] = new],
                          !.traded = [d.traded EXCEPT ![i] = d.traded[i] + more],
                          !.dayPnl = d.dayPnl + won,
                          !.orders = [d.orders EXCEPT ![o] = half]]
<1>4. f = g
  <2> HIDE DEF new, more, won, worth, i
  <2> QED
    BY <1>1, ZenonT(60) DEF Database
<1>5. [half EXCEPT !.state = s] = Forwarded(ord, qty, price, s)
  <2> HIDE DEF ord, worth
  <2> QED
    BY <1>1, <1>3 DEF Order
<1>6. [g EXCEPT !.orders[o].state = s] =
        [d EXCEPT !.pos = [d.pos EXCEPT ![i] = new],
                  !.traded = [d.traded EXCEPT ![i] = d.traded[i] + more],
                  !.dayPnl = d.dayPnl + won,
                  !.orders = [d.orders EXCEPT ![o] = [half EXCEPT !.state = s]]]
  <2> HIDE DEF new, more, won, worth, i, half
  <2> QED
    BY <1>1 DEF Database
<1> QED
  BY <1>2, <1>4, <1>5, <1>6 DEF WithFill

(***************************************************************************)
(* A row that takes over the exchange's status, with the fills if they are *)
(* priced.                                                                 *)
(***************************************************************************)
LEMMA PolledRow ==
    ASSUME NEW ord \in Order, NEW x \in ExchangeOrder, ExchangeSound(x), RowInv(ord, x),
           ord.state \in Working, ~Raises(ord, x),
           NEW row \in Order, SameOrder(row, ord), row.state = MapStatus(x),
           row.filled = x.filled \/ (MayOmitAverage /\ row.filled = ord.filled)
    PROVE  RowInv(row, x) /\ Evolved(ord, row)
<1>1. /\ ord.filled \in Nat /\ row.filled \in Nat /\ x.filled \in Nat
      /\ x.qty \in Nat \ {0} /\ row.qty = x.qty /\ ord.filled <= x.filled
  BY Fills, Statuses DEF RowInv, SameOrder
<1>2. SameOrder(row, x)
  BY DEF SameOrder, RowInv
<1>3. row.filled <= x.filled /\ row.filled >= ord.filled
  BY <1>1
<1>4. MapStatus(x) \in {"OPEN", "PARTIALLY_FILLED", "FILLED", "REJECTED_BROKER", "CANCELLED"}
  BY Statuses
<1>5. ASSUME ~MayOmitAverage PROVE Booked(row, x)
  <2>1. row.filled = x.filled
    BY <1>5
  <2>2. /\ row.state = "OPEN" => x.filled = 0
        /\ row.state = "PARTIALLY_FILLED" => x.filled \in 1..(x.qty - 1)
    BY StatusFills
  <2> QED
    BY <2>1, <2>2, <1>1, <1>4 DEF Booked
<1>6. RowInv(row, x)
  BY <1>2, <1>3, <1>4, <1>5 DEF RowInv, Working, Done
<1>7. Evolved(ord, row)
  <2>1. CASE ord.state = "SUBMITTED"
    BY <2>1, <1>3, <1>4 DEF Evolved, SameOrder, Working, Done
  <2>2. CASE ord.state # "SUBMITTED"
    <3>1. ord.state \in {"OPEN", "PARTIALLY_FILLED"}
      BY <2>2 DEF Working
    <3>2. MapStatus(x) = ord.state \/ MapStatus(x) \in AllowedFrom(ord.state)
      BY <2>2 DEF Raises
    <3>3. AllowedFrom(ord.state) = {"PARTIALLY_FILLED", "FILLED", "CANCELLED", "EXPIRED"}
      BY <3>1 DEF AllowedFrom
    <3>4. \/ row.state = ord.state
          \/ row.state \in {"PARTIALLY_FILLED", "FILLED", "CANCELLED"}
      BY <3>2, <3>3, <1>4
    <3> QED
      BY <3>4, <1>3 DEF Evolved, SameOrder
  <2> QED
    BY <2>1, <2>2
<1> QED
  BY <1>6, <1>7

(***************************************************************************)
(* _apply_order_update on an order that is still working keeps the books   *)
(* true, brings that order forward and touches no other, nor the kill      *)
(* switch.                                                                 *)
(***************************************************************************)
OnlyEvolved(old, new, o) ==
    /\ DOMAIN new = DOMAIN old
    /\ \A p \in DOMAIN old \ {o} : new[p] = old[p]
    /\ Evolved(old[o], new[o])

LEMMA ApplyUpdateKeeps ==
    ASSUME NEW d, NEW ex, BookInv(d, ex), ExchangeInv(ex), NEW o \in DOMAIN d.orders,
           d.orders[o].state \in Working, NEW priced \in Answers,
           ~Raises(d.orders[o], ex[d.orders[o].broker])
    PROVE  LET e == ApplyUpdate(d, o, ex[d.orders[o].broker], priced)
           IN  /\ BookInv(e, ex)
               /\ e.kill = d.kill
               /\ OnlyEvolved(d.orders, e.orders, o)
<1> DEFINE ord == d.orders[o]
           x == ex[ord.broker]
           e == ApplyUpdate(d, o, x, priced)
           s == MapStatus(x)
<1>1. d \in Database /\ ord.broker \in DOMAIN ex /\ RowInv(ord, x)
  BY DEF BookInv
<1>2. ord \in Order /\ x \in ExchangeOrder /\ ExchangeSound(x)
  BY <1>1, OrderRows, ExchangeRows
<1>3. /\ d.orders \in Seq(Order) /\ d.pos \in [Instruments -> Position]
      /\ d.traded \in [Instruments -> Int] /\ d.dayPnl \in Int
      /\ d.kill \in KillSwitchRow /\ d.corrected \in SUBSET Instruments
  BY <1>1, DbFields
<1>4. /\ ord.filled \in Nat /\ ord.value \in Nat /\ ord.inst \in Instruments
      /\ ord.side \in Side /\ x.filled \in Nat /\ x.value \in Nat /\ ord.filled <= x.filled
  BY <1>1, <1>2, OrderFields, Statuses DEF RowInv
<1>5. s \in OrderState
  BY <1>2, Statuses DEF OrderState
<1>6. priced = TRUE \/ MayOmitAverage
  BY LiveAssumption DEF Answers
<1>7. o \in 1..Len(d.orders)
  BY <1>3, LenProperties
<1> DEFINE Claim(z) == BookInv(z, ex) /\ z.kill = d.kill /\ OnlyEvolved(d.orders, z.orders, o)
<1>8. CASE Unchanged(ord, x)
  <2>1. e = d
    BY <1>8 DEF ApplyUpdate
  <2>2. Claim(d)
    BY DEF OnlyEvolved, Evolved
  <2> QED
    BY <2>1, <2>2
<1>9. CASE ~Unchanged(ord, x) /\ ~(x.filled - ord.filled > 0 /\ priced)
  <2> DEFINE row == [ord EXCEPT !.filled = ord.filled, !.value = ord.value, !.state = s]
             g == [d EXCEPT !.orders = [d.orders EXCEPT ![o] = row]]
  <2>1. e = [d EXCEPT !.orders[o].state = s]
    BY <1>9 DEF ApplyUpdate
  <2>2. row = [ord EXCEPT !.state = s]
    <3> HIDE DEF ord, s
    <3> QED
      BY <1>2 DEF Order
  <2>3. e = g
    <3>1. [d EXCEPT !.orders[o].state = s]
            = [d EXCEPT !.orders = [d.orders EXCEPT ![o] = [ord EXCEPT !.state = s]]]
      OBVIOUS
    <3> QED
      BY <2>1, <2>2, <3>1
  <2>4. /\ row \in Order /\ SameOrder(row, ord) /\ row.broker = ord.broker
        /\ row.filled = ord.filled /\ row.state = s
    <3> DEFINE v == ord.value
    <3>1. v \in Nat /\ row = [ord EXCEPT !.filled = ord.filled, !.value = v, !.state = s]
      BY <1>4
    <3> HIDE DEF ord, s, v, row
    <3> QED
      BY <3>1, <1>2, <1>4, <1>5 DEF Order, SameOrder
  <2> HIDE DEF row
  <2>5. row.filled = x.filled \/ (MayOmitAverage /\ row.filled = ord.filled)
    BY <2>4, <1>4, <1>6, <1>9
  <2>6. RowInv(row, x) /\ Evolved(ord, row)
    <3> HIDE DEF ord, x
    <3>1. ord.state \in Working /\ ~Raises(ord, x)
      BY DEF ord, x
    <3> QED
      BY <2>4, <2>5, <3>1, <1>1, <1>2, PolledRow
  <2>7. [d.orders EXCEPT ![o] = row] \in Seq(Order)
    BY <2>4, <1>3, <1>7, ExceptSeq
  <2>8. /\ g \in Database /\ g.orders = [d.orders EXCEPT ![o] = row] /\ g.pos = d.pos
        /\ g.traded = d.traded /\ g.kill = d.kill /\ g.corrected = d.corrected
    BY <2>7, <1>1 DEF Database
  <2> HIDE DEF g
  <2>9. BookInv(g, ex)
    <3> DEFINE new == d.pos[row.inst]
    <3>1. row.inst = ord.inst /\ row.side = ord.side
      BY <2>4 DEF SameOrder
    <3>2. new \in Position /\ CostSigned(new) /\ new.qty \in Int
      BY <3>1, <1>3, <1>4 DEF BookInv, Position
    <3>3. 0 = Signed(row.side, row.filled - ord.filled)
      BY <2>4, <1>4 DEF Signed
    <3>4. g.pos = [d.pos EXCEPT ![row.inst] = new]
      BY <2>8, <1>3
    <3>5. g.traded = [d.traded EXCEPT ![row.inst] = d.traded[row.inst] + 0]
      BY <2>8, <1>3, <1>4, <3>1
    <3>6. new.qty = new.qty + 0
      BY <3>2
    <3>7. RowInv(row, ex[row.broker])
      BY <2>4, <2>6
    <3> QED
      BY <2>4, <2>8, <3>1, <3>2, <3>3, <3>4, <3>5, <3>6, <3>7, BookUpdated, SMTT(30)
  <2>10. OnlyEvolved(d.orders, g.orders, o)
    BY <2>6, <2>8, <1>3 DEF OnlyEvolved
  <2> QED
    BY <2>3, <2>8, <2>9, <2>10
<1>10. CASE ~Unchanged(ord, x) /\ x.filled - ord.filled > 0 /\ priced
  <2> DEFINE n == x.filled - ord.filled
             price == x.value \div x.filled
             net == NetAmount(ord.side, price, n)
             pos == d.pos[ord.inst]
             new == ApplyFill(pos, ord.side, n, net)
             row == Forwarded(ord, n, price, s)
             more == Signed(ord.side, n)
             won == Realizes(pos, ord.side, n, net)
             ps == [d.pos EXCEPT ![ord.inst] = new]
             ts == [d.traded EXCEPT ![ord.inst] = d.traded[ord.inst] + more]
             os == [d.orders EXCEPT ![o] = row]
             g == [d EXCEPT !.pos = ps, !.traded = ts, !.dayPnl = d.dayPnl + won, !.orders = os]
  <2>1. e = [RecordFill(d, o, n, price) EXCEPT !.orders[o].state = s]
    BY <1>10 DEF ApplyUpdate
  <2>2. [RecordFill(d, o, n, price) EXCEPT !.orders[o].state = s] = g
    <3>1. WithFill(d, o, n, price, s) = g
      BY DEF WithFill
    <3> HIDE DEF n, price, s, g
    <3> QED
      BY <3>1, <1>1, BookedFields
  <2>3. n \in Nat \ {0} /\ price \in Nat
    BY <1>4, <1>10
  <2>4. net \in Nat
    <3> HIDE DEF n, price, ord
    <3> QED
      BY <2>3, <1>4, NetAmountType
  <2>5. pos \in Position /\ CostSigned(pos) /\ pos.qty \in Int
    BY <1>3, <1>4 DEF BookInv, Position
  <2>6. /\ new \in Position /\ CostSigned(new) /\ new.qty = pos.qty + more /\ won \in Int
    <3> HIDE DEF n, net, pos, ord
    <3> QED
      BY <2>3, <2>4, <2>5, <1>4, ApplyFillBalances
  <2>7. more \in Int
    <3> HIDE DEF n
    <3> QED
      BY <2>3 DEF Signed
  <2>8. /\ row \in Order /\ SameOrder(row, ord) /\ row.broker = ord.broker
        /\ row.filled = x.filled /\ row.state = s
    <3>1. row = [ord EXCEPT !.filled = ord.filled + n, !.value = ord.value + price * n,
                            !.state = s]
      BY DEF Forwarded
    <3>2. ord.filled + n = x.filled /\ ord.value + price * n \in Nat
      BY <1>4, <2>3
    <3>3. row = [ord EXCEPT !.filled = x.filled, !.value = ord.value + price * n, !.state = s]
      BY <3>1, <3>2
    <3> DEFINE v == ord.value + price * n
    <3> HIDE DEF ord, s, x, v, row
    <3>4. v \in Nat /\ row = [ord EXCEPT !.filled = x.filled, !.value = v, !.state = s]
      BY <3>2, <3>3 DEF v
    <3> QED
      BY <3>4, <1>2, <1>4, <1>5 DEF Order, SameOrder
  <2> HIDE DEF row, new, won, more, net, n, price, pos
  <2>9. RowInv(row, x) /\ Evolved(ord, row)
    <3> HIDE DEF ord, x
    <3>1. ord.state \in Working /\ ~Raises(ord, x)
      BY DEF ord, x
    <3> QED
      BY <2>8, <3>1, <1>1, <1>2, PolledRow
  <2>10. os \in Seq(Order)
    BY <2>8, <1>3, <1>7, ExceptSeq
  <2>11. ps \in [Instruments -> Position] /\ ts \in [Instruments -> Int] /\ d.dayPnl + won \in Int
    BY <2>6, <2>7, <1>3, <1>4, SMTT(30)
  <2> HIDE DEF ps, ts, os
  <2>12. /\ g \in Database /\ g.orders = os /\ g.pos = ps
         /\ g.traded = ts /\ g.kill = d.kill /\ g.corrected = d.corrected
    BY <2>10, <2>11, <1>1 DEF Database
  <2> HIDE DEF g
  <2>13. BookInv(g, ex)
    <3>1. row.inst = ord.inst /\ row.side = ord.side
      BY <2>8 DEF SameOrder
    <3>2. more = Signed(row.side, row.filled - ord.filled)
      BY <3>1, <2>8 DEF more, n
    <3>3. g.pos = [d.pos EXCEPT ![row.inst] = new]
      BY <3>1, <2>12 DEF ps
    <3>4. g.traded = [d.traded EXCEPT ![row.inst] = d.traded[row.inst] + more]
      BY <3>1, <2>12 DEF ts
    <3>5. new.qty = d.pos[row.inst].qty + more
      BY <3>1, <2>6 DEF pos
    <3>6. RowInv(row, ex[row.broker])
      BY <2>8, <2>9
    <3>7. g.orders = [d.orders EXCEPT ![o] = row]
      BY <2>12 DEF os
    <3> QED
      BY <2>6, <2>7, <2>8, <2>12, <3>1, <3>2, <3>3, <3>4, <3>5, <3>6, <3>7, BookUpdated, SMTT(30)
  <2>14. OnlyEvolved(d.orders, g.orders, o)
    BY <2>9, <2>12, <1>3 DEF OnlyEvolved, os
  <2> QED
    BY <2>1, <2>2, <2>12, <2>13, <2>14
<1> QED
  BY <1>8, <1>9, <1>10

-----------------------------------------------------------------------------
(* A change of the kill switch row alone. *)
LEMMA WithKill ==
    ASSUME NEW d, NEW ex, BookInv(d, ex), NEW k \in KillSwitchRow
    PROVE  /\ BookInv([d EXCEPT !.kill = k], ex)
           /\ [d EXCEPT !.kill = k].orders = d.orders
           /\ [d EXCEPT !.kill = k].kill = k
<1> DEFINE e == [d EXCEPT !.kill = k]
<1>1. d \in Database
  BY DEF BookInv
<1>2. /\ e \in Database /\ e.orders = d.orders /\ e.kill = k
      /\ e.pos = d.pos /\ e.traded = d.traded /\ e.corrected = d.corrected
  BY <1>1 DEF Database
<1> HIDE DEF e
<1>3. BookInv(e, ex)
  BY <1>2 DEF BookInv
<1> QED
  BY <1>2, <1>3 DEF e

(* Midnight's reset of the day's P&L leaves everything else alone. *)
LEMMA WithDayPnl ==
    ASSUME NEW d, NEW ex, BookInv(d, ex), NEW n \in Int
    PROVE  /\ BookInv([d EXCEPT !.dayPnl = n], ex)
           /\ [d EXCEPT !.dayPnl = n].orders = d.orders
           /\ [d EXCEPT !.dayPnl = n].kill = d.kill
<1> DEFINE e == [d EXCEPT !.dayPnl = n]
<1>1. d \in Database
  BY DEF BookInv
<1>2. /\ e \in Database /\ e.orders = d.orders /\ e.kill = d.kill
      /\ e.pos = d.pos /\ e.traded = d.traded /\ e.corrected = d.corrected
  BY <1>1 DEF Database
<1> HIDE DEF e
<1>3. BookInv(e, ex)
  BY <1>2 DEF BookInv
<1> QED
  BY <1>2, <1>3 DEF e

(* Startup finds no order without an ack. *)
LEMMA FailNothing ==
    ASSUME NEW d, NEW ex, BookInv(d, ex), ExchangeInv(ex)
    PROVE  FailUnacked(d) = d
<1>1. d \in Database /\ d.orders \in Seq(Order)
  BY DbFields DEF BookInv
<1>2. \A o \in DOMAIN d.orders : d.orders[o].broker # 0
  BY ExchangeRows DEF BookInv
<1>3. d.orders = [o \in DOMAIN d.orders |-> d.orders[o]]
  <2>1. d.orders \in [1..Len(d.orders) -> Order]
    BY <1>1, LenProperties
  <2> QED
    BY <2>1
<1>4. FailUnacked(d) = [d EXCEPT !.orders = d.orders]
  <2>1. [o \in DOMAIN d.orders |->
            IF d.orders[o].state \in {"SUBMITTING", "SUBMITTED"} /\ d.orders[o].broker = 0
            THEN [d.orders[o] EXCEPT !.state = "FAILED"] ELSE d.orders[o]]
        = [o \in DOMAIN d.orders |-> d.orders[o]]
    BY <1>2
  <2> QED
    BY <2>1, <1>3 DEF FailUnacked
<1>5. [d EXCEPT !.orders = d.orders] = d
  BY <1>1 DEF Database
<1> QED
  BY <1>4, <1>5

(***************************************************************************)
(* _reconcile_positions keeps the books true: what it overwrites is marked *)
(* as corrected, and it may trip the kill switch but never resets it.      *)
(***************************************************************************)
LEMMA BrokerWinsKeeps ==
    ASSUME NEW d, BookInv(d, exch), ExchangeInv(exch), NEW avg \in Prices
    PROVE  /\ BookInv(BrokerWins(d, avg), exch)
           /\ BrokerWins(d, avg).orders = d.orders
           /\ d.kill.tripped => BrokerWins(d, avg).kill.tripped
<1> DEFINE differ == {i \in Instruments : BrokerQty(i) # d.pos[i].qty}
           breach == \E i \in differ : Magnitude(BrokerQty(i) - d.pos[i].qty) > KillThreshold
           row(i) == [d.pos[i] EXCEPT !.qty = BrokerQty(i), !.basis = BrokerQty(i) * avg]
           ps == [i \in Instruments |-> IF i \in differ THEN row(i) ELSE d.pos[i]]
           k == IF breach THEN Trip(d.kill) ELSE d.kill
           c == d.corrected \cup differ
           e == [d EXCEPT !.pos = ps, !.corrected = c, !.kill = k]
<1>1. BrokerWins(d, avg) = e
  BY DEF BrokerWins
<1>2. d \in Database
  BY DEF BookInv
<1>3. /\ d.orders \in Seq(Order) /\ d.pos \in [Instruments -> Position]
      /\ d.kill \in KillSwitchRow /\ d.corrected \in SUBSET Instruments
  BY <1>2, DbFields
<1>4. k \in KillSwitchRow /\ (d.kill.tripped => k.tripped)
  <2> HIDE DEF breach
  <2> QED
    BY <1>3, KillRows
<1>5. c \in SUBSET Instruments
  BY <1>3
<1>6. avg \in Nat \ {0}
  BY LiveAssumption
<1>7. ASSUME NEW i \in Instruments
      PROVE  ps[i] \in Position /\ CostSigned(ps[i]) /\ (i \notin differ => ps[i] = d.pos[i])
  <2> DEFINE b == BrokerQty(i)
  <2>1. b \in Int
    BY FilledType, Fills DEF BrokerQty, ExchangeInv
  <2>2. d.pos[i] \in Position /\ CostSigned(d.pos[i])
    BY <1>3 DEF BookInv
  <2>3. row(i) = [d.pos[i] EXCEPT !.qty = b, !.basis = b * avg]
    OBVIOUS
  <2> HIDE DEF b
  <2>4. b * avg \in Int
    BY <2>1, <1>6
  <2>5. /\ [d.pos[i] EXCEPT !.qty = b, !.basis = b * avg] \in Position
        /\ [d.pos[i] EXCEPT !.qty = b, !.basis = b * avg].qty = b
        /\ [d.pos[i] EXCEPT !.qty = b, !.basis = b * avg].basis = b * avg
    BY <2>1, <2>2, <2>4 DEF Position
  <2>6. (b > 0 => b * avg >= 0) /\ (b < 0 => b * avg <= 0) /\ (b = 0 => b * avg = 0)
    BY <2>1, <1>6
  <2>7. CostSigned([d.pos[i] EXCEPT !.qty = b, !.basis = b * avg])
    BY <2>5, <2>6 DEF CostSigned
  <2> HIDE DEF differ
  <2> QED
    BY <2>2, <2>3, <2>5, <2>7
<1>8. ps \in [Instruments -> Position]
  BY <1>7
<1> HIDE DEF ps, k, c, differ
<1>9. /\ e \in Database /\ e.orders = d.orders /\ e.pos = ps /\ e.kill = k
      /\ e.traded = d.traded /\ e.corrected = c
  BY <1>2, <1>4, <1>5, <1>8 DEF Database
<1> HIDE DEF e
<1>10. BookInv(e, exch)
  <2>1. \A i \in Instruments \ c : ps[i] = d.pos[i] /\ i \notin d.corrected
    BY <1>7 DEF c
  <2> QED
    BY <2>1, <1>7, <1>9 DEF BookInv
<1> QED
  BY <1>1, <1>4, <1>9, <1>10

(* Between transactions, and while the process is down. *)
TxRecord == [kind : Kinds, db : Database, todo : SUBSET Nat, order : Order \cup {<<>>},
             tries : Nat, got : Nat]

LEMMA AtRest ==
    /\ Idle \in TxRecord /\ Idle.kind = "idle"
    /\ Down \in TxRecord /\ Down.kind = "down"
    /\ \A t \in {Idle, Down} : t.db = EmptyDb /\ t.todo = {} /\ t.got = 0
  BY EmptyBook DEF Idle, Down, TxRecord, Kinds

(***************************************************************************)
(* What a step does to the committed orders.                               *)
(***************************************************************************)
OrdersEvolve ==
    /\ \A o \in DOMAIN db.orders :
          o \in DOMAIN db'.orders /\ Evolved(db.orders[o], db'.orders[o])
    /\ \A o \in DOMAIN db'.orders \ DOMAIN db.orders :
          db'.orders[o].state = "SUBMITTED" /\ db'.orders[o].filled = 0

Kept == IInv' /\ OrdersEvolve /\ HaltStep

(* A step that ends the transaction, or leaves none open. *)
LEMMA RestKeeps ==
    ASSUME IInv, tx' \in {Idle, Down}, exch' = exch, BookInv(db', exch),
           issued' \in Nat, faults' \in Nat
    PROVE  IInv'
<1>1. /\ tx' \in TxRecord /\ tx'.kind \in {"idle", "down"}
      /\ tx'.db = EmptyDb /\ tx'.todo = {} /\ tx'.got = 0
  BY AtRest
<1>2. BookInv(tx'.db, exch)
  BY <1>1, EmptyBook
<1>3. Len(exch) \in Nat
  BY LenProperties DEF IInv, ExchangeInv
<1>4. TxType'
  BY <1>1, <1>3 DEF TxType, TxRecord
<1>5. ~InFlight' /\ ~Polling'
  BY <1>1 DEF InFlight, Polling
<1> QED
  BY <1>2, <1>4, <1>5 DEF IInv

(* A step of another process, or of a failed handler, while none is open. *)
LEMMA UnlockedKeeps ==
    ASSUME IInv, tx.kind \in {"idle", "down"}, tx' = tx, exch' = exch, BookInv(db', exch),
           issued' \in Nat, faults' \in Nat
    PROVE  IInv'
<1>1. TxType'
  BY DEF IInv, TxType
<1>2. ~InFlight' /\ ~Polling'
  BY DEF InFlight, Polling
<1> QED
  BY <1>1, <1>2 DEF IInv

(* The orders are the same. *)
LEMMA SameOrdersEvolve ==
    ASSUME db'.orders = db.orders
    PROVE  OrdersEvolve
  BY DEF OrdersEvolve, Evolved

(* Steps that only change the kill switch or the day's P&L. *)
LEMMA RowSteps ==
    ASSUME IInv, CandleFails \/ TripKillSwitch \/ ResetKillSwitch \/ NewDay
    PROVE  Kept
<1>1. /\ BookInv(db, exch) /\ db.kill \in KillSwitchRow
      /\ issued \in Nat /\ faults \in Nat
  BY DbFields DEF IInv, BookInv
<1>2. tx.kind \in {"idle", "down"} /\ tx' = tx /\ exch' = exch /\ issued' = issued /\ faults' \in Nat
  BY <1>1, AtRest DEF CandleFails, TripKillSwitch, ResetKillSwitch, NewDay, Unlocked, Fault
<1>3. /\ BookInv(db', exch) /\ db'.orders = db.orders
      /\ db.kill.tripped => db'.kill.tripped \/ ResetKillSwitch
  <2>1. CASE CandleFails
    BY <2>1, <1>1, KillRows, WithKill DEF CandleFails
  <2>2. CASE TripKillSwitch
    BY <2>2, <1>1, KillRows, WithKill DEF TripKillSwitch
  <2>3. CASE ResetKillSwitch
    BY <2>3, <1>1, KillRows, WithKill DEF ResetKillSwitch
  <2>4. CASE NewDay
    BY <2>4, <1>1, WithDayPnl DEF NewDay
  <2> QED
    BY <2>1, <2>2, <2>3, <2>4
<1>4. IInv'
  BY <1>1, <1>2, <1>3, UnlockedKeeps
<1>5. HaltStep
  BY <1>2, <1>3 DEF HaltStep
<1> QED
  BY <1>3, <1>4, <1>5, SameOrdersEvolve DEF Kept

-----------------------------------------------------------------------------
(***************************************************************************)
(* The exchange brings one of its orders forward.                          *)
(***************************************************************************)
LEMMA ExchangeAdvances ==
    ASSUME IInv, NEW x \in DOMAIN exch, exch[x].status = "open",
           NEW y \in ExchangeOrder, ExchangeSound(y), SameOrder(exch[x], y),
           exch[x].filled <= y.filled, exch' = [exch EXCEPT ![x] = y],
           UNCHANGED <<db, tx, issued, faults>>
    PROVE  Kept
<1>1. /\ exch \in Seq(ExchangeOrder) /\ ExchangeInv(exch)
      /\ DOMAIN exch = 1..Len(exch) /\ Len(exch) \in Nat
  BY LenProperties DEF IInv, ExchangeInv
<1>2. /\ exch' \in Seq(ExchangeOrder) /\ Len(exch') = Len(exch)
      /\ DOMAIN exch' = DOMAIN exch /\ exch'[x] = y
      /\ \A k \in DOMAIN exch \ {x} : exch'[k] = exch[k]
  <2>1. exch' \in Seq(ExchangeOrder)
    BY <1>1, ExceptSeq
  <2>2. DOMAIN exch' = DOMAIN exch
    OBVIOUS
  <2>3. Len(exch') = Len(exch)
    BY <1>1, <2>1, <2>2, LenProperties
  <2> QED
    BY <2>1, <2>2, <2>3
<1>3. ExchangeInv(exch')
  BY <1>1, <1>2 DEF ExchangeInv
<1>4. \A k \in DOMAIN exch : exch[k].filled \in Nat
  BY <1>1, ExchangeRows, Fills
<1>5. Grows(exch, exch')
  BY <1>1, <1>2, <1>4 DEF Grows, SameOrder
<1>6. BookInv(db, exch') /\ BookInv(tx.db, exch')
  BY <1>1, <1>3, <1>5, BookGrows DEF IInv
<1>7. TxType'
  BY <1>2 DEF IInv, TxType
<1>8. InFlight' => FlightInv'
  <2> SUFFICES ASSUME InFlight PROVE FlightInv'
    BY DEF InFlight
  <2>1. FlightInv
    BY DEF IInv
  <2>2. ASSUME tx.got # 0 PROVE SameOrder(tx.order, exch'[tx.got])
    <3>1. tx.got \in DOMAIN exch /\ SameOrder(tx.order, exch[tx.got])
      BY <2>1, <2>2, <1>1 DEF IInv, TxType, FlightInv
    <3> QED
      BY <3>1, <1>5 DEF Grows, SameOrder
  <2> QED
    BY <2>1, <2>2 DEF FlightInv
<1>9. Polling' => PollInv'
  BY DEF IInv, Polling, PollInv
<1>10. IInv'
  BY <1>3, <1>6, <1>7, <1>8, <1>9 DEF IInv
<1>11. HaltStep /\ OrdersEvolve
  BY <1>2, SameOrdersEvolve DEF HaltStep
<1> QED
  BY <1>10, <1>11 DEF Kept

(* Its fills, rejections and cancellations do. *)
LEMMA ExchangeSteps ==
    ASSUME IInv, NEW x \in DOMAIN exch,
           ExchangeRejects(x) \/ ExchangeCancels(x) \/ \E p \in Prices : ExchangeFills(x, p)
    PROVE  Kept
<1> DEFINE old == exch[x]
<1>1. old \in ExchangeOrder /\ ExchangeSound(old)
  BY ExchangeRows DEF IInv
<1>2. old.filled \in Nat /\ old.value \in Nat /\ old.qty \in Nat \ {0}
  BY <1>1, Statuses
<1>3. CASE ExchangeRejects(x)
  <2> DEFINE y == [old EXCEPT !.status = "rejected"]
  <2>1. old.status = "open" /\ old.filled = 0 /\ exch' = [exch EXCEPT ![x] = y]
    BY <1>3 DEF ExchangeRejects
  <2>2. /\ y \in ExchangeOrder /\ SameOrder(old, y) /\ y.filled = old.filled
        /\ y.status = "rejected" /\ y.qty = old.qty
    <3> HIDE DEF old
    <3> QED
      BY <1>1 DEF ExchangeOrder, SameOrder
  <2>3. ExchangeSound(y) /\ old.filled <= y.filled
    <3> HIDE DEF y, old
    <3> QED
      BY <2>1, <2>2, <1>2 DEF ExchangeSound
  <2>4. UNCHANGED <<db, tx, issued, faults>>
    BY <1>3 DEF ExchangeRejects
  <2> HIDE DEF y
  <2> QED
    BY <2>1, <2>2, <2>3, <2>4, ExchangeAdvances
<1>4. CASE ExchangeCancels(x)
  <2> DEFINE y == [old EXCEPT !.status = "cancelled"]
  <2>1. old.status = "open" /\ exch' = [exch EXCEPT ![x] = y]
    BY <1>4 DEF ExchangeCancels
  <2>2. /\ y \in ExchangeOrder /\ SameOrder(old, y) /\ y.filled = old.filled
        /\ y.status = "cancelled" /\ y.qty = old.qty
    <3> HIDE DEF old
    <3> QED
      BY <1>1 DEF ExchangeOrder, SameOrder
  <2>3. ExchangeSound(y) /\ old.filled <= y.filled
    <3> HIDE DEF y, old
    <3> QED
      BY <2>1, <2>2, <1>1, <1>2 DEF ExchangeSound
  <2>4. UNCHANGED <<db, tx, issued, faults>>
    BY <1>4 DEF ExchangeCancels
  <2> HIDE DEF y
  <2> QED
    BY <2>1, <2>2, <2>3, <2>4, ExchangeAdvances
<1>5. ASSUME NEW p \in Prices, ExchangeFills(x, p) PROVE Kept
  <2> DEFINE s == IF old.filled + 1 = old.qty THEN "complete" ELSE "open"
             f == old.filled + 1
             v == old.value + p
             y == [old EXCEPT !.filled = f, !.value = v, !.status = s]
  <2>1. old.status = "open" /\ exch' = [exch EXCEPT ![x] = y]
    BY <1>5 DEF ExchangeFills
  <2>2. f \in Nat /\ v \in Nat /\ s \in {"open", "complete"} /\ old.filled <= f
    BY <1>2, LiveAssumption
  <2>3. /\ y \in ExchangeOrder /\ SameOrder(old, y) /\ y.filled = f
        /\ y.status = s /\ y.qty = old.qty
    <3> HIDE DEF old, f, v, s
    <3> QED
      BY <1>1, <2>2 DEF ExchangeOrder, SameOrder
  <2>4. ExchangeSound(y)
    <3> HIDE DEF y, old
    <3>1. old.filled < old.qty
      BY <2>1, <1>1 DEF ExchangeSound
    <3> QED
      BY <2>3, <3>1, <1>2 DEF ExchangeSound
  <2>5. UNCHANGED <<db, tx, issued, faults>>
    BY <1>5 DEF ExchangeFills
  <2> HIDE DEF y, f
  <2> QED
    BY <2>1, <2>2, <2>3, <2>4, <2>5, ExchangeAdvances
<1> QED
  BY <1>3, <1>4, <1>5

-----------------------------------------------------------------------------
(* The transaction with an order in flight, its fields. *)
LEMMA TxFields ==
    ASSUME IInv
    PROVE  /\ tx \in TxRecord /\ tx.got \in 0..Len(exch) /\ Len(exch) \in Nat
           /\ DOMAIN exch = 1..Len(exch) /\ tx.tries \in Nat
  BY LenProperties DEF IInv, ExchangeInv, TxType, TxRecord

(* A step of the placement that neither commits nor reaches the exchange. *)
LEMMA PlacementKeeps ==
    ASSUME IInv, NEW t \in TxRecord, t.kind \in {"place", "await"}, t.got = 0,
           t.db = tx.db, t.todo = tx.todo, t.tries \in 0..MaxRetries, ~db.kill.tripped,
           t.order \in Order, t.order.filled = 0, t.order.state = "SUBMITTING",
           tx' = t, db' = db, exch' = exch, issued' \in Nat, faults' \in Nat
    PROVE  Kept
<1>1. Len(exch) \in Nat
  BY TxFields
<1>2. TxType'
  BY <1>1 DEF IInv, TxType, TxRecord
<1>3. FlightInv' /\ ~Polling'
  BY DEF FlightInv, Polling
<1>4. IInv'
  BY <1>2, <1>3 DEF IInv
<1>5. HaltStep /\ OrdersEvolve
  BY SameOrdersEvolve DEF HaltStep
<1> QED
  BY <1>4, <1>5 DEF Kept

(* _process_candle up to the POST: the switch was read untripped. *)
LEMMA SignalApprovedStep ==
    ASSUME IInv, NEW i \in Instruments, NEW p \in Prices, NEW dir \in Directions,
           NEW e \in Equities, SignalApproved(i, p, dir, e)
    PROVE  Kept
<1> DEFINE v == Verdict(i, p, dir, e)
           ord == NewOrder(i, v)
           t == [Idle EXCEPT !.kind = "place", !.order = ord]
           c == [tripped |-> db.kill.tripped, liveGateShut |-> ~LiveOrdersEnabled,
                 dailyPnl |-> db.dayPnl, equity |-> e, posQty |-> db.pos[i].qty,
                 openCount |-> Cardinality({j \in Instruments : db.pos[j].qty # 0})]
<1>1. /\ tx = Idle /\ v.ok /\ tx' = t /\ issued' = issued + 1
      /\ db' = db /\ exch' = exch /\ faults' = faults
  BY DEF SignalApproved
<1>2. issued \in Nat /\ faults \in Nat /\ db.pos[i].qty \in Int
  BY DbFields DEF IInv, BookInv, Position
<1>3. v.side \in Side /\ v.qty \in Nat \ {0} /\ ~db.kill.tripped
  <2>1. dir \in Direction /\ c.posQty \in Int /\ c.tripped = db.kill.tripped
    BY <1>2, LiveAssumption
  <2>2. v = Evaluate(dir, p, c)
    BY DEF Verdict
  <2> HIDE DEF c, v
  <2> QED
    BY <1>1, <2>1, <2>2, ApprovalType
<1> HIDE DEF v
<1>4. ord \in Order /\ ord.filled = 0 /\ ord.state = "SUBMITTING"
  BY <1>2, <1>3 DEF NewOrder, Order, OrderState
<1> HIDE DEF ord
<1>5. /\ t \in TxRecord /\ t.kind = "place" /\ t.got = 0 /\ t.order = ord
      /\ t.tries = 0 /\ t.db = Idle.db /\ t.todo = Idle.todo
  BY <1>4, EmptyBook DEF Idle, TxRecord, Kinds
<1>6. 0 \in 0..MaxRetries
  BY LiveAssumption
<1> HIDE DEF t
<1> QED
  BY <1>1, <1>2, <1>3, <1>4, <1>5, <1>6, PlacementKeeps

(* The POST that does not arrive, and the retry of one without a good answer. *)
LEMMA PostNotTakenStep ==
    ASSUME IInv, PostNotTaken \/ Retried
    PROVE  Kept
<1>1. InFlight
  BY DEF PostNotTaken, Retried, InFlight
<1>2. FlightInv /\ issued \in Nat /\ faults \in Nat /\ tx \in TxRecord /\ tx.tries \in Nat
  BY <1>1, TxFields DEF IInv
<1>3. /\ ~db.kill.tripped /\ tx.order \in Order /\ tx.order.filled = 0
      /\ tx.order.state = "SUBMITTING" /\ tx.tries \in 0..MaxRetries
  BY <1>2 DEF FlightInv
<1>4. CASE PostNotTaken
  <2> DEFINE t == [tx EXCEPT !.kind = "await", !.got = 0]
  <2>1. tx' = t /\ db' = db /\ exch' = exch /\ issued' = issued /\ faults' = faults + 1
    BY <1>4 DEF PostNotTaken, Fault
  <2>2. /\ t \in TxRecord /\ t.kind = "await" /\ t.got = 0 /\ t.order = tx.order
        /\ t.tries = tx.tries /\ t.db = tx.db /\ t.todo = tx.todo
    BY <1>2 DEF TxRecord, Kinds
  <2> HIDE DEF t
  <2> QED
    BY <1>2, <1>3, <2>1, <2>2, PlacementKeeps
<1>5. CASE Retried
  <2> DEFINE n == tx.tries + 1
             t == [tx EXCEPT !.kind = "place", !.tries = n, !.got = 0]
  <2>1. /\ tx' = t /\ db' = db /\ exch' = exch /\ issued' = issued /\ faults' \in Nat
        /\ tx.tries < MaxRetries
    BY <1>2, <1>5 DEF Retried
  <2>2. n \in 0..MaxRetries /\ n \in Nat
    BY <2>1, <1>2, LiveAssumption
  <2> HIDE DEF n
  <2>3. /\ t \in TxRecord /\ t.kind = "place" /\ t.got = 0 /\ t.order = tx.order
        /\ t.tries = n /\ t.db = tx.db /\ t.todo = tx.todo
    BY <1>2, <2>2 DEF TxRecord, Kinds
  <2> HIDE DEF t
  <2> QED
    BY <1>2, <1>3, <2>1, <2>2, <2>3, PlacementKeeps
<1> QED
  BY <1>4, <1>5

(***************************************************************************)
(* The POST that arrives: the exchange's new order is nobody's row yet,    *)
(* and the kill switch is not tripped.                                     *)
(***************************************************************************)
LEMMA PostTakenStep ==
    ASSUME IInv, PostTaken
    PROVE  Kept
<1> DEFINE n == Len(exch) + 1
           y == [cid |-> tx.order.cid, inst |-> tx.order.inst, side |-> tx.order.side,
                 qty |-> tx.order.qty, filled |-> 0, value |-> 0, status |-> "open"]
           t == [tx EXCEPT !.kind = "await", !.got = n]
<1>1. /\ InFlight /\ exch' = Append(exch, y) /\ tx' = t
      /\ db' = db /\ issued' = issued /\ faults' = faults
  BY DEF PostTaken, InFlight
<1>2. FlightInv /\ tx \in TxRecord /\ Len(exch) \in Nat /\ DOMAIN exch = 1..Len(exch)
  BY <1>1, TxFields DEF IInv
<1>3. tx.order \in Order /\ ~db.kill.tripped
  BY <1>2 DEF FlightInv
<1>4. /\ y \in ExchangeOrder /\ SameOrder(tx.order, y) /\ y.filled = 0 /\ y.qty = tx.order.qty
      /\ y.status = "open"
  BY <1>3, OrderFields DEF ExchangeOrder, SameOrder
<1>5. ExchangeSound(y)
  <2>1. tx.order.qty \in Nat \ {0}
    BY <1>3, OrderFields
  <2> HIDE DEF y
  <2> QED
    BY <1>4, <2>1 DEF ExchangeSound
<1> HIDE DEF y
<1>6. exch \in Seq(ExchangeOrder) /\ ExchangeInv(exch)
  BY DEF IInv, ExchangeInv
<1>7. /\ exch' \in Seq(ExchangeOrder) /\ Len(exch') = n /\ DOMAIN exch' = 1..n
      /\ exch'[n] = y /\ \A k \in DOMAIN exch : exch'[k] = exch[k]
  <2>1. exch' \in Seq(ExchangeOrder) /\ Len(exch') = n
    BY <1>1, <1>4, <1>6, AppendProperties
  <2>2. exch'[n] = y /\ \A k \in DOMAIN exch : exch'[k] = exch[k]
    BY <1>1, <1>2, <1>4, <1>6, AppendProperties
  <2> QED
    BY <2>1, <2>2, LenProperties
<1>8. ExchangeInv(exch')
  <2>1. ASSUME NEW k \in 1..n PROVE ExchangeSound(exch'[k])
    BY <2>1, <1>2, <1>5, <1>6, <1>7 DEF ExchangeInv
  <2> QED
    BY <1>7, <2>1 DEF ExchangeInv
<1>9. \A k \in DOMAIN exch : exch[k].filled \in Nat /\ k \in 1..n
  BY <1>2, <1>6, ExchangeRows, Fills
<1>10. Grows(exch, exch')
  BY <1>7, <1>9 DEF Grows, SameOrder
<1>11. BookInv(db, exch') /\ BookInv(tx.db, exch')
  BY <1>6, <1>8, <1>10, BookGrows DEF IInv
<1>12. n \in Nat /\ n # 0 /\ n \notin DOMAIN exch
  BY <1>2
<1> HIDE DEF n
<1>13. /\ t \in TxRecord /\ t.kind = "await" /\ t.got = n /\ t.order = tx.order
       /\ t.tries = tx.tries /\ t.db = tx.db /\ t.todo = tx.todo
  BY <1>2, <1>12 DEF TxRecord, Kinds
<1> HIDE DEF t
<1>14. TxType'
  <2>1. n \in 0..n
    BY <1>12
  <2> QED
    BY <1>1, <1>7, <1>13, <2>1 DEF IInv, TxType, TxRecord
<1>15. FlightInv' /\ ~Polling'
  <2>1. \A o \in DOMAIN db.orders : db.orders[o].broker # n
    BY <1>12 DEF IInv, BookInv
  <2> QED
    BY <1>1, <1>2, <1>4, <1>7, <1>13, <2>1 DEF FlightInv, Polling
<1>16. IInv'
  BY <1>1, <1>8, <1>11, <1>13, <1>14, <1>15 DEF IInv
<1>17. HaltStep /\ OrdersEvolve
  BY <1>1, <1>3, SameOrdersEvolve DEF HaltStep
<1> QED
  BY <1>16, <1>17 DEF Kept

(***************************************************************************)
(* The ack: the row is born SUBMITTED, unfilled, as the exchange order     *)
(* that answered the last POST.                                            *)
(***************************************************************************)
LEMMA AcknowledgedStep ==
    ASSUME IInv, Acknowledged
    PROVE  Kept
<1> DEFINE row == [tx.order EXCEPT !.state = "SUBMITTED", !.broker = tx.got]
           s == Append(db.orders, row)
           n == Len(db.orders) + 1
           k == RecordSuccess(db.kill)
           e == [db EXCEPT !.orders = s, !.kill = k]
<1>1. /\ InFlight /\ tx.got # 0 /\ db' = e /\ tx' = Idle
      /\ exch' = exch /\ issued' = issued /\ faults' = faults
  BY DEF Acknowledged, InFlight
<1>2. /\ FlightInv /\ tx \in TxRecord /\ tx.got \in DOMAIN exch /\ tx.got \in Nat
      /\ BookInv(db, exch) /\ ExchangeInv(exch) /\ issued \in Nat /\ faults \in Nat
  BY <1>1, TxFields DEF IInv
<1>3. /\ tx.order \in Order /\ tx.order.filled = 0 /\ SameOrder(tx.order, exch[tx.got])
      /\ \A o \in DOMAIN db.orders : db.orders[o].broker # tx.got
  BY <1>1, <1>2 DEF FlightInv
<1>4. /\ row \in Order /\ SameOrder(row, tx.order) /\ row.filled = 0
      /\ row.state = "SUBMITTED" /\ row.broker = tx.got
  <2> DEFINE ord == tx.order
             g == tx.got
  <2> HIDE DEF ord, g
  <2>1. ord \in Order /\ ord.filled = 0 /\ g \in Nat
    BY <1>2, <1>3 DEF ord, g
  <2>2. LET r == [ord EXCEPT !.state = "SUBMITTED", !.broker = g]
        IN  /\ r \in Order /\ SameOrder(r, ord) /\ r.filled = 0
            /\ r.state = "SUBMITTED" /\ r.broker = g
    BY <2>1 DEF Order, SameOrder, OrderState
  <2> QED
    BY <2>2 DEF ord, g
<1> HIDE DEF row
<1>5. RowInv(row, exch[tx.got])
  <2>1. exch[tx.got].filled \in Nat
    BY <1>2, ExchangeRows, Fills
  <2> QED
    BY <1>3, <1>4, <2>1 DEF RowInv, SameOrder, Booked, Working, Done
<1>6. db \in Database /\ db.orders \in Seq(Order) /\ db.kill \in KillSwitchRow
  BY <1>2, DbFields DEF BookInv
<1>7. k \in KillSwitchRow /\ k.tripped = db.kill.tripped
  BY <1>6, KillRows
<1>8. /\ s \in Seq(Order) /\ DOMAIN s = DOMAIN db.orders \cup {n} /\ n \notin DOMAIN db.orders
      /\ s[n] = row /\ \A o \in DOMAIN db.orders : s[o] = db.orders[o]
  <2>1. s \in Seq(Order) /\ Len(s) = n
    BY <1>4, <1>6, AppendProperties
  <2>2. DOMAIN db.orders = 1..Len(db.orders) /\ Len(db.orders) \in Nat
    BY <1>6, LenProperties
  <2>3. DOMAIN s = 1..n
    BY <2>1, LenProperties
  <2>4. s[n] = row /\ \A o \in DOMAIN db.orders : s[o] = db.orders[o]
    BY <1>4, <1>6, <2>2, AppendProperties
  <2> QED
    BY <2>1, <2>2, <2>3, <2>4
<1> HIDE DEF n, k
<1>9. \A i \in Instruments : FilledFor(s, i) = FilledFor(db.orders, i)
  <2> DEFINE os == db.orders
  <2> HIDE DEF os
  <2>1. os \in Seq(Order)
    BY <1>6 DEF os
  <2>2. \A i \in Instruments : FilledFor(Append(os, row), i) = FilledFor(os, i)
    BY <2>1, <1>4, Fills, FilledAppended
  <2> QED
    BY <2>2 DEF os
<1> HIDE DEF s
<1>10. /\ e \in Database /\ e.orders = s /\ e.kill = k /\ e.pos = db.pos
       /\ e.traded = db.traded /\ e.corrected = db.corrected
  BY <1>6, <1>7, <1>8 DEF Database
<1> HIDE DEF e
<1>11. BookInv(e, exch)
  <2>1. ASSUME NEW o \in DOMAIN s
        PROVE  s[o].broker \in DOMAIN exch /\ RowInv(s[o], exch[s[o].broker])
    <3>1. CASE o = n
      BY <3>1, <1>2, <1>4, <1>5, <1>8
    <3>2. CASE o \in DOMAIN db.orders
      BY <3>2, <1>2, <1>8 DEF BookInv
    <3> QED
      BY <3>1, <3>2, <1>8
  <2>2. \A o, p \in DOMAIN s : s[o].broker = s[p].broker => o = p
    <3>1. \A o, p \in DOMAIN db.orders : db.orders[o].broker = db.orders[p].broker => o = p
      BY <1>2 DEF BookInv
    <3> QED
      BY <3>1, <1>3, <1>4, <1>8
  <2> QED
    BY <1>2, <1>9, <1>10, <2>1, <2>2 DEF BookInv
<1>12. IInv'
  BY <1>1, <1>2, <1>11, RestKeeps
<1>13. OrdersEvolve
  BY <1>1, <1>4, <1>8, <1>10 DEF OrdersEvolve, Evolved
<1>14. HaltStep
  BY <1>1, <1>7, <1>10 DEF HaltStep
<1> QED
  BY <1>12, <1>13, <1>14 DEF Kept

(* A step that drops the transaction and commits nothing. *)
LEMMA DroppedKeeps ==
    ASSUME IInv, tx' \in {Idle, Down}, exch' = exch, db' = db,
           issued' = issued, faults' \in Nat
    PROVE  Kept
<1>1. BookInv(db', exch) /\ issued' \in Nat
  BY DEF IInv
<1>2. IInv'
  BY <1>1, RestKeeps
<1>3. HaltStep /\ OrdersEvolve
  BY SameOrdersEvolve DEF HaltStep
<1> QED
  BY <1>2, <1>3 DEF Kept

(* The order given up: its row is rolled back, the error counted. *)
LEMMA GivenUpStep ==
    ASSUME IInv, GivenUp
    PROVE  Kept
<1>1. BookInv(db, exch) /\ db.kill \in KillSwitchRow /\ issued \in Nat /\ faults \in Nat
  BY DbFields DEF IInv, BookInv
<1>2. /\ db' = [db EXCEPT !.kill = RecordError(db.kill)] /\ tx' = Idle /\ exch' = exch
      /\ issued' = issued /\ faults' \in Nat
  BY <1>1 DEF GivenUp
<1>3. /\ BookInv(db', exch) /\ db'.orders = db.orders
      /\ db.kill.tripped => db'.kill.tripped
  BY <1>1, <1>2, KillRows, WithKill
<1>4. IInv'
  BY <1>1, <1>2, <1>3, RestKeeps
<1>5. HaltStep
  BY <1>2, <1>3 DEF HaltStep
<1> QED
  BY <1>3, <1>4, <1>5, SameOrdersEvolve DEF Kept

(* The process dies, or a tick raises. *)
LEMMA DroppedSteps ==
    ASSUME IInv, Crash \/ TickFails
    PROVE  Kept
<1>1. issued \in Nat /\ faults \in Nat
  BY DEF IInv
<1>2. /\ tx' \in {Idle, Down} /\ exch' = exch /\ db' = db
      /\ issued' = issued /\ faults' \in Nat
  BY <1>1 DEF Crash, TickFails, Fault
<1> QED
  BY <1>2, DroppedKeeps

-----------------------------------------------------------------------------
(***************************************************************************)
(* A step of the polls that commits nothing: the working copy stays true   *)
(* of the exchange and ahead of db only where it has polled.               *)
(***************************************************************************)
LEMMA PollingKeeps ==
    ASSUME IInv, NEW t \in TxRecord, t.kind \in {"tick", "startup"}, t.got \in 0..Len(exch),
           BookInv(t.db, exch), t.todo \subseteq DOMAIN t.db.orders,
           t.db.kill = db.kill, DOMAIN t.db.orders = DOMAIN db.orders,
           \A o \in DOMAIN db.orders : Evolved(db.orders[o], t.db.orders[o]),
           \A o \in t.todo : t.db.orders[o] = db.orders[o] /\ db.orders[o].state \in Working,
           tx' = t, db' = db, exch' = exch, issued' \in Nat, faults' \in Nat
    PROVE  Kept
<1>1. Len(exch) \in Nat
  BY TxFields
<1>2. TxType'
  BY <1>1 DEF TxType, TxRecord
<1>3. PollInv' /\ ~InFlight'
  BY DEF PollInv, InFlight
<1>4. IInv'
  BY <1>2, <1>3 DEF IInv
<1>5. HaltStep /\ OrdersEvolve
  BY SameOrdersEvolve DEF HaltStep
<1> QED
  BY <1>4, <1>5 DEF Kept


(* The orders a tick or a startup takes up are still working. *)
LEMMA OpenAckedWorking ==
    ASSUME IInv
    PROVE  /\ OpenAcked(db) \subseteq DOMAIN db.orders
           /\ \A o \in OpenAcked(db) : db.orders[o].state \in Working
<1>1. \A o \in DOMAIN db.orders : db.orders[o].state \in Working \cup Done
  BY DEF IInv, BookInv, RowInv
<1> QED
  BY <1>1 DEF OpenAcked, ListOpen, Working, Done

(* A transaction that is about to poll, on a copy of db. *)
LEMMA PollingBegins ==
    ASSUME IInv, NEW kind \in {"tick", "startup"},
           tx' = [Idle EXCEPT !.kind = kind, !.db = db, !.todo = OpenAcked(db)],
           UNCHANGED <<db, exch, issued, faults>>
    PROVE  Kept
<1> DEFINE t == [Idle EXCEPT !.kind = kind, !.db = db, !.todo = OpenAcked(db)]
<1>1. /\ db \in Database /\ BookInv(db, exch) /\ issued \in Nat /\ faults \in Nat
      /\ db.orders \in Seq(Order)
  BY DbFields DEF IInv, BookInv
<1>2. /\ OpenAcked(db) \subseteq DOMAIN db.orders
      /\ \A o \in OpenAcked(db) : db.orders[o].state \in Working
  BY OpenAckedWorking
<1>3. OpenAcked(db) \in SUBSET Nat
  BY <1>1, <1>2, LenProperties
<1>4. t \in TxRecord /\ t.kind = kind /\ t.db = db /\ t.todo = OpenAcked(db) /\ t.got = 0
  BY <1>1, <1>3 DEF Idle, TxRecord, Kinds
<1>5. 0 \in 0..Len(exch)
  BY TxFields
<1>6. \A o \in DOMAIN db.orders : Evolved(db.orders[o], db.orders[o])
  BY DEF Evolved
<1> HIDE DEF t
<1>7. tx' = t
  BY DEF t
<1> QED
  BY <1>1, <1>2, <1>4, <1>5, <1>6, <1>7, PollingKeeps

(* run_housekeeping and reconcile_on_startup begin. *)
LEMMA BeginSteps ==
    ASSUME IInv, TickBegin \/ Restart
    PROVE  Kept
<1>1. CASE TickBegin
  <2>1. /\ tx' = [Idle EXCEPT !.kind = "tick", !.db = db, !.todo = OpenAcked(db)]
        /\ UNCHANGED <<db, exch, issued, faults>>
    BY <1>1 DEF TickBegin
  <2> QED
    BY <2>1, PollingBegins
<1>2. CASE Restart
  <2>1. FailUnacked(db) = db
    BY FailNothing DEF IInv
  <2>2. /\ tx' = [Idle EXCEPT !.kind = "startup", !.db = db, !.todo = OpenAcked(db)]
        /\ UNCHANGED <<db, exch, issued, faults>>
    BY <1>2, <2>1 DEF Restart
  <2> QED
    BY <2>2, PollingBegins
<1> QED
  BY <1>1, <1>2

(* The transaction that polls, its fields. *)
LEMMA PollFields ==
    ASSUME IInv, Polling
    PROVE  /\ BookInv(tx.db, exch) /\ ExchangeInv(exch) /\ PollInv
           /\ issued \in Nat /\ faults \in Nat
           /\ tx.todo \subseteq DOMAIN tx.db.orders
           /\ tx.todo \in SUBSET Nat /\ tx.db \in Database
  BY DEF IInv, TxType

(* One poll, of an order that is still as it was committed. *)
LEMMA PollStep ==
    ASSUME IInv, NEW o \in tx.todo, NEW priced \in Answers, Poll(o, priced)
    PROVE  Kept
<1> DEFINE d == tx.db
           ord == d.orders[o]
           x == exch[ord.broker]
           e == ApplyUpdate(d, o, x, priced)
           left == tx.todo \ {o}
           t == [tx EXCEPT !.db = e, !.todo = left]
<1>1. /\ Polling /\ db' = db /\ exch' = exch /\ issued' = issued /\ faults' = faults
      /\ tx' = IF Raises(ord, x) THEN IF tx.kind = "tick" THEN Idle ELSE Down ELSE t
  BY DEF Poll, Polling
<1>2. /\ BookInv(d, exch) /\ ExchangeInv(exch) /\ PollInv
      /\ issued \in Nat /\ faults \in Nat
      /\ tx.todo \subseteq DOMAIN d.orders /\ tx.todo \in SUBSET Nat /\ d \in Database
      /\ tx \in TxRecord /\ tx.got \in 0..Len(exch)
  BY <1>1, PollFields, TxFields
<1>3. CASE Raises(ord, x)
  <2>1. tx' \in {Idle, Down} /\ faults' \in Nat
    BY <1>1, <1>2, <1>3
  <2> QED
    BY <1>1, <2>1, DroppedKeeps
<1>4. CASE ~Raises(ord, x)
  <2>1. tx' = t
    BY <1>1, <1>4
  <2>2. ord = db.orders[o] /\ ord.state \in Working /\ o \in DOMAIN d.orders
    BY <1>2 DEF PollInv
  <2>3. BookInv(e, exch) /\ e.kill = d.kill /\ OnlyEvolved(d.orders, e.orders, o)
    <3> DEFINE dd == tx.db
    <3> HIDE DEF dd
    <3>1. /\ BookInv(dd, exch) /\ o \in DOMAIN dd.orders /\ dd.orders[o].state \in Working
          /\ ~Raises(dd.orders[o], exch[dd.orders[o].broker])
      BY <1>2, <1>4, <2>2 DEF dd
    <3>2. LET z == ApplyUpdate(dd, o, exch[dd.orders[o].broker], priced)
          IN  BookInv(z, exch) /\ z.kill = dd.kill /\ OnlyEvolved(dd.orders, z.orders, o)
      BY <3>1, <1>2, ApplyUpdateKeeps
    <3> QED
      BY <3>2 DEF dd
  <2> HIDE DEF e
  <2>4. e \in Database
    BY <2>3 DEF BookInv
  <2>5. /\ t \in TxRecord /\ t.db = e /\ t.todo = left /\ t.kind = tx.kind /\ t.got = tx.got
    BY <1>2, <2>4 DEF TxRecord
  <2> HIDE DEF t
  <2>6. /\ d.kill = db.kill /\ DOMAIN d.orders = DOMAIN db.orders
        /\ \A p \in DOMAIN db.orders : Evolved(db.orders[p], d.orders[p])
        /\ \A p \in tx.todo : d.orders[p] = db.orders[p] /\ db.orders[p].state \in Working
    BY <1>2 DEF PollInv
  <2>7. /\ DOMAIN e.orders = DOMAIN db.orders
        /\ \A p \in DOMAIN db.orders \ {o} : e.orders[p] = d.orders[p]
        /\ Evolved(db.orders[o], e.orders[o])
    BY <2>2, <2>3, <2>6 DEF OnlyEvolved
  <2>8. \A p \in DOMAIN db.orders : Evolved(db.orders[p], e.orders[p])
    BY <2>6, <2>7
  <2>9. \A p \in left : e.orders[p] = db.orders[p] /\ db.orders[p].state \in Working
    BY <1>2, <2>6, <2>7
  <2>10. left \subseteq DOMAIN e.orders
    BY <1>2, <2>6, <2>7
  <2>11. tx.kind \in {"tick", "startup"}
    BY <1>1 DEF Polling
  <2> HIDE DEF left
  <2> QED
    BY <1>1, <1>2, <2>1, <2>3, <2>5, <2>6, <2>7, <2>8, <2>9, <2>10, <2>11, PollingKeeps
<1> QED
  BY <1>3, <1>4

(* A GET that fails skips its order. *)
LEMMA PollLostStep ==
    ASSUME IInv, NEW o \in tx.todo, PollLost(o)
    PROVE  Kept
<1> DEFINE left == tx.todo \ {o}
           t == [tx EXCEPT !.todo = left]
<1>1. /\ Polling /\ db' = db /\ exch' = exch /\ issued' = issued /\ faults' = faults + 1
      /\ tx' = t /\ tx.kind \in {"tick", "startup"}
  BY DEF PollLost, Polling, Fault
<1>2. /\ BookInv(tx.db, exch) /\ PollInv /\ issued \in Nat /\ faults \in Nat
      /\ tx.todo \subseteq DOMAIN tx.db.orders /\ tx.todo \in SUBSET Nat
      /\ tx \in TxRecord /\ tx.got \in 0..Len(exch)
  BY <1>1, PollFields, TxFields
<1>3. t \in TxRecord /\ t.db = tx.db /\ t.todo = left /\ t.kind = tx.kind /\ t.got = tx.got
  BY <1>2 DEF TxRecord
<1>4. left \subseteq tx.todo
  OBVIOUS
<1>5. /\ tx.db.kill = db.kill /\ DOMAIN tx.db.orders = DOMAIN db.orders
      /\ \A p \in DOMAIN db.orders : Evolved(db.orders[p], tx.db.orders[p])
      /\ \A p \in left : tx.db.orders[p] = db.orders[p] /\ db.orders[p].state \in Working
  BY <1>2 DEF PollInv
<1>6. left \subseteq DOMAIN tx.db.orders /\ faults' \in Nat /\ issued' \in Nat
  BY <1>1, <1>2, <1>4
<1> HIDE DEF t, left
<1> QED
  BY <1>1, <1>2, <1>3, <1>5, <1>6, PollingKeeps

(* A tick commits what it polled. *)
LEMMA TickCommitStep ==
    ASSUME IInv, TickCommit
    PROVE  Kept
<1>1. /\ Polling /\ db' = tx.db /\ tx' = Idle /\ exch' = exch
      /\ issued' = issued /\ faults' = faults
  BY DEF TickCommit, Polling
<1>2. BookInv(tx.db, exch) /\ PollInv /\ issued \in Nat /\ faults \in Nat
  BY <1>1, PollFields
<1>3. IInv'
  BY <1>1, <1>2, RestKeeps
<1>4. OrdersEvolve /\ HaltStep
  BY <1>1, <1>2 DEF PollInv, OrdersEvolve, HaltStep
<1> QED
  BY <1>3, <1>4 DEF Kept

(* A startup commits them with the broker's positions. *)
LEMMA StartupPositionsStep ==
    ASSUME IInv, NEW avg \in Prices, StartupPositions(avg)
    PROVE  Kept
<1>1. /\ Polling /\ db' = BrokerWins(tx.db, avg) /\ tx' = Idle /\ exch' = exch
      /\ issued' = issued /\ faults' = faults
  BY DEF StartupPositions, Polling
<1>2. BookInv(tx.db, exch) /\ ExchangeInv(exch) /\ PollInv /\ issued \in Nat /\ faults \in Nat
  BY <1>1, PollFields
<1>3. /\ BookInv(db', exch) /\ db'.orders = tx.db.orders
      /\ tx.db.kill.tripped => db'.kill.tripped
  <2> DEFINE d == tx.db
  <2> HIDE DEF d
  <2>1. BookInv(d, exch)
    BY <1>2 DEF d
  <2>2. /\ BookInv(BrokerWins(d, avg), exch) /\ BrokerWins(d, avg).orders = d.orders
        /\ d.kill.tripped => BrokerWins(d, avg).kill.tripped
    BY <2>1, <1>2, BrokerWinsKeeps
  <2> QED
    BY <1>1, <2>2 DEF d
<1>4. IInv'
  BY <1>1, <1>2, <1>3, RestKeeps
<1>5. OrdersEvolve /\ HaltStep
  BY <1>1, <1>2, <1>3 DEF PollInv, OrdersEvolve, HaltStep
<1> QED
  BY <1>4, <1>5 DEF Kept

-----------------------------------------------------------------------------
(* Every step keeps the invariant, moves orders forward and obeys a halt. *)
LEMMA NextStep ==
    ASSUME IInv, [Next]_vars
    PROVE  Kept
<1>1. CASE UNCHANGED vars
  <2>1. IInv'
    BY <1>1 DEF IInv, vars, TxType, InFlight, FlightInv, Polling, PollInv
  <2>2. OrdersEvolve /\ HaltStep
    BY <1>1, SameOrdersEvolve DEF vars, HaltStep
  <2> QED
    BY <2>1, <2>2 DEF Kept
<1>2. CASE \E i \in Instruments, p \in Prices, dir \in Directions, e \in Equities :
              SignalApproved(i, p, dir, e)
  BY <1>2, SignalApprovedStep
<1>3. CASE CandleFails \/ TripKillSwitch \/ ResetKillSwitch \/ NewDay
  BY <1>3, RowSteps
<1>4. CASE PostTaken
  BY <1>4, PostTakenStep
<1>5. CASE PostNotTaken \/ Retried
  BY <1>5, PostNotTakenStep
<1>6. CASE Acknowledged
  BY <1>6, AcknowledgedStep
<1>7. CASE GivenUp
  BY <1>7, GivenUpStep
<1>8. CASE TickBegin \/ Restart
  BY <1>8, BeginSteps
<1>9. CASE TickCommit
  BY <1>9, TickCommitStep
<1>10. CASE TickFails \/ Crash
  BY <1>10, DroppedSteps
<1>11. CASE \E o \in tx.todo : PollLost(o) \/ \E priced \in Answers : Poll(o, priced)
  BY <1>11, PollLostStep, PollStep
<1>12. CASE \E avg \in Prices : StartupPositions(avg)
  BY <1>12, StartupPositionsStep
<1>13. CASE \E x \in DOMAIN exch :
          ExchangeRejects(x) \/ ExchangeCancels(x) \/ \E p \in Prices : ExchangeFills(x, p)
  BY <1>13, ExchangeSteps
<1> QED
  BY <1>1, <1>2, <1>3, <1>4, <1>5, <1>6, <1>7, <1>8, <1>9, <1>10, <1>11, <1>12, <1>13
  DEF Next

(* The empty database, no transaction, an empty order book. *)
LEMMA InitInv == Init => IInv
<1> SUFFICES ASSUME Init PROVE IInv
  OBVIOUS
<1>1. db = EmptyDb /\ tx = Idle /\ exch = <<>> /\ issued = 0 /\ faults = 0
  BY DEF Init
<1>2. exch \in Seq(ExchangeOrder) /\ Len(exch) = 0 /\ DOMAIN exch = {}
  BY <1>1, EmptySeq, LenProperties
<1>3. ExchangeInv(exch)
  BY <1>2 DEF ExchangeInv
<1>4. tx \in TxRecord /\ tx.kind = "idle" /\ tx.db = EmptyDb /\ tx.todo = {} /\ tx.got = 0
  BY <1>1, AtRest
<1>5. BookInv(db, exch) /\ BookInv(tx.db, exch)
  BY <1>1, <1>4, EmptyBook
<1>6. TxType /\ ~InFlight /\ ~Polling
  BY <1>2, <1>4 DEF TxType, TxRecord, InFlight, Polling
<1> QED
  BY <1>1, <1>3, <1>5, <1>6 DEF IInv

(***************************************************************************)
(* The invariant of the live books: in every reachable state the committed *)
(* rows are true of the exchange's orders, so is the copy an open tick or  *)
(* startup works on, and an order in flight was approved unhalted.         *)
(***************************************************************************)
THEOREM Invariance == Spec => []IInv
<1>1. IInv /\ [Next]_vars => IInv'
  BY NextStep DEF Kept
<1> QED
  BY <1>1, InitInv, PTL DEF Spec

(***************************************************************************)
(* Type correctness: every state of the live mode is well formed; above    *)
(* all a placement's retries stay within max_retries.                      *)
(***************************************************************************)
THEOREM TypeCorrect == Spec => []TypeOK
<1>1. IInv => TypeOK
  BY DEF IInv, TypeOK, BookInv, ExchangeInv, TxType, Kinds, InFlight, FlightInv
<1> QED
  BY <1>1, Invariance, PTL

(***************************************************************************)
(* Every fill of an order is in the trades table once, at any number of    *)
(* orders, polls, rollbacks and restarts.                                  *)
(***************************************************************************)
THEOREM TradesCorrect == Spec => []TradesMatchOrders
<1>1. IInv => TradesMatchOrders
  BY DEF IInv, BookInv, TradesMatchOrders
<1> QED
  BY <1>1, Invariance, PTL

(***************************************************************************)
(* A halt holds: no POST and no retry reaches the exchange while the kill  *)
(* switch is tripped, and only a reset lifts it.                           *)
(***************************************************************************)
THEOREM HaltCorrect == Spec => HaltHolds
<1>1. IInv /\ [Next]_vars => [HaltStep]_vars
  BY NextStep DEF Kept
<1> QED
  BY <1>1, Invariance, PTL DEF Spec, HaltHolds

-----------------------------------------------------------------------------
(***************************************************************************)
(* Once every exchange order is known and polled, the local orders and the *)
(* exchange's are the same up to their numbering, and fill the same.       *)
(***************************************************************************)
LEMMA CaughtUpSums ==
    ASSUME IInv, CaughtUp, NEW i \in Instruments
    PROVE  FilledFor(db.orders, i) = BrokerQty(i)
<1> DEFINE S == OrdersFor(db.orders, i)
           T == OrdersFor(exch, i)
           f == SignedFills(db.orders)
           g == SignedFills(exch)
           b == [o \in S |-> db.orders[o].broker]
<1>1. /\ BookInv(db, exch) /\ ExchangeInv(exch) /\ db \in Database
      /\ db.orders \in Seq(Order) /\ exch \in Seq(ExchangeOrder)
  BY DbFields DEF IInv, BookInv, ExchangeInv
<1>2. IsFiniteSet(S) /\ \A o \in DOMAIN db.orders : f[o] \in Int
  BY <1>1, Fills, FilledType
<1>3. IsFiniteSet(T)
  BY <1>1, Fills, FilledType
<1>4. ASSUME NEW o \in DOMAIN db.orders
      PROVE  /\ db.orders[o].broker \in DOMAIN exch
             /\ SameOrder(db.orders[o], exch[db.orders[o].broker])
             /\ db.orders[o].filled = exch[db.orders[o].broker].filled
  <2> DEFINE ord == db.orders[o]
             x == exch[ord.broker]
  <2>1. ord.broker \in DOMAIN exch /\ RowInv(ord, x) /\ ord \in Order
    BY <1>1, OrderRows DEF BookInv
  <2>2. x \in ExchangeOrder
    BY <1>1, <2>1, ExchangeRows
  <2>3. ord.filled \in Nat /\ x.filled \in Nat
    BY <2>1, <2>2, Fills
  <2>4. ~(ord.filled < x.filled)
    BY DEF CaughtUp, Behind
  <2> HIDE DEF ord, x
  <2>5. ord.filled = x.filled /\ SameOrder(ord, x)
    BY <2>1, <2>3, <2>4 DEF RowInv
  <2> QED
    BY <2>1, <2>5 DEF ord, x
<1>5. \A o \in S : o \in DOMAIN db.orders /\ db.orders[o].inst = i
  BY DEF OrdersFor
<1>6. \A o \in S : db.orders[o].broker \in T
  BY <1>4, <1>5 DEF OrdersFor, SameOrder
<1>7. b \in [S -> T]
  BY <1>6
<1>8. \A o, p \in S : b[o] = b[p] => o = p
  BY <1>1, <1>5 DEF BookInv
<1>9. \A k \in T : \E o \in S : b[o] = k
  <2> SUFFICES ASSUME NEW k \in T PROVE \E o \in S : b[o] = k
    OBVIOUS
  <2>1. k \in DOMAIN exch /\ exch[k].inst = i
    BY DEF OrdersFor
  <2>2. PICK o \in DOMAIN db.orders : db.orders[o].broker = k
    BY <2>1 DEF CaughtUp
  <2>3. db.orders[o].inst = i
    BY <1>4, <2>1, <2>2 DEF SameOrder
  <2>4. o \in S
    BY <2>3 DEF OrdersFor
  <2> QED
    BY <2>2, <2>4
<1>10. \A o \in S : f[o] \in Int /\ g[b[o]] = f[o]
  <2> SUFFICES ASSUME NEW o \in S PROVE f[o] \in Int /\ g[b[o]] = f[o]
    OBVIOUS
  <2>1. o \in DOMAIN db.orders /\ b[o] = db.orders[o].broker
    BY <1>5
  <2>2. f[o] = Signed(db.orders[o].side, db.orders[o].filled)
    BY <2>1 DEF SignedFills
  <2>3. /\ b[o] \in DOMAIN exch /\ exch[b[o]].side = db.orders[o].side
        /\ exch[b[o]].filled = db.orders[o].filled
    BY <2>1, <1>4 DEF SameOrder
  <2>4. g[b[o]] = Signed(exch[b[o]].side, exch[b[o]].filled)
    BY <2>3 DEF SignedFills
  <2> QED
    BY <1>2, <2>1, <2>2, <2>3, <2>4
<1> HIDE DEF S, T, f, g, b
<1>11. SumFunctionOnSet(f, S) = SumFunctionOnSet(g, T)
  BY <1>2, <1>3, <1>7, <1>8, <1>9, <1>10, SumRenamed
<1> QED
  BY <1>11 DEF S, T, f, g, FilledFor, BrokerQty

(***************************************************************************)
(* Books that have caught up hold the broker's positions, except where a   *)
(* risk event records that a restart overwrote one: for any number of      *)
(* instruments, orders and faults, with and without average prices.        *)
(***************************************************************************)
THEOREM PositionsCorrect == Spec => []UncorrectedMatchBroker
<1>1. IInv => UncorrectedMatchBroker
  <2> SUFFICES ASSUME IInv, CaughtUp, NEW i \in Instruments \ db.corrected
               PROVE  db.pos[i].qty = BrokerQty(i)
    BY DEF UncorrectedMatchBroker
  <2>1. db.pos[i].qty = db.traded[i] /\ db.traded[i] = FilledFor(db.orders, i)
    BY DEF IInv, BookInv
  <2> QED
    BY <2>1, CaughtUpSums
<1> QED
  BY <1>1, Invariance, PTL

(* The states of a committed row that are terminal. *)
LEMMA TerminalStates == Terminal \cap (Working \cup Done) = Done
<1>1. \A s \in Working : AllowedFrom(s) # {}
  BY DEF Working, AllowedFrom
<1>2. \A s \in Done : s \in OrderState /\ AllowedFrom(s) = {}
  BY DEF Done, AllowedFrom, OrderState
<1> QED
  BY <1>1, <1>2 DEF Terminal

(***************************************************************************)
(* The local books only follow the exchange, and are terminal only with    *)
(* every fill booked, as long as Upstox prices every fill it reports: an   *)
(* answer without average_price completes the order without its fills (the *)
(* divergence FilledIsBooked records).                                     *)
(***************************************************************************)
THEOREM BooksCorrect ==
    ASSUME ~MayOmitAverage
    PROVE  Spec => []BooksFollowBroker
<1>1. IInv => BooksFollowBroker
  <2> SUFFICES ASSUME IInv, NEW o \in DOMAIN db.orders
               PROVE  /\ db.orders[o].broker \in DOMAIN exch
                      /\ Follows(db.orders[o], exch[db.orders[o].broker])
                      /\ \A p \in DOMAIN db.orders :
                            db.orders[p].broker = db.orders[o].broker => p = o
    BY DEF BooksFollowBroker
  <2> DEFINE ord == db.orders[o]
             x == exch[ord.broker]
  <2>1. /\ ord.broker \in DOMAIN exch /\ RowInv(ord, x)
        /\ \A p \in DOMAIN db.orders : db.orders[p].broker = ord.broker => p = o
    BY DEF IInv, BookInv
  <2> HIDE DEF ord, x
  <2>2. ord.state \in Terminal => ord.state \in Done
    BY <2>1, TerminalStates DEF RowInv
  <2>3. Follows(ord, x)
    BY <2>1, <2>2 DEF RowInv, Booked, SameOrder, Follows
  <2> QED
    BY <2>1, <2>3 DEF ord, x
<1> QED
  BY <1>1, Invariance, PTL

-----------------------------------------------------------------------------
(***************************************************************************)
(* The live orders implement OrderLifecycle.  First the paths of           *)
(* ALLOWED_ORDER_TRANSITIONS that an ack and a poll compose.               *)
(***************************************************************************)
LEMMA WidenGrows ==
    ASSUME NEW S, NEW s \in S
    PROVE  s \in Lifecycle!Widen(S) /\ Lifecycle!AllowedFrom(s) \subseteq Lifecycle!Widen(S)
  BY DEF Lifecycle!Widen

LEMMA Paths ==
    /\ "SUBMITTED" \in Lifecycle!Reach("PENDING_RISK")
    /\ Working \cup Done \subseteq Lifecycle!Reach("SUBMITTED")
    /\ \A s \in Working :
          /\ s \in Lifecycle!Reach(s) /\ s \notin Lifecycle!Terminal
          /\ {"PARTIALLY_FILLED", "FILLED", "CANCELLED"} \subseteq Lifecycle!Reach(s)
<1> DEFINE W1(s) == Lifecycle!Widen({s})
           W2(s) == Lifecycle!Widen(W1(s))
           W3(s) == Lifecycle!Widen(W2(s))
           W4(s) == Lifecycle!Widen(W3(s))
           W5(s) == Lifecycle!Widen(W4(s))
<1>1. \A s : Lifecycle!Reach(s) = W5(s)
  BY DEF Lifecycle!Reach
<1>2. \A s : s \in W1(s) /\ Lifecycle!AllowedFrom(s) \subseteq W1(s)
  BY WidenGrows
<1>3. \A s : W1(s) \subseteq W2(s) /\ W2(s) \subseteq W3(s)
               /\ W3(s) \subseteq W4(s) /\ W4(s) \subseteq W5(s)
  BY DEF Lifecycle!Widen
<1>4. /\ Lifecycle!AllowedFrom("PENDING_RISK") = {"REJECTED_RISK", "SUBMITTING"}
      /\ Lifecycle!AllowedFrom("SUBMITTING") = {"SUBMITTED", "FAILED"}
      /\ Lifecycle!AllowedFrom("SUBMITTED") = {"OPEN", "REJECTED_BROKER", "FAILED"}
      /\ \A s \in {"OPEN", "PARTIALLY_FILLED"} :
            Lifecycle!AllowedFrom(s) = {"PARTIALLY_FILLED", "FILLED", "CANCELLED", "EXPIRED"}
  BY DEF Lifecycle!AllowedFrom
<1>5. \A s \in Working : s \notin Lifecycle!Terminal
  BY <1>4 DEF Lifecycle!Terminal, Working
<1>6. "SUBMITTED" \in W2("PENDING_RISK")
  <2>1. "SUBMITTING" \in W1("PENDING_RISK")
    BY <1>2, <1>4
  <2> HIDE DEF W1
  <2> QED
    BY <1>4, <2>1, WidenGrows
<1>7. {"SUBMITTED", "OPEN", "REJECTED_BROKER"} \subseteq W1("SUBMITTED")
  BY <1>2, <1>4
<1>8. {"PARTIALLY_FILLED", "FILLED", "CANCELLED"} \subseteq W2("SUBMITTED")
  <2> HIDE DEF W1
  <2> QED
    BY <1>4, <1>7, WidenGrows
<1>9. \A s \in {"OPEN", "PARTIALLY_FILLED"} :
          {s, "PARTIALLY_FILLED", "FILLED", "CANCELLED"} \subseteq W1(s)
  BY <1>2, <1>4
<1> HIDE DEF W1, W2, W3, W4, W5
<1>10. "SUBMITTED" \in W5("PENDING_RISK")
  BY <1>3, <1>6
<1>11. Working \cup Done \subseteq W5("SUBMITTED")
  BY <1>3, <1>7, <1>8 DEF Working, Done
<1>12. ASSUME NEW s \in Working
       PROVE  {s, "PARTIALLY_FILLED", "FILLED", "CANCELLED"} \subseteq W5(s)
  <2>1. CASE s = "SUBMITTED"
    BY <2>1, <1>11 DEF Working, Done
  <2>2. CASE s # "SUBMITTED"
    <3>1. s \in {"OPEN", "PARTIALLY_FILLED"}
      BY <2>2 DEF Working
    <3> QED
      BY <3>1, <1>3, <1>9
  <2> QED
    BY <2>1, <2>2
<1> QED
  BY <1>1, <1>5, <1>10, <1>11, <1>12

(* A committed row whose fills are priced is one OrderLifecycle can commit. *)
LEMMA RowSound ==
    ASSUME ~MayOmitAverage, NEW ord \in Order, NEW x \in ExchangeOrder, ExchangeSound(x),
           RowInv(ord, x), NEW r, r.state = ord.state, r.qty = ord.qty, r.filled = ord.filled
    PROVE  Lifecycle!Sound(r)
<1>1. /\ ord.filled \in Nat /\ ord.qty \in Nat \ {0} /\ x.filled \in Nat
      /\ x.status \in {"open", "complete", "rejected", "cancelled"}
  BY OrderFields, Statuses
<1>2. /\ Booked(ord, x) /\ ord.filled <= x.filled /\ ord.qty = x.qty
      /\ ord.state \in Working \cup Done
  BY DEF RowInv, SameOrder
<1>3. ord.filled <= ord.qty
  BY <1>1, <1>2 DEF ExchangeSound
<1>4. CASE ord.state \in Working
  BY <1>1, <1>2, <1>3, <1>4 DEF Booked, Working, Lifecycle!Sound
<1>5. CASE ord.state \in Done
  <2>1. ord.filled = x.filled /\ ord.state = MapStatus(x)
    BY <1>2, <1>5 DEF Booked
  <2>2. ord.state = "FILLED" => ord.filled = ord.qty
    <3>1. ord.state = "FILLED" => x.status = "complete"
      BY <2>1, <1>1, Statuses
    <3> QED
      BY <2>1, <3>1, <1>2 DEF ExchangeSound
  <2>3. ord.state = "REJECTED_BROKER" => ord.filled = 0
    <3>1. ord.state = "REJECTED_BROKER" => x.status = "rejected"
      BY <2>1, <1>1, Statuses
    <3> QED
      BY <2>1, <3>1 DEF ExchangeSound
  <2> QED
    BY <1>1, <1>3, <1>5, <2>2, <2>3 DEF Done, Lifecycle!Sound
<1> QED
  BY <1>2, <1>4, <1>5

(* One commit moves one order as OrderLifecycle allows. *)
LEMMA RowStep ==
    ASSUME ~MayOmitAverage, IInv, IInv', OrdersEvolve, NEW o
    PROVE  Lifecycle!Step(Row(o), Row(o)')
<1> DEFINE old == Row(o)
           new == Row(o)'
<1>1. ASSUME o \in DOMAIN db'.orders
      PROVE  /\ new.state = db'.orders[o].state /\ new.qty = db'.orders[o].qty
             /\ new.filled = db'.orders[o].filled /\ Lifecycle!Sound(new)
  <2>1. /\ new.state = db'.orders[o].state /\ new.qty = db'.orders[o].qty
        /\ new.filled = db'.orders[o].filled
    BY <1>1 DEF Row
  <2> DEFINE ord == db'.orders[o]
             x == exch'[ord.broker]
  <2>2. BookInv(db', exch') /\ ExchangeInv(exch')
    BY DEF IInv
  <2>3. db' \in Database /\ ord.broker \in DOMAIN exch' /\ RowInv(ord, x)
    BY <1>1, <2>2 DEF BookInv
  <2>4. ord \in Order
    BY <1>1, <2>3, OrderRows
  <2>5. x \in ExchangeOrder /\ ExchangeSound(x)
    BY <2>2, <2>3, ExchangeRows
  <2> HIDE DEF ord, x, new
  <2>6. new.state = ord.state /\ new.qty = ord.qty /\ new.filled = ord.filled
    BY <2>1 DEF ord
  <2>7. Lifecycle!Sound(new)
    BY <2>3, <2>4, <2>5, <2>6, RowSound
  <2> QED
    BY <2>1, <2>7
<1>2. CASE o \notin DOMAIN db'.orders
  <2>1. o \notin DOMAIN db.orders
    BY <1>2 DEF OrdersEvolve
  <2>2. new = old
    BY <2>1, <1>2 DEF Row
  <2> HIDE DEF old, new
  <2>3. Lifecycle!Step(old, new)
    BY <2>2 DEF Lifecycle!Step
  <2> QED
    BY <2>3 DEF old, new
<1>3. CASE o \in DOMAIN db'.orders /\ o \notin DOMAIN db.orders
  <2>1. old = Lifecycle!Absent
    BY <1>3 DEF Row, Lifecycle!Absent
  <2>2. new.state = "SUBMITTED" /\ Lifecycle!Sound(new)
    BY <1>1, <1>3 DEF OrdersEvolve
  <2> HIDE DEF old, new
  <2>3. Lifecycle!Born(new)
    BY <2>2, Paths DEF Lifecycle!Born
  <2>4. Lifecycle!Step(old, new)
    BY <2>1, <2>3 DEF Lifecycle!Step
  <2> QED
    BY <2>4 DEF old, new
<1>4. CASE o \in DOMAIN db.orders
  <2>1. o \in DOMAIN db'.orders /\ Evolved(db.orders[o], db'.orders[o])
    BY <1>4 DEF OrdersEvolve
  <2>2. /\ old.state = db.orders[o].state /\ old.qty = db.orders[o].qty
        /\ old.filled = db.orders[o].filled
    BY <1>4 DEF Row
  <2>3. CASE db'.orders[o] = db.orders[o]
    <3>1. new = old
      BY <2>1, <2>3, <1>4 DEF Row
    <3> HIDE DEF old, new
    <3>2. Lifecycle!Step(old, new)
      BY <3>1 DEF Lifecycle!Step
    <3> QED
      BY <3>2 DEF old, new
  <2>4. CASE db'.orders[o] # db.orders[o]
    <3>1. /\ new.state = db'.orders[o].state /\ new.qty = db'.orders[o].qty
          /\ new.filled = db'.orders[o].filled /\ Lifecycle!Sound(new)
      BY <2>1, <1>1
    <3> HIDE DEF old, new
    <3>2. /\ old.state \in Working /\ new.qty = old.qty /\ new.filled >= old.filled
          /\ \/ new.state = old.state
             \/ old.state = "SUBMITTED" /\ new.state \in (Working \cup Done) \ {"SUBMITTED"}
             \/ new.state \in {"PARTIALLY_FILLED", "FILLED", "CANCELLED"}
      BY <2>1, <2>2, <2>4, <3>1 DEF Evolved
    <3>3. new.state \in Lifecycle!Reach(old.state) /\ old.state \notin Lifecycle!Terminal
      BY <3>2, Paths
    <3>4. Lifecycle!Advances(old, new)
      BY <3>1, <3>2, <3>3 DEF Lifecycle!Advances
    <3>5. old # Lifecycle!Absent
      BY <3>2 DEF Lifecycle!Absent, Working
    <3>6. Lifecycle!Step(old, new)
      BY <3>4, <3>5 DEF Lifecycle!Step
    <3> QED
      BY <3>6 DEF old, new
  <2> QED
    BY <2>3, <2>4
<1> QED
  BY <1>2, <1>3, <1>4

(***************************************************************************)
(* LiveTrading implements OrderLifecycle: acks, polls, failed ticks and    *)
(* restarts only move committed orders along the state machine, and a      *)
(* terminal order never changes; again as long as fills are priced.        *)
(***************************************************************************)
THEOREM LifecycleRefined ==
    ASSUME ~MayOmitAverage
    PROVE  Spec => KeepsLifecycle
<1>1. Init => Lifecycle!Init
  <2> SUFFICES ASSUME Init PROVE Lifecycle!Init
    OBVIOUS
  <2>1. DOMAIN db.orders = {}
    BY EmptyBook DEF Init
  <2>2. \A o \in 1..MaxSignals : Row(o) = Lifecycle!Absent
    BY <2>1 DEF Row, Lifecycle!Absent
  <2> QED
    BY <2>2 DEF Lifecycle!Init
<1>2. IInv /\ [Next]_vars => [Lifecycle!Next]_([o \in 1..MaxSignals |-> Row(o)])
  <2> SUFFICES ASSUME IInv, [Next]_vars PROVE Lifecycle!Next
    OBVIOUS
  <2>1. IInv' /\ OrdersEvolve
    BY NextStep DEF Kept
  <2>2. \A o \in 1..MaxSignals : Lifecycle!Step(Row(o), Row(o)')
    BY <2>1, RowStep
  <2> QED
    BY <2>2 DEF Lifecycle!Next
<1> QED
  BY <1>1, <1>2, Invariance, PTL DEF Spec, KeepsLifecycle, Lifecycle!Spec
=============================================================================
