----------------------------- MODULE Positions -----------------------------
(***************************************************************************)
(* The position row both brokers update on every fill                      *)
(* (_apply_fill_to_position, identical in execution/paper/broker.py and    *)
(* execution/upstox/broker.py).                                            *)
(*                                                                         *)
(* qty is signed (short < 0).  The code stores avg_price, the net amount   *)
(* per share; the model stores basis = qty * avg_price, so that adding a   *)
(* leg needs no division.  realized accumulates over the row's lifetime.   *)
(***************************************************************************)
EXTENDS Integers, Functions

Position == [qty : Int, basis : Int, realized : Int]
FlatPosition == [qty |-> 0, basis |-> 0, realized |-> 0]

Magnitude(n) == IF n >= 0 THEN n ELSE -n
Signed(side, n) == IF side = "BUY" THEN n ELSE -n

(***************************************************************************)
(* A leg adds when the row is flat or on the leg's own side.               *)
(***************************************************************************)
Adding(pos, side) == pos.qty = 0 \/ (pos.qty > 0 <=> side = "BUY")

(***************************************************************************)
(* avg_price * n for a position that is not flat.                          *)
(***************************************************************************)
AvgPriceTimes(pos, n) == (Magnitude(pos.basis) * n) \div Magnitude(pos.qty)

(***************************************************************************)
(* avg_price is never negative, and zero when nothing is held.             *)
(***************************************************************************)
CostSigned(pos) ==
    /\ pos.qty > 0 => pos.basis >= 0
    /\ pos.qty < 0 => pos.basis <= 0
    /\ pos.qty = 0 => pos.basis = 0

(* Mutant of Realizes: a cover counted with the sign of a sale. *)
RealizesAsSale(pos, side, n, net) ==
    IF Adding(pos, side) THEN 0 ELSE net - AvgPriceTimes(pos, n)

(***************************************************************************)
(* What a closing leg of n shares for net_amount realizes: proceeds minus  *)
(* cost for a sale, short proceeds minus cost for a cover.                 *)
(***************************************************************************)
Realizes(pos, side, n, net) ==
    IF Adding(pos, side) THEN 0
    ELSE IF side = "SELL" THEN net - AvgPriceTimes(pos, n)
                          ELSE AvgPriceTimes(pos, n) - net

(* Mutant of ApplyFill: a closing leg leaves the cost of what it closed. *)
ApplyFillKeepsCost(pos, side, n, net) ==
    [qty      |-> pos.qty + Signed(side, n),
     basis    |-> IF Adding(pos, side) THEN pos.basis + Signed(side, net) ELSE pos.basis,
     realized |-> pos.realized + Realizes(pos, side, n, net)]

(***************************************************************************)
(* The row after the leg.  A closing leg is not bounded by the position:   *)
(* one larger than it leaves the opposite side open at the old avg_price.  *)
(* Closing to zero leaves basis zero, the code's reset of avg_price.       *)
(***************************************************************************)
ApplyFill(pos, side, n, net) ==
    [qty      |-> pos.qty + Signed(side, n),
     basis    |-> IF Adding(pos, side)
                  THEN pos.basis + Signed(side, net)
                  ELSE IF pos.qty + Signed(side, n) = 0 THEN 0
                  ELSE pos.basis + Signed(side, AvgPriceTimes(pos, n)),
     realized |-> pos.realized + Realizes(pos, side, n, net)]

-----------------------------------------------------------------------------
(***************************************************************************)
(* What the orders of a table have filled for instrument i, as a signed    *)
(* quantity.                                                               *)
(***************************************************************************)
SignedFills(orders) == [o \in DOMAIN orders |-> Signed(orders[o].side, orders[o].filled)]

OrdersFor(orders, i) == {o \in DOMAIN orders : orders[o].inst = i}

FilledFor(orders, i) == SumFunctionOnSet(SignedFills(orders), OrdersFor(orders, i))
=============================================================================
