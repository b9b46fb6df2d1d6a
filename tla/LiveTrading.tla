---------------------------- MODULE LiveTrading ----------------------------
(***************************************************************************)
(* `pt run --mode live`: the orchestrator over the Upstox broker           *)
(* (execution/upstox/broker.py) and startup reconciliation                 *)
(* (orchestrator/reconcile.py).                                            *)
(*                                                                         *)
(* A candle is one transaction that stays open around the POST of its      *)
(* order: nothing is committed, and the write lock is held, until the      *)
(* answer is in.  A housekeeping tick and the reconciliation of a restart  *)
(* are transactions of one GET per open order.  The exchange fills,        *)
(* rejects and cancels on its own between any two of these steps.          *)
(*                                                                         *)
(* Every lost answer, refused call, failed tick and crash is a fault, and  *)
(* there are at most MaxFaults of them.                                    *)
(***************************************************************************)
EXTENDS Costs, Positions, RiskEngine, OrderStates, Sequences,
        FiniteSets, FiniteSetsExt

CONSTANTS
    Instruments,       \* rows of the instruments table
    Prices,            \* closes, and prices of the exchange's fills
    Directions,        \* what the strategy may emit
    Equities,          \* what get_funds may come to
    LiveOrdersEnabled, \* trading.live_orders_enabled, the second key
    KillThreshold,     \* upstox.position_mismatch_kill_threshold_qty
    MaxRetries,        \* upstox.max_retries
    MayReject,         \* whether the exchange rejects orders it has taken
    MayOmitAverage,    \* whether an answer may lack average_price
    MaxSignals,        \* bound: signals approved
    MaxFaults          \* bound: faults

ASSUME LiveAssumption ==
    /\ Prices \subseteq Nat \ {0}
    /\ Directions \subseteq Direction
    /\ Equities \subseteq Int
    /\ {LiveOrdersEnabled, MayReject, MayOmitAverage} \subseteq BOOLEAN
    /\ {KillThreshold, MaxRetries, MaxSignals, MaxFaults} \subseteq Nat

(***************************************************************************)
(* A local order row; broker is the index of the exchange's order, 0 while *)
(* there is none, and value the price * qty of its trades.  An order at    *)
(* the exchange carries the client_order_id in its tag.                    *)
(***************************************************************************)
Order == [cid : Nat, inst : Instruments, side : Side, qty : Nat \ {0},
          filled : Nat, value : Nat, state : OrderState, broker : Nat]

ExchangeOrder == [cid : Nat, inst : Instruments, side : Side, qty : Nat \ {0},
                  filled : Nat, value : Nat,
                  status : {"open", "complete", "rejected", "cancelled"}]

VARIABLES
    db,      \* the committed database
    tx,      \* the orchestrator's transaction, or that it is down
    exch,    \* the exchange's order book
    issued,  \* client_order_ids handed out
    faults   \* faults so far

vars == <<db, tx, exch, issued, faults>>

EmptyDb ==
    [orders |-> <<>>,
     pos    |-> [i \in Instruments |-> FlatPosition],
     traded |-> [i \in Instruments |-> 0],
     dayPnl |-> 0,
     kill   |-> ClearRow,
     corrected |-> {}]

Idle == [kind |-> "idle", db |-> EmptyDb, todo |-> {}, order |-> <<>>, tries |-> 0, got |-> 0]
Down == [Idle EXCEPT !.kind = "down"]

-----------------------------------------------------------------------------
(***************************************************************************)
(* _map_status: every status but the terminal ones is OPEN, or             *)
(* PARTIALLY_FILLED once something is filled.                              *)
(***************************************************************************)
MapStatus(x) ==
    CASE x.status = "complete"  -> "FILLED"
      [] x.status = "rejected"  -> "REJECTED_BROKER"
      [] x.status = "cancelled" -> "CANCELLED"
      [] x.status = "open"      -> IF x.filled > 0 THEN "PARTIALLY_FILLED" ELSE "OPEN"

(* Mutant of RecordFill: the order's filled_qty is not brought forward. *)
RecordFillOrderStale(d, o, qty, price) ==
    LET ord == d.orders[o]
        net == NetAmount(ord.side, price, qty)
    IN  [d EXCEPT
           !.pos[ord.inst] = ApplyFill(@, ord.side, qty, net),
           !.traded[ord.inst] = @ + Signed(ord.side, qty)]

(* Mutant of RecordFill: the trade is stored, the position forgotten. *)
RecordFillNoPosition(d, o, qty, price) ==
    [d EXCEPT
       !.traded[d.orders[o].inst] = @ + Signed(d.orders[o].side, qty),
       !.orders[o].filled = @ + qty]

(***************************************************************************)
(* _record_fill at the average_price of the whole order so far, with       *)
(* estimated costs; and the order's filled_qty.                            *)
(***************************************************************************)
RecordFill(d, o, qty, price) ==
    LET ord == d.orders[o]
        net == NetAmount(ord.side, price, qty)
        pos == d.pos[ord.inst]
    IN  [d EXCEPT
           !.pos[ord.inst] = ApplyFill(pos, ord.side, qty, net),
           !.traded[ord.inst] = @ + Signed(ord.side, qty),
           !.dayPnl = @ + Realizes(pos, ord.side, qty, net),
           !.orders[o].filled = @ + qty,
           !.orders[o].value = @ + price * qty]

(* Mutant of Raises: the transition table is not consulted. *)
NeverRaises(ord, x) == FALSE

(***************************************************************************)
(* _apply_order_update on what the exchange answered.  A SUBMITTED order   *)
(* passes through OPEN; a transition the table does not allow raises       *)
(* InvalidOrderTransition out of the tick.                                 *)
(***************************************************************************)
Unchanged(ord, x) == MapStatus(x) = ord.state /\ x.filled <= ord.filled

Raises(ord, x) ==
    LET new  == MapStatus(x)
        from == IF ord.state = "SUBMITTED" /\ new \notin AllowedFrom("SUBMITTED")
                THEN "OPEN" ELSE ord.state
    IN  new # ord.state /\ new \notin AllowedFrom(from)

(* Mutant of ApplyUpdate: the cumulative filled_quantity taken for news. *)
ApplyUpdateCumulative(d, o, x, priced) ==
    IF Unchanged(d.orders[o], x) THEN d
    ELSE [(IF x.filled > d.orders[o].filled /\ priced
           THEN RecordFill(d, o, x.filled, x.value \div x.filled) ELSE d)
             EXCEPT !.orders[o].state = MapStatus(x)]

ApplyUpdate(d, o, x, priced) ==
    LET ord    == d.orders[o]
        newly  == x.filled - ord.filled
        booked == IF newly > 0 /\ priced
                  THEN RecordFill(d, o, newly, x.value \div x.filled) ELSE d
    IN  IF Unchanged(ord, x) THEN d
        ELSE [booked EXCEPT !.orders[o].state = MapStatus(x)]

-----------------------------------------------------------------------------
(* Mutant of Verdict: the kill switch is not read. *)
VerdictUnhalted(i, p, direction, equity) ==
    Evaluate(direction, p,
             [tripped |-> FALSE, liveGateShut |-> ~LiveOrdersEnabled,
              dailyPnl |-> db.dayPnl, equity |-> equity, posQty |-> db.pos[i].qty,
              openCount |-> Cardinality({j \in Instruments : db.pos[j].qty # 0})])

Verdict(i, p, direction, equity) ==
    Evaluate(direction, p,
             [tripped |-> db.kill.tripped, liveGateShut |-> ~LiveOrdersEnabled,
              dailyPnl |-> db.dayPnl, equity |-> equity, posQty |-> db.pos[i].qty,
              openCount |-> Cardinality({j \in Instruments : db.pos[j].qty # 0})])

NewOrder(i, v) ==
    [cid |-> issued + 1, inst |-> i, side |-> v.side, qty |-> v.qty,
     filled |-> 0, value |-> 0, state |-> "SUBMITTING", broker |-> 0]

OpenAcked(d) == {o \in DOMAIN d.orders : d.orders[o].state \in ListOpen /\ d.orders[o].broker # 0}

BrokerQty(i) == FilledFor(exch, i)

(***************************************************************************)
(* reconcile_on_startup, its first part: an order without an ack failed.   *)
(***************************************************************************)
FailUnacked(d) ==
    [d EXCEPT !.orders = [o \in DOMAIN d.orders |->
        IF d.orders[o].state \in {"SUBMITTING", "SUBMITTED"} /\ d.orders[o].broker = 0
        THEN [d.orders[o] EXCEPT !.state = "FAILED"] ELSE d.orders[o]]]

(***************************************************************************)
(* _reconcile_positions: where quantities differ the broker's quantity and *)
(* average price replace the local ones and a risk event records it; a     *)
(* difference beyond the threshold trips the kill switch.                  *)
(***************************************************************************)
BrokerWins(d, avg) ==
    LET differ == {i \in Instruments : BrokerQty(i) # d.pos[i].qty}
        breach == \E i \in differ : Magnitude(BrokerQty(i) - d.pos[i].qty) > KillThreshold
    IN  [d EXCEPT
           !.pos = [i \in Instruments |->
               IF i \in differ
               THEN [d.pos[i] EXCEPT !.qty = BrokerQty(i), !.basis = BrokerQty(i) * avg]
               ELSE d.pos[i]],
           !.corrected = @ \cup differ,
           !.kill = IF breach THEN Trip(@) ELSE @]

-----------------------------------------------------------------------------
Init ==
    /\ db = EmptyDb /\ tx = Idle /\ exch = <<>>
    /\ issued = 0 /\ faults = 0

Fault == faults < MaxFaults /\ faults' = faults + 1

(***************************************************************************)
(* _process_candle with a signal the risk engine approves: place_order     *)
(* writes the row in the open transaction and turns to the network.  A     *)
(* rejected signal leaves no trace in the modelled tables.                 *)
(***************************************************************************)
SignalApproved(i, p, direction, equity) ==
    LET v == Verdict(i, p, direction, equity)
    IN  /\ tx = Idle
        /\ issued < MaxSignals
        /\ v.ok
        /\ tx' = [Idle EXCEPT !.kind = "place", !.order = NewOrder(i, v)]
        /\ issued' = issued + 1
        /\ UNCHANGED <<db, exch, faults>>

(***************************************************************************)
(* _on_candle's handler failed before the broker was asked, for one when   *)
(* get_funds did.                                                          *)
(***************************************************************************)
CandleFails ==
    /\ tx = Idle
    /\ Fault
    /\ db' = [db EXCEPT !.kill = RecordError(@)]
    /\ UNCHANGED <<tx, exch, issued>>

(***************************************************************************)
(* _request's POST: the exchange takes the order, or the call goes wrong   *)
(* before it gets there.                                                   *)
(***************************************************************************)
PostTaken ==
    /\ tx.kind = "place"
    /\ exch' = Append(exch, [cid |-> tx.order.cid, inst |-> tx.order.inst,
                             side |-> tx.order.side, qty |-> tx.order.qty,
                             filled |-> 0, value |-> 0, status |-> "open"])
    /\ tx' = [tx EXCEPT !.kind = "await", !.got = Len(exch) + 1]
    /\ UNCHANGED <<db, issued, faults>>

PostNotTaken ==
    /\ tx.kind = "place"
    /\ Fault
    /\ tx' = [tx EXCEPT !.kind = "await", !.got = 0]
    /\ UNCHANGED <<db, exch, issued>>

(***************************************************************************)
(* The ack: SUBMITTED with its broker_order_id, record_success, commit.    *)
(***************************************************************************)
Acknowledged ==
    /\ tx.kind = "await" /\ tx.got # 0
    /\ db' = [db EXCEPT
                !.orders = Append(@, [tx.order EXCEPT !.state = "SUBMITTED", !.broker = tx.got]),
                !.kill = RecordSuccess(@)]
    /\ tx' = Idle
    /\ UNCHANGED <<exch, issued, faults>>

(* Mutant of Retried: one retry too many. *)
RetriedOnceMore ==
    /\ tx.kind = "await"
    /\ tx.tries <= MaxRetries
    /\ tx.got = 0 \/ faults < MaxFaults
    /\ faults' = IF tx.got = 0 THEN faults ELSE faults + 1
    /\ tx' = [tx EXCEPT !.kind = "place", !.tries = @ + 1, !.got = 0]
    /\ UNCHANGED <<db, exch, issued>>

(***************************************************************************)
(* A 429 or a 5xx is answered by another POST of the same body, whether or *)
(* not the exchange took the first.                                        *)
(***************************************************************************)
Retried ==
    /\ tx.kind = "await"
    /\ tx.tries < MaxRetries
    /\ tx.got = 0 \/ faults < MaxFaults
    /\ faults' = IF tx.got = 0 THEN faults ELSE faults + 1
    /\ tx' = [tx EXCEPT !.kind = "place", !.tries = @ + 1, !.got = 0]
    /\ UNCHANGED <<db, exch, issued>>

(***************************************************************************)
(* Any other failure, a timeout above all, and the last retry: place_order *)
(* marks the row FAILED and raises, which rolls the row back; the error is *)
(* counted in a transaction of its own.                                    *)
(***************************************************************************)
GivenUp ==
    /\ tx.kind = "await"
    /\ tx.got = 0 \/ faults < MaxFaults
    /\ faults' = IF tx.got = 0 THEN faults ELSE faults + 1
    /\ db' = [db EXCEPT !.kill = RecordError(@)]
    /\ tx' = Idle
    /\ UNCHANGED <<exch, issued>>

-----------------------------------------------------------------------------
(***************************************************************************)
(* run_housekeeping / poll_and_apply_fills.  A GET that fails skips its    *)
(* order; an exception rolls the tick back, and ends a starting process.   *)
(***************************************************************************)
TickBegin ==
    /\ tx = Idle
    /\ OpenAcked(db) # {}
    /\ tx' = [Idle EXCEPT !.kind = "tick", !.db = db, !.todo = OpenAcked(db)]
    /\ UNCHANGED <<db, exch, issued, faults>>

Poll(o, priced) ==
    /\ tx.kind \in {"tick", "startup"}
    /\ o \in tx.todo
    /\ LET ord == tx.db.orders[o]
           x   == exch[ord.broker]
       IN  tx' = IF Raises(ord, x)
                 THEN IF tx.kind = "tick" THEN Idle ELSE Down
                 ELSE [tx EXCEPT !.db = ApplyUpdate(@, o, x, priced), !.todo = @ \ {o}]
    /\ UNCHANGED <<db, exch, issued, faults>>

PollLost(o) ==
    /\ tx.kind \in {"tick", "startup"}
    /\ o \in tx.todo
    /\ Fault
    /\ tx' = [tx EXCEPT !.todo = @ \ {o}]
    /\ UNCHANGED <<db, exch, issued>>

TickCommit ==
    /\ tx.kind = "tick" /\ tx.todo = {}
    /\ db' = tx.db
    /\ tx' = Idle
    /\ UNCHANGED <<exch, issued, faults>>

TickFails ==
    /\ tx.kind = "tick"
    /\ Fault
    /\ tx' = Idle
    /\ UNCHANGED <<db, exch, issued>>

(***************************************************************************)
(* The process dies at any point.  Its restart reconciles before anything  *)
(* else: stuck orders, the polls of the rest, then the positions.          *)
(***************************************************************************)
Crash ==
    /\ tx.kind # "down"
    /\ Fault
    /\ tx' = Down
    /\ UNCHANGED <<db, exch, issued>>

Restart ==
    /\ tx.kind = "down"
    /\ tx' = [Idle EXCEPT !.kind = "startup", !.db = FailUnacked(db),
                          !.todo = OpenAcked(FailUnacked(db))]
    /\ UNCHANGED <<db, exch, issued, faults>>

StartupPositions(avg) ==
    /\ tx.kind = "startup" /\ tx.todo = {}
    /\ db' = BrokerWins(tx.db, avg)
    /\ tx' = Idle
    /\ UNCHANGED <<exch, issued, faults>>

-----------------------------------------------------------------------------
(***************************************************************************)
(* The exchange.  cancel_order only asks it to cancel: the local row       *)
(* follows at the next poll.                                               *)
(***************************************************************************)
ExchangeFills(x, p) ==
    /\ exch[x].status = "open"
    /\ exch' = [exch EXCEPT
                  ![x].filled = @ + 1, ![x].value = @ + p,
                  ![x].status = IF exch[x].filled + 1 = exch[x].qty THEN "complete" ELSE "open"]
    /\ UNCHANGED <<db, tx, issued, faults>>

ExchangeRejects(x) ==
    /\ MayReject
    /\ exch[x].status = "open" /\ exch[x].filled = 0
    /\ exch' = [exch EXCEPT ![x].status = "rejected"]
    /\ UNCHANGED <<db, tx, issued, faults>>

ExchangeCancels(x) ==
    /\ exch[x].status = "open"
    /\ exch' = [exch EXCEPT ![x].status = "cancelled"]
    /\ UNCHANGED <<db, tx, issued, faults>>

(***************************************************************************)
(* The CLI and the dashboard reach the row when no transaction of the      *)
(* orchestrator holds the write lock; so does midnight's new P&L day.      *)
(***************************************************************************)
Unlocked == tx.kind \in {"idle", "down"}

TripKillSwitch ==
    /\ Unlocked /\ ~db.kill.tripped
    /\ db' = [db EXCEPT !.kill = Trip(@)]
    /\ UNCHANGED <<tx, exch, issued, faults>>

ResetKillSwitch ==
    /\ Unlocked /\ db.kill.tripped
    /\ db' = [db EXCEPT !.kill = Reset(@)]
    /\ UNCHANGED <<tx, exch, issued, faults>>

NewDay ==
    /\ Unlocked /\ db.dayPnl # 0
    /\ db' = [db EXCEPT !.dayPnl = 0]
    /\ UNCHANGED <<tx, exch, issued, faults>>

Answers == IF MayOmitAverage THEN BOOLEAN ELSE {TRUE}

Next ==
    \/ \E i \in Instruments, p \in Prices, dir \in Directions, e \in Equities :
          SignalApproved(i, p, dir, e)
    \/ CandleFails
    \/ PostTaken \/ PostNotTaken \/ Acknowledged \/ Retried \/ GivenUp
    \/ TickBegin \/ TickCommit \/ TickFails
    \/ \E o \in tx.todo : PollLost(o) \/ \E priced \in Answers : Poll(o, priced)
    \/ Crash \/ Restart \/ \E avg \in Prices : StartupPositions(avg)
    \/ \E x \in DOMAIN exch :
          ExchangeRejects(x) \/ ExchangeCancels(x) \/ \E p \in Prices : ExchangeFills(x, p)
    \/ TripKillSwitch \/ ResetKillSwitch \/ NewDay

Spec == Init /\ [][Next]_vars

(***************************************************************************)
(* Every HTTP call ends, by its timeout if nothing else; the scheduler     *)
(* keeps firing the housekeeping job; a dead process is started again.     *)
(***************************************************************************)
Fairness ==
    /\ WF_vars(PostTaken \/ PostNotTaken)
    /\ WF_vars(Acknowledged \/ Retried \/ GivenUp)
    /\ WF_vars(TickBegin)
    /\ WF_vars(\E o \in tx.todo, priced \in Answers : Poll(o, priced))
    /\ WF_vars(TickCommit)
    /\ WF_vars(Restart)
    /\ WF_vars(\E avg \in Prices : StartupPositions(avg))

FairSpec == Spec /\ Fairness

-----------------------------------------------------------------------------
(***************************************************************************)
(* Type invariant.                                                         *)
(***************************************************************************)
Database ==
    [orders : Seq(Order), pos : [Instruments -> Position], traded : [Instruments -> Int],
     dayPnl : Int, kill : KillSwitchRow, corrected : SUBSET Instruments]

TypeOK ==
    /\ db \in Database /\ tx.db \in Database
    /\ exch \in Seq(ExchangeOrder)
    /\ tx.kind \in {"idle", "place", "await", "tick", "startup", "down"}
    /\ tx.kind \in {"place", "await"} => tx.order \in Order /\ tx.tries \in 0..MaxRetries
    /\ tx.got \in 0..Len(exch)
    /\ tx.todo \subseteq DOMAIN tx.db.orders
    /\ issued \in Nat /\ faults \in Nat

(***************************************************************************)
(* The local books only ever follow the exchange: a committed order has    *)
(* been acknowledged, as the order it says, by an exchange order of its    *)
(* own; it never claims more fills than the exchange made, whatever was    *)
(* polled twice, lost or rolled back; and it is terminal only when the     *)
(* exchange is, with every fill booked.  So reconciliation never meets an  *)
(* order without an ack.                                                   *)
(***************************************************************************)
Follows(ord, x) ==
    /\ ord.cid = x.cid /\ ord.inst = x.inst /\ ord.side = x.side /\ ord.qty = x.qty
    /\ ord.filled <= x.filled
    /\ ord.state \in Terminal => ord.state = MapStatus(x) /\ ord.filled = x.filled

BooksFollowBroker ==
    \A o \in DOMAIN db.orders :
       /\ db.orders[o].broker \in DOMAIN exch
       /\ Follows(db.orders[o], exch[db.orders[o].broker])
       /\ \A p \in DOMAIN db.orders : db.orders[p].broker = db.orders[o].broker => p = o

(***************************************************************************)
(* Every fill of an order is in the trades table once: _record_fill and    *)
(* the order's filled_qty are never committed one without the other.       *)
(***************************************************************************)
TradesMatchOrders == \A i \in Instruments : db.traded[i] = FilledFor(db.orders, i)

(***************************************************************************)
(* While the kill switch is tripped no order reaches the exchange, not     *)
(* even the retry of one approved before, and only a reset lifts it.       *)
(***************************************************************************)
HaltStep ==
    db.kill.tripped => Len(exch') = Len(exch) /\ (db'.kill.tripped \/ ResetKillSwitch)

HaltHolds == [][HaltStep]_vars

(***************************************************************************)
(* The committed orders behave as OrderLifecycle says.                     *)
(***************************************************************************)
Row(o) ==
    IF o \in DOMAIN db.orders
    THEN [state |-> db.orders[o].state, qty |-> db.orders[o].qty,
          filled |-> db.orders[o].filled]
    ELSE [state |-> "NONE", qty |-> 0, filled |-> 0]

Lifecycle == INSTANCE OrderLifecycle
                 WITH Ids <- 1..MaxSignals, book <- [o \in 1..MaxSignals |-> Row(o)]

KeepsLifecycle == Lifecycle!Spec

(***************************************************************************)
(* The books have caught up when every exchange order is known locally and *)
(* polled to its present state.  The positions then are those of the       *)
(* broker, whatever was lost, retried, rolled back or interrupted on the   *)
(* way, except where a risk event records that a restart corrected one:    *)
(* poll_and_apply_fills adds each fill to its position once.               *)
(***************************************************************************)
Behind(o) ==
    LET ord == db.orders[o] x == exch[ord.broker]
    IN  ord.state # MapStatus(x) \/ ord.filled < x.filled

CaughtUp ==
    /\ tx = Idle
    /\ \A x \in DOMAIN exch : \E o \in DOMAIN db.orders : db.orders[o].broker = x
    /\ \A o \in DOMAIN db.orders : ~Behind(o)

UncorrectedMatchBroker ==
    CaughtUp => \A i \in Instruments \ db.corrected : db.pos[i].qty = BrokerQty(i)

(***************************************************************************)
(* poll_and_apply_fills: "For every locally OPEN/PARTIALLY_FILLED order,   *)
(* ask Upstox for its current status and apply any progress": whatever the *)
(* exchange does to an acknowledged order is booked in the end.  It is not *)
(* once an order that was seen OPEN is rejected: every later tick raises   *)
(* on it.                                                                  *)
(***************************************************************************)
BooksCatchUp == \A o \in 1..MaxSignals : []<>(o \in DOMAIN db.orders => ~Behind(o))

-----------------------------------------------------------------------------
(***************************************************************************)
(* What the repository says of this code and TLC refutes (README.md,       *)
(* "Divergences").                                                         *)
(*                                                                         *)
(* docs/architecture/04-trade-lifecycle.md: "we never double-submit".      *)
(***************************************************************************)
NeverDoubleSubmit == \A x, y \in DOMAIN exch : exch[x].cid = exch[y].cid => x = y

(***************************************************************************)
(* docs/architecture/04-trade-lifecycle.md: "broker wins; local            *)
(* corrected".  A restart can break it for good: a fill between the poll   *)
(* and the positions call is taken over with the position and booked again *)
(* at the next poll.                                                       *)
(***************************************************************************)
PositionsMatchBroker ==
    CaughtUp => \A i \in Instruments : db.pos[i].qty = BrokerQty(i)

(***************************************************************************)
(* execution/upstox/broker.py, _record_fill: costs are "applied to the     *)
(* real qty/price Upstox reports".  A filled order's trades are worth what *)
(* the exchange filled it for.                                             *)
(***************************************************************************)
TradesAtRealPrices ==
    \A o \in DOMAIN db.orders :
       db.orders[o].state = "FILLED" => db.orders[o].value = exch[db.orders[o].broker].value

(***************************************************************************)
(* risk/engine.py, evaluate: "No pyramiding".  A position is never larger  *)
(* than some order for its instrument.                                     *)
(***************************************************************************)
NoPyramiding ==
    \A i \in Instruments :
       \/ db.pos[i].qty = 0
       \/ \E o \in DOMAIN db.orders :
             db.orders[o].inst = i /\ db.orders[o].qty >= Magnitude(db.pos[i].qty)

(***************************************************************************)
(* docs/architecture/04-trade-lifecycle.md: "OPEN --> FILLED : full fill". *)
(* A FILLED order has booked all of its quantity.                          *)
(***************************************************************************)
FilledIsBooked ==
    \A o \in DOMAIN db.orders :
       db.orders[o].state = "FILLED" => db.orders[o].filled = db.orders[o].qty
=============================================================================
