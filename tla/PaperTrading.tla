---------------------------- MODULE PaperTrading ----------------------------
(***************************************************************************)
(* `pt run --mode paper`: the orchestrator (orchestrator/service.py) turns *)
(* candles into signals, has the risk engine judge them, and gives the     *)
(* approved ones to the simulated broker (execution/paper/broker.py); a    *)
(* housekeeping tick retries what rests; the CLI and the dashboard act on  *)
(* the same database from processes of their own.                          *)
(*                                                                         *)
(* db is what SQLite has committed.  A candle, a CLI command and a         *)
(* dashboard request are one transaction each and one step here.  A        *)
(* housekeeping tick is a transaction of one step per open order on a      *)
(* working copy (tx.db), committed at the end or lost with the process.    *)
(* ltp is the orchestrator's in-memory quote source.                       *)
(*                                                                         *)
(* The trades table is kept as its sums: per instrument the signed         *)
(* quantity and the signed cash flow, and the cash flow of all trades.     *)
(***************************************************************************)
EXTENDS Costs, Positions, RiskEngine, OrderStates, Sequences,
        FiniteSets, FiniteSetsExt

CONSTANTS
    Instruments,  \* rows of the instruments table
    Universe,     \* trading.universe: the instruments with a strategy runner
    Prices,       \* closes a candle can report, and limit prices
    NoQuote,      \* a quote source without a price for the instrument
    Directions,   \* what the strategy may emit
    CliQtys,      \* quantities of `pt paper order`; empty when nobody uses it
    CliTypes,     \* its --type values, "MARKET" (which SL also is here) and "LIMIT"
    CanCancel,    \* whether anybody calls cancel_order (no shipped caller does)
    InitialCash,  \* RiskConfig.capital
    MaxOrders,    \* bound: orders ever placed
    MaxErrors     \* bound: value the error counter may reach

ASSUME PaperAssumption ==
    /\ IsFiniteSet(Instruments)
    /\ Universe \subseteq Instruments
    /\ Prices \subseteq Nat \ {0}
    /\ NoQuote \notin Prices
    /\ Directions \subseteq Direction
    /\ CliQtys \subseteq Nat \ {0}
    /\ CliTypes \subseteq {"MARKET", "LIMIT"}
    /\ CanCancel \in BOOLEAN
    /\ InitialCash \in Nat
    /\ MaxOrders \in Nat
    /\ MaxErrors \in Nat

OrderIds == 1..MaxOrders

(***************************************************************************)
(* An order row.  by tells the orchestrator's orders (linked to a signal)  *)
(* from those of `pt paper order`.                                         *)
(***************************************************************************)
Order == [inst : Instruments, side : Side, type : {"MARKET", "LIMIT"},
          limit : Nat, qty : Nat \ {0}, filled : Nat, state : OrderState,
          by : {"SIGNAL", "CLI"}]

Trades == [net : Int, qty : [Instruments -> Int], flow : [Instruments -> Int]]

VARIABLES
    db,   \* the committed database
    tx,   \* the orchestrator's housekeeping transaction
    ltp   \* LiveQuoteSource._prices

vars == <<db, tx, ltp>>

EmptyDb ==
    [cash   |-> InitialCash,
     pos    |-> [i \in Instruments |-> FlatPosition],
     orders |-> <<>>,
     trades |-> [net |-> 0, qty |-> [i \in Instruments |-> 0],
                 flow |-> [i \in Instruments |-> 0]],
     dayPnl |-> 0,
     kill   |-> ClearRow]

Idle == [active |-> FALSE, db |-> EmptyDb, todo |-> {}]

-----------------------------------------------------------------------------
(***************************************************************************)
(* The trades table with one more row.                                     *)
(***************************************************************************)
AddTrade(trades, i, side, qty, net) ==
    [net  |-> trades.net - Signed(side, net),
     qty  |-> [trades.qty EXCEPT ![i] = @ + Signed(side, qty)],
     flow |-> [trades.flow EXCEPT ![i] = @ - Signed(side, net)]]

(* Mutant of Progressed: the filled quantity is overwritten, not summed. *)
ProgressedLast(ord, qty) ==
    [ord EXCEPT !.filled = qty,
                !.state = IF ord.filled + qty >= ord.qty
                          THEN "FILLED" ELSE "PARTIALLY_FILLED"]

(***************************************************************************)
(* PaperBroker._execute_fill: the trade, the position row, the account's   *)
(* cash, the daily P&L the trade adds to, and the order's progress.        *)
(***************************************************************************)
Progressed(ord, qty) ==
    [ord EXCEPT !.filled = @ + qty,
                !.state = IF ord.filled + qty >= ord.qty
                          THEN "FILLED" ELSE "PARTIALLY_FILLED"]

ExecuteFill(d, o, qty, price) ==
    LET ord == d.orders[o]
        net == NetAmount(ord.side, price, qty)
        pos == d.pos[ord.inst]
    IN  [d EXCEPT
           !.trades = AddTrade(@, ord.inst, ord.side, qty, net),
           !.pos[ord.inst] = ApplyFill(pos, ord.side, qty, net),
           !.cash = @ - Signed(ord.side, net),
           !.dayPnl = @ + Realizes(pos, ord.side, qty, net),
           !.orders[o] = Progressed(ord, qty)]

(***************************************************************************)
(* A LIMIT order fills only at or through its price.  The reference price  *)
(* the code then takes, min(ltp, limit) for a BUY, is the ltp.             *)
(***************************************************************************)
Marketable(ord, quote) ==
    \/ ord.type = "MARKET"
    \/ ord.side = "BUY"  /\ quote <= ord.limit
    \/ ord.side = "SELL" /\ quote >= ord.limit

FillQty(d, ord, price) ==
    IF ord.side = "BUY" THEN ClampToCash(ord.qty - ord.filled, price, d.cash)
                        ELSE ord.qty - ord.filled

(***************************************************************************)
(* PaperBroker._try_fill: nothing left, no quote or a limit not reached    *)
(* leaves the order resting; a BUY that cash cannot cover at all is        *)
(* cancelled; otherwise what cash covers is filled and the rest rests.     *)
(***************************************************************************)
TryFill(d, o, quote) ==
    LET ord == d.orders[o]
        price == ApplySlippage(quote, ord.side)
        qty == FillQty(d, ord, price)
    IN  IF ord.filled >= ord.qty \/ quote = NoQuote \/ ~Marketable(ord, quote) THEN d
        ELSE IF qty = 0 THEN [d EXCEPT !.orders[o].state = "CANCELLED"]
        ELSE ExecuteFill(d, o, qty, price)

(***************************************************************************)
(* PaperBroker.place_order: the row is created and walked to OPEN inside   *)
(* the caller's transaction, then tried against the quote at once.         *)
(***************************************************************************)
NewOrder(i, side, type, limit, qty, by) ==
    [inst |-> i, side |-> side, type |-> type, limit |-> limit, qty |-> qty,
     filled |-> 0, state |-> "OPEN", by |-> by]

PlaceOrder(d, ord, quote) ==
    TryFill([d EXCEPT !.orders = Append(@, ord)], Len(d.orders) + 1, quote)

-----------------------------------------------------------------------------
(***************************************************************************)
(* PaperBroker.get_funds: a position without a quote counts at avg_price.  *)
(***************************************************************************)
MarketValue(d, quotes, i) ==
    IF quotes[i] = NoQuote THEN d.pos[i].basis ELSE d.pos[i].qty * quotes[i]

Equity(d, quotes) ==
    d.cash + MapThenSumSet(LAMBDA i : MarketValue(d, quotes, i), Instruments)

OpenCount(d) == Cardinality({i \in Instruments : d.pos[i].qty # 0})

RiskContext(d, quotes, i) ==
    [tripped |-> d.kill.tripped, liveGateShut |-> FALSE,
     dailyPnl |-> d.dayPnl, equity |-> Equity(d, quotes),
     posQty |-> d.pos[i].qty, openCount |-> OpenCount(d)]

Verdict(d, quotes, i, p, direction) ==
    Evaluate(direction, p, RiskContext(d, quotes, i))

(***************************************************************************)
(* _process_candle once the strategy has emitted direction: a rejection    *)
(* leaves no trace in the modelled tables; an approval places a MARKET     *)
(* order and ends the kill switch's error streak.                          *)
(***************************************************************************)
ProcessSignal(d, quotes, i, p, direction) ==
    LET v == Verdict(d, quotes, i, p, direction)
        placed == PlaceOrder(d, NewOrder(i, v.side, "MARKET", 0, v.qty, "SIGNAL"), quotes[i])
    IN  IF v.ok THEN [placed EXCEPT !.kill = RecordSuccess(@)] ELSE d

(***************************************************************************)
(* reconcile_on_startup in paper mode: what was left between intent and    *)
(* acknowledgement has failed.                                             *)
(***************************************************************************)
Reconcile(d) ==
    [d EXCEPT !.orders = [o \in DOMAIN d.orders |->
        IF d.orders[o].state \in {"SUBMITTING", "SUBMITTED"}
        THEN [d.orders[o] EXCEPT !.state = "FAILED"] ELSE d.orders[o]]]

-----------------------------------------------------------------------------
Init == db = EmptyDb /\ tx = Idle /\ ltp = [i \in Instruments |-> NoQuote]

(***************************************************************************)
(* The orchestrator runs candles and housekeeping ticks one after the      *)
(* other on its event loop; another process' transaction finds the         *)
(* database either before the tick or after it.                            *)
(***************************************************************************)
Unlocked == ~tx.active
Room == Len(db.orders) < MaxOrders

(***************************************************************************)
(* _on_candle: the quote source first; then the strategy runs.  Candle is  *)
(* a bar without a signal, or one whose failure could not be recorded.     *)
(***************************************************************************)
Quoted(i, p) == [ltp EXCEPT ![i] = p]

Candle(i, p) ==
    /\ Unlocked
    /\ ltp' = Quoted(i, p)
    /\ UNCHANGED <<db, tx>>

(* Mutant of CandleWithSignal: the close is recorded after the handler. *)
CandleWithSignalLateQuote(i, p, direction) ==
    /\ Unlocked /\ Room
    /\ ltp' = Quoted(i, p)
    /\ db' = ProcessSignal(db, ltp, i, p, direction)
    /\ UNCHANGED tx

CandleWithSignal(i, p, direction) ==
    /\ Unlocked /\ Room
    /\ ltp' = Quoted(i, p)
    /\ db' = ProcessSignal(db, ltp', i, p, direction)
    /\ UNCHANGED tx

(***************************************************************************)
(* The handler raised: its transaction is rolled back and the failure is   *)
(* counted in one of its own.                                              *)
(***************************************************************************)
CandleFails(i, p) ==
    /\ Unlocked
    /\ db.kill.errors < MaxErrors
    /\ ltp' = Quoted(i, p)
    /\ db' = [db EXCEPT !.kill = RecordError(@)]
    /\ UNCHANGED tx

(***************************************************************************)
(* run_housekeeping / check_resting_orders: every order of list_open, in   *)
(* whatever order its query returns them (it has no ORDER BY), tried       *)
(* against the quote of now.  A tick with nothing open changes nothing and *)
(* is left out.                                                            *)
(***************************************************************************)
OpenOrders(d) == {o \in DOMAIN d.orders : d.orders[o].state \in ListOpen}

TickBegin ==
    /\ Unlocked
    /\ OpenOrders(db) # {}
    /\ tx' = [active |-> TRUE, db |-> db, todo |-> OpenOrders(db)]
    /\ UNCHANGED <<db, ltp>>

TickOrder(o) ==
    /\ tx.active
    /\ o \in tx.todo
    /\ tx' = [tx EXCEPT !.db = TryFill(@, o, ltp[@.orders[o].inst]),
                        !.todo = @ \ {o}]
    /\ UNCHANGED <<db, ltp>>

TickCommit ==
    /\ tx.active /\ tx.todo = {}
    /\ db' = tx.db
    /\ tx' = Idle
    /\ UNCHANGED ltp

(***************************************************************************)
(* An exception in the tick: logged, rolled back, not counted.             *)
(***************************************************************************)
TickFails ==
    /\ tx.active
    /\ tx' = Idle
    /\ UNCHANGED <<db, ltp>>

(***************************************************************************)
(* `pt paper order`: straight to a broker over the stored candles' last    *)
(* close, past the risk engine and the kill switch.                        *)
(***************************************************************************)
CliOrder(i, side, type, limit, qty, quote) ==
    /\ Unlocked /\ Room
    /\ db' = PlaceOrder(db, NewOrder(i, side, type, limit, qty, "CLI"), quote)
    /\ UNCHANGED <<tx, ltp>>

CliMarketOrder(i, side, qty, quote) == CliOrder(i, side, "MARKET", 0, qty, quote)

(* Mutant of CancelOrder: the terminal states are not looked at. *)
CancelOrderAnyState(o) ==
    /\ Unlocked
    /\ CanCancel
    /\ o \in DOMAIN db.orders
    /\ db' = [db EXCEPT !.orders[o].state = "CANCELLED"]
    /\ UNCHANGED <<tx, ltp>>

(***************************************************************************)
(* PaperBroker.cancel_order; on a terminal order it does nothing.          *)
(***************************************************************************)
CancelOrder(o) ==
    /\ Unlocked
    /\ CanCancel
    /\ o \in DOMAIN db.orders
    /\ db.orders[o].state \in {"OPEN", "PARTIALLY_FILLED"}
    /\ db' = [db EXCEPT !.orders[o].state = "CANCELLED"]
    /\ UNCHANGED <<tx, ltp>>

(***************************************************************************)
(* `pt kill-switch trip|reset` and the dashboard's buttons.                *)
(***************************************************************************)
TripKillSwitch ==
    /\ Unlocked
    /\ ~db.kill.tripped
    /\ db' = [db EXCEPT !.kill = Trip(@)]
    /\ UNCHANGED <<tx, ltp>>

ResetKillSwitch ==
    /\ Unlocked
    /\ db.kill.tripped
    /\ db' = [db EXCEPT !.kill = Reset(@)]
    /\ UNCHANGED <<tx, ltp>>

(***************************************************************************)
(* IST midnight: sum_realized_pnl_since starts again from nothing.         *)
(***************************************************************************)
NewDay ==
    /\ Unlocked
    /\ db.dayPnl # 0
    /\ db' = [db EXCEPT !.dayPnl = 0]
    /\ UNCHANGED <<tx, ltp>>

(***************************************************************************)
(* The process dies, with its quotes and any open transaction, and is      *)
(* started again.                                                          *)
(***************************************************************************)
CrashRestart ==
    /\ db' = Reconcile(db)
    /\ tx' = Idle
    /\ ltp' = [i \in Instruments |-> NoQuote]

Next ==
    \/ \E i \in Universe, p \in Prices :
          \/ Candle(i, p)
          \/ \E dir \in Directions : CandleWithSignal(i, p, dir)
          \/ CandleFails(i, p)
    \/ \E i \in Instruments, side \in Side, qty \in CliQtys, quote \in Prices \cup {NoQuote} :
          \/ "MARKET" \in CliTypes /\ CliMarketOrder(i, side, qty, quote)
          \/ "LIMIT" \in CliTypes /\ \E p \in Prices : CliOrder(i, side, "LIMIT", p, qty, quote)
    \/ TickBegin
    \/ \E o \in OrderIds : TickOrder(o)
    \/ TickCommit
    \/ TickFails
    \/ \E o \in OrderIds : CancelOrder(o)
    \/ TripKillSwitch
    \/ ResetKillSwitch
    \/ NewDay
    \/ CrashRestart

Spec == Init /\ [][Next]_vars

(***************************************************************************)
(* The scheduler's housekeeping job keeps firing and runs to its end; a    *)
(* tick that fails, because another process held the write lock past the   *)
(* busy timeout, does not fail for ever: with n orders still to try, some  *)
(* tick gets past the next one.                                            *)
(***************************************************************************)
TickAdvances(n) == Cardinality(tx.todo) = n /\ \E o \in OrderIds : TickOrder(o)

Fairness ==
    /\ WF_vars(TickBegin)
    /\ \A n \in OrderIds : SF_vars(TickAdvances(n))
    /\ SF_vars(TickCommit)

FairSpec == Spec /\ Fairness

-----------------------------------------------------------------------------
(***************************************************************************)
(* Type invariant.                                                         *)
(***************************************************************************)
Database ==
    [cash : Int, pos : [Instruments -> Position], orders : Seq(Order),
     trades : Trades, dayPnl : Int, kill : KillSwitchRow]

TypeOK ==
    /\ db \in Database
    /\ tx \in [active : BOOLEAN, db : Database, todo : SUBSET Nat]
    /\ ltp \in [Instruments -> Prices \cup {NoQuote}]
    /\ tx.active => tx.todo \subseteq DOMAIN tx.db.orders

-----------------------------------------------------------------------------
(***************************************************************************)
(* The three views of a fill agree in every committed database: the        *)
(* account has gained exactly what the trades paid, a position holds       *)
(* exactly what was traded, and its realized P&L is its cash flow plus the *)
(* cost of what is still held, at an avg_price that is never negative      *)
(* (_apply_fill_to_position, over any sequence of adds, partial closes,    *)
(* flips and reopenings of the reused row).                                *)
(***************************************************************************)
LedgerMatches(d) ==
    /\ d.cash = InitialCash + d.trades.net
    /\ \A i \in Instruments :
          /\ d.pos[i].qty = d.trades.qty[i]
          /\ d.trades.flow[i] + d.pos[i].basis = d.pos[i].realized
          /\ CostSigned(d.pos[i])

LedgerMatchesTrades == LedgerMatches(db)

(***************************************************************************)
(* place_order commits an order only once it is OPEN or beyond, and its    *)
(* state always agrees with what has been filled: FILLED is all of it,     *)
(* PARTIALLY_FILLED some but not all, OPEN nothing.  So startup            *)
(* reconciliation never finds a stuck paper order.                         *)
(***************************************************************************)
OrderSound(ord) ==
    /\ ord.state \in {"OPEN", "PARTIALLY_FILLED", "FILLED", "CANCELLED"}
    /\ ord.filled <= ord.qty
    /\ ord.state = "OPEN" => ord.filled = 0
    /\ ord.state = "PARTIALLY_FILLED" => ord.filled \in 1..(ord.qty - 1)
    /\ ord.state = "FILLED" <=> ord.filled = ord.qty

OrdersSound == \A o \in DOMAIN db.orders : OrderSound(db.orders[o])

(***************************************************************************)
(* No money appears or vanishes: the cash and the cost of the open         *)
(* positions together are the initial cash and everything realized.        *)
(***************************************************************************)
Column(d, name) == [i \in Instruments |-> d.pos[i][name]]

Balanced(d) ==
    d.cash + SumFunction(Column(d, "basis")) = InitialCash + SumFunction(Column(d, "realized"))

BooksBalance == Balanced(db)

(***************************************************************************)
(* A position is the signed sum of what its orders report as filled, so    *)
(* the order book and the positions never disagree after a crash, a        *)
(* partial fill or a cancellation.                                         *)
(***************************************************************************)
PositionMatchesOrders == \A i \in Instruments : db.pos[i].qty = FilledFor(db.orders, i)

(***************************************************************************)
(* _clamp_to_cash keeps the account out of debt: whatever is bought, sold  *)
(* short, covered or retried later at another price, costs included, cash  *)
(* stays at or above zero.                                                 *)
(***************************************************************************)
CashNeverNegative == db.cash >= 0

(***************************************************************************)
(* With strategies that emit only LONG and EXIT and no manual orders, no   *)
(* position is ever short: an EXIT is sized to the position, and since     *)
(* _on_candle records the close first it fills whole and at once, so no    *)
(* second EXIT can be approved while one is resting.                       *)
(***************************************************************************)
LongOnlyNeverShort == \A i \in Instruments : db.pos[i].qty >= 0

(***************************************************************************)
(* While the kill switch is tripped, only a human reset changes that       *)
(* (not an error counted later, a success, a tick or a restart), and no    *)
(* signal becomes an order.                                                *)
(***************************************************************************)
HaltStep ==
    db.kill.tripped =>
        /\ db'.kill.tripped \/ ResetKillSwitch
        /\ \A o \in DOMAIN db'.orders \ DOMAIN db.orders : db'.orders[o].by = "CLI"

HaltHolds == [][HaltStep]_vars

(***************************************************************************)
(* The committed orders behave as OrderLifecycle says.                     *)
(***************************************************************************)
Row(d, o) ==
    IF o \in DOMAIN d.orders
    THEN [state |-> d.orders[o].state, qty |-> d.orders[o].qty,
          filled |-> d.orders[o].filled]
    ELSE [state |-> "NONE", qty |-> 0, filled |-> 0]

Lifecycle == INSTANCE OrderLifecycle
                 WITH Ids <- OrderIds, book <- [o \in OrderIds |-> Row(db, o)]

KeepsLifecycle == Lifecycle!Spec

(***************************************************************************)
(* A market order does not rest for ever while its instrument has a quote: *)
(* each housekeeping tick fills some of it or cancels it, so that it ends. *)
(***************************************************************************)
Resting(o) ==
    /\ o \in DOMAIN db.orders
    /\ db.orders[o].type = "MARKET"
    /\ db.orders[o].state \notin Terminal
    /\ ltp[db.orders[o].inst] # NoQuote

RestingOrdersSettle == \A o \in OrderIds : []<>(~Resting(o))

-----------------------------------------------------------------------------
(***************************************************************************)
(* What the repository says of this code and TLC refutes (README.md,       *)
(* "Divergences").                                                         *)
(*                                                                         *)
(* execution/paper/broker.py, _try_fill: "never worse than the limit for   *)
(* the trader".  A LIMIT order filled as it is placed takes no more cash   *)
(* (a SELL brings no less) than the same quantity does at its limit.       *)
(***************************************************************************)
LimitPriceHonoured ==
    [][\A o \in DOMAIN db'.orders \ DOMAIN db.orders :
          LET ord == db'.orders[o]
          IN  ord.type = "LIMIT" =>
                 db.cash - db'.cash
                    <= Signed(ord.side, NetAmount(ord.side, ord.limit, ord.filled))]_vars

(***************************************************************************)
(* execution/paper/broker.py, _apply_fill_to_position: "a closing qty      *)
(* never exceeds the current position size".  No commit turns a long       *)
(* position into a short one or back.                                      *)
(***************************************************************************)
ClosingNeverExceedsPosition ==
    [][\A i \in Instruments : db.pos[i].qty * db'.pos[i].qty >= 0]_vars

(***************************************************************************)
(* docs/architecture/04-trade-lifecycle.md: when the kill switch trips,    *)
(* "open orders are cancelled".  No order is filled further while tripped. *)
(***************************************************************************)
HaltStopsFills ==
    [][db.kill.tripped /\ db'.kill.tripped =>
          \A o \in DOMAIN db.orders : db'.orders[o].filled = db.orders[o].filled]_vars

(***************************************************************************)
(* risk/limits.py: no new position "would push the count to or past the    *)
(* configured cap": the open positions never outnumber max_open_positions. *)
(***************************************************************************)
OpenPositionsWithinCap == OpenCount(db) <= MaxOpenPositions

(***************************************************************************)
(* docs/architecture/04-trade-lifecycle.md: the kill switch is "Tripped    *)
(* by: max daily loss".  A signal refused for the daily loss leaves the    *)
(* switch tripped.                                                         *)
(***************************************************************************)
DailyLossTrips ==
    [][\A i \in Universe, p \in Prices, dir \in Directions :
          /\ CandleWithSignal(i, p, dir)
          /\ Verdict(db, ltp', i, p, dir).reason = "MAX_DAILY_LOSS"
          => db'.kill.tripped]_vars
=============================================================================
