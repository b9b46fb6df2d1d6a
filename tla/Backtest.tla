------------------------------ MODULE Backtest ------------------------------
(***************************************************************************)
(* A backtest: the per-bar loop of backtest/engine.py for one symbol after *)
(* the other (backtest/run.py), with the strategy seen through the batch   *)
(* indicators.  Beside it runs what would happen live: a                   *)
(* LiveStrategyRunner that is given the same candles and the same          *)
(* position, so that the two ways of driving a strategy can be compared.   *)
(***************************************************************************)
EXTENDS Strategies, Costs, Positions, Sizing

CONSTANTS
    InitialCapital,   \* initial_capital of the run
    Symbols,          \* the sequence of symbols asked for
    StrategiesUsed,   \* the strategies whose runs are explored
    Histories         \* strategy -> the candle series the symbols may have

SymbolSet == {Symbols[k] : k \in DOMAIN Symbols}
Candle == [ts : Nat, open : Nat, high : Nat, low : Nat, close : Nat]

\* CandleStore.read sorts its rows and keeps one of each timestamp.
Increasing(bars) == \A j, k \in DOMAIN bars : j < k => bars[j].ts < bars[k].ts

ASSUME BacktestAssumption ==
    /\ InitialCapital \in Nat
    /\ Symbols # <<>> /\ Symbols \in Seq(SymbolSet)
    /\ StrategiesUsed \subseteq StrategyNames \cup {Scripted}
    /\ \A used \in StrategiesUsed : \A history \in Histories[used] :
          /\ history \in [SymbolSet -> Seq(Candle)]
          /\ \A s \in SymbolSet : Increasing(history[s])
    /\ None \notin Int

VARIABLES
    strategy,    \* the strategy of this run
    candles,     \* symbol -> CandleStore.read for the range, empty if none
    current,     \* index of the symbol in Symbols
    phase,       \* "load", "loop", "persisted" or "failed"
    series,      \* the indicators of the symbol's whole series
    i,           \* bars of this symbol's loop that are done
    portfolio,   \* _Portfolio: cash, and the position with its cost
    pending,     \* the signal that fills on the next bar, or None
    stop,        \* the strategy instance's _stop
    trades,      \* ExecutedTrade records of this symbol
    equity,      \* its equity curve
    unfilled,    \* signals of the final bar
    results,     \* SymbolResult records of the symbols done
    runner,      \* the live runner beside it
    decided      \* what the two decided on the last bar

loop == <<i, portfolio, pending, stop, trades, equity, unfilled, runner, decided>>
vars == <<strategy, candles, current, phase, series, loop, results>>

Bars == candles[Symbols[current]]
Undecided == [batch |-> None, live |-> None]

PerSymbolCapital == InitialCapital \div Len(Symbols)

-----------------------------------------------------------------------------
(***************************************************************************)
(* The ledger.  position is the one of Positions, with basis = qty *       *)
(* avg_price; its field realized sums the realized_pnl of the closes.      *)
(***************************************************************************)
FreshPortfolio == [cash |-> PerSymbolCapital, position |-> FlatPosition]

EquityAt(p, price) == p.cash + p.position.qty * price

AsView(p) ==
    [qty |-> p.position.qty,
     avgPrice |-> IF p.position.qty = 0 THEN 0 ELSE AvgPriceTimes(p.position, 1)]

(***************************************************************************)
(* _resolve_action: which side a signal trades, None when it is ignored.   *)
(***************************************************************************)
ResolveAction(qty, direction) ==
    CASE direction = "LONG" /\ qty = 0 -> "BUY"
      [] direction = "SHORT" /\ qty = 0 -> "SELL"
      [] direction = "EXIT" /\ qty > 0 -> "SELL"
      [] direction = "EXIT" /\ qty < 0 -> "BUY"
      [] OTHER -> None

(* Mutant of FillQty: only the opening of a position is held to the cash. *)
FillQtyUncheckedCover(p, side, open) ==
    IF p.position.qty # 0 THEN Magnitude(p.position.qty)
    ELSE LET wanted == Size(EquityAt(p, open), open)
         IN IF side = "BUY" THEN ClampToCash(wanted, ApplySlippage(open, side), p.cash)
            ELSE wanted

\* A close is for all that is held, an opening for the sizer's quantity; a
\* buy of either sort is cut to what the cash pays for.
FillQty(p, side, open) ==
    LET wanted == IF p.position.qty # 0 THEN Magnitude(p.position.qty)
                  ELSE Size(EquityAt(p, open), open)
    IN IF side = "BUY" THEN ClampToCash(wanted, ApplySlippage(open, side), p.cash)
       ELSE wanted

(* Mutant of Closed: the position survives its close. *)
ClosedKeepsCost(pos, side, qty, net) ==
    [qty |-> 0, basis |-> pos.basis,
     realized |-> pos.realized + Realizes(pos, side, qty, net)]

\* _close: flat afterwards, however much of a short was bought back.
Closed(pos, side, qty, net) ==
    [qty |-> 0, basis |-> 0, realized |-> pos.realized + Realizes(pos, side, qty, net)]

\* _open_or_add, which a signal only reaches from flat.
OpenedPosition(pos, side, qty, net) ==
    [qty |-> Signed(side, qty), basis |-> Signed(side, net), realized |-> pos.realized]

(***************************************************************************)
(* _execute_signal at the open of bar n: the portfolio and the trades.     *)
(***************************************************************************)
ExecuteSignal(p, signal, n, open) ==
    LET side == ResolveAction(p.position.qty, signal.direction)
        qty == FillQty(p, side, open)
        net == NetAmount(side, ApplySlippage(open, side), qty)
        closing == p.position.qty # 0
    IN IF side = None THEN [portfolio |-> p, trades |-> <<>>]
       ELSE IF qty <= 0 THEN [portfolio |-> p, trades |-> <<>>]
       ELSE [portfolio |->
                [cash |-> p.cash - Signed(side, net),
                 position |-> IF closing THEN Closed(p.position, side, qty, net)
                              ELSE OpenedPosition(p.position, side, qty, net)],
             trades |-> <<[index |-> n, signalIndex |-> signal.index, side |-> side,
                           qty |-> qty, net |-> net,
                           wanted |-> Magnitude(p.position.qty)]>>]

-----------------------------------------------------------------------------
Fresh ==
    /\ i' = 0 /\ portfolio' = FreshPortfolio /\ pending' = None /\ stop' = None
    /\ trades' = <<>> /\ equity' = <<>> /\ unfilled' = 0
    /\ runner' = NewRunner(strategy) /\ decided' = Undecided

Init ==
    /\ strategy \in StrategiesUsed
    /\ candles \in Histories[strategy]
    /\ current = 1 /\ phase = "load" /\ series = <<>> /\ i = 0
    /\ portfolio = FreshPortfolio /\ pending = None /\ stop = None
    /\ trades = <<>> /\ equity = <<>> /\ unfilled = 0 /\ results = <<>>
    /\ runner = NewRunner(strategy) /\ decided = Undecided

(***************************************************************************)
(* The next symbol: its candles, a clone of the strategy, fresh capital,   *)
(* and the indicators, computed over the whole series beforehand.          *)
(***************************************************************************)
LoadSymbol ==
    /\ phase = "load" /\ Bars # <<>>
    /\ phase' = "loop"
    /\ series' = ComputeIndicatorSet(RequiredIndicators(strategy), Bars)
    /\ Fresh
    /\ UNCHANGED <<strategy, candles, current, results>>

\* NoDataForSymbol: the run is abandoned before anything is written.
NoData ==
    /\ phase = "load" /\ Bars = <<>>
    /\ phase' = "failed"
    /\ UNCHANGED <<strategy, candles, current, series, loop, results>>

(***************************************************************************)
(* One iteration: the pending signal fills at this bar's open, the equity  *)
(* is marked at its close, and past the warm-up the strategy decides.  The *)
(* indicators are looked up at this bar.                                   *)
(***************************************************************************)
(* Mutant of BatchView: the view is of the bar after this one. *)
BatchViewAhead(n) ==
    LET next == IF n < Len(Bars) THEN n + 1 ELSE n
    IN [now |-> [key \in DOMAIN series |-> series[key][next]],
        before |-> [key \in DOMAIN series |-> Before(BatchWindow(series[key], next, 2))]]

BatchView(n) ==
    [now |-> [key \in DOMAIN series |-> series[key][n]],
     before |-> [key \in DOMAIN series |-> Before(BatchWindow(series[key], n, 2))]]

\* effective_start, counted from 0.
EffectiveStart ==
    Max({WarmupBars(strategy), FirstAllValidIndex(series, Len(Bars))})

Decision(p, n, choice) ==
    LET view == BatchView(n)
    IN IF n - 1 < EffectiveStart THEN [signal |-> None, stop |-> stop]
       ELSE OnCandle(strategy, view.now, view.before, AsView(p), Bars[n].close, stop, choice)

Bar(choice) ==
    LET n == i + 1
        fill == IF pending = None THEN [portfolio |-> portfolio, trades |-> <<>>]
                ELSE ExecuteSignal(portfolio, pending, n, Bars[n].open)
        decision == Decision(fill.portfolio, n, choice)
        taken == RunnerTakes(runner, strategy, Bars[n])
        live == RunnerDecides(taken, strategy, AsView(fill.portfolio), choice)
        final == n = Len(Bars)
    IN /\ phase = "loop" /\ i < Len(Bars)
       /\ i' = n
       /\ portfolio' = fill.portfolio
       /\ trades' = trades \o fill.trades
       /\ equity' = Append(equity, EquityAt(fill.portfolio, Bars[n].close))
       /\ stop' = decision.stop
       /\ pending' = IF decision.signal = None \/ final THEN None
                     ELSE [direction |-> decision.signal, index |-> n]
       /\ unfilled' = unfilled + (IF decision.signal # None /\ final THEN 1 ELSE 0)
       /\ runner' = [taken EXCEPT !.stop = live.stop]
       /\ decided' = [batch |-> decision.signal, live |-> live.signal]
       /\ UNCHANGED <<strategy, candles, current, phase, series, results>>

FinishSymbol ==
    /\ phase = "loop" /\ i = Len(Bars)
    /\ results' = Append(results, [symbol |-> Symbols[current], trades |-> trades,
                                   equity |-> equity])
    /\ \/ /\ current < Len(Symbols)
          /\ current' = current + 1 /\ phase' = "load"
       \/ /\ current = Len(Symbols)
          /\ current' = current /\ phase' = "persisted"
    /\ UNCHANGED <<strategy, candles, series, loop>>

Next ==
    \/ LoadSymbol \/ NoData
    \/ \E choice \in MaySignal(strategy) : Bar(choice)
    \/ FinishSymbol

Spec == Init /\ [][Next]_vars

-----------------------------------------------------------------------------
(***************************************************************************)
(* _aggregate_equity: the symbols' curves summed by timestamp, each carried *)
(* forward over the timestamps it lacks and backward before its first.     *)
(***************************************************************************)
Times(s) == {candles[s][k].ts : k \in DOMAIN candles[s]}

(* Mutant of ValueAt: a curve counts nothing before its first bar. *)
ValueAtOrZero(r, t) ==
    LET bars == candles[r.symbol]
        upTo == {k \in DOMAIN bars : bars[k].ts <= t}
    IN IF upTo = {} THEN 0 ELSE r.equity[Max(upTo)]

ValueAt(r, t) ==
    LET bars == candles[r.symbol]
        upTo == {k \in DOMAIN bars : bars[k].ts <= t}
    IN IF upTo = {} THEN r.equity[1] ELSE r.equity[Max(upTo)]

AggregateEquity ==
    [t \in UNION {Times(s) : s \in SymbolSet} |->
        FoldFunction(LAMBDA r, sum : ValueAt(r, t) + sum, 0, results)]

(***************************************************************************)
(* The cash is never negative, whatever a strategy signals: both an entry  *)
(* and a cover are cut to what it pays for (_clamp_to_cash).               *)
(***************************************************************************)
CashNeverNegative == portfolio.cash >= 0

\* The shares of a short that the trade closing it did not buy back, and all
\* of them so far.
Dropped(t) == IF t.wanted > t.qty THEN t.wanted - t.qty ELSE 0

SharesOwed ==
    SumFunctionOnSet([k \in DOMAIN trades |-> Dropped(trades[k])], DOMAIN trades)

(***************************************************************************)
(* The backtest keeps its books as the brokers do.  Its trades, applied    *)
(* one by one with _apply_fill_to_position, give the cash it has left, cut *)
(* covers or not.  They give its position, its cost and the profit it      *)
(* reports too, until a cover is cut: then the engine counts itself flat   *)
(* (_close), and from there on it owes exactly the shares that its covers  *)
(* did not buy back.                                                       *)
(***************************************************************************)
BooksAgreeWithBrokers ==
    LET applied == FoldLeft(LAMBDA pos, t : ApplyFill(pos, t.side, t.qty, t.net),
                            FlatPosition, trades)
    IN /\ portfolio.cash = PerSymbolCapital + applied.realized - applied.basis
       /\ portfolio.position.qty = applied.qty + SharesOwed
       /\ SharesOwed = 0 => portfolio.position = applied

(***************************************************************************)
(* No look-ahead: the indicators that the engine computes over the whole   *)
(* series are, at every bar, what the live states have made of the bars up *)
(* to it, and so are the windows (batch.py against streaming.py).          *)
(***************************************************************************)
IndicatorsAgree ==
    phase = "loop" /\ i > 0 =>
        \A key \in DOMAIN series :
            /\ series[key][i] = runner.view.latest[key]
            /\ BatchWindow(series[key], i, 2) = LiveWindow(runner.view, key, 2)

(***************************************************************************)
(* From the bar on where the engine starts, a strategy decides live as it  *)
(* does in the backtest, given the same candles and the same position,     *)
(* the stop of ema_atr_stop included (strategy/base.py: an identical       *)
(* contract in backtest, paper and live).                                  *)
(***************************************************************************)
SameDecisions ==
    phase = "loop" /\ i > 0 /\ i - 1 >= EffectiveStart =>
        /\ decided.batch = decided.live
        /\ stop = runner.stop

(***************************************************************************)
(* The same from the first bar on.                                         *)
(***************************************************************************)
SameDecisionsAlways == decided.batch = decided.live

(***************************************************************************)
(* The portfolio's equity curve starts at the capital that was put in and  *)
(* ends at what the symbols are worth (_aggregate_equity): the returns of  *)
(* the metrics are measured against it.                                    *)
(***************************************************************************)
CurveFromCapitalToWorth ==
    phase = "persisted" =>
        LET curve == AggregateEquity
            worth == FoldFunction(LAMBDA r, sum : Last(r.equity) + sum, 0, results)
        IN /\ curve[Min(DOMAIN curve)] = PerSymbolCapital * Len(Symbols)
           /\ curve[Max(DOMAIN curve)] = worth
=============================================================================
