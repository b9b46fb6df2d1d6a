# PersonalTrade: a verification project

TLA+ modules for PersonalTrade (`src/src/personaltrade`): the trading core, the
market data path, the backtest, the candle store and the advisory commands. The
TLC configurations check them on small instances, and TLAPS proves the safety
properties of paper and live trading, the shared account, the kill switch, the
market data path, the backtest, the candle store and the advisory commands for
every value of the constants.
Paths below are relative to `src/src/personaltrade` unless they start with
`docs/`.

    tlc -workers 2 -config MCPaperSignals.cfg MCPaperTrading    # one run
    tlapm PaperTradingProofs.tla                                # one proof module

`PROJECT.json` lists components, runs, mutants, the map from definitions to
source lines, findings, hazards and theorems.

## 1. The system

PersonalTrade trades a universe of instruments from one machine. One process,
`pt run`, hosts the orchestrator, its scheduler and the market data feed. The
dashboard and the `pt` commands are processes of their own. All of them share
one SQLite database in WAL mode: any number of readers, one writer.

| Component | State it keeps | Operations | Correct when |
|---|---|---|---|
| Order state machine (`core/enums.py`, `data/store/repos.py`) | order rows: quantity, filled quantity, state | `record_created`, `transition` | only allowed transitions; terminal is final; filled never shrinks and never exceeds the quantity |
| Cost model (`backtest/costs.py`) | none | `apply_slippage`, `calculate_costs` | charges bounded by turnover; the cash clamp is affordable and maximal |
| Positions (`execution/paper/broker.py`, `_apply_fill_to_position`) | signed quantity, average price, realised P&L per instrument | apply a fill | quantity, cost and realised P&L are what the trades add up to |
| Risk engine (`risk/engine.py`, `limits.py`, `sizing.py`) | none (reads the database) | `evaluate` | nothing is approved while halted, over the cap or over the daily loss |
| Kill switch (`risk/kill_switch.py`) | one row: tripped, reason, consecutive errors | `trip`, `reset`, `record_error`, `record_success` | only a human's reset lifts a halt; the row is never half one session's and half another's |
| Paper broker (`execution/paper/broker.py`) | account cash, orders, trades, positions; quotes in memory | `place_order`, `cancel_order`, `check_resting_orders`, `get_funds` | cash, positions, orders and trades agree; cash never negative; resting orders settle |
| Upstox broker (`execution/upstox/broker.py`) | orders, trades, positions that follow the exchange | `place_order` (POST with retries), `poll_and_apply_fills`, `cancel_order`, `get_positions` | books never run ahead of the exchange, each fill booked once, everything booked in the end |
| Reconciliation (`orchestrator/reconcile.py`) | none | `reconcile_on_startup` | after a restart the local books are the broker's |
| Orchestrator (`orchestrator/service.py`, `scheduler.py`) | feed task, quote source, runners | `_on_candle`, `run_housekeeping`, `reconcile`, feed start and stop | a failed candle leaves nothing behind but a counted error |
| Session layer (`data/store/db.py`) | open transactions | `session_scope` | commit everything or nothing |
| Feed and aggregation (`data/live/*`, `data/providers/*`) | in-progress bars, last tick time, connection | `on_tick`, `flush`, `check_staleness`, reconnect, session start and stop | every tick in one bar; no bar outlives its session; staleness reported once per outage; the stream comes back |
| Indicators (`indicators/*`) | rolling state of the streaming ones | batch and streaming forms | both give the same values, at every bar |
| Strategies (`strategy/*`, `orchestrator/candle_buffer.py`, `runner.py`) | candle history, strategy state | `on_candle` | the same decisions live and in the backtest |
| Backtest (`backtest/*`) | portfolio, pending signals, stored runs | `run_backtest`, sweep | the same books as the brokers; no look-ahead; cash never negative; out-of-sample later than in-sample |
| Historical data (`data/historical/*`, `data/store/candles.py`, `core/calendar.py`) | Parquet partitions, manifest, instrument rows | `sync_instruments`, `sync_candles`, quality checks | every day fetched once, nothing stored is lost, rows keep their symbols |
| Intelligence (`intelligence/*`) | stored analyses, news, recommendations | `pt analyze`, `pt recommend run`, `pt news sync` | caps hold up to what runs at once; no signal without its recommendation; a cycle is stored whole |
| Analytics (`analytics/*`) | soak periods; reads the rest | journal, P&L, soak | every trade in one round trip; one active soak |
| Auth, configuration, logging | - | - | I/O |

How they interact. A completed candle is published on an in-process event bus.
The orchestrator's handler updates the quote, asks the strategy for a signal,
has the risk engine judge it, and gives an approved order to the broker, all
in one transaction. A failure rolls it back and counts an error on the kill
switch in a session of its own. Every few seconds the scheduler fires
`run_housekeeping`: the paper broker retries what rests, the Upstox broker
polls what is open. A human acts through the CLI or the dashboard on the same
rows, at any time. With the live broker the exchange acts on its own as well.
The data commands write the candle files, which nothing locks; the backtest and
the recommendation cycle read them. The advisory commands are sessions on the
same database and never touch orders.

What is hard to test here:

- sessions of several processes that read rows before they take the write lock;
- partial fills that rest across candles, exits, halts, days and restarts;
- HTTP answers that are lost after the exchange acted, retries, and polls whose
  result is rolled back;
- a crash inside a transaction that already had effects at the exchange, and a
  restart that reconciles while fills go on;
- one order of a tick failing for all of them;
- a feed that loses its connection, gets trades late, or dies, around the start
  and the end of a session;
- files written one after the other by a command that may be killed in between;
- two implementations of one formula that must agree on every series;
- model calls checked against a budget that other commands are spending.

`PROJECT.json` lists these as hazards, at the line where each bites.

## 2. Modules

    OrderStates     states, transition table, list_open
    OrderLifecycle  abstract: what an order row may ever do
    Costs           slippage, charges, cash clamp
    Positions       a fill applied to a position row
    Sizing          the fixed-fractional sizer, of the risk engine and the backtest
    RiskEngine      evaluate, limits, the kill-switch row
    KillSwitch      several sessions on the kill-switch row
    PaperTrading    orchestrator + risk + paper broker + CLI + restarts
    LiveTrading     orchestrator + risk + Upstox broker + exchange + restarts
    SharedAccount   the paper account under interleaved sessions
    Calendar        trading days, sessions, IST and UTC dates
    MarketData      websocket, aggregators, staleness, session jobs
    Indicators      batch and streaming indicators on integers
    Strategies      the three strategies and the live runner
    Backtest        the engine, with the live runner beside it
    Sweep           parameter sweep with its split
    History         instrument sync, candle sync, partitions, manifest
    Advice          analyses, recommendation cycles, news syncs
    MC*             instances of these for TLC
    LedgerProofs    lemmas: sums over tables; costs, fills, order rows
    SessionProofs   the kill switch and the shared account
    PaperTradingProofs, LiveTradingProofs, MarketDataProofs, BacktestProofs,
    HistoryProofs, AdviceProofs

`PaperTrading` and `LiveTrading` both compose `Costs`, `Positions`,
`RiskEngine` and `OrderStates`, and both implement `OrderLifecycle`.
`Backtest` composes `Strategies` (on `Indicators`) with `Costs`, `Positions`
and `Sizing`; `MarketData`, `Sweep` and `History` use `Calendar`.

**Conventions.** Money is an integer number of the smallest unit that a
configuration distinguishes. A rate is an integer number of parts of `Scale`, and
a product with one, a `Decimal` of 28 digits in the code, is rounded down to the
unit. `SlippageBps` is below 10000: the code sets no upper bound, but 100 %
and more would give a sale a price of zero or below. A position keeps
`basis = qty * avg_price` in the place of `avg_price`, so adding a leg needs no
division and sums stay exact; what a partial close releases is the floor of its
share. The trades table is kept as the sums of its rows. Names are the source's.

### PaperTrading

`db` is the committed database; `tx` the housekeeping transaction with its
uncommitted copy and the orders it has still to try; `ltp` the quotes in
memory.

| Action | Code |
|---|---|
| `Candle`, `CandleWithSignal`, `CandleFails` | `_on_candle` / `_process_candle`: quote, signal, verdict, order and first fill, `record_success`; or rollback and `record_error` |
| `TickBegin`, `TickOrder`, `TickCommit`, `TickFails` | `run_housekeeping` / `check_resting_orders`, one open order at a time, commit, or rollback |
| `CliOrder`, `CliMarketOrder` | `pt paper order` |
| `CancelOrder` | `PaperBroker.cancel_order` |
| `TripKillSwitch`, `ResetKillSwitch` | CLI and dashboard |
| `NewDay` | the day boundary of `sum_realized_pnl_since` |
| `CrashRestart` | process death and `reconcile_on_startup` |

A candle is one step because it runs to its end on the event loop in one
transaction. The orders of a tick are tried in any order (`list_open` sorts
nothing). Stop-loss orders are not a type of their own: the paper broker fills
them like market orders. Transactions of other processes are serialised with
the tick's; what happens when their reads precede the lock is `SharedAccount`.

### LiveTrading

`exch` is the exchange's order book, `issued` counts client order ids,
`faults` bounds what goes wrong. `tx.kind` says where the orchestrator's
transaction is: `place` (row written, request out), `await` (the exchange has
acted, the answer is on its way), `tick`, `startup` or `down`.

| Action | Code |
|---|---|
| `SignalApproved`, `CandleFails` | `_process_candle` up to the POST; `_on_candle`'s error path |
| `PostTaken`, `PostNotTaken`, `Acknowledged`, `Retried`, `GivenUp` | `UpstoxBroker.place_order` and `_request` |
| `TickBegin`, `Poll`, `PollLost`, `TickCommit`, `TickFails` | `poll_and_apply_fills` |
| `Crash`, `Restart`, `StartupPositions` | process death, `reconcile_on_startup`, `_reconcile_positions` |
| `ExchangeFills`, `ExchangeRejects`, `ExchangeCancels` | external; cancellation is what `cancel_order` asks for |
| `TripKillSwitch`, `ResetKillSwitch`, `NewDay` | as above |

Humans act only while the orchestrator's transaction is closed, because it
holds the write lock for as long as its HTTP calls take.

### KillSwitch and SharedAccount

In both, a session loads rows with an unlocked `SELECT`, and its `UPDATE` and
commit are one later step. `KillSwitch` writes back only the columns that the
session changed, as SQLAlchemy does. `SharedAccount` knows for each caller
which rows it loads before the lock: a candle the position, a command the
account, a tick both. The names of its state and actions differ from those of
`KillSwitch` (`txn`, `AccountSpec`), so that one module can extend both.

### MarketData

Everything runs on one asyncio loop, so a step ends where the code awaits. Time
is a counter (`now`); days, sessions and holidays come from `Calendar`, in which
a day has `DayLength` instants. `task` is the feed task with the place where
`stream_quotes` is (connecting, streaming, sleeping in a backoff, returned,
dead); `bar` holds the aggregators' bars; `due` the cron jobs whose time has
come. `ticks`, `published`, `flushes` and `alarms` only observe.

| Action | Code |
|---|---|
| `StartProcess`, `EndProcess` | `pt run`; `LiveScheduler.start`, which starts the feed inside a session |
| `SessionStart`, `SessionStop`, `Misfire` | the cron jobs, `start_feed`, `stop_feed`; a job skipped by the scheduler |
| `Housekeeping` | `run_housekeeping` where it comes to `check_staleness` |
| `FeedRun`, `Connect`, `Message`, `EmptyMessage` | `LiveFeed.run`, `stream_quotes`, `on_tick` |
| `Fails`, `Wake`, `ClosedOK`, `Dies` | reconnect with backoff, a clean close, an exception that is not caught |

### Indicators, Strategies, Backtest, Sweep

Indicator values are integers of the price's unit, quotients rounded down, the
same in both forms, so the two implementations can be compared exactly; what
floating point adds is left to the repository's golden tests. `Backtest` runs the engine bar by bar (`LoadSymbol`, `Bar`,
`FinishSymbol`, `NoData`) over every candle series of an instance and feeds the
same bars and positions to the live runner (`orchestrator/runner.py`), so their
indicators and decisions can be compared. Besides the registry's strategies
there is a scripted one that signals as it likes, for what holds of every
strategy. `Sweep` has the checks of the grid, the split, and the two backtests
of each combination, of which only the candle ranges matter.

### History

A sync command is one process that fetches its range in chunks (`FetchChunk`,
`FetchFails`), and for each year reads, merges, opens and closes the partition
(`ReadPart`, `OpenPart`, `ClosePart`), counts the rows and writes the manifest.
A partition that is open for writing is not Parquet (`Torn`). `Crash` kills a
command anywhere; `Abort` is the exception of a read that meets a torn file;
`Revise` is the provider changing or publishing a candle. `SyncInstruments`
applies a master, record by record, in one transaction with the unique
constraints of the table.

### Advice

| Action | Code |
|---|---|
| `Analyze`, `RecordAnalysis` | `pt analyze`, before and after its call |
| `Recommend`, `ScreenNothing`, `ScreenSignal`, `RecordInCycle`, `Publish` | `pt recommend run`, symbol by symbol, and its commit |
| `CallAnswers`, `CallFails` | `AnthropicLLMProvider.analyze` and the handlers of its errors |
| `NewsSync`, `Fetch`, `FetchFails`, `LookUp`, `Insert`, `InsertRefused`, `SourceDone`, `CommitNews` | `pt news sync`, `ingest`, `add_if_new` |
| `Abort` | a kill, or an exception such as a busy database: rollback |

A session's reads see what is committed and what it wrote; from its first
insert to its end it is the `writer`. Which signal the screener finds, and the
position with it, is an input; so is the model's answer. `recs` keeps the rows of
the latest cycle, the only ones that are ever read.

## 3. Runs

| Run | Constants that matter | States | Shows |
|---|---|---|---|
| `paper_signals` | 2 instruments, 3 prices, 3 orders, LONG/EXIT, 2 errors | 83,440 | `TypeOK`, `BooksBalance`, `CashNeverNegative`, `LongOnlyNeverShort`, `HaltHolds` |
| `paper_manual` | 1 instrument, 2 prices, 3 orders, all directions, manual MARKET and LIMIT orders, cancellation | 561,022 | `LedgerMatchesTrades`, `PositionMatchesOrders`, `KeepsLifecycle` |
| `paper_settle` | fair, 2 orders, partial fills | 2,230 | `RestingOrdersSettle` |
| `kill_switch_races` | 2 humans, the orchestrator, limit 2 | 31,487 | `TypeOK`, `TrippedHasReason`, `OnlyResetLifts` |
| `live_faults` | 2 signals, 2 faults, 1 retry, rejections | 857,213 | `TypeOK`, `BooksFollowBroker`, `TradesMatchOrders`, `UncorrectedMatchBroker`, `HaltHolds`, `KeepsLifecycle` |
| `live_catch_up` | fair, 2 signals, 1 fault, no rejection of an open order | 67,992 | `BooksCatchUp` |
| `shared_clis` | 2 commands, 3 fills | 17,724 | `PositionMatchesTrades` |
| `market_feed` | fair, 2 instruments, 3 bar lengths, 4 days with a holiday, 2 ticks up to 2 late | 187,589 | `TypeOK`, `BarsAreOfTheTicks`, `NoBarOutlivesItsSession`, `AlarmMeansSilence`, `EveryOutageIsAnnounced`, `StreamComesBack` |
| `backtest` | 3 shapes of a bar, series of 6, a second symbol with few candles or none | 320,895 | `CashNeverNegative`, `BooksAgreeWithBrokers`, `IndicatorsAgree`, `SameDecisions`, `CurveFromCapitalToWorth` |
| `history_sync` | 2 commands, ranges of one and two chunks over the turn of a year, 1 revision, 1 kill, 3 masters | 842,996 | `EveryDayIsAskedForOnce`, `NothingStoredIsLost`, `ManifestTellsTheFiles`, `RowsFollowSymbolOrKey` |
| `advice` | 2 commands at once, 3 in all, 2 symbols, 2 sources, caps of 1 call and cost 2, 3 days in 2 months | 1,488,068 | `TypeOK`, `SpendingStaysNearCaps`, `EverySignalGetsItsRecommendation`, `LatestCycleIsWhole`, `NoSourceBlocksAnother` |
| `sweep_split` | 2 combinations, 3 fractions, every set of 5 daily candles | violation | `OutOfSampleIsLater` |

Every run ends within two minutes on two workers.

Why the bounds are enough to be interesting:

- *Paper.* The cash (2000) buys several shares at the low price, few at the
  middle one and none at the high one, so entries fill whole, in part, or are
  cancelled, and the remainder rests while the price moves. Three orders are an
  entry, its exit and a further entry or a manual order in between. In
  `paper_manual` the manual quantity is larger than an entry, so positions flip.
  Two errors reach the kill-switch limit.
- *Live.* An order has at least two shares, so partial fills occur. Two faults
  are the smallest number that combines a lost answer with a crash, a crash
  with a second one during startup, or a failed tick with a lost poll. Two
  signals let one order be polled while another is being placed.
- *Kill switch.* Two humans can race each other and both race the orchestrator.
- *Shared account.* Two sessions suffice for a lost update, three fills for one
  that follows another.
- *Market data.* Two ticks with lags of up to two instants are enough to fall
  into one bucket, into two, in either order, before and after a flush, and on
  two days; the holiday lies between two sessions; the backoff reaches its
  maximum.
- *Backtest.* Periods of one and two make every indicator warm in the middle of
  the series, and the three shapes make averages cross, RSI leave its band,
  stops trail and trigger, entries be cut to the cash and covers be cut.
- *History.* The longer range has two chunks, which meet at a partition's
  boundary; a candle published late lies inside it; a rotated key comes back
  under another symbol, before or after its old symbol's record.
- *Advice.* With caps of one call a second command always races for it; a cycle
  of two symbols is over budget at its second; a cost of zero separates the two
  caps; three days hold a midnight within a month and one between months.

The trading runs and `market_feed` check for deadlock; there is none, since a
candle, a session, a message or a new day can always come. In `backtest`,
`history_sync`, `advice` and `sweep_split` the commands end, so a behaviour may
stop.

**Fairness.** *Paper* (`FairSpec` of `PaperTrading`): weak fairness of
`TickBegin`, because the scheduler keeps firing its interval job while the
process lives; strong fairness of getting past the next order and of
`TickCommit`, because a tick fails only when another process holds the lock
past the busy timeout or the process dies, which does not happen at every tick
for ever. *Live*: weak fairness of the HTTP calls' ends (each has a timeout),
of the tick's steps, and of the restart; faults are finitely many. The exchange,
humans and candles are never assumed to act. *Market data*: weak fairness of
what the event loop has been given (the new task, the sleeper, the due jobs,
the interval job, whose broker part is taken to succeed now and then) and of
time; strong fairness of `Connect`, because some attempt to connect succeeds if
it is made for ever. Ticks are never assumed to come.

**Mutants.** For each property of a passing run one definition of the model has
a mutated form, an operator marked "Mutant of", that stands for a plausible bug
(a dropped kill-switch check, a clamp that ignores costs, a cumulative quantity
taken for an increment, an error that overwrites a trip, a chunk one day too
long, a view one bar ahead). With it TLC refutes the
property, so none of them holds by the shape of the model.

## 4. Proofs

All proofs are checked by TLAPS down to the last leaf. They hold for every
value of the constants that satisfies the named assumptions, which TLC
evaluates in the runs as well:

| Assumption | What it says, beside types |
|---|---|
| `CostAssumption`, `ChargesAssumption` | rates are non-negative, all charges together at most the turnover, slippage below 100 % |
| `SizingAssumption`, `RiskAssumption` | the bounds of the risk settings in `risk/sizing.py` and `core/config.py` |
| `PaperAssumption` | finitely many instruments (positions are summed over them), positive prices, positive manual quantities |
| `LiveAssumption` | positive prices |
| `SharedAssumption` | one service process at most; positive prices and quantities |
| `KillSwitchAssumption` | the orchestrator is no human, and no one's name is the empty reason |
| `CalendarAssumption`, `MarketDataAssumption` | a session opens before it closes, within a day; a day is a whole number of bars; the backoff reaches its maximum; a finite universe |
| `AdviceAssumption` | the universe has no symbol twice (it is screened as the keys of a mapping), convictions are scored 1 to 3; some command may run, finitely many at a time; a call has one of finitely many costs |
| `HistoryAssumption` | days are numbered from 1 and finitely many, chunks and years have a day at least |
| `BacktestAssumption` | a symbol at least is asked for; a series has one candle of each timestamp, in order (`normalize_candle_frame`) |
| `NoneAssumption` (three modules) | None is no value |

Numbers of orders, ticks, faults, retries, commands, processes and days are
arbitrary: the bounds of the runs are constants of the modules.

**Sums.** `BooksBalance` and `PositionMatchesOrders` sum over rows. A sum is
`SumFunctionOnSet`, a recursive function over the subsets of a finite set. The
library's induction theorems cannot be instantiated here, so each induction is
by a least counterexample among the subsets. The lemmas: the recursion is
well-defined, the sum is an integer, an element can be taken out in any order
(`SumRemove`), added or changed (`SumAdd`, `SumChange`), and equal or renamed
summands give equal sums.

**LedgerProofs.** Each charge lies between zero and its share of the turnover;
net amounts and slipped prices are natural numbers;
`ClampIsLargestAffordable`: the quantity `_clamp_to_cash` returns costs no more
than the cash, and no larger one up to the order's does. `ApplyFillBalances`
carries the arithmetic of positions: the cost of what is held, the realised P&L
and the cash flow move together in each of the cases add, reduce, close and
flip. Further lemmas say what `evaluate` approves, what the writes to the
kill-switch row do, and how the fills of an instrument (`FilledFor`) change
with an order row.

**PaperTradingProofs.** The invariants the runs check are not inductive: they
speak of the committed database, and `TickCommit` makes the tick's working copy
the committed one. The inductive invariant is

    IInv == DbInv(db) /\ DbInv(tx.db) /\ (tx.active => TickInv)   (and the types of tx, ltp)

where `DbInv(d)` is type, ledger, balance, the match of positions with orders,
`d.cash >= 0` and `OrderSound` of each order. `TickInv` holds while a tick is
active: its copy has the committed order rows and kill switch, each row has
moved from the committed one by allowed transitions only, and a row still to be
tried is untouched and open. One lemma per operation (`ExecuteFillKeeps`,
`TryFillKeeps`, `PlaceOrderKeeps`) shows that it keeps `DbInv`; one per action
that it keeps `IInv`. From `Invariance` follow

- `TypeCorrect`: `Spec => []TypeOK`
- `LedgerCorrect`: `Spec => []LedgerMatchesTrades`
- `BooksCorrect`: `Spec => []BooksBalance`
- `PositionsCorrect`: `Spec => []PositionMatchesOrders`
- `Solvent`: `Spec => []CashNeverNegative`
- `OrdersCorrect`: `Spec => []OrdersSound` (filled quantity and state agree)
- `HaltCorrect`: `Spec => HaltHolds`
- `LongOnlyCorrect`: `Spec => []LongOnlyNeverShort`, if `Directions` has no SHORT
  and `CliQtys` is empty: the shipped long-only strategies without manual
  orders, as in `paper_signals`. The strengthening: no sale ever rests. An EXIT
  fills whole in the transaction that places it (`SaleFillsWhole`), so what a
  tick retries are purchases, and nothing is sold twice.
- `LifecycleRefined`: `Spec => KeepsLifecycle`. The mapping takes an order row
  to its state, quantity and filled quantity, and a row not yet written to an
  absent one. Several transitions may happen inside one commit, so the abstract
  step allows any path through the transition table; `Paths` lists those that
  the broker takes.

**LiveTradingProofs.** The inductive invariant relates three things: the
committed database and a poll's working copy, each to the exchange's order book
(`BookInv`: trades are what the rows say is filled, a row is behind the
exchange's order it points to and never ahead, an uncorrected position is the
sum of its fills), the book itself (`ExchangeInv`), and what is under way
(`FlightInv`: while a POST is out the switch is untripped, and if the exchange
has taken the order it is that order and no committed row points to it;
`PollInv`: a polled row has moved by allowed transitions, and rows still to be
polled are as committed). Crashes and rollbacks drop the working copy, retries
only add orders to the exchange, so each action disturbs one part. `TypeCorrect`,
`TradesCorrect`, `HaltCorrect` and `PositionsCorrect` hold as they stand.
`BooksCorrect` and `LifecycleRefined` assume `~MayOmitAverage`: an answer
without `average_price` completes an order unbooked (section 5,
`FilledIsBooked`), and the run has it FALSE as well.

**SessionProofs.** Of `KillSwitch`, `TypeCorrect`, `ReasonCorrect` (`TrippedHasReason`) and
`LiftCorrect` (`OnlyResetLifts`), for any set of humans. The strengthening:
every session's loaded copy has a reason exactly when it is tripped
(`SeenMatches`), and the orchestrator never has a reset open
(`NoAutomaticReset`). A write that touches only changed columns then writes the
two columns together or not at all.

Of `SharedAccount`, `PositionCorrect`: any number of commands lose no fill
of a position, because a command reads it only when it has the write lock; with
`Shape`, which says that no session commits a negative cash. It assumes
`Services = {}`, as `shared_clis` does: a tick of the service reads the position
before the lock. `AloneCorrect`: with one process,
neither cash nor position loses an update, from `Fresh`, which says that what a
session has loaded is what is committed.

**MarketDataProofs.** The inductive invariant has the types of the loop and of
the feed, `SessionInv`, `AlarmInv`, and for each aggregator `BarInv`: the bars
it published, with the one in progress, are the ticks cut where their bucket or
the number of flushes changes. `BarsAppended` and `TickAdded` carry it: one
tick more either adds a cut, when the bar in progress is published, or extends
the last bar, and earlier bars stay. A session that is over stays over
(`StaysOver`), so a bar older than it can be left only by a dead task or a
skipped job. From these, `TypeCorrect`, `BarsCorrect`, `SessionsCorrect` and
`AlarmCorrect`.

**AdviceProofs.** The inductive invariant has three parts. `TablesInv`: the
stored recommendations are whole and refer to rows that are there, and no URL
is stored twice. `StampsInv`: no open cycle and no stored row has the stamp of
another cycle. `CommandInv`, per command: a candidate is what the gate made of
its signal and its symbol has left the queue (`CycleInv`); results and what is
left of the sources add up, and what was fetched is stored or still to do
(`SyncInv`); and a command has the write lock exactly while it has uncommitted
rows. The last is what makes the ids work that a cycle gives out before it
commits: `OthersKeep` shows that whoever has the lock sees the tables stand
still. `RanksCount` says that the ranking, a strict order that tells any two
symbols apart, numbers the candidates from 1 without a gap. From these,
`TypeCorrect`, `SignalsCorrect` (`EverySignalGetsItsRecommendation`),
`LatestCycleCorrect` (`LatestCycleIsWhole`) and `SourcesCorrect`
(`NoSourceBlocksAnother`).

`SpendingCorrect` needs `SpendInv` beside it. Calls by the day and costs by the
month are two meters, each with a cap and a most that one call adds, and both
are read as sums over the places of the rows. The property is not inductive: it
does not say how much of the room above the cap is taken. `SpendInv` does: a
command waits from the check of the budget until its call is recorded, and each
command that does not wait leaves room for one call (`Room`). A waiting command
that has the write lock found the cap unreached by all rows, its own
uncommitted ones included; a writer that does not wait is at most one call
above a cap which the committed rows alone have not reached. Nothing is
recorded for a later day or month, so midnight opens a meter that reads zero.
`SpendInv` does not mention who made which call, and rollbacks and kills only
lower the readings.

**BacktestProofs.** The inductive invariant is `LoopInv` (the loop's place, and
series in order) with `LedgerInv` (a portfolio whose cash is not negative, and
well-formed trades) and `BooksInv`: the trades replayed with the brokers' rule
have a cost with the sign of their quantity and leave the engine's cash; the
engine's position is theirs and the shares owed, and is the same record while
none are. `FoldLeft` recurses over the set of places it has
still to visit; `LastOut` says in which order it visits them, and from
`ReplayedAppend` a trade more is one fill more. `FilledAsBooked` compares
the engine's two cases, close and open from flat, with the four of
`_apply_fill_to_position`; `FillAgrees` covers the cut covers too, with
`ApplyFillBalances` for a replayed position that is not the engine's. `CashCorrect` rests on `FillQtyIs`, which is
`ClampIsLargestAffordable` for both the entry and the cover. `CurveCorrect` adds
`CurveInv`: an equity curve has one value per bar and starts at the symbol's
capital, because nothing can fill on the first bar. At the least timestamp no
symbol has more than its first bar behind it, at the greatest all have all
(`ValueAtFirst`, `ValueAtLast`), and the folds over the results are sums of
these.

**HistoryProofs.** The inductive invariant has, per command, `AskedInv`: the
windows asked for so far are disjoint, within the limit, and cover the range
from the chunk that is fetched next to its end. `StoreInv`, while no two
commands were storing at once: each file that can be read holds what was
written of its year, what a command has merged is that with its own rows over
it, and what it has counted is what is there. A kill may come between any two
steps because no part of this speaks of the files a command has still to write.
With the manifest's own property and `TableInv` (no two rows of a symbol or of a
key, through any sequence of upserts) these give `RequestsCorrect`,
`StoreCorrect` and `ManifestCorrect`. `RowsCorrect` (`RowsFollowSymbolOrKey`) is
about whole masters: `Followed` says what the table is like after the first n
records, and `RecordFollowed` that the next one keeps it. The row that a record
changes cannot be one an earlier record wrote, as no symbol or key is listed
twice, so it is as it was at first and keeps the one of the two it was found by;
and if another row were in the way, both would be rows of the first table, which
a master that fits it excludes.

**Only model-checked:** liveness (`RestingOrdersSettle`, `BooksCatchUp`,
`EveryOutageIsAnnounced`, `StreamComesBack`), which is out of the prover's
reach; and `IndicatorsAgree` with `SameDecisions`: what the indicators
compute over a series is a fold of it, and the agreement for every series needs
induction over data.

## 5. Divergences

One statement of the repository has a run whose counterexample refutes it, and
`PROJECT.json` quotes it (`findings`): in `sweep_split` the in-sample and the
out-of-sample range of a sweep share the split date.

The modules state further ones. TLC refutes each when the formula is put in the
place of the properties of the cfg named:

| Formula | Start from | What the code does |
|---|---|---|
| `LimitPriceHonoured` | `MCPaperManual.cfg` | slippage is applied after the price was bounded by the limit (`execution/paper/broker.py:208`; the comment at 199 says "never worse than the limit for the trader") |
| `ClosingNeverExceedsPosition` | `MCPaperManual.cfg` | `pt paper order` does not pass the risk engine and may oversell (docstring at `execution/paper/broker.py:298`) |
| `HaltStopsFills` | `MCPaperSignals.cfg` | resting orders go on filling after a halt (`docs/architecture/04-trade-lifecycle.md:82`, "open orders are cancelled (configurable)") |
| `OpenPositionsWithinCap` | `MCPaperSignals.cfg` with 3 instruments, prices 50 and 5000, cash 600, 4 orders | the remainder of an exited entry reopens its position past the cap (`risk/limits.py:12`) |
| `DailyLossTrips` | `MCPaperSignals.cfg` with 1 instrument, prices 20 and 100 | the daily loss rejects and does not trip (`docs/architecture/04-trade-lifecycle.md:80`) |
| `FirstReasonStays` | `MCKillSwitchRaces.cfg` | two racing trips: the later reason replaces the first (`risk/kill_switch.py:45`) |
| `StreakTrips` | `MCKillSwitchRaces.cfg` | `record_error` loads a tripped row, a reset commits, and the streak is written at its limit untripped (`risk/kill_switch.py:73`, "Auto-trips once the streak reaches the configured limit") |
| `NeverDoubleSubmit` | `MCLiveFaults.cfg` | a POST that was accepted and answered by a 5xx is sent again (`docs/architecture/04-trade-lifecycle.md:34`, "we never double-submit") |
| `PositionsMatchBroker` | `MCLiveFaults.cfg` | a fill between the startup poll and the positions call counts twice (`docs/architecture/04-trade-lifecycle.md:75`, "broker wins") |
| `BooksCatchUp` | `MCLiveCatchUp.cfg` with `MayReject = TRUE` | an order seen OPEN and then rejected makes every later tick raise and roll back (`execution/upstox/broker.py:333`) |
| `CashMatchesTrades` | `MCSharedClis.cfg` with `Services = {c2}`, `Clis = {c1}` | a command and a tick both read the account before either writes, and one update is lost (`docs/architecture/02-data-model.md:7`, "ACID for money-adjacent rows") |
| `SameDecisionsAlways` | `MCBacktest.cfg` | the runner counts bars where the engine compares indexes, so live decides one bar earlier (`strategy/base.py:98`, "Identical contract in backtest, paper, and live"; `orchestrator/runner.py:35`, `backtest/engine.py:174`) |
| `TradesAtRealPrices` | `MCLiveFaults.cfg` with prices 100 and 200, no faults | every increment is booked at the cumulative average (`execution/upstox/broker.py:367`) |
| `NoPyramiding` | `MCLiveFaults.cfg` | a second entry is approved while the first is accepted and unfilled (`risk/engine.py:143`) |
| `RowsStayWithSymbols` | `MCHistorySync.cfg` | a key given to another symbol, in a record before the old symbol's new key, takes the row along, and with it the orders and positions that refer to it (`data/historical/sync.py:53`; `data/historical/sync.py:46`, "updating in place") |
| `FilledIsBooked` | `MCLiveFaults.cfg` with `MayOmitAverage = TRUE` | an answer without `average_price` completes the order unbooked (`execution/upstox/broker.py:370`) |

`CashMatchesTrades` holds, on the other hand, when `Clis` is empty: within one
process candles and ticks never overlap.

Some properties name an exception, because the code does not keep them without:

- `BooksAgreeWithBrokers`: a cover that cash cuts short still leaves the backtest
  flat (`backtest/engine.py:257`), and it keeps the proceeds of shares it owes:
  the property says that it is off by exactly these.
- `BarsAreOfTheTicks` says what a late trade does: it closes the bar in progress,
  and its bucket, or the next one, is published a second time
  (`data/live/aggregator.py:66` compares for equality only).
- `NoBarOutlivesItsSession`: after a dead feed task or a skipped stop job the
  last bar is published by the first tick of the next session.
- `NothingStoredIsLost`: two syncs of a symbol at once lose rows, and a kill in
  `to_parquet` leaves a file on which every later sync fails
  (`data/store/candles.py:7`, "idempotent re-syncs").
- `SpendingStaysNearCaps` counts recorded calls. A cycle that is rolled back, or
  an answer that does not parse, was paid for and leaves no row (`cli.py:880`,
  "every call is audited in `ai_analyses`").
- `NoSourceBlocksAnother`: a sync that loses the race for one item is ended by
  the unique constraint and rolls back all its sources.

## 6. Not modelled, and the plan

Not modelled: `backtest/metrics.py` and the rounding of floating-point
indicators (numerics, covered by golden tests); VWAP, OBV and supertrend, which
no strategy uses; `data/historical/adjust.py`, which no command calls; the
journal, profit and soak reports, which read; OAuth and encryption,
configuration loading, logging, rendering, protobuf decoding; the text of news
and prompts.

Hazards of the code that no property covers yet, beside those in
`PROJECT.json`: a clean close by the server reconnects without a backoff
(`data/providers/upstox.py:246`); Ctrl-C ends `pt run` without `stop_feed`
(`cli.py:1251`); the UTC range of a backtest starts one IST-stamped daily candle
late (`backtest/run.py:157`); an in-sample row stays when the out-of-sample run
fails (`backtest/sweep.py:140`); a cross whose exit is rejected is not seen again
(`strategy/strategies/sma_crossover.py:64`); the manifest's verdict is that of
the last fetch (`data/historical/sync.py:101`); gaps at the ends of a range are
not looked for (`data/historical/quality.py:109`); two `pt soak start` at once
both add a period (`cli.py:1423`); a cycle without signals leaves an older one
the latest (`data/store/repos.py:319`).

In the order planned:

1. **Strategies in PaperTrading**: the strategies' own state against rejected
   exits and restarts.
2. **LockTimeouts**: the write lock held across HTTP retries and model calls
   against SQLite's busy timeout, for a manual trip.
3. **Journal and soak**: the pairing of trades into round trips; the single
   active soak.
