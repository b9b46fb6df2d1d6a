----------------------------- MODULE Indicators -----------------------------
(***************************************************************************)
(* Technical indicators, in the two forms the program keeps: computed over *)
(* a whole series for the backtest (indicators/batch.py, read through      *)
(* backtest/indicator_bridge.py) and one candle at a time for the live     *)
(* runner (indicators/streaming.py, orchestrator/indicator_bridge.py).     *)
(*                                                                         *)
(* A series is a sequence of integers or None (the NaN of the warm-up).    *)
(* A float is an integer number of the unit that the prices are given in,  *)
(* a quotient is rounded down to it.  A Bollinger band is kept as the      *)
(* variance it is drawn from, so that no square root is taken.             *)
(***************************************************************************)
EXTENDS Integers, SequencesExt

CONSTANT None

SumOf(s, first, last) ==
    LET sum[j \in (first - 1)..last] == IF j < first THEN 0 ELSE sum[j - 1] + s[j]
    IN sum[last]
Mean(s, first, last) == SumOf(s, first, last) \div (last - first + 1)
Variance(s, first, last) ==
    LET n == last - first + 1
        squares == [j \in DOMAIN s |-> s[j] * s[j]]
    IN n * SumOf(squares, first, last) - SumOf(s, first, last) * SumOf(s, first, last)

Blend(value, previous, period) == (2 * value + (period - 1) * previous) \div (period + 1)
Wilder(value, previous, period) == (previous * (period - 1) + value) \div period
Positive(n) == IF n > 0 THEN n ELSE 0
Minus(x, y) == IF x = None \/ y = None THEN None ELSE x - y

RsiValue(avgGain, avgLoss) ==
    IF avgLoss = 0 THEN (IF avgGain > 0 THEN 100 ELSE 50)
    ELSE 100 - (100 * avgLoss) \div (avgGain + avgLoss)

TrueRange(bar, prevClose) ==
    IF prevClose = None THEN bar.high - bar.low
    ELSE Max({bar.high - bar.low,
              bar.high - prevClose, prevClose - bar.high,
              bar.low - prevClose, prevClose - bar.low})

-----------------------------------------------------------------------------
(***************************************************************************)
(* Batch: functions of the whole series.                                   *)
(***************************************************************************)
BatchSma(s, period) ==
    [i \in DOMAIN s |-> IF i < period THEN None ELSE Mean(s, i - period + 1, i)]

\* Seeded with the mean of the first `period` values.
BatchEma(s, period) ==
    LET ema[i \in DOMAIN s] ==
            IF i < period THEN None
            ELSE IF i = period THEN Mean(s, 1, period)
            ELSE Blend(s[i], ema[i - 1], period)
    IN ema

BatchWilder(s, period) ==
    LET avg[i \in DOMAIN s] ==
            IF i < period THEN None
            ELSE IF i = period THEN Mean(s, 1, period)
            ELSE Wilder(s[i], avg[i - 1], period)
    IN avg

Deltas(s) == [i \in 1..(Len(s) - 1) |-> s[i + 1] - s[i]]

BatchRsi(s, period) ==
    LET gain == BatchWilder([i \in DOMAIN Deltas(s) |-> Positive(Deltas(s)[i])], period)
        loss == BatchWilder([i \in DOMAIN Deltas(s) |-> Positive(-Deltas(s)[i])], period)
    IN [i \in DOMAIN s |-> IF i <= period THEN None ELSE RsiValue(gain[i - 1], loss[i - 1])]

BatchAtr(bars, period) ==
    BatchWilder([i \in DOMAIN bars |->
                    TrueRange(bars[i], IF i = 1 THEN None ELSE bars[i - 1].close)],
                period)

\* The signal line is an EMA over the segment where the MACD line is valid.
BatchMacd(s, fast, slow, signal) ==
    LET line == [i \in DOMAIN s |-> Minus(BatchEma(s, fast)[i], BatchEma(s, slow)[i])]
        valid == SubSeq(line, slow, Len(s))
        signals == BatchEma(valid, signal)
        signalLine == [i \in DOMAIN s |-> IF i < slow THEN None ELSE signals[i - slow + 1]]
    IN [macd |-> line, signal |-> signalLine,
        hist |-> [i \in DOMAIN s |-> Minus(line[i], signalLine[i])]]

BatchBollinger(s, period) ==
    [middle |-> BatchSma(s, period),
     band |-> [i \in DOMAIN s |->
                  IF i < period THEN None ELSE Variance(s, i - period + 1, i)]]

(***************************************************************************)
(* compute_indicator_set: the columns of each declared indicator.  A spec  *)
(* has a kind, a period and, for MACD, the fast and signal periods.        *)
(***************************************************************************)
Closes(bars) == [i \in DOMAIN bars |-> bars[i].close]

Columns(spec) ==
    CASE spec.kind = "macd" -> {"macd", "signal", "hist"}
      [] spec.kind = "bollinger" -> {"middle", "band"}
      [] OTHER -> {"value"}

BatchColumns(spec, bars) ==
    CASE spec.kind = "sma" -> [value |-> BatchSma(Closes(bars), spec.period)]
      [] spec.kind = "ema" -> [value |-> BatchEma(Closes(bars), spec.period)]
      [] spec.kind = "rsi" -> [value |-> BatchRsi(Closes(bars), spec.period)]
      [] spec.kind = "atr" -> [value |-> BatchAtr(bars, spec.period)]
      [] spec.kind = "macd" ->
            BatchMacd(Closes(bars), spec.fast, spec.period, spec.signal)
      [] spec.kind = "bollinger" -> BatchBollinger(Closes(bars), spec.period)

Keys(specs) == UNION {{name} \X Columns(specs[name]) : name \in DOMAIN specs}

ComputeIndicatorSet(specs, bars) ==
    LET columns == [name \in DOMAIN specs |-> BatchColumns(specs[name], bars)]
    IN [key \in Keys(specs) |-> columns[key[1]][key[2]]]

\* first_all_valid_index, counted from 0; the length when never valid.
FirstAllValidIndex(series, n) ==
    Min({i \in 0..(n - 1) : \A key \in DOMAIN series : series[key][i + 1] # None} \cup {n})

\* BatchIndicatorView of bar i, counted from 1.
BatchWindow(series, i, n) ==
    SelectSeq(SubSeq(series, IF i > n THEN i - n + 1 ELSE 1, i), LAMBDA v : v # None)

-----------------------------------------------------------------------------
(***************************************************************************)
(* Streaming: a state per indicator and what one more candle makes of it.  *)
(* buf is the deque of the last `period` values or the seed; value the     *)
(* smoothed average, None during the warm-up.                              *)
(***************************************************************************)
EmptyAverage == [buf |-> <<>>, value |-> None]

Pushed(buf, value, period) ==
    IF Len(buf) < period THEN Append(buf, value) ELSE Append(Tail(buf), value)

SmaUpdate(st, value, period) ==
    LET buf == Pushed(st.buf, value, period)
    IN [buf |-> buf, value |-> IF Len(buf) < period THEN None ELSE Mean(buf, 1, period)]

\* EMAState, and the two averages of RSIState and ATRState.
SeededUpdate(st, value, period, Smooth(_, _, _)) ==
    IF st.value # None THEN [st EXCEPT !.value = Smooth(value, st.value, period)]
    ELSE LET buf == Append(st.buf, value)
         IN [buf |-> buf,
             value |-> IF Len(buf) < period THEN None ELSE Mean(buf, 1, period)]

EmaUpdate(st, value, period) == SeededUpdate(st, value, period, Blend)

NewState(spec) ==
    CASE spec.kind = "rsi" -> [prevClose |-> None, gain |-> EmptyAverage, loss |-> EmptyAverage]
      [] spec.kind = "atr" -> [prevClose |-> None, tr |-> EmptyAverage]
      [] spec.kind = "macd" ->
            [fast |-> EmptyAverage, slow |-> EmptyAverage, signal |-> EmptyAverage]
      [] OTHER -> EmptyAverage

RsiUpdate(st, close, period) ==
    IF st.prevClose = None THEN [st EXCEPT !.prevClose = close]
    ELSE LET delta == close - st.prevClose
         IN [prevClose |-> close,
             gain |-> SeededUpdate(st.gain, Positive(delta), period, Wilder),
             loss |-> SeededUpdate(st.loss, Positive(-delta), period, Wilder)]

(* Mutant of AtrUpdate: the first candle gives no true range. *)
AtrUpdateSkipsFirst(st, bar, period) ==
    [prevClose |-> bar.close,
     tr |-> IF st.prevClose = None THEN st.tr
            ELSE SeededUpdate(st.tr, TrueRange(bar, st.prevClose), period, Wilder)]

AtrUpdate(st, bar, period) ==
    [prevClose |-> bar.close,
     tr |-> SeededUpdate(st.tr, TrueRange(bar, st.prevClose), period, Wilder)]

\* The signal EMA is fed once the slow EMA is warm.
MacdUpdate(st, close, spec) ==
    LET fast == EmaUpdate(st.fast, close, spec.fast)
        slow == EmaUpdate(st.slow, close, spec.period)
        line == Minus(fast.value, slow.value)
    IN [fast |-> fast, slow |-> slow,
        signal |-> IF line = None THEN st.signal ELSE EmaUpdate(st.signal, line, spec.signal)]

StateUpdate(spec, st, bar) ==
    CASE spec.kind \in {"sma", "bollinger"} -> SmaUpdate(st, bar.close, spec.period)
      [] spec.kind = "ema" -> EmaUpdate(st, bar.close, spec.period)
      [] spec.kind = "rsi" -> RsiUpdate(st, bar.close, spec.period)
      [] spec.kind = "atr" -> AtrUpdate(st, bar, spec.period)
      [] spec.kind = "macd" -> MacdUpdate(st, bar.close, spec)

\* What update() returns, one value per column.
StateColumns(spec, st) ==
    CASE spec.kind = "rsi" ->
            [value |-> IF st.gain.value = None THEN None
                       ELSE RsiValue(st.gain.value, st.loss.value)]
      [] spec.kind = "atr" -> [value |-> st.tr.value]
      [] spec.kind = "macd" ->
            LET line == Minus(st.fast.value, st.slow.value)
            IN [macd |-> line, signal |-> st.signal.value,
                hist |-> Minus(line, st.signal.value)]
      [] spec.kind = "bollinger" ->
            [middle |-> st.value,
             band |-> IF st.value = None THEN None ELSE Variance(st.buf, 1, spec.period)]
      [] OTHER -> [value |-> st.value]

(***************************************************************************)
(* LiveIndicatorView: the states, the latest values and the history of the *)
(* values that were not None, of which the last maxlen are kept.           *)
(***************************************************************************)
NewLiveView(specs) ==
    [states  |-> [name \in DOMAIN specs |-> NewState(specs[name])],
     latest  |-> [key \in Keys(specs) |-> None],
     history |-> [key \in Keys(specs) |-> <<>>]]

LiveViewUpdate(view, specs, bar, maxlen) ==
    LET states == [name \in DOMAIN specs |->
                      StateUpdate(specs[name], view.states[name], bar)]
        columns == [name \in DOMAIN specs |-> StateColumns(specs[name], states[name])]
        latest == [key \in Keys(specs) |-> columns[key[1]][key[2]]]
    IN [states |-> states, latest |-> latest,
        history |-> [key \in Keys(specs) |->
            IF latest[key] = None THEN view.history[key]
            ELSE Pushed(view.history[key], latest[key], maxlen)]]

AllWarm(view) == \A key \in DOMAIN view.latest : view.latest[key] # None

LiveWindow(view, key, n) ==
    LET h == view.history[key]
    IN SubSeq(h, IF Len(h) > n THEN Len(h) - n + 1 ELSE 1, Len(h))
=============================================================================
