----------------------------- MODULE Strategies -----------------------------
(***************************************************************************)
(* The strategies (strategy/strategies/) behind their shared contract      *)
(* (strategy/base.py), and the live runner that drives one of them candle  *)
(* by candle (orchestrator/runner.py, candle_buffer.py).                   *)
(***************************************************************************)
EXTENDS Indicators

CONSTANTS
    Fast, Slow,          \* periods of the crossover strategies
    RsiPeriod, Oversold, ExitLevel,
    AtrPeriod, AtrMultiplier,
    WindowMaxlen,        \* _WINDOW_MAXLEN of the live indicator history
    ScriptedWarmup,      \* warmup_bars of the scripted strategy
    Directions           \* what the scripted strategy may signal

(***************************************************************************)
(* What the constructors and parameter schemas refuse is excluded.         *)
(***************************************************************************)
ASSUME StrategyAssumption ==
    /\ Fast \in Nat \ {0} /\ Slow \in Nat /\ Fast < Slow
    /\ RsiPeriod \in Nat \ {0, 1} /\ Oversold \in 1..99 /\ ExitLevel \in 1..99
    /\ Oversold < ExitLevel
    /\ AtrPeriod \in Nat \ {0} /\ AtrMultiplier \in Nat \ {0}
    /\ WindowMaxlen \in Nat \ {0, 1} /\ ScriptedWarmup \in Nat
    /\ Directions \subseteq {"LONG", "SHORT", "EXIT"}

(***************************************************************************)
(* The registry's strategies, and "scripted" for any other implementation  *)
(* of the contract: it signals as it likes.                                *)
(***************************************************************************)
StrategyNames == {"sma_crossover", "rsi_mean_reversion", "ema_atr_stop"}
Scripted == "scripted"

MaySignal(strategy) == IF strategy = Scripted THEN Directions \cup {None} ELSE {None}

WarmupBars(strategy) ==
    CASE strategy = "sma_crossover" -> Slow + 1
      [] strategy = "rsi_mean_reversion" -> RsiPeriod + 2
      [] strategy = "ema_atr_stop" -> Max({Slow, AtrPeriod}) + 1
      [] OTHER -> ScriptedWarmup

RequiredIndicators(strategy) ==
    CASE strategy = "sma_crossover" ->
            [fast |-> [kind |-> "sma", period |-> Fast],
             slow |-> [kind |-> "sma", period |-> Slow]]
      [] strategy = "rsi_mean_reversion" ->
            [rsi |-> [kind |-> "rsi", period |-> RsiPeriod]]
      [] strategy = "ema_atr_stop" ->
            [fast |-> [kind |-> "ema", period |-> Fast],
             slow |-> [kind |-> "ema", period |-> Slow],
             atr  |-> [kind |-> "atr", period |-> AtrPeriod]]
      [] OTHER ->
            [macd |-> [kind |-> "macd", fast |-> Fast, period |-> Slow, signal |-> Slow],
             bands |-> [kind |-> "bollinger", period |-> Slow]]

-----------------------------------------------------------------------------
(***************************************************************************)
(* on_candle.  now and before are what IndicatorView.value and the last    *)
(* but one of window(name, 2) give, None while there is none; position has *)
(* qty and avgPrice; stop is EMAAtrStopStrategy._stop.  The result is the  *)
(* signal, if any, and the new stop.                                       *)
(***************************************************************************)
Ready(values, names) == \A n \in names : values[<<n, "value">>] # None

CrossedUp(now, before) ==
    /\ before[<<"fast", "value">>] <= before[<<"slow", "value">>]
    /\ now[<<"fast", "value">>] > now[<<"slow", "value">>]

CrossedDown(now, before) ==
    /\ before[<<"fast", "value">>] >= before[<<"slow", "value">>]
    /\ now[<<"fast", "value">>] < now[<<"slow", "value">>]

SmaCrossover(now, before, position) ==
    IF ~Ready(now, {"fast", "slow"}) \/ ~Ready(before, {"fast", "slow"}) THEN None
    ELSE IF CrossedUp(now, before) /\ position.qty = 0 THEN "LONG"
    ELSE IF CrossedDown(now, before) /\ position.qty > 0 THEN "EXIT"
    ELSE None

RsiMeanReversion(now, before, position) ==
    LET rsi == now[<<"rsi", "value">>]
        prev == before[<<"rsi", "value">>]
    IN IF rsi = None \/ prev = None THEN None
       ELSE IF prev >= Oversold /\ rsi < Oversold /\ position.qty = 0 THEN "LONG"
       ELSE IF prev <= ExitLevel /\ rsi > ExitLevel /\ position.qty > 0 THEN "EXIT"
       ELSE None

\* The stop of a position seen for the first time hangs on its real price.
EmaAtrStop(now, before, position, close, stop) ==
    IF ~Ready(now, {"fast", "slow", "atr"}) \/ ~Ready(before, {"fast", "slow"})
    THEN [signal |-> None, stop |-> stop]
    ELSE IF position.qty = 0
    THEN [signal |-> IF CrossedUp(now, before) THEN "LONG" ELSE None, stop |-> None]
    ELSE LET level == IF stop # None THEN stop
                      ELSE position.avgPrice - AtrMultiplier * now[<<"atr", "value">>]
         IN IF close <= level \/ CrossedDown(now, before)
            THEN [signal |-> "EXIT", stop |-> None]
            ELSE [signal |-> None, stop |-> level]

OnCandle(strategy, now, before, position, close, stop, choice) ==
    CASE strategy = "sma_crossover" ->
            [signal |-> SmaCrossover(now, before, position), stop |-> stop]
      [] strategy = "rsi_mean_reversion" ->
            [signal |-> RsiMeanReversion(now, before, position), stop |-> stop]
      [] strategy = "ema_atr_stop" -> EmaAtrStop(now, before, position, close, stop)
      [] OTHER -> [signal |-> choice, stop |-> stop]

\* The last but one value of a window of two.
Before(window) == IF Len(window) < 2 THEN None ELSE window[Len(window) - 1]

-----------------------------------------------------------------------------
(***************************************************************************)
(* LiveStrategyRunner with its LiveCandleBuffer.  The frame that a         *)
(* strategy sees is normalised: of the rows with one ts the last, sorted   *)
(* by ts, so that its last row is the youngest and not the newest.         *)
(***************************************************************************)
NewRunner(strategy) ==
    [rows |-> <<>>, view |-> NewLiveView(RequiredIndicators(strategy)),
     barCount |-> 0, stop |-> None]

LastClose(rows) ==
    LET youngest == Max({rows[i].ts : i \in DOMAIN rows})
        last == Max({i \in DOMAIN rows : rows[i].ts = youngest})
    IN rows[last].close

WarmLive(runner, strategy) ==
    runner.barCount >= WarmupBars(strategy) /\ AllWarm(runner.view)

\* on_candle: the runner with the candle taken in, and the decision.
RunnerTakes(runner, strategy, bar) ==
    [runner EXCEPT !.rows = Append(@, [ts |-> bar.ts, close |-> bar.close]),
                   !.view = LiveViewUpdate(@, RequiredIndicators(strategy), bar, WindowMaxlen),
                   !.barCount = @ + 1]

RunnerDecides(runner, strategy, position, choice) ==
    LET view == runner.view
        before == [key \in DOMAIN view.latest |-> Before(LiveWindow(view, key, 2))]
    IN IF ~WarmLive(runner, strategy) THEN [signal |-> None, stop |-> runner.stop]
       ELSE OnCandle(strategy, view.latest, before, position,
                     LastClose(runner.rows), runner.stop, choice)
=============================================================================
