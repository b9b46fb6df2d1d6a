----------------------------- MODULE MCBacktest -----------------------------
(* Instances of Backtest for TLC. *)
EXTENDS Backtest

CONSTANTS s1, s2, Length, ScriptLength

MCSymbols == <<s1, s2>>
MCRates == [brokerage |-> 3, brokerageMax |-> 20, stt |-> 1, stampBuy |-> 1,
            exchange |-> 1, sebi |-> 1, gst |-> 18]

\* A quiet bar, a rise and a fall, as open, high, low and close.
Shapes == {<<60, 60, 60, 60>>, <<140, 150, 110, 120>>, <<40, 60, 20, 20>>}
BarOf(shape, ts) == [ts |-> ts, open |-> shape[1], high |-> shape[2],
                     low |-> shape[3], close |-> shape[4]]
SeriesOf(n) == {[k \in 1..n |-> BarOf(f[k], k)] : f \in [1..n -> Shapes]}

\* The second symbol is listed later and has few candles, or none.
Few == <<BarOf(<<60, 60, 60, 60>>, 2), BarOf(<<140, 150, 110, 120>>, 4),
         BarOf(<<60, 60, 60, 60>>, 5)>>

\* Scripted signals go on after a short has been sold, its cover cut and a
\* long opened with the cash that was left.
MCHistories ==
    [st \in StrategiesUsed |->
        {(s1 :> first) @@ (s2 :> second) :
            first \in SeriesOf(IF st = Scripted THEN ScriptLength ELSE Length),
            second \in IF st = Scripted THEN {Few} ELSE {Few, <<>>}}]
=============================================================================
