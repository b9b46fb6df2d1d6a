------------------------------- MODULE Sweep -------------------------------
(***************************************************************************)
(* A parameter sweep (backtest/sweep.py): every combination of a grid is   *)
(* backtested on an in-sample and on an out-of-sample window of the stored *)
(* candles.  A backtest (run_backtest_for_symbols) is here the row that it *)
(* leaves, with the candles it was computed from; Backtest models the rest.*)
(***************************************************************************)
EXTENDS Calendar

CONSTANTS
    Combos,       \* grid_combinations: the sequence of the combinations
    Valid,        \* those that params_schema accepts
    Ranges,       \* the pairs <<from, to>> of dates that are asked for
    OosPercents,  \* 100 * oos_fraction
    Stores        \* what may be stored: sets of candle timestamps

VARIABLES
    range,    \* <<from_date, to_date>>
    percent,  \* 100 * oos_fraction
    stored,   \* timestamps of the stored candles
    phase,    \* "checking", "running", "refused" or "done"
    combo,    \* index of the combination in hand
    inSample, \* its in-sample run is in hand: the candles, or the empty set
    rows,     \* BacktestRun rows of the session
    results   \* SweepResult records

vars == <<range, percent, stored, phase, combo, inSample, rows, results>>

From == range[1]
To == range[2]

\* round(n / d): to the nearest, a half to the even neighbour.
RoundHalfEven(n, d) ==
    LET floor == n \div d
        twice == 2 * (n % d)
    IN IF twice < d \/ (twice = d /\ floor % 2 = 0) THEN floor ELSE floor + 1

SplitDate == From + RoundHalfEven((To - From) * (100 - percent), 100)

(***************************************************************************)
(* The candles of a backtest from one date to another, both included: from *)
(* the first to the last instant of those days in UTC.                     *)
(***************************************************************************)
Window(first, last) ==
    {ts \in stored : UtcMidnight(first) <= ts /\ ts < UtcMidnight(last + 1)}

Result(c, in, out, error) ==
    [combo |-> c, inSample |-> in, outOfSample |-> out, error |-> error]

Init ==
    /\ range \in Ranges /\ percent \in OosPercents /\ stored \in Stores
    /\ phase = "checking" /\ combo = 1 /\ inSample = {}
    /\ rows = <<>> /\ results = <<>>

\* InvalidSweepGrid, before anything runs.
Refuse ==
    /\ phase = "checking"
    /\ \/ percent <= 0 \/ percent >= 100
       \/ Combos = <<>>
       \/ SplitDate <= From \/ SplitDate >= To
    /\ phase' = "refused"
    /\ UNCHANGED <<range, percent, stored, combo, inSample, rows, results>>

Begin ==
    /\ phase = "checking"
    /\ 0 < percent /\ percent < 100
    /\ Combos # <<>>
    /\ From < SplitDate /\ SplitDate < To
    /\ phase' = "running"
    /\ UNCHANGED <<range, percent, stored, combo, inSample, rows, results>>

Recorded(result) ==
    /\ results' = Append(results, result)
    /\ inSample' = {}
    /\ combo' = combo + 1
    /\ phase' = IF combo = Len(Combos) THEN "done" ELSE "running"
    /\ UNCHANGED <<range, percent, stored>>

RejectCombo ==
    /\ phase = "running" /\ inSample = {} /\ Combos[combo] \notin Valid
    /\ Recorded(Result(Combos[combo], {}, {}, TRUE))
    /\ UNCHANGED rows

\* The row of a run that succeeded stays in the session.
RunInSample ==
    LET window == Window(From, SplitDate)
    IN /\ phase = "running" /\ inSample = {} /\ Combos[combo] \in Valid
       /\ \/ /\ window # {}
             /\ inSample' = window
             /\ rows' = Append(rows, window)
             /\ UNCHANGED <<range, percent, stored, phase, combo, results>>
          \/ /\ window = {}
             /\ Recorded(Result(Combos[combo], {}, {}, TRUE))
             /\ UNCHANGED rows

RunOutOfSample ==
    LET window == Window(SplitDate, To)
    IN /\ phase = "running" /\ inSample # {}
       /\ rows' = IF window = {} THEN rows ELSE Append(rows, window)
       /\ Recorded(Result(Combos[combo], inSample, window, window = {}))

Next == Refuse \/ Begin \/ RejectCombo \/ RunInSample \/ RunOutOfSample

Spec == Init /\ [][Next]_vars

-----------------------------------------------------------------------------
(***************************************************************************)
(* "out-of-sample data is always strictly later in time than in-sample     *)
(* data" (backtest/sweep.py).                                              *)
(***************************************************************************)
OutOfSampleIsLater ==
    \A k \in DOMAIN results :
        \A in \in results[k].inSample, out \in results[k].outOfSample : in < out
=============================================================================
