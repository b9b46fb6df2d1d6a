------------------------------ MODULE Calendar ------------------------------
(***************************************************************************)
(* The NSE trading calendar (core/calendar.py).  A date is a number of days *)
(* from a Monday, an instant a number of time units from the IST midnight  *)
(* of day 0; DayLength units make a day.  Weekends are computed, holidays  *)
(* come from the configuration.                                            *)
(***************************************************************************)
EXTENDS Integers, FiniteSets, SequencesExt

CONSTANTS
    Holidays,      \* NSECalendar.holidays: dates that are not traded
    DayLength,     \* time units of a day
    MarketOpen,    \* time of day of the open, 09:15
    MarketClose,   \* time of day of the close, 15:30
    IstOffset      \* how far IST is ahead of UTC, 5:30

(***************************************************************************)
(* MARKET_OPEN lies before MARKET_CLOSE on the same day.                   *)
(***************************************************************************)
ASSUME CalendarAssumption ==
    /\ Holidays \subseteq Nat
    /\ DayLength \in Nat /\ MarketOpen \in Nat /\ MarketClose \in Nat
    /\ MarketOpen < MarketClose /\ MarketClose < DayLength
    /\ IstOffset \in 0..(DayLength - 1)

IsTradingDay(d) == d % 7 < 5 /\ d \notin Holidays

IstTradingDate(ts) == ts \div DayLength
IstMidnight(ts) == IstTradingDate(ts) * DayLength
TimeOfDay(ts) == ts - IstMidnight(ts)

(***************************************************************************)
(* is_open_at: both ends of the session are inside.                        *)
(***************************************************************************)
IsOpenAt(ts) ==
    /\ IsTradingDay(IstTradingDate(ts))
    /\ MarketOpen <= TimeOfDay(ts)
    /\ TimeOfDay(ts) <= MarketClose

(***************************************************************************)
(* The same instants as a UTC calendar dates them.                         *)
(***************************************************************************)
UtcDate(ts) == (ts - IstOffset) \div DayLength
UtcMidnight(d) == d * DayLength + IstOffset

TradingDaysBetween(start, end) == {d \in start..end : IsTradingDay(d)}
=============================================================================
