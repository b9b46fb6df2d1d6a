------------------------------ MODULE MCSweep ------------------------------
(* Instances of Sweep for TLC. *)
EXTENDS Sweep

CONSTANTS c1, c2

MCCombos == <<c1, c2>>

\* Daily candles are stamped at the IST midnight of their day.
Daily(days) == {d * DayLength : d \in days}
MCRanges == {<<1, 4>>, <<1, 2>>}
MCStores == {Daily(S) : S \in SUBSET (1..5)}
=============================================================================
