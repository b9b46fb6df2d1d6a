---------------------------- MODULE MCMarketData ----------------------------
(* Instances of MarketData for TLC. *)
EXTENDS MarketData

CONSTANTS i1, i2

\* One instrument with two bar lengths, one with a single length.
MCSubscriptions == [k \in {i1, i2} |-> IF k = i1 THEN {1, 4} ELSE {2}]
=============================================================================
