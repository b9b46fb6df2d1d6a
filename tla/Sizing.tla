------------------------------- MODULE Sizing -------------------------------
(***************************************************************************)
(* FixedFractionalSizer (risk/sizing.py), "the exact same code" in the     *)
(* backtester and in the risk engine.                                      *)
(***************************************************************************)
EXTENDS Integers

CONSTANT
    RiskPct  \* risk_per_trade_pct, whole percents

(***************************************************************************)
(* What the constructor refuses is excluded.                               *)
(***************************************************************************)
ASSUME SizingAssumption == RiskPct \in 1..100

(***************************************************************************)
(* size: RiskPct of equity, in whole shares, nothing against a             *)
(* non-positive price or equity.                                           *)
(***************************************************************************)
Size(equity, price) ==
    IF price <= 0 \/ equity <= 0 THEN 0
    ELSE (equity * RiskPct) \div (100 * price)
=============================================================================
