------------------------------- MODULE Costs -------------------------------
(***************************************************************************)
(* The NSE cost model shared by the backtester and both brokers            *)
(* (backtest/costs.py), and the cash clamp built on it.                    *)
(*                                                                         *)
(* Money is an integer number of the smallest unit a configuration         *)
(* distinguishes; a rate is an integer number of parts of Scale.  The code *)
(* uses Decimal with 28 significant digits; here a product with a rate is  *)
(* rounded down to the unit.  CostConfig has a delivery and an intraday    *)
(* rate for STT and stamp duty; Rates holds those of the segment in use.   *)
(***************************************************************************)
EXTENDS Integers

CONSTANTS
    Rates,        \* CostConfig: [brokerage, brokerageMax, stt, stampBuy, exchange, sebi, gst]
    Scale,        \* a rate r stands for r / Scale
    Segment,      \* "DELIVERY" or "INTRADAY"
    SlippageBps   \* PaperConfig.slippage_bps

Side == {"BUY", "SELL"}

RateNames == {"brokerage", "brokerageMax", "stt", "stampBuy",
              "exchange", "sebi", "gst"}

ASSUME CostAssumption ==
    /\ Scale \in Nat \ {0}
    /\ Rates \in [RateNames -> Nat]
    /\ Segment \in {"DELIVERY", "INTRADAY"}
    /\ SlippageBps \in 0..9999

(***************************************************************************)
(* A sale is never charged more than it brings: the defaults of CostConfig *)
(* come to about 0.2 % of the turnover.                                    *)
(***************************************************************************)
ASSUME ChargesAssumption ==
    /\ Rates["gst"] <= Scale
    /\ 2 * (Rates["brokerage"] + Rates["exchange"] + Rates["sebi"]) + Rates["stt"] <= Scale

(***************************************************************************)
(* apply_slippage: the fill is worse than the reference price for the      *)
(* trader, by SlippageBps basis points.                                    *)
(***************************************************************************)
ApplySlippage(price, side) ==
    (price * (IF side = "BUY" THEN 10000 + SlippageBps ELSE 10000 - SlippageBps))
        \div 10000

Part(amount, rate) == (amount * rate) \div Scale

(***************************************************************************)
(* calculate_costs: brokerage is capped; STT is charged on both legs of a  *)
(* delivery trade but only on the sell leg of an intraday one; stamp duty  *)
(* only on buys; GST on brokerage, exchange and SEBI charges, never on STT *)
(* or stamp duty.                                                          *)
(***************************************************************************)
Brokerage(turnover) ==
    LET pct == Part(turnover, Rates["brokerage"])
    IN  IF pct <= Rates["brokerageMax"] THEN pct ELSE Rates["brokerageMax"]

Charges(side, turnover) ==
    LET brokerage == Brokerage(turnover)
        stt       == IF Segment = "DELIVERY" \/ side = "SELL"
                     THEN Part(turnover, Rates["stt"]) ELSE 0
        stamp     == IF side = "BUY" THEN Part(turnover, Rates["stampBuy"]) ELSE 0
        exchange  == Part(turnover, Rates["exchange"])
        sebi      == Part(turnover, Rates["sebi"])
        gst       == Part(brokerage + exchange + sebi, Rates["gst"])
    IN  brokerage + stt + stamp + exchange + sebi + gst

(***************************************************************************)
(* TradeCosts.net_amount: what a buyer pays, or a seller receives.         *)
(***************************************************************************)
NetAmount(side, price, qty) ==
    LET turnover == price * qty
    IN  IF side = "SELL" THEN turnover - Charges(side, turnover)
                         ELSE turnover + Charges(side, turnover)

(* Mutant of Affordable: the charges are forgotten. *)
AffordableGross(qty, price, cash) == price * qty <= cash

(***************************************************************************)
(* _clamp_to_cash: the loop lowers qty until a BUY of that size, costs     *)
(* included, fits the cash: the largest such quantity, or 0.               *)
(***************************************************************************)
Affordable(qty, price, cash) == qty = 0 \/ NetAmount("BUY", price, qty) <= cash

ClampToCash(qty, price, cash) ==
    CHOOSE q \in 0..qty :
        /\ Affordable(q, price, cash)
        /\ \A r \in 0..qty : Affordable(r, price, cash) => r <= q
=============================================================================
