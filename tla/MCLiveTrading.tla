--------------------------- MODULE MCLiveTrading ---------------------------
(***************************************************************************)
(* Instances of LiveTrading for TLC.                                       *)
(***************************************************************************)
EXTENDS LiveTrading

(***************************************************************************)
(* Every charge is non-zero at the prices used.                            *)
(***************************************************************************)
MCRates == [brokerage |-> 3, brokerageMax |-> 20, stt |-> 1, stampBuy |-> 1,
            exchange |-> 1, sebi |-> 1, gst |-> 18]
=============================================================================
