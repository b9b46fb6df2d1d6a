--------------------------- MODULE MCPaperTrading ---------------------------
(***************************************************************************)
(* Instances of PaperTrading for TLC.                                      *)
(***************************************************************************)
EXTENDS PaperTrading

(***************************************************************************)
(* Every charge is non-zero at the prices used and the brokerage cap bites *)
(* on the larger turnovers.                                                *)
(***************************************************************************)
MCRates == [brokerage |-> 3, brokerageMax |-> 20, stt |-> 1, stampBuy |-> 1,
            exchange |-> 1, sebi |-> 1, gst |-> 18]
=============================================================================
