-------------------------- MODULE MCSharedAccount --------------------------
(***************************************************************************)
(* Instances of SharedAccount for TLC.                                     *)
(***************************************************************************)
EXTENDS SharedAccount

MCRates == [brokerage |-> 3, brokerageMax |-> 20, stt |-> 1, stampBuy |-> 1,
            exchange |-> 1, sebi |-> 1, gst |-> 18]
============================================================================
