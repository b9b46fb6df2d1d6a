----------------------------- MODULE OrderStates -----------------------------
(***************************************************************************)
(* The order state machine of core/enums.py: the states an order can be    *)
(* persisted in and the table every OrderRepository.transition call is     *)
(* checked against.                                                        *)
(***************************************************************************)

OrderState == {"PENDING_RISK", "REJECTED_RISK", "SUBMITTING", "SUBMITTED",
               "FAILED", "REJECTED_BROKER", "OPEN", "PARTIALLY_FILLED",
               "FILLED", "CANCELLED", "EXPIRED"}

(***************************************************************************)
(* ALLOWED_ORDER_TRANSITIONS: the states an order may move to from s.      *)
(***************************************************************************)
AllowedFrom(s) ==
    CASE s = "PENDING_RISK" -> {"REJECTED_RISK", "SUBMITTING"}
      [] s = "SUBMITTING"   -> {"SUBMITTED", "FAILED"}
      [] s = "SUBMITTED"    -> {"OPEN", "REJECTED_BROKER", "FAILED"}
      [] s \in {"OPEN", "PARTIALLY_FILLED"} ->
             {"PARTIALLY_FILLED", "FILLED", "CANCELLED", "EXPIRED"}
      [] OTHER -> {}

Terminal == {s \in OrderState : AllowedFrom(s) = {}}

(* Mutant of ListOpen: a query that overlooks the partly filled orders. *)
ListOpenUnfilled == {"SUBMITTING", "SUBMITTED", "OPEN"}

(***************************************************************************)
(* The states of OrderRepository.list_open: what housekeeping works on.    *)
(***************************************************************************)
ListOpen == {"SUBMITTING", "SUBMITTED", "OPEN", "PARTIALLY_FILLED"}

(***************************************************************************)
(* One transaction makes several transitions in a row (place_order makes   *)
(* four).  Reach(s) is what a committed order in state s can be committed  *)
(* as next; the longest path of the table visits six states.               *)
(***************************************************************************)
Widen(S) == S \cup UNION {AllowedFrom(s) : s \in S}
Reach(s) == Widen(Widen(Widen(Widen(Widen({s})))))
==============================================================================
