--------------------------- MODULE OrderLifecycle ---------------------------
(***************************************************************************)
(* What a broker promises about the orders it persists, whatever fills     *)
(* them: an order is born once, keeps its quantity, moves only along       *)
(* ALLOWED_ORDER_TRANSITIONS (core/enums.py, enforced by                   *)
(* OrderRepository.transition), is FILLED exactly when all of it has been  *)
(* filled, and once terminal never changes again.  One step is one commit  *)
(* and may move several orders, each along several transitions.            *)
(***************************************************************************)
EXTENDS OrderStates, Integers

CONSTANT Ids

VARIABLE book   \* the row of each id: [state, qty, filled]

Absent == [state |-> "NONE", qty |-> 0, filled |-> 0]

(***************************************************************************)
(* The rows an order can be committed in.                                  *)
(***************************************************************************)
Sound(row) ==
    /\ row.filled \in 0..row.qty
    /\ row.state = "FILLED" => row.filled = row.qty
    /\ row.state = "PARTIALLY_FILLED" => row.filled \in 1..(row.qty - 1)
    /\ row.state \in {"FILLED", "PARTIALLY_FILLED", "CANCELLED", "EXPIRED"} \/ row.filled = 0

Born(new) == new.state \in Reach("PENDING_RISK") /\ Sound(new)

Advances(old, new) ==
    /\ new.qty = old.qty
    /\ new.filled >= old.filled
    /\ new.state \in Reach(old.state)
    /\ Sound(new)
    /\ new.filled # old.filled => old.state \notin Terminal

Step(old, new) ==
    \/ new = old
    \/ old = Absent /\ Born(new)
    \/ old # Absent /\ Advances(old, new)

Init == book = [o \in Ids |-> Absent]
Next == \A o \in Ids : Step(book[o], book'[o])
Spec == Init /\ [][Next]_book
=============================================================================
