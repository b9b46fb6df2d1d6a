--------------------------- MODULE SharedAccount ---------------------------
(***************************************************************************)
(* The paper account and a position row when sessions of several processes *)
(* fill orders on one SQLite database: the orchestrator's candles and      *)
(* housekeeping ticks, and `pt paper order` commands.                      *)
(*                                                                         *)
(* A SELECT takes no lock and starts no transaction; the first write of a  *)
(* session takes the write lock until its commit.  SQLAlchemy keeps the    *)
(* attributes of a row it has loaded, so a value read before the lock is   *)
(* the value computed with after it, and an UPDATE writes the new value    *)
(* without looking at the present one.  What is read before the lock       *)
(* differs with the caller:                                                *)
(*   candle  the position (for the strategy), then the signal row is       *)
(*           written, and the broker reads the account under the lock;     *)
(*   cli     the account (PaperBroker's constructor), then the order row   *)
(*           is written, and the fill reads the position under the lock;   *)
(*   tick    the account, and the position of the first fill.              *)
(* PaperTrading takes each of these sessions as one step; this module is   *)
(* about what that leaves out.                                             *)
(***************************************************************************)
EXTENDS Costs, Positions, FiniteSets

CONSTANTS
    Services,    \* the process of `pt run`, when it is running
    Clis,        \* processes of `pt paper order`
    Prices,      \* quotes
    Qtys,        \* quantities filled
    InitialCash, \* RiskConfig.capital
    MaxFills     \* bound: fills committed

Traders == Clis \cup Services

ASSUME SharedAssumption ==
    /\ Services \cap Clis = {} /\ Cardinality(Services) <= 1
    /\ Prices \subseteq Nat \ {0}
    /\ Qtys \subseteq Nat \ {0}
    /\ InitialCash \in Nat
    /\ MaxFills \in Nat

VARIABLES
    db,   \* committed: the account, a position, the sums of the trades, their number
    txn  \* per process: its caller and the values it has loaded

accountVars == <<db, txn>>

Callers(p) == IF p \in Services THEN {"candle", "tick"} ELSE {"cli"}

(* Mutant of ReadsBeforeLock: every caller loads the position first. *)
ReadsAllBeforeLock(caller) == {"cash", "pos"}

ReadsBeforeLock(caller) ==
    CASE caller = "candle" -> {"pos"}
      [] caller = "cli"    -> {"cash"}
      [] caller = "tick"   -> {"cash", "pos"}
      [] caller = "none"   -> {}

NoTxn == [caller |-> "none", cash |-> 0, pos |-> FlatPosition]

-----------------------------------------------------------------------------
AccountInit ==
    /\ db = [cash |-> InitialCash, pos |-> FlatPosition, net |-> 0, qty |-> 0, fills |-> 0]
    /\ txn = [p \in Traders |-> NoTxn]

(***************************************************************************)
(* The session begins and makes its unlocked reads.                        *)
(***************************************************************************)
Begin(p, caller) ==
    /\ txn[p] = NoTxn
    /\ caller \in Callers(p)
    /\ txn' = [txn EXCEPT ![p] = [caller |-> caller, cash |-> db.cash, pos |-> db.pos]]
    /\ UNCHANGED db

(***************************************************************************)
(* Under the lock: the rest is read, a fill of at most qty is computed as  *)
(* PaperBroker does, and everything is committed.  A buy that cash cannot  *)
(* cover cancels its order and leaves the modelled rows alone.             *)
(***************************************************************************)
Used(p, column) ==
    IF column \in ReadsBeforeLock(txn[p].caller) THEN txn[p][column] ELSE db[column]

CashAfter(cash, side, net) == cash - Signed(side, net)

Fill(p, side, price, qty) ==
    LET cash   == Used(p, "cash")
        pos    == Used(p, "pos")
        filled == IF side = "BUY" THEN ClampToCash(qty, price, cash) ELSE qty
        net    == NetAmount(side, price, filled)
    IN  /\ txn[p] # NoTxn
        /\ db.fills < MaxFills
        /\ db' = IF filled = 0 THEN db
                 ELSE [cash  |-> CashAfter(cash, side, net),
                       pos   |-> ApplyFill(pos, side, filled, net),
                       net   |-> db.net - Signed(side, net),
                       qty   |-> db.qty + Signed(side, filled),
                       fills |-> db.fills + 1]
        /\ txn' = [txn EXCEPT ![p] = NoTxn]

(***************************************************************************)
(* The session ends without a fill, or dies with its process.              *)
(***************************************************************************)
Abandon(p) ==
    /\ txn[p] # NoTxn
    /\ txn' = [txn EXCEPT ![p] = NoTxn]
    /\ UNCHANGED db

AccountNext ==
    \E p \in Traders :
       \/ \E caller \in Callers(p) : Begin(p, caller)
       \/ \E side \in Side, price \in Prices, qty \in Qtys : Fill(p, side, price, qty)
       \/ Abandon(p)

AccountSpec == AccountInit /\ [][AccountNext]_accountVars

-----------------------------------------------------------------------------
(***************************************************************************)
(* The account has paid and received exactly what the trades say, however  *)
(* many sessions fill orders at a time                                     *)
(* (docs/architecture/02-data-model.md: "ACID for money-adjacent rows").   *)
(* It holds while one process trades and fails as soon as two do: the      *)
(* later commit restores the cash the earlier one had spent.               *)
(***************************************************************************)
CashMatchesTrades == db.cash = InitialCash + db.net

(***************************************************************************)
(* The position holds what the trades say.  `pt paper order` reads it      *)
(* under the lock, so any number of these commands keep it right even      *)
(* though they lose each other's cash.                                     *)
(***************************************************************************)
PositionMatchesTrades == db.pos.qty = db.qty
=============================================================================
