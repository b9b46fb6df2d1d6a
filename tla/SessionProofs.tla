--------------------------- MODULE SessionProofs ---------------------------
(***************************************************************************)
(* Proofs about the modules in which sessions of several processes         *)
(* interleave on rows of one database.  KillSwitch: for any number of      *)
(* processes and any limits.  SharedAccount: which sessions may overlap    *)
(* without a lost update, for any prices, quantities and rates.            *)
(***************************************************************************)
EXTENDS KillSwitch, SharedAccount, LedgerProofs

(***************************************************************************)
(* TrippedHasReason is not inductive alone: a session writes columns it    *)
(* computed from the row it loaded, so what it loaded must have been a     *)
(* matching row as well.  OnlyResetLifts also needs that the orchestrator  *)
(* never calls reset.                                                      *)
(***************************************************************************)
SeenMatches == \A p \in Procs : ReasonMatches(sess[p].seen)

NoAutomaticReset == sess[Orchestrator].op # "reset"

IInv == TypeOK /\ TrippedHasReason /\ SeenMatches /\ NoAutomaticReset

-----------------------------------------------------------------------------
(***************************************************************************)
(* What KillSwitch.trip, reset and record_error leave in the session is a  *)
(* row whose reason matches.                                               *)
(***************************************************************************)
LEMMA ChangedMatches ==
    ASSUME NEW s \in Row, NEW op \in Ops, NEW p \in Procs, ReasonMatches(s)
    PROVE  Changed(s, op, p) \in Row /\ ReasonMatches(Changed(s, op, p))
  <1>1. NoReason \notin Procs /\ MaxConsecutiveErrors \in Nat
    BY KillSwitchAssumption, RiskAssumption
  <1>2. CASE op = "trip"
    BY <1>1, <1>2 DEF Changed, TripRow, Trip, Row, ReasonMatches
  <1>3. CASE op = "reset"
    BY <1>1, <1>3 DEF Changed, ResetRow, Reset, Row, ReasonMatches
  <1>4. CASE op = "error"
    <2> DEFINE c == RecordError(s)
    <2>1. c \in Row /\ c.reason = s.reason /\ (s.tripped => c.tripped)
      <3> DEFINE b == s.tripped \/ s.errors + 1 >= MaxConsecutiveErrors
      <3>1. b \in BOOLEAN /\ (s.tripped => b) /\ s.errors + 1 \in Nat
        BY <1>1 DEF Row
      <3>2. c = [s EXCEPT !.tripped = b, !.errors = s.errors + 1]
        BY DEF RecordError, Row
      <3> HIDE DEF b, c
      <3> QED BY <3>1, <3>2 DEF Row
    <2> HIDE DEF c
    <2>2. CASE c.tripped /\ ~s.tripped
      <3>1. Changed(s, op, p) = [c EXCEPT !.reason = p]
        BY <1>4, <2>2 DEF Changed, ErrorRow, c
      <3> QED BY <1>1, <2>1, <2>2, <3>1 DEF Row, ReasonMatches
    <2>3. CASE ~(c.tripped /\ ~s.tripped)
      <3>1. Changed(s, op, p) = c
        BY <1>4, <2>3 DEF Changed, ErrorRow, c
      <3>2. s.tripped <=> c.tripped
        BY <2>1, <2>3
      <3> QED BY <2>1, <3>1, <3>2 DEF ReasonMatches
    <2> QED BY <2>2, <2>3
  <1>5. CASE op = "none"
    BY <1>5 DEF Changed
  <1> QED BY <1>2, <1>3, <1>4, <1>5 DEF Ops

(***************************************************************************)
(* The UPDATE of the changed columns merges matching rows into a matching  *)
(* row: tripped and reason either both come from the session, or both from *)
(* the database, or agree.                                                 *)
(***************************************************************************)
LEMMA WriteBackMatches ==
    ASSUME NEW now \in Row, NEW s \in Row, NEW op \in Ops, NEW p \in Procs,
           ReasonMatches(now), ReasonMatches(s)
    PROVE  /\ WriteBack(now, s, Changed(s, op, p)) \in Row
           /\ ReasonMatches(WriteBack(now, s, Changed(s, op, p)))
  <1> DEFINE c == Changed(s, op, p)
  <1>1. c \in Row /\ ReasonMatches(c)
    BY ChangedMatches
  <1>2. c.tripped = s.tripped => c.reason = s.reason
    <2>1. CASE op = "error"
      BY <2>1 DEF Changed, ErrorRow, RecordError, Row
    <2>2. CASE op # "error"
      BY <2>2 DEF Changed, TripRow, ResetRow, Trip, Reset, Row, Ops
    <2> QED BY <2>1, <2>2
  <1> HIDE DEF c
  <1>3. WriteBack(now, s, c) \in Row
    BY <1>1 DEF WriteBack, Row
  <1>4. ReasonMatches(WriteBack(now, s, c))
    BY <1>1, <1>2 DEF WriteBack, Row, ReasonMatches
  <1> QED BY <1>3, <1>4 DEF c

-----------------------------------------------------------------------------
(***************************************************************************)
(* The strengthened invariant holds in every behaviour of the processes.   *)
(***************************************************************************)
THEOREM Invariance == Spec => []IInv
  <1>1. Init => IInv
    BY DEF Init, IInv, TypeOK, TrippedHasReason, SeenMatches, ReasonMatches,
           FreshRow, NoSession, Row, Session, Ops, NoAutomaticReset, Procs
  <1>2. IInv /\ [Next]_vars => IInv'
    <2> SUFFICES ASSUME IInv, [Next]_vars PROVE IInv'
      OBVIOUS
    <2> USE DEF IInv
    <2>0. FreshRow \in Row /\ ReasonMatches(FreshRow) /\ NoSession \in Session
          /\ NoSession.seen = FreshRow
      BY DEF FreshRow, Row, ReasonMatches, NoSession, Session, Ops
    <2>a. Orchestrator \in Procs
      BY DEF Procs
    <2>1. ASSUME NEW p \in Procs, NEW op \in Ops, Load(p, op),
                 p = Orchestrator => op # "reset"
          PROVE  IInv'
      BY <2>a, <2>1 DEF Load, TypeOK, TrippedHasReason, SeenMatches, Session, NoAutomaticReset
    <2>2. ASSUME NEW p \in Procs, HumanCalls(p) PROVE IInv'
      BY <2>1, <2>2, KillSwitchAssumption DEF HumanCalls, Ops
    <2>3. ASSUME OrchestratorCalls PROVE IInv'
      BY <2>1, <2>3 DEF OrchestratorCalls, Ops, Procs
    <2>4. ASSUME NEW p \in Procs, Commit(p) PROVE IInv'
      <3>1. sess[p].seen \in Row /\ sess[p].op \in Ops /\ ReasonMatches(sess[p].seen)
        BY DEF TypeOK, Session, SeenMatches
      <3>2. row' \in Row /\ ReasonMatches(row')
        BY <3>1, <2>4, WriteBackMatches DEF Commit, TypeOK, TrippedHasReason
      <3>3. sess' \in [Procs -> Session]
        BY <2>0, <2>4 DEF Commit, TypeOK
      <3>4. SeenMatches'
        BY <2>0, <2>4 DEF Commit, TypeOK, SeenMatches
      <3>5. NoAutomaticReset'
        BY <2>a, <2>4 DEF Commit, TypeOK, NoSession, NoAutomaticReset
      <3> QED BY <3>2, <3>3, <3>4, <3>5 DEF TypeOK, TrippedHasReason
    <2>5. ASSUME NEW p \in Procs, Lost(p) PROVE IInv'
      BY <2>0, <2>5, <2>a DEF Lost, TypeOK, TrippedHasReason, SeenMatches, NoSession,
                              NoAutomaticReset
    <2>6. CASE OrderPlaced
      BY <2>6 DEF OrderPlaced, RecordSuccess, TypeOK, TrippedHasReason, SeenMatches,
                  ReasonMatches, Row, NoAutomaticReset
    <2>7. CASE UNCHANGED vars
      BY <2>7 DEF vars, TypeOK, TrippedHasReason, SeenMatches, NoAutomaticReset
    <2> QED BY <2>2, <2>3, <2>4, <2>5, <2>6, <2>7 DEF Next
  <1> QED BY <1>1, <1>2, PTL DEF Spec

(***************************************************************************)
(* The committed row and every session keep their types.                   *)
(***************************************************************************)
THEOREM TypeCorrect == Spec => []TypeOK
  BY Invariance, PTL DEF IInv

(***************************************************************************)
(* However many processes call trip, reset and record_error on what they   *)
(* loaded, the committed row is tripped exactly when it has a reason.      *)
(***************************************************************************)
THEOREM ReasonCorrect == Spec => []TrippedHasReason
  BY Invariance, PTL DEF IInv

(***************************************************************************)
(* A halt is lifted only by the commit of a human's reset, never by the    *)
(* stale write of record_error or by record_success.                       *)
(***************************************************************************)
THEOREM LiftCorrect == Spec => OnlyResetLifts
  <1>1. ASSUME IInv, [Next]_vars PROVE [LiftStep]_vars
    <2> SUFFICES ASSUME row.tripped, ~row'.tripped
                 PROVE  \E p \in Humans : sess[p].op = "reset" /\ Commit(p)
      BY DEF LiftStep
    <2>1. \A p \in Procs, op \in Ops : ~Load(p, op)
      BY DEF Load
    <2>2. ~OrderPlaced /\ ~UNCHANGED vars /\ \A p \in Procs : ~Lost(p)
      BY DEF OrderPlaced, vars, Lost
    <2>3. ~OrchestratorCalls /\ \A p \in Procs : ~HumanCalls(p)
      BY <2>1 DEF OrchestratorCalls, HumanCalls, Ops, Procs
    <2>4. PICK p \in Procs : Commit(p)
      BY <1>1, <2>2, <2>3 DEF Next
    <2>5. sess[p].seen \in Row /\ sess[p].op \in Ops
      BY <1>1 DEF IInv, TypeOK, Session
    <2>6. sess[p].op = "reset"
      <3> DEFINE s == sess[p].seen
                 c == Changed(s, sess[p].op, p)
      <3>1. row' = WriteBack(row, s, c)
        BY <2>4 DEF Commit
      <3>2. c.tripped # s.tripped /\ ~c.tripped
        BY <3>1 DEF WriteBack
      <3>3. CASE sess[p].op = "trip"
        BY <2>5, <3>2, <3>3 DEF Changed, TripRow, Trip, Row
      <3>4. CASE sess[p].op = "error"
        BY <2>5, <3>2, <3>4 DEF Changed, ErrorRow, RecordError, Row
      <3>5. CASE sess[p].op = "none"
        BY <3>2, <3>5 DEF Changed
      <3> QED BY <2>5, <3>3, <3>4, <3>5 DEF Ops
    <2> QED BY <1>1, <2>4, <2>6 DEF IInv, NoAutomaticReset, Procs
  <1> QED BY <1>1, Invariance, PTL DEF Spec, OnlyResetLifts

-----------------------------------------------------------------------------
(***************************************************************************)
(* Shapes.  No session ever commits a negative cash, not even one that     *)
(* computed with a stale one: its clamp was against that same value.       *)
(***************************************************************************)
SharedDb == [cash : Nat, pos : Position, net : Int, qty : Int, fills : Nat]
Loaded == [caller : {"none", "candle", "cli", "tick"}, cash : Nat, pos : Position]

(***************************************************************************)
(* A position is written from what it holds: avg_price is never negative.  *)
(***************************************************************************)
Shape ==
    /\ db \in SharedDb /\ txn \in [Traders -> Loaded]
    /\ CostSigned(db.pos) /\ \A p \in Traders : CostSigned(txn[p].pos)
    /\ \A p \in Traders : txn[p] = NoTxn \/ txn[p].caller \in Callers(p)

(* The fields of both. *)
LEMMA Fields ==
    ASSUME Shape, NEW p \in Traders
    PROVE  /\ db.cash \in Nat /\ db.pos \in Position /\ db.net \in Int /\ db.qty \in Int
           /\ db.fills \in Nat /\ CostSigned(db.pos)
           /\ txn[p].cash \in Nat /\ txn[p].pos \in Position /\ CostSigned(txn[p].pos)
           /\ txn[p].caller \in {"none", "candle", "cli", "tick"}
           /\ txn[p] # NoTxn => txn[p].caller \in Callers(p)
  BY DEF Shape, SharedDb, Loaded

(* What a fill computes with is the committed value or the one loaded. *)
LEMMA UsedValues ==
    ASSUME Shape, NEW p \in Traders
    PROVE  /\ Used(p, "cash") \in {db.cash, txn[p].cash}
           /\ Used(p, "pos") \in {db.pos, txn[p].pos}
           /\ Used(p, "cash") \in Nat /\ Used(p, "pos") \in Position
           /\ CostSigned(Used(p, "pos"))
<1>1. /\ Used(p, "cash") \in {db.cash, txn[p].cash}
      /\ Used(p, "pos") \in {db.pos, txn[p].pos}
  BY DEF Used
<1> QED
  BY <1>1, Fields

(* The amounts of one fill, and what it makes of the rows. *)
LEMMA FillAmounts ==
    ASSUME Shape, NEW p \in Traders, NEW side \in Side, NEW price \in Prices, NEW qty \in Qtys,
           Fill(p, side, price, qty)
    PROVE  /\ txn[p] # NoTxn
           /\ txn' = [txn EXCEPT ![p] = NoTxn]
           /\ \/ db' = db
              \/ \E filled \in Nat \ {0}, net \in Nat :
                    /\ db'.cash = Used(p, "cash") - Signed(side, net) /\ db'.cash \in Nat
                    /\ db'.pos.qty = Used(p, "pos").qty + Signed(side, filled)
                    /\ db'.pos \in Position /\ CostSigned(db'.pos)
                    /\ db'.net = db.net - Signed(side, net)
                    /\ db'.qty = db.qty + Signed(side, filled)
                    /\ db' \in SharedDb
<1> DEFINE cash == Used(p, "cash")
           pos == Used(p, "pos")
           filled == IF side = "BUY" THEN ClampToCash(qty, price, cash) ELSE qty
           net == NetAmount(side, price, filled)
           e == [cash  |-> CashAfter(cash, side, net),
                 pos   |-> ApplyFill(pos, side, filled, net),
                 net   |-> db.net - Signed(side, net),
                 qty   |-> db.qty + Signed(side, filled),
                 fills |-> db.fills + 1]
<1>1. /\ txn[p] # NoTxn
      /\ txn' = [txn EXCEPT ![p] = NoTxn]
      /\ db' = IF filled = 0 THEN db ELSE e
  BY DEF Fill
<1>2. price \in Nat /\ qty \in Nat \ {0}
  BY SharedAssumption
<1>3. cash \in Nat /\ pos \in Position /\ CostSigned(pos)
  BY UsedValues
<1>4. db.net \in Int /\ db.qty \in Int /\ db.fills \in Nat
  BY Fields
<1> HIDE DEF cash, pos
<1>5. filled \in 0..qty /\ (side = "BUY" => Affordable(filled, price, cash))
  BY <1>2, ClampIsLargestAffordable
<1> HIDE DEF filled
<1>6. filled \in Nat /\ net \in Nat
  <2>1. filled \in Nat
    BY <1>2, <1>5
  <2> QED
    BY <1>2, <2>1, NetAmountType
<1>7. CASE filled = 0
  BY <1>1, <1>7
<1>8. CASE filled # 0
  <2>1. side = "BUY" => net <= cash
    BY <1>5, <1>8 DEF Affordable
  <2> HIDE DEF net
  <2>2. cash - Signed(side, net) \in Nat
    BY <1>3, <1>6, <2>1 DEF Signed, Side
  <2>3. /\ ApplyFill(pos, side, filled, net) \in Position
        /\ CostSigned(ApplyFill(pos, side, filled, net))
        /\ ApplyFill(pos, side, filled, net).qty = pos.qty + Signed(side, filled)
    BY <1>3, <1>6, <1>8, ApplyFillBalances
  <2>4. db.net - Signed(side, net) \in Int /\ db.qty + Signed(side, filled) \in Int
    BY <1>4, <1>6 DEF Signed
  <2>5. db.fills + 1 \in Nat
    BY <1>4
  <2>6. db' = e
    BY <1>1, <1>8
  <2>7. /\ db'.cash = cash - Signed(side, net)
        /\ db'.pos = ApplyFill(pos, side, filled, net)
        /\ db'.net = db.net - Signed(side, net)
        /\ db'.qty = db.qty + Signed(side, filled)
        /\ db'.fills = db.fills + 1
    BY <2>6 DEF CashAfter
  <2>8. e \in SharedDb
    BY <2>2, <2>3, <2>4, <2>5 DEF SharedDb, CashAfter
  <2> HIDE DEF e
  <2> QED
    BY <1>1, <1>6, <1>8, <2>2, <2>3, <2>6, <2>7, <2>8 DEF cash, pos
<1> QED
  BY <1>7, <1>8

(* The end of a session, committed or not. *)
LEMMA SessionEnds ==
    ASSUME Shape, NEW p \in Traders, txn' = [txn EXCEPT ![p] = NoTxn],
           db' \in SharedDb, CostSigned(db'.pos)
    PROVE  Shape'
<1>1. NoTxn \in Loaded /\ CostSigned(NoTxn.pos)
  BY DEF NoTxn, Loaded, FlatPosition, Position, CostSigned
<1>2. txn \in [Traders -> Loaded]
  BY DEF Shape
<1>3. txn' \in [Traders -> Loaded] /\ txn'[p] = NoTxn
        /\ \A q \in Traders \ {p} : txn'[q] = txn[q]
  BY <1>1, <1>2
<1> QED
  BY <1>1, <1>3 DEF Shape

(* The shapes are kept. *)
LEMMA ShapeStep ==
    ASSUME Shape, [AccountNext]_accountVars
    PROVE  Shape'
<1>2. CASE UNCHANGED accountVars
  BY <1>2 DEF accountVars, Shape
<1>3. ASSUME NEW p \in Traders, NEW caller \in Callers(p), Begin(p, caller)
      PROVE  Shape'
  <2> DEFINE s == [caller |-> caller, cash |-> db.cash, pos |-> db.pos]
  <2>1. db' = db /\ txn' = [txn EXCEPT ![p] = s]
    BY <1>3 DEF Begin
  <2>2. caller \in {"candle", "cli", "tick"}
    BY DEF Callers
  <2>3. s \in Loaded /\ CostSigned(s.pos) /\ s.caller \in Callers(p)
    BY <2>2, Fields DEF Loaded
  <2> HIDE DEF s
  <2>4. txn \in [Traders -> Loaded]
    BY DEF Shape
  <2>5. txn' \in [Traders -> Loaded] /\ txn'[p] = s
          /\ \A q \in Traders \ {p} : txn'[q] = txn[q]
    BY <2>1, <2>3, <2>4
  <2> QED
    BY <2>1, <2>3, <2>5 DEF Shape
<1>5. ASSUME NEW p \in Traders, NEW side \in Side, NEW price \in Prices, NEW qty \in Qtys,
             Fill(p, side, price, qty)
      PROVE  Shape'
  <2>1. /\ txn' = [txn EXCEPT ![p] = NoTxn]
        /\ db' = db \/ (db' \in SharedDb /\ CostSigned(db'.pos))
    BY <1>5, FillAmounts
  <2>2. db' \in SharedDb /\ CostSigned(db'.pos)
    BY <2>1 DEF Shape
  <2> QED
    BY <2>1, <2>2, SessionEnds
<1>6. ASSUME NEW p \in Traders, Abandon(p) PROVE Shape'
  <2>1. txn' = [txn EXCEPT ![p] = NoTxn] /\ db' = db
    BY <1>6 DEF Abandon
  <2>2. db' \in SharedDb /\ CostSigned(db'.pos)
    BY <2>1 DEF Shape
  <2> QED
    BY <2>1, <2>2, SessionEnds
<1> QED
  BY <1>2, <1>3, <1>5, <1>6 DEF AccountNext

(* And hold at the start. *)
LEMMA ShapeInit == AccountInit => Shape
<1>1. FlatPosition \in Position /\ CostSigned(FlatPosition)
  BY DEF FlatPosition, Position, CostSigned
<1>2. NoTxn \in Loaded /\ NoTxn.pos = FlatPosition
  BY <1>1 DEF NoTxn, Loaded
<1> QED
  BY <1>1, <1>2, SharedAssumption DEF AccountInit, Shape, SharedDb

-----------------------------------------------------------------------------
(***************************************************************************)
(* Sessions that read the position under the lock lose no other session's  *)
(* fill: any number of `pt paper order` commands, and no orchestrator,     *)
(* keep the position that of the trades.                                   *)
(***************************************************************************)
PositionInv == Shape /\ PositionMatchesTrades

THEOREM PositionCorrect ==
    ASSUME Services = {}
    PROVE  AccountSpec => []PositionMatchesTrades
<1>1. AccountInit => PositionInv
  BY ShapeInit DEF AccountInit, PositionInv, PositionMatchesTrades, FlatPosition
<1>2. PositionInv /\ [AccountNext]_accountVars => PositionInv'
  <2> SUFFICES ASSUME PositionInv, [AccountNext]_accountVars PROVE PositionMatchesTrades'
    BY ShapeStep DEF PositionInv
  <2>1. Shape /\ PositionMatchesTrades
    BY DEF PositionInv
  <2>2. CASE db' = db
    BY <2>1, <2>2 DEF PositionMatchesTrades
  <2>3. ASSUME NEW p \in Traders, NEW side \in Side, NEW price \in Prices, NEW qty \in Qtys,
               Fill(p, side, price, qty)
        PROVE  PositionMatchesTrades'
    <3>1. txn[p] # NoTxn
      BY <2>3 DEF Fill
    <3>2. txn[p].caller = "cli"
      BY <2>1, <3>1, Fields DEF Callers
    <3>3. Used(p, "pos") = db.pos
      BY <3>2 DEF Used, ReadsBeforeLock
    <3> QED
      BY <2>1, <2>2, <2>3, <3>3, FillAmounts DEF PositionMatchesTrades
  <2> QED
    BY <2>2, <2>3 DEF AccountNext, Begin, Abandon, accountVars
<1> QED
  BY <1>1, <1>2, PTL DEF AccountSpec, PositionInv

(***************************************************************************)
(* The single-writer deployment: with one process trading, whatever it is, *)
(* what a session has loaded is still what is committed when it writes, so *)
(* neither the account nor the position loses an update.                   *)
(***************************************************************************)
Fresh ==
    \A p \in Traders : txn[p] # NoTxn => txn[p].cash = db.cash /\ txn[p].pos = db.pos

AloneInv == Shape /\ Fresh /\ CashMatchesTrades /\ PositionMatchesTrades

THEOREM AloneCorrect ==
    ASSUME \A p, q \in Traders : p = q
    PROVE  AccountSpec => [](CashMatchesTrades /\ PositionMatchesTrades)
<1>1. AccountInit => AloneInv
  BY ShapeInit, SharedAssumption
  DEF AccountInit, AloneInv, Fresh, CashMatchesTrades, PositionMatchesTrades, FlatPosition
<1>2. AloneInv /\ [AccountNext]_accountVars => AloneInv'
  <2> SUFFICES ASSUME AloneInv, [AccountNext]_accountVars
               PROVE  Fresh' /\ CashMatchesTrades' /\ PositionMatchesTrades'
    BY ShapeStep DEF AloneInv
  <2>1. Shape /\ Fresh /\ CashMatchesTrades /\ PositionMatchesTrades
    BY DEF AloneInv
  <2>2. txn \in [Traders -> Loaded]
    BY <2>1 DEF Shape
  <2>3. ASSUME db' = db PROVE CashMatchesTrades' /\ PositionMatchesTrades'
    BY <2>1, <2>3 DEF CashMatchesTrades, PositionMatchesTrades
  <2>4. CASE UNCHANGED accountVars
    BY <2>1, <2>3, <2>4 DEF accountVars, Fresh
  <2>5. ASSUME NEW p \in Traders, NEW caller \in Callers(p), Begin(p, caller)
        PROVE  Fresh' /\ db' = db
    <3> DEFINE s == [caller |-> caller, cash |-> db.cash, pos |-> db.pos]
    <3>1. db' = db /\ txn' = [txn EXCEPT ![p] = s] /\ s.cash = db.cash /\ s.pos = db.pos
      BY <2>5 DEF Begin
    <3> HIDE DEF s
    <3>2. \A q \in Traders : txn'[q] = s
      BY <2>2, <3>1
    <3> QED
      BY <3>1, <3>2 DEF Fresh
  <2>6. ASSUME NEW p \in Traders, txn' = [txn EXCEPT ![p] = NoTxn]
        PROVE  Fresh'
    <3>1. \A q \in Traders : txn'[q] = NoTxn
      BY <2>2, <2>6
    <3> QED
      BY <3>1 DEF Fresh
  <2>7. ASSUME NEW p \in Traders, NEW side \in Side, NEW price \in Prices, NEW qty \in Qtys,
               Fill(p, side, price, qty)
        PROVE  CashMatchesTrades' /\ PositionMatchesTrades'
    <3>1. txn[p] # NoTxn
      BY <2>7 DEF Fill
    <3>2. txn[p].cash = db.cash /\ txn[p].pos = db.pos
      BY <2>1, <3>1 DEF Fresh
    <3>3. Used(p, "cash") = db.cash /\ Used(p, "pos") = db.pos
      BY <2>1, <3>2, UsedValues
    <3>4. CASE db' # db
      <4>1. PICK filled \in Nat \ {0}, net \in Nat :
                    /\ db'.cash = Used(p, "cash") - Signed(side, net)
                    /\ db'.pos.qty = Used(p, "pos").qty + Signed(side, filled)
                    /\ db'.net = db.net - Signed(side, net)
                    /\ db'.qty = db.qty + Signed(side, filled)
        BY <2>1, <2>7, <3>4, FillAmounts
      <4>2. Signed(side, net) \in Int
        BY DEF Signed
      <4>3. db.cash \in Nat /\ db.net \in Int /\ InitialCash \in Nat
        BY <2>1, Fields, SharedAssumption
      <4>4. CashMatchesTrades'
        BY <2>1, <3>3, <4>1, <4>2, <4>3 DEF CashMatchesTrades
      <4>5. PositionMatchesTrades'
        BY <2>1, <3>3, <4>1 DEF PositionMatchesTrades
      <4> QED
        BY <4>4, <4>5
    <3> QED
      BY <2>3, <3>4
  <2>8. CASE \E p \in Traders : Abandon(p)
    BY <2>8, <2>3, <2>6 DEF Abandon
  <2>9. CASE \E p \in Traders, side \in Side, price \in Prices, qty \in Qtys :
                Fill(p, side, price, qty)
    <3>1. PICK p \in Traders, side \in Side, price \in Prices, qty \in Qtys :
             Fill(p, side, price, qty)
      BY <2>9
    <3>2. txn' = [txn EXCEPT ![p] = NoTxn]
      BY <3>1 DEF Fill
    <3> QED
      BY <3>1, <3>2, <2>6, <2>7
  <2>10. CASE \E p \in Traders : \E caller \in Callers(p) : Begin(p, caller)
    BY <2>10, <2>3, <2>5
  <2> QED
    BY <2>4, <2>8, <2>9, <2>10 DEF AccountNext
<1> QED
  BY <1>1, <1>2, PTL DEF AccountSpec, AloneInv
=============================================================================
