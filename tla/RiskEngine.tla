----------------------------- MODULE RiskEngine -----------------------------
(***************************************************************************)
(* The gate between a strategy's signal and a broker: risk/engine.py, with *)
(* the limits (risk/limits.py), the sizer of Sizing and the row            *)
(* operations of the kill switch (risk/kill_switch.py).  No state of its   *)
(* own: the trading modules apply these operators to what they persist.    *)
(***************************************************************************)
EXTENDS Sizing

CONSTANTS
    MaxOpenPositions,     \* RiskConfig.max_open_positions
    MaxDailyLossPct,      \* RiskConfig.max_daily_loss_pct, whole percents
    MaxConsecutiveErrors, \* RiskConfig.kill_switch.max_consecutive_errors
    TickSize              \* Instrument.tick_size, in units of money

ASSUME RiskAssumption ==
    /\ MaxOpenPositions \in Nat \ {0}
    /\ MaxDailyLossPct \in 1..100
    /\ MaxConsecutiveErrors \in Nat \ {0}
    /\ TickSize \in Nat

Direction == {"LONG", "SHORT", "EXIT"}

RejectionReason ==
    {"KILL_SWITCH_TRIPPED", "LIVE_ORDERS_DISABLED", "MAX_DAILY_LOSS",
     "MAX_OPEN_POSITIONS", "ALREADY_IN_POSITION", "NO_OPEN_POSITION",
     "ZERO_QUANTITY"}

-----------------------------------------------------------------------------
(***************************************************************************)
(* limits.py.  A loss is a percentage of a positive equity only.           *)
(***************************************************************************)
ExceedsMaxOpenPositions(openCount) == openCount >= MaxOpenPositions

ExceedsMaxDailyLoss(dailyPnl, equity) ==
    /\ dailyPnl < 0
    /\ equity > 0
    /\ -dailyPnl * 100 >= MaxDailyLossPct * equity

(***************************************************************************)
(* _to_tick_decimal: the nearest multiple of the tick, a tie going to the  *)
(* even multiple (ROUND_HALF_EVEN); a tick of zero leaves the price alone. *)
(***************************************************************************)
ToTick(price) ==
    IF TickSize = 0 THEN price
    ELSE LET below == price \div TickSize
             twice == 2 * (price % TickSize)
             ticks == IF \/ twice > TickSize
                         \/ twice = TickSize /\ below % 2 = 1
                      THEN below + 1 ELSE below
         IN  ticks * TickSize

-----------------------------------------------------------------------------
(***************************************************************************)
(* evaluate.  c is what it reads: tripped, liveGateShut (LIVE mode without *)
(* live_orders_enabled), dailyPnl, equity, posQty (of the signal's         *)
(* instrument) and openCount.  Its checks are made in the order of         *)
(* CheckOrder and the first that blocks names the rejection.  The first    *)
(* three do not look at the direction, so they refuse an EXIT as well.     *)
(***************************************************************************)
CheckOrder == <<"KILL_SWITCH_TRIPPED", "LIVE_ORDERS_DISABLED", "MAX_DAILY_LOSS",
                "NO_OPEN_POSITION", "ALREADY_IN_POSITION",
                "MAX_OPEN_POSITIONS", "ZERO_QUANTITY">>

Blocks(reason, direction, refPrice, c) ==
    CASE reason = "KILL_SWITCH_TRIPPED"  -> c.tripped
      [] reason = "LIVE_ORDERS_DISABLED" -> c.liveGateShut
      [] reason = "MAX_DAILY_LOSS"       -> ExceedsMaxDailyLoss(c.dailyPnl, c.equity)
      [] reason = "NO_OPEN_POSITION"     -> direction = "EXIT" /\ c.posQty = 0
      [] reason = "ALREADY_IN_POSITION"  -> direction # "EXIT" /\ c.posQty # 0
      [] reason = "MAX_OPEN_POSITIONS"   ->
             direction # "EXIT" /\ ExceedsMaxOpenPositions(c.openCount)
      [] reason = "ZERO_QUANTITY"        ->
             direction # "EXIT" /\ Size(c.equity, ToTick(refPrice)) \notin Nat \ {0}

(***************************************************************************)
(* What an unblocked signal is cleared to submit: an EXIT closes the whole *)
(* position, LONG and SHORT open one of the sizer's quantity.              *)
(***************************************************************************)
ApprovedSide(direction, c) ==
    IF direction = "LONG" \/ (direction = "EXIT" /\ c.posQty < 0) THEN "BUY" ELSE "SELL"

ApprovedQty(direction, refPrice, c) ==
    IF direction # "EXIT" THEN Size(c.equity, ToTick(refPrice))
    ELSE IF c.posQty > 0 THEN c.posQty ELSE -c.posQty

(* Mutant of Evaluate: the check for a quantity of zero is left out. *)
EvaluateAnyQty(direction, refPrice, c) ==
    IF \A k \in 1..6 : ~Blocks(CheckOrder[k], direction, refPrice, c)
    THEN [ok |-> TRUE, reason |-> "none", side |-> ApprovedSide(direction, c),
          qty |-> ApprovedQty(direction, refPrice, c)]
    ELSE [ok |-> FALSE, reason |-> "blocked", side |-> "none", qty |-> 0]

Evaluate(direction, refPrice, c) ==
    LET blocking == {k \in 1..7 : Blocks(CheckOrder[k], direction, refPrice, c)}
    IN  IF blocking = {}
        THEN [ok |-> TRUE, reason |-> "none",
              side |-> ApprovedSide(direction, c),
              qty  |-> ApprovedQty(direction, refPrice, c)]
        ELSE [ok |-> FALSE, side |-> "none", qty |-> 0,
              reason |-> CheckOrder[CHOOSE k \in blocking : \A j \in blocking : k <= j]]

-----------------------------------------------------------------------------
(***************************************************************************)
(* The operations of the kill switch on the row one session has loaded.    *)
(* A session may keep further columns in it.                               *)
(***************************************************************************)
KillSwitchRow == [tripped : BOOLEAN, errors : Nat]
ClearRow == [tripped |-> FALSE, errors |-> 0]

Trip(row) == [row EXCEPT !.tripped = TRUE]
Reset(row) == [row EXCEPT !.tripped = FALSE, !.errors = 0]
RecordSuccess(row) == [row EXCEPT !.errors = 0]

(* Mutant of RecordError: the streak alone decides, whatever was tripped. *)
RecordErrorStreakOnly(row) ==
    [row EXCEPT !.tripped = row.errors + 1 >= MaxConsecutiveErrors, !.errors = @ + 1]

(***************************************************************************)
(* record_error counts even while tripped and trips at the limit.          *)
(***************************************************************************)
RecordError(row) ==
    [row EXCEPT !.tripped = row.tripped \/ row.errors + 1 >= MaxConsecutiveErrors,
                !.errors = @ + 1]
=============================================================================
