----------------------------- MODULE KillSwitch -----------------------------
(***************************************************************************)
(* The kill switch shared by the processes that use one database: the      *)
(* orchestrator, and every `pt kill-switch` command or dashboard request   *)
(* (risk/kill_switch.py over the singleton row of KillSwitchState).        *)
(*                                                                         *)
(* A session loads the row with a SELECT, which takes no lock, decides on  *)
(* what it loaded, and writes with an UPDATE that names only the columns   *)
(* it changed.  Another session may commit in between.  The UPDATE and the *)
(* commit are one step here: SQLite holds the write lock from one to the   *)
(* other.                                                                  *)
(***************************************************************************)
EXTENDS RiskEngine, FiniteSets

CONSTANTS
    Humans,        \* processes of the CLI and of dashboard requests
    Orchestrator,  \* the process of `pt run`
    NoReason,      \* NULL in the reason column
    MaxErrors      \* bound: value the error counter may reach

Procs == Humans \cup {Orchestrator}

ASSUME KillSwitchAssumption ==
    /\ Orchestrator \notin Humans
    /\ NoReason \notin Procs
    /\ MaxErrors \in Nat

(***************************************************************************)
(* The reason column holds a text that names who tripped the switch.       *)
(***************************************************************************)
Row == [tripped : BOOLEAN, errors : Nat, reason : Procs \cup {NoReason}]
FreshRow == [tripped |-> FALSE, errors |-> 0, reason |-> NoReason]

Ops == {"none", "trip", "reset", "error"}

VARIABLES
    row,   \* the committed row
    sess   \* per process: the call under way and the row it has loaded

vars == <<row, sess>>

Session == [op : Ops, seen : Row]
NoSession == [op |-> "none", seen |-> FreshRow]

-----------------------------------------------------------------------------
(* Mutant of ResetRow: the reason of the lifted halt stays. *)
ResetRowKeepsReason(s) == IF s.tripped THEN Reset(s) ELSE s

(* Mutant of ErrorRow: the streak runs down instead of up. *)
ErrorRowCountsDown(s, p) == [s EXCEPT !.errors = @ - 1]

(* Mutant of ErrorRow: the streak alone decides, whatever was tripped. *)
ErrorRowStreakOnly(s, p) ==
    [s EXCEPT !.errors = @ + 1, !.tripped = s.errors + 1 >= MaxConsecutiveErrors,
              !.reason = p]

(***************************************************************************)
(* The session's copy of the row after KillSwitch.trip, reset and          *)
(* record_error.  trip returns early when already tripped; reset raises    *)
(* KillSwitchNotTripped when not.                                          *)
(***************************************************************************)
TripRow(s, p) == IF s.tripped THEN s ELSE [Trip(s) EXCEPT !.reason = p]

ResetRow(s) == IF s.tripped THEN [Reset(s) EXCEPT !.reason = NoReason] ELSE s

ErrorRow(s, p) ==
    LET counted == RecordError(s)
    IN  IF counted.tripped /\ ~s.tripped THEN [counted EXCEPT !.reason = p] ELSE counted

Changed(s, op, p) ==
    CASE op = "trip"  -> TripRow(s, p)
      [] op = "reset" -> ResetRow(s)
      [] op = "error" -> ErrorRow(s, p)
      [] op = "none"  -> s

(***************************************************************************)
(* The unit of work's UPDATE: a column is written when the session changed *)
(* it, and otherwise keeps what is committed now.                          *)
(***************************************************************************)
WriteBack(now, seen, new) ==
    [tripped |-> IF new.tripped # seen.tripped THEN new.tripped ELSE now.tripped,
     errors  |-> IF new.errors # seen.errors THEN new.errors ELSE now.errors,
     reason  |-> IF new.reason # seen.reason THEN new.reason ELSE now.reason]

-----------------------------------------------------------------------------
Init == row = FreshRow /\ sess = [p \in Procs |-> NoSession]

(***************************************************************************)
(* A human trips or resets; the orchestrator counts a failed candle, or    *)
(* trips when startup reconciliation finds the positions too far apart.    *)
(***************************************************************************)
Load(p, op) ==
    /\ sess[p].op = "none"
    /\ sess' = [sess EXCEPT ![p] = [op |-> op, seen |-> row]]
    /\ UNCHANGED row

HumanCalls(p) == p \in Humans /\ \E op \in {"trip", "reset"} : Load(p, op)

OrchestratorCalls ==
    \/ row.errors < MaxErrors /\ Load(Orchestrator, "error")
    \/ Load(Orchestrator, "trip")

Commit(p) ==
    /\ sess[p].op # "none"
    /\ row' = WriteBack(row, sess[p].seen, Changed(sess[p].seen, sess[p].op, p))
    /\ sess' = [sess EXCEPT ![p] = NoSession]

(***************************************************************************)
(* record_success, at the end of a candle that placed an order.  That      *)
(* transaction has written its signal before evaluate reads the switch, so *)
(* it holds the write lock and reads what is committed.                    *)
(***************************************************************************)
OrderPlaced ==
    /\ sess[Orchestrator].op = "none"
    /\ ~row.tripped /\ row.errors # 0
    /\ row' = RecordSuccess(row)
    /\ UNCHANGED sess

(***************************************************************************)
(* The process dies, or its transaction fails, before it has written.      *)
(***************************************************************************)
Lost(p) ==
    /\ sess[p].op # "none"
    /\ sess' = [sess EXCEPT ![p] = NoSession]
    /\ UNCHANGED row

Next ==
    \/ \E p \in Procs : HumanCalls(p) \/ Commit(p) \/ Lost(p)
    \/ OrchestratorCalls
    \/ OrderPlaced

Spec == Init /\ [][Next]_vars

-----------------------------------------------------------------------------
(***************************************************************************)
(* Type invariant.                                                         *)
(***************************************************************************)
TypeOK == row \in Row /\ sess \in [Procs -> Session]

(***************************************************************************)
(* However the sessions interleave, a tripped switch has a reason and one  *)
(* that is not tripped has none: the columns trip and reset write together *)
(* are never left half from one session and half from another.             *)
(***************************************************************************)
ReasonMatches(r) == r.tripped <=> r.reason # NoReason

TrippedHasReason == ReasonMatches(row)

(***************************************************************************)
(* Only a reset lifts a halt: an error counted by a session that loaded    *)
(* the row before the switch was tripped does not write the old value      *)
(* back.                                                                   *)
(***************************************************************************)
LiftStep ==
    (row.tripped /\ ~row'.tripped) => \E p \in Humans : sess[p].op = "reset" /\ Commit(p)

OnlyResetLifts == [][LiftStep]_vars

-----------------------------------------------------------------------------
(***************************************************************************)
(* What kill_switch.py says and TLC refutes when processes interleave      *)
(* (README.md, "Divergences").                                             *)
(*                                                                         *)
(* record_error: "Auto-trips once the streak reaches the configured        *)
(* limit".                                                                 *)
(***************************************************************************)
StreakTrips == row.errors >= MaxConsecutiveErrors => row.tripped

(***************************************************************************)
(* trip: "Idempotent: tripping an already-tripped switch logs nothing      *)
(* further - the first trip reason is the one that matters".               *)
(***************************************************************************)
FirstReasonStays == [][row.tripped /\ row'.tripped => row'.reason = row.reason]_vars
=============================================================================
