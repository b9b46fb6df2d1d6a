------------------------------- MODULE Advice -------------------------------
(***************************************************************************)
(* The advisory commands (intelligence/): `pt analyze SYMBOL`, one call of *)
(* the language model; `pt recommend run`, which screens the universe,     *)
(* asks the model about every signal and stores ranked recommendations;    *)
(* and `pt news sync`, which stores the items of the RSS sources.  Several *)
(* commands may run at once on one SQLite database.                        *)
(*                                                                         *)
(* Each command is one session.  Its SELECTs take no lock and see what is  *)
(* committed and what it wrote itself; its first INSERT takes the write    *)
(* lock, which it keeps until it commits or rolls back.                    *)
(***************************************************************************)
EXTENDS Integers, SequencesExt, FiniteSetsExt

CONSTANTS
    Procs,            \* commands that may run at once
    Universe,         \* trading.universe; a symbol is its place in the alphabet
    Signals,          \* symbol -> what the screener may find: [direction, qty]
    Outputs,          \* what the model may answer: [conviction, news_impact]
    Costs,            \* what a call may cost; an unpriced model costs 0
    VetoThreshold,    \* score of recommendation.veto_conviction_threshold
    DailyCallCap,     \* ai.daily_call_cap
    MonthlyUsdCap,    \* ai.monthly_usd_cap
    DaysPerMonth,
    Sources,          \* news.sources: a sequence of names
    Items,            \* source -> the URLs it may publish
    MaxDay,           \* bound: days
    MaxCommands,      \* bound: commands started
    None

\* A signal, and the position the strategy was asked with.
SignalRows == [direction : {"LONG", "SHORT", "EXIT"}, qty : Int]

\* The universe is screened as the keys of a mapping: no symbol comes twice.
ASSUME AdviceAssumption ==
    /\ Universe \in Seq(Nat) /\ IsInjective(Universe)
    /\ Sources \in Seq(DOMAIN Items)
    /\ Signals \in [Range(Universe) -> SUBSET SignalRows]
    /\ Outputs \subseteq [conviction : 1..3, news_impact : STRING]
    /\ IsFiniteSet(Procs) /\ Procs # {}
    /\ Costs \subseteq Nat /\ IsFiniteSet(Costs) /\ Costs # {}
    /\ VetoThreshold \in 1..3
    /\ DailyCallCap \in Nat /\ MonthlyUsdCap \in Nat
    /\ DaysPerMonth \in Nat \ {0}
    /\ MaxDay \in Nat /\ MaxCommands \in Nat

\* None is no row, and the URL in the place of a pc is none of its names.
ASSUME NoneAssumption ==
    /\ None \notin Procs \cup Nat \cup Outputs \cup [output : Outputs, cost : Costs]
    /\ {"fetch", "store"} \cap UNION Range(Items) = {}

VARIABLES
    day,       \* the date
    analyses,  \* committed rows of ai_analyses; the id of a row is its place
    recs,      \* committed rows of recommendations: those of the latest cycle
    news,      \* committed rows of news_items: [url, source]
    writer,    \* the command with the write lock, or None
    proc,      \* the commands; found is a ghost: the symbols of a cycle with a signal
    commands   \* commands started so far

tables == <<analyses, recs, news>>
vars == <<day, tables, writer, proc, commands>>

Idle == [cmd |-> "none"]

Month(d) == d \div DaysPerMonth

-----------------------------------------------------------------------------
(***************************************************************************)
(* The budget of analyze_instrument: the rows since the start of the day   *)
(* and their cost since the start of the month, as of now.                 *)
(***************************************************************************)
CountSince(rows, from) == Cardinality({k \in DOMAIN rows : rows[k].day >= from})

SumCost(rows, places) == SumFunctionOnSet([k \in DOMAIN rows |-> rows[k].cost], places)

SumCostSince(rows, from) == SumCost(rows, {k \in DOMAIN rows : rows[k].day >= from})

(* Mutant of WithinDailyCap: the cap is reached one call late. *)
WithinDailyCapAndOne(rows, now) == CountSince(rows, now) <= DailyCallCap

WithinDailyCap(rows, now) == CountSince(rows, now) < DailyCallCap

MonthStart(now) == Month(now) * DaysPerMonth

WithinBudget(rows, now) ==
    /\ WithinDailyCap(rows, now)
    /\ SumCostSince(rows, MonthStart(now)) < MonthlyUsdCap

-----------------------------------------------------------------------------
(***************************************************************************)
(* The deterministic gate: the action of a signal, what an answer of the   *)
(* model may make of it (nothing when there is none), and the ranking.     *)
(***************************************************************************)
DeterministicAction(sig) ==
    CASE sig.direction = "LONG"  -> IF sig.qty > 0 THEN "HOLD" ELSE "BUY"
      [] sig.direction = "SHORT" -> IF sig.qty < 0 THEN "HOLD" ELSE "SELL"
      [] sig.direction = "EXIT"  -> IF sig.qty > 0 THEN "SELL"
                                    ELSE IF sig.qty < 0 THEN "BUY" ELSE "AVOID"

Vetoes(output, action) ==
    /\ output.conviction >= VetoThreshold
    /\ \/ action = "BUY" /\ output.news_impact = "negative"
       \/ action = "SELL" /\ output.news_impact = "positive"

Merged(sig, output) ==
    IF output # None /\ Vetoes(output, DeterministicAction(sig))
    THEN "HOLD"
    ELSE DeterministicAction(sig)

Tier(action) ==
    CASE action \in {"BUY", "SELL"} -> 0 [] action = "HOLD" -> 1 [] action = "AVOID" -> 2

Conviction(c) == IF c.output = None THEN 0 ELSE c.output.conviction

RanksBefore(c, d) ==
    \/ Tier(c.action) < Tier(d.action)
    \/ /\ Tier(c.action) = Tier(d.action)
       /\ \/ Conviction(c) > Conviction(d)
          \/ Conviction(c) = Conviction(d) /\ c.sym < d.sym

Rank(c, cands) == 1 + Cardinality({d \in cands : RanksBefore(d, c)})

-----------------------------------------------------------------------------
MayWrite(p) == writer \in {None, p}

(* Mutant of End: the session is not closed. *)
EndKeepsLock(p) ==
    /\ proc' = [proc EXCEPT ![p] = Idle]
    /\ UNCHANGED writer

\* The session commits or rolls back; its process ends.
End(p) ==
    /\ proc' = [proc EXCEPT ![p] = Idle]
    /\ writer' = IF writer = p THEN None ELSE writer

Started == commands < MaxCommands /\ commands' = commands + 1

(***************************************************************************)
(* `pt analyze`: with the budget exhausted it exits before the call.       *)
(***************************************************************************)
Analyze(p, sym) ==
    /\ proc[p] = Idle /\ Started
    /\ WithinBudget(analyses, day)
    /\ proc' = [proc EXCEPT ![p] = [cmd |-> "analyze", pc |-> "call", sym |-> sym, answer |-> None]]
    /\ UNCHANGED <<day, tables, writer>>

(***************************************************************************)
(* `pt recommend run`.  The time it starts at is the created_at of all its *)
(* recommendations, and the `now` of all its budget checks.  Without a     *)
(* usable configuration of the model (ai) it never calls it.               *)
(***************************************************************************)
(* Mutant of Stamp: the cycles of a day share their created_at. *)
StampByDay == day

Stamp == commands

Recommend(p, ai) ==
    /\ proc[p] = Idle /\ Started
    /\ proc' = [proc EXCEPT ![p] =
           [cmd |-> "recommend", pc |-> "screen", at |-> Stamp, now |-> day, ai |-> ai,
            queue |-> Universe, sig |-> None, answer |-> None, rows |-> <<>>,
            cands |-> {}, found |-> {}]]
    /\ UNCHANGED <<day, tables, writer>>

\* The cycle turns to its next symbol with what it has decided on this one.
Decided(c, sig, answer, id) ==
    LET output == IF answer = None THEN None ELSE answer.output
    IN  [c EXCEPT !.pc = "screen", !.queue = Tail(@), !.sig = None, !.answer = None,
                  !.cands = @ \cup {[sym |-> Head(c.queue), sig |-> sig, output |-> output,
                                     action |-> Merged(sig, output), analysis |-> id]}]

ScreenNothing(p) ==
    /\ proc[p].cmd = "recommend" /\ proc[p].pc = "screen" /\ proc[p].queue # <<>>
    /\ proc' = [proc EXCEPT ![p].queue = Tail(@)]
    /\ UNCHANGED <<day, tables, writer, commands>>

ScreenSignal(p, sig) ==
    LET c     == proc[p]
        found == [c EXCEPT !.found = @ \cup {Head(c.queue)}]
    IN  /\ c.cmd = "recommend" /\ c.pc = "screen" /\ c.queue # <<>>
        /\ sig \in Signals[Head(c.queue)]
        /\ proc' = [proc EXCEPT ![p] =
               IF c.ai /\ WithinBudget(analyses \o c.rows, c.now)
               THEN [found EXCEPT !.pc = "call", !.sig = sig]
               ELSE Decided(found, sig, None, None)]
        /\ UNCHANGED <<day, tables, writer, commands>>

(***************************************************************************)
(* The call.  An API error, or an answer that does not parse, ends the     *)
(* `analyze` command and leaves the cycle with the deterministic action.   *)
(***************************************************************************)
Calling(p) == proc[p].cmd \in {"analyze", "recommend"} /\ proc[p].pc = "call"

CallAnswers(p, output, cost) ==
    /\ Calling(p)
    /\ proc' = [proc EXCEPT ![p].pc = "record", ![p].answer = [output |-> output, cost |-> cost]]
    /\ UNCHANGED <<day, tables, writer, commands>>

(* Mutant of Unavailable: the instrument is left out with its analysis. *)
UnavailableDropsSignal(c) == [c EXCEPT !.pc = "screen", !.queue = Tail(@), !.sig = None]

Unavailable(c) == Decided(c, c.sig, None, None)

CallFails(p) ==
    /\ Calling(p)
    /\ proc' = [proc EXCEPT ![p] = IF @.cmd = "analyze" THEN Idle ELSE Unavailable(@)]
    /\ UNCHANGED <<day, tables, writer, commands>>

Row(sym, answer) == [sym |-> sym, day |-> day, cost |-> answer.cost]

RecordAnalysis(p) ==
    /\ proc[p].cmd = "analyze" /\ proc[p].pc = "record"
    /\ MayWrite(p)
    /\ analyses' = Append(analyses, Row(proc[p].sym, proc[p].answer))
    /\ End(p)
    /\ UNCHANGED <<day, recs, news, commands>>

RecordInCycle(p) ==
    LET c    == proc[p]
        rows == Append(c.rows, Row(Head(c.queue), c.answer))
    IN  /\ c.cmd = "recommend" /\ c.pc = "record"
        /\ MayWrite(p)
        /\ writer' = p
        /\ proc' = [proc EXCEPT ![p] =
               Decided([c EXCEPT !.rows = rows], c.sig, c.answer, Len(analyses) + Len(rows))]
        /\ UNCHANGED <<day, tables, commands>>

(***************************************************************************)
(* The end of a cycle: its candidates are sorted and stored, with the      *)
(* analyses they refer to, in one transaction.  The rows of a cycle that   *)
(* is no longer the latest are never read again, and are left out.         *)
(***************************************************************************)
ListLatestCycle(rows) == {r \in rows : \A s \in rows : s.at <= r.at}

Publish(p) ==
    LET c == proc[p]
    IN  /\ c.cmd = "recommend" /\ c.pc = "screen" /\ c.queue = <<>>
        /\ c.cands # {} => MayWrite(p)
        /\ recs' = ListLatestCycle(recs \cup
               {[at |-> c.at, sym |-> d.sym, sig |-> d.sig, action |-> d.action,
                 rank |-> Rank(d, c.cands), analysis |-> d.analysis] : d \in c.cands})
        /\ analyses' = analyses \o c.rows
        /\ End(p)
        /\ UNCHANGED <<day, news, commands>>

-----------------------------------------------------------------------------
(***************************************************************************)
(* `pt news sync`: source by source, item by item.  An item is looked up   *)
(* by its URL and inserted when it is not found.  A source that fails is   *)
(* reported and left; a URL that was stored by another command since the   *)
(* look-up is refused by the database, and ends the whole command.         *)
(***************************************************************************)
NewsSync(p) ==
    /\ proc[p] = Idle /\ Started
    /\ proc' = [proc EXCEPT ![p] = [cmd |-> "news", pc |-> "fetch", queue |-> Sources,
                                    todo |-> {}, rows |-> {}, results |-> <<>>]]
    /\ UNCHANGED <<day, tables, writer>>

Fetching(p) == proc[p].cmd = "news" /\ proc[p].pc = "fetch" /\ proc[p].queue # <<>>

Fetch(p, urls) ==
    /\ Fetching(p)
    /\ urls \subseteq Items[Head(proc[p].queue)]
    /\ proc' = [proc EXCEPT ![p].pc = "store", ![p].todo = urls,
                            ![p].results = Append(@, [fetched |-> urls, error |-> FALSE])]
    /\ UNCHANGED <<day, tables, writer, commands>>

(* Mutant of AfterFailure: the first dead source ends the loop. *)
AfterFailureStops(queue) == <<>>

AfterFailure(queue) == Tail(queue)

FetchFails(p) ==
    /\ Fetching(p)
    /\ proc' = [proc EXCEPT ![p].queue = AfterFailure(@),
                            ![p].results = Append(@, [fetched |-> {}, error |-> TRUE])]
    /\ UNCHANGED <<day, tables, writer, commands>>

Urls(rows) == {r.url : r \in rows}

Storing(p) == proc[p].cmd = "news" /\ proc[p].pc = "store"

\* SELECT: the item is there already, or it is to be inserted.
LookUp(p, url) ==
    /\ Storing(p) /\ url \in proc[p].todo
    /\ proc' = IF url \in Urls(news \cup proc[p].rows)
               THEN [proc EXCEPT ![p].todo = @ \ {url}]
               ELSE [proc EXCEPT ![p].pc = url]
    /\ UNCHANGED <<day, tables, writer, commands>>

Inserting(p) == proc[p].cmd = "news" /\ proc[p].pc \notin {"fetch", "store"} /\ MayWrite(p)

Insert(p) ==
    LET url == proc[p].pc
    IN  /\ Inserting(p)
        /\ url \notin Urls(news)
        /\ writer' = p
        /\ proc' = [proc EXCEPT ![p].pc = "store", ![p].todo = @ \ {url},
                                ![p].rows = @ \cup {[url |-> url, source |-> Head(proc[p].queue)]}]
        /\ UNCHANGED <<day, tables, commands>>

InsertRefused(p) ==
    /\ Inserting(p)
    /\ proc[p].pc \in Urls(news)
    /\ End(p)
    /\ UNCHANGED <<day, tables, commands>>

SourceDone(p) ==
    /\ Storing(p) /\ proc[p].todo = {}
    /\ proc' = [proc EXCEPT ![p].pc = "fetch", ![p].queue = Tail(@)]
    /\ UNCHANGED <<day, tables, writer, commands>>

CommitNews(p) ==
    /\ proc[p].cmd = "news" /\ proc[p].pc = "fetch" /\ proc[p].queue = <<>>
    /\ news' = news \cup proc[p].rows
    /\ End(p)
    /\ UNCHANGED <<day, analyses, recs, commands>>

-----------------------------------------------------------------------------
(***************************************************************************)
(* A command is killed, or waits five seconds for the write lock in vain   *)
(* and dies of the exception: its session is rolled back.                  *)
(***************************************************************************)
Abort(p) ==
    /\ proc[p] # Idle
    /\ End(p)
    /\ UNCHANGED <<day, tables, commands>>

NewDay ==
    /\ day < MaxDay
    /\ day' = day + 1
    /\ UNCHANGED <<tables, writer, proc, commands>>

Init ==
    /\ day = 0
    /\ analyses = <<>> /\ recs = {} /\ news = {}
    /\ writer = None
    /\ proc = [p \in Procs |-> Idle]
    /\ commands = 0

Step(p) ==
    \/ \E sym \in Range(Universe) : Analyze(p, sym)
    \/ \E ai \in BOOLEAN : Recommend(p, ai)
    \/ NewsSync(p)
    \/ ScreenNothing(p)
    \/ \E sig \in UNION Range(Signals) : ScreenSignal(p, sig)
    \/ \E output \in Outputs, cost \in Costs : CallAnswers(p, output, cost)
    \/ CallFails(p)
    \/ RecordAnalysis(p) \/ RecordInCycle(p) \/ Publish(p)
    \/ \E urls \in SUBSET UNION Range(Items) : Fetch(p, urls)
    \/ FetchFails(p)
    \/ \E url \in UNION Range(Items) : LookUp(p, url)
    \/ Insert(p) \/ InsertRefused(p)
    \/ SourceDone(p) \/ CommitNews(p)
    \/ Abort(p)

Next == NewDay \/ \E p \in Procs : Step(p)

Spec == Init /\ [][Next]_vars

-----------------------------------------------------------------------------
Symbols == Range(Universe)
Rows == [sym : Symbols, day : 0..MaxDay, cost : Costs]
Answers == [output : Outputs, cost : Costs] \cup {None}
NewsRows == [url : UNION Range(Items), source : DOMAIN Items]
Actions == {"BUY", "SELL", "HOLD", "AVOID"}

IsCandidate(d) ==
    /\ d.sym \in Symbols /\ d.sig \in Signals[d.sym] /\ d.output \in Outputs \cup {None}
    /\ d.action \in Actions
    /\ d.output = None <=> d.analysis = None

IsCycle(c) ==
    /\ c.pc \in {"screen", "call", "record"}
    /\ IsSuffix(c.queue, Universe)
    /\ c.pc # "screen" => c.queue # <<>> /\ c.sig \in Signals[Head(c.queue)]
    /\ c.answer \in Answers /\ (c.pc = "record" <=> c.answer # None)
    /\ c.rows \in Seq(Rows)
    /\ \A d \in c.cands : IsCandidate(d)

IsSync(c) ==
    /\ c.pc \in {"fetch", "store"} \cup c.todo
    /\ IsSuffix(c.queue, Sources)
    /\ c.rows \subseteq NewsRows

(***************************************************************************)
(* Types; and the command with uncommitted rows is the one with the lock.  *)
(***************************************************************************)
TypeOK ==
    /\ day \in 0..MaxDay
    /\ analyses \in Seq(Rows)
    /\ news \subseteq NewsRows
    /\ writer = None \/ (writer \in Procs /\ proc[writer] # Idle)
    /\ \A p \in Procs :
          \/ proc[p] = Idle
          \/ proc[p].cmd = "analyze" /\ proc[p].answer \in Answers
          \/ proc[p].cmd = "recommend" /\ IsCycle(proc[p]) /\ (proc[p].rows = <<>> <=> writer # p)
          \/ proc[p].cmd = "news" /\ IsSync(proc[p]) /\ (proc[p].rows = {} <=> writer # p)

(***************************************************************************)
(* The caps are checked before a call, and the call is counted when its    *)
(* row is committed: each command that runs at once may have one call in   *)
(* between.  That is all by which the calls of a day exceed their cap, and *)
(* the cost of a month stays below its own but for as many calls           *)
(* (analysis/service.py), whatever cycles are open, are rolled back, or    *)
(* last over midnight.                                                     *)
(***************************************************************************)
SpendingStaysNearCaps ==
    \A d \in 0..MaxDay :
       LET calls == {k \in DOMAIN analyses : analyses[k].day = d}
           bills == {k \in DOMAIN analyses : Month(analyses[k].day) = Month(d)}
       IN  /\ Cardinality(calls) <= DailyCallCap + Cardinality(Procs) - 1
           /\ SumCost(analyses, bills) < Max({MonthlyUsdCap, 1}) + Cardinality(Procs) * Max(Costs)

(***************************************************************************)
(* An exhausted budget, an API error or a bad answer never costs a signal  *)
(* its recommendation (recommendation/engine.py), and the model only takes *)
(* back (merge.py: "AI may only veto it, never originate or upgrade it"):  *)
(* a cycle that comes to its end has a candidate for every symbol with a   *)
(* signal and for no other, with the action of the signal or, where an     *)
(* analysis stands beside it, HOLD.                                        *)
(***************************************************************************)
EverySignalGetsItsRecommendation ==
    \A p \in Procs :
       proc[p].cmd = "recommend" /\ proc[p].queue = <<>> =>
          /\ {d.sym : d \in proc[p].cands} = proc[p].found
          /\ \A d \in proc[p].cands :
                \/ d.action = DeterministicAction(d.sig)
                \/ d.action = "HOLD" /\ d.analysis # None

(***************************************************************************)
(* What the latest cycle stored is one cycle, whole: ranks from 1, one     *)
(* recommendation for a symbol, nothing actionable behind what is not, and *)
(* analyses that are there and are of that symbol -- though another cycle  *)
(* may have started or committed meanwhile (RecommendationRepository.      *)
(* list_latest_cycle).                                                     *)
(***************************************************************************)
LatestCycleIsWhole ==
    /\ {r.rank : r \in recs} = 1..Cardinality(recs)
    /\ \A r, s \in recs : r.sym = s.sym => r = s
    /\ \A r, s \in recs : r.rank < s.rank => Tier(r.action) <= Tier(s.action)
    /\ \A r \in recs : r.analysis # None =>
          r.analysis \in DOMAIN analyses /\ analyses[r.analysis].sym = r.sym

(***************************************************************************)
(* "One dead source must never block ingestion from the others"            *)
(* (pipeline.py): a sync that comes to its end has asked every source, and *)
(* every item it was given is stored, by itself or by another sync, once.  *)
(***************************************************************************)
NoSourceBlocksAnother ==
    /\ \A p \in Procs :
          proc[p].cmd = "news" /\ proc[p].queue = <<>> =>
             /\ Len(proc[p].results) = Len(Sources)
             /\ \A i \in DOMAIN proc[p].results :
                   proc[p].results[i].fetched \subseteq Urls(news \cup proc[p].rows)
    /\ \A r, s \in news : r.url = s.url => r = s

=============================================================================
