---------------------------- MODULE AdviceProofs ----------------------------
(***************************************************************************)
(* Proofs about Advice: recommendation cycles are stored whole and with    *)
(* every signal, news syncs block neither a source nor each other, and the *)
(* calls of the model stay near their caps.                                *)
(***************************************************************************)
EXTENDS Advice, LedgerProofs

URLs == UNION Range(Items)

Candidates == [sym : Symbols, sig : SignalRows, output : Outputs \cup {None},
               action : Actions, analysis : Nat \cup {None}]

Analyses == [cmd : {"analyze"}, pc : {"call", "record"}, sym : Symbols, answer : Answers]

Cycles == [cmd : {"recommend"}, pc : {"screen", "call", "record"}, at : Nat, now : Nat,
           ai : BOOLEAN, queue : Seq(Symbols), sig : SignalRows \cup {None},
           answer : Answers, rows : Seq(Rows), cands : SUBSET Candidates,
           found : SUBSET Symbols]

Syncs == [cmd : {"news"}, pc : {"fetch", "store"} \cup URLs, queue : Seq(DOMAIN Items),
          todo : SUBSET URLs, rows : SUBSET NewsRows,
          results : Seq([fetched : SUBSET URLs, error : BOOLEAN])]

(***************************************************************************)
(* A candidate of cycle c is what was decided on a symbol that has left    *)
(* its queue; the analysis it refers to is one of the cycle's own rows,    *)
(* counted from the rows that are committed.                               *)
(***************************************************************************)
CandidateInv(d, c, committed) ==
    /\ d.sig \in Signals[d.sym]
    /\ d.action = Merged(d.sig, d.output)
    /\ d.output = None <=> d.analysis = None
    /\ d.sym \notin Range(c.queue)
    /\ d.analysis # None =>
          /\ d.analysis \in (Len(committed) + 1)..(Len(committed) + Len(c.rows))
          /\ c.rows[d.analysis - Len(committed)].sym = d.sym

OnePerSymbol(S) == \A d, e \in S : d.sym = e.sym => d = e

Pending(c) == IF c.pc = "screen" THEN {} ELSE {Head(c.queue)}

CycleInv(c, committed) ==
    /\ c \in Cycles
    /\ IsSuffix(c.queue, Universe)
    /\ c.pc # "screen" => c.queue # <<>> /\ c.sig \in Signals[Head(c.queue)]
    /\ c.pc = "record" <=> c.answer # None
    /\ c.found = {d.sym : d \in c.cands} \cup Pending(c)
    /\ IsFiniteSet(c.cands) /\ OnePerSymbol(c.cands)
    /\ \A d \in c.cands : CandidateInv(d, c, committed)
    /\ c.rows # <<>> => c.cands # {}

OnePerUrl(S) == \A r, s \in S : r.url = s.url => r = s

\* The source whose items are being stored has its result already.
Counted(c) ==
    /\ c.pc = "fetch" => Len(c.results) + Len(c.queue) = Len(Sources)
    /\ c.pc # "fetch" => Len(c.results) + Len(c.queue) = Len(Sources) + 1

SyncInv(c, stored) ==
    /\ c \in Syncs
    /\ IsSuffix(c.queue, Sources)
    /\ c.pc # "fetch" => c.queue # <<>>
    /\ c.pc = "fetch" => c.todo = {}
    /\ c.pc \notin {"fetch", "store"} => c.pc \in c.todo /\ c.pc \notin Urls(c.rows)
    /\ Counted(c)
    /\ \A i \in DOMAIN c.results : c.results[i].fetched \subseteq Urls(stored \cup c.rows) \cup c.todo
    /\ OnePerUrl(stored \cup c.rows)

(***************************************************************************)
(* A command: idle, or what its kind is in the midst of.  It has the write *)
(* lock exactly when it has rows that are not committed.                   *)
(***************************************************************************)
CommandInv(p) ==
    \/ proc[p] = Idle /\ writer # p
    \/ proc[p] \in Analyses /\ writer # p
         /\ (proc[p].pc = "record" <=> proc[p].answer # None)
    \/ CycleInv(proc[p], analyses) /\ (proc[p].rows = <<>> <=> writer # p)
    \/ SyncInv(proc[p], news) /\ (proc[p].rows = {} <=> writer # p)

Recs == [at : Nat, sym : Symbols, sig : SignalRows, action : Actions, rank : Nat,
         analysis : Nat \cup {None}]

RecsInv(rows, committed) ==
    /\ rows \subseteq Recs /\ IsFiniteSet(rows)
    /\ {r.rank : r \in rows} = 1..Cardinality(rows)
    /\ OnePerSymbol(rows)
    /\ \A r, s \in rows : r.rank < s.rank => Tier(r.action) <= Tier(s.action)
    /\ \A r \in rows : r.analysis # None =>
          r.analysis \in DOMAIN committed /\ committed[r.analysis].sym = r.sym

(***************************************************************************)
(* The stamp of a cycle is its own: no other open cycle and no stored      *)
(* recommendation has it, and what is stored is of one cycle.              *)
(***************************************************************************)
StampsInv ==
    /\ \A p, q \in Procs : proc[p].cmd = "recommend" /\ proc[q].cmd = "recommend"
                              /\ proc[p].at = proc[q].at => p = q
    /\ \A p \in Procs : proc[p].cmd = "recommend" =>
          proc[p].at < commands /\ \A r \in recs : r.at # proc[p].at
    /\ \A r, s \in recs : r.at = s.at
    /\ \A r \in recs : r.at < commands

TablesInv ==
    /\ day \in 0..MaxDay /\ commands \in Nat
    /\ writer \in Procs \cup {None}
    /\ DOMAIN proc = Procs
    /\ analyses \in Seq(Rows)
    /\ news \subseteq NewsRows /\ OnePerUrl(news)
    /\ RecsInv(recs, analyses)

IInv ==
    /\ TablesInv
    /\ StampsInv
    /\ \A p \in Procs : CommandInv(p)

-----------------------------------------------------------------------------
(* What is left of a list that is worked off from its head. *)
LEMMA SuffixMeans ==
    ASSUME NEW S, NEW s \in Seq(S), NEW t \in Seq(S)
    PROVE  IsSuffix(s, t) <=> /\ Len(s) <= Len(t)
                              /\ \A i \in 1..Len(s) : s[i] = t[Len(t) - Len(s) + i]
<1> DEFINE r == Reverse(s)
           v == Reverse(t)
           m == Len(s)
           n == Len(t)
<1>1. m \in Nat /\ n \in Nat
  BY LenProperties
<1>2. /\ r \in Seq(S) /\ Len(r) = m /\ \A i \in 1..m : r[i] = s[m - i + 1]
      /\ v \in Seq(S) /\ Len(v) = n /\ \A i \in 1..n : v[i] = t[n - i + 1]
  <2>1. /\ \A i \in 1..m : s[m - i + 1] \in S
        /\ \A i \in 1..n : t[n - i + 1] \in S
    BY <1>1, ElementOfSeq, LenProperties
  <2> QED
    BY <2>1, <1>1, IsASeq DEF Reverse
<1>3. CASE m <= n
  <2>1. /\ SubSeq(r, 1, m) = [i \in 1..m |-> r[i]]
        /\ SubSeq(v, 1, m) = [i \in 1..m |-> v[i]]
    <3> HIDE DEF r, v
    <3> QED
      BY <1>1, <1>2, <1>3
  <2>2. IsSuffix(s, t) <=> \A i \in 1..m : r[i] = v[i]
    <3> HIDE DEF r, v
    <3>1. IsPrefix(r, v) <=> \A i \in 1..m : r[i] = v[i]
      BY <2>1, <1>1, <1>2, <1>3 DEF IsPrefix
    <3> QED
      BY <3>1 DEF IsSuffix, r, v
  <2>3. (\A i \in 1..m : r[i] = v[i]) <=> \A i \in 1..m : s[m - i + 1] = t[n - i + 1]
    <3>1. \A i \in 1..m : r[i] = s[m - i + 1] /\ v[i] = t[n - i + 1]
      <4> HIDE DEF r, v
      <4> QED
        BY <1>1, <1>2, <1>3
    <3> HIDE DEF r, v, m, n
    <3> QED
      BY <3>1
  <2>4. (\A i \in 1..m : s[m - i + 1] = t[n - i + 1]) <=> \A i \in 1..m : s[i] = t[n - m + i]
    <3>1. ASSUME \A i \in 1..m : s[m - i + 1] = t[n - i + 1], NEW i \in 1..m
          PROVE  s[i] = t[n - m + i]
      <4>1. m - i + 1 \in 1..m /\ m - (m - i + 1) + 1 = i /\ n - (m - i + 1) + 1 = n - m + i
        BY <1>1
      <4> QED
        BY <3>1, <4>1
    <3>2. ASSUME \A i \in 1..m : s[i] = t[n - m + i], NEW i \in 1..m
          PROVE  s[m - i + 1] = t[n - i + 1]
      <4>1. m - i + 1 \in 1..m /\ n - m + (m - i + 1) = n - i + 1
        BY <1>1
      <4> QED
        BY <3>2, <4>1
    <3> QED
      BY <3>1, <3>2
  <2> QED
    BY <2>2, <2>3, <2>4, <1>3
<1>4. CASE ~(m <= n)
  BY <1>2, <1>4 DEF IsSuffix, IsPrefix
<1> QED
  BY <1>3, <1>4

LEMMA WholeIsSuffix ==
    ASSUME NEW S, NEW s \in Seq(S)
    PROVE  IsSuffix(s, s)
  BY SuffixMeans, LenProperties

LEMMA TailIsSuffix ==
    ASSUME NEW S, NEW s \in Seq(S), NEW t \in Seq(S), s # <<>>, IsSuffix(s, t)
    PROVE  /\ Tail(s) \in Seq(S) /\ IsSuffix(Tail(s), t)
           /\ Head(s) \in S /\ Len(Tail(s)) = Len(s) - 1
<1>1. /\ Tail(s) \in Seq(S) /\ Head(s) \in S /\ Len(s) \in Nat \ {0}
      /\ Len(Tail(s)) = Len(s) - 1 /\ \A i \in 1..Len(s) - 1 : Tail(s)[i] = s[i + 1]
  BY HeadTailProperties, EmptySeq, LenProperties
<1>2. /\ Len(s) <= Len(t) /\ Len(t) \in Nat
      /\ \A i \in 1..Len(s) : s[i] = t[Len(t) - Len(s) + i]
  BY SuffixMeans, LenProperties
<1>3. \A i \in 1..Len(s) - 1 : Tail(s)[i] = t[Len(t) - (Len(s) - 1) + i]
  <2> TAKE i \in 1..Len(s) - 1
  <2>1. i + 1 \in 1..Len(s) /\ Len(t) - Len(s) + (i + 1) = Len(t) - (Len(s) - 1) + i
    BY <1>1, <1>2
  <2> QED
    BY <2>1, <1>1, <1>2
<1>4. Len(Tail(s)) <= Len(t)
  BY <1>1, <1>2
<1> HIDE DEF IsSuffix
<1>5. IsSuffix(Tail(s), t)
  BY <1>1, <1>3, <1>4, SuffixMeans
<1> QED
  BY <1>1, <1>5

(* A symbol that has left the queue does not come back to it. *)
LEMMA HeadLeaves ==
    ASSUME NEW s \in Seq(Symbols), s # <<>>, IsSuffix(s, Universe)
    PROVE  /\ Head(s) \notin Range(Tail(s)) /\ Range(Tail(s)) \subseteq Range(s)
           /\ Head(s) \in Range(s)
<1>1. Universe \in Seq(Symbols)
  BY AdviceAssumption, SeqOfRange DEF Symbols
<1>2. /\ Len(s) \in Nat \ {0} /\ Head(s) = s[1] /\ Tail(s) \in Seq(Symbols)
      /\ Len(Tail(s)) = Len(s) - 1 /\ \A i \in 1..Len(s) - 1 : Tail(s)[i] = s[i + 1]
  BY HeadTailProperties, EmptySeq, LenProperties
<1>3. /\ Len(s) <= Len(Universe) /\ Len(Universe) \in Nat
      /\ \A i \in 1..Len(s) : s[i] = Universe[Len(Universe) - Len(s) + i]
  BY <1>1, SuffixMeans, LenProperties
<1>4. \A i, j \in 1..Len(Universe) : Universe[i] = Universe[j] => i = j
  BY <1>1, AdviceAssumption, LenProperties DEF IsInjective
<1>5. DOMAIN Tail(s) = 1..Len(s) - 1 /\ DOMAIN s = 1..Len(s)
  BY <1>2, LenProperties
<1>6. ASSUME NEW i \in 1..Len(s) - 1
      PROVE  Head(s) # Tail(s)[i] /\ Tail(s)[i] \in Range(s)
  <2>1. i + 1 \in 1..Len(s) /\ 1 \in 1..Len(s) /\ Tail(s)[i] = s[i + 1]
    BY <1>2
  <2>2. /\ s[1] = Universe[Len(Universe) - Len(s) + 1]
        /\ s[i + 1] = Universe[Len(Universe) - Len(s) + (i + 1)]
    BY <2>1, <1>3
  <2>3. /\ Len(Universe) - Len(s) + 1 \in 1..Len(Universe)
        /\ Len(Universe) - Len(s) + (i + 1) \in 1..Len(Universe)
        /\ Len(Universe) - Len(s) + 1 # Len(Universe) - Len(s) + (i + 1)
    BY <1>2, <1>3
  <2> QED
    BY <2>1, <2>2, <2>3, <1>2, <1>4, <1>5 DEF Range
<1> QED
  BY <1>2, <1>5, <1>6 DEF Range

-----------------------------------------------------------------------------
(* The deterministic gate gives an action, and an analysis may only hold. *)
LEMMA MergedType ==
    ASSUME NEW sig \in SignalRows, NEW output \in Outputs \cup {None}
    PROVE  /\ DeterministicAction(sig) \in Actions /\ Merged(sig, output) \in Actions
           /\ Merged(sig, output) = DeterministicAction(sig)
                \/ (Merged(sig, output) = "HOLD" /\ output # None)
<1>1. sig.direction \in {"LONG", "SHORT", "EXIT"} /\ sig.qty \in Int
  BY DEF SignalRows
<1>2. DeterministicAction(sig) \in Actions
  BY <1>1 DEF DeterministicAction, Actions
<1> HIDE DEF DeterministicAction
<1> QED
  BY <1>2 DEF Merged, Actions

LEMMA SignalType ==
    ASSUME NEW sym \in Symbols, NEW sig \in Signals[sym]
    PROVE  sig \in SignalRows
  BY AdviceAssumption DEF Symbols

LEMMA AnswerType ==
    ASSUME NEW answer \in Answers
    PROVE  /\ answer # None => answer.output \in Outputs /\ answer.cost \in Costs
           /\ None \notin Outputs
  BY NoneAssumption DEF Answers

Candidate(c, sig, answer, id) ==
    LET output == IF answer = None THEN None ELSE answer.output
    IN  [sym |-> Head(c.queue), sig |-> sig, output |-> output,
         action |-> Merged(sig, output), analysis |-> id]

(* What Decided leaves of a cycle. *)
LEMMA DecidedFields ==
    ASSUME NEW c \in Cycles, NEW sig, NEW answer, NEW id
    PROVE  LET e == Decided(c, sig, answer, id)
           IN  /\ e.cmd = "recommend" /\ e.pc = "screen" /\ e.at = c.at
               /\ e.queue = Tail(c.queue) /\ e.sig = None /\ e.answer = None
               /\ e.rows = c.rows /\ e.found = c.found
               /\ e.cands = c.cands \cup {Candidate(c, sig, answer, id)}
               /\ Tail(c.queue) \in Seq(Symbols) /\ Candidate(c, sig, answer, id) \in Candidates
                    => e \in Cycles
<1> DEFINE x == Candidate(c, sig, answer, id)
           q == Tail(c.queue)
           s == c.cands \cup {x}
<1>1. Decided(c, sig, answer, id) =
        [c EXCEPT !.pc = "screen", !.queue = q, !.sig = None, !.answer = None, !.cands = s]
  BY DEF Decided, Candidate
<1>2. None \in Answers
  BY DEF Answers
<1>3. x \in Candidates => s \in SUBSET Candidates
  BY DEF Cycles
<1> HIDE DEF x, q, s
<1> DEFINE e == [c EXCEPT !.pc = "screen", !.queue = q, !.sig = None, !.answer = None, !.cands = s]
<1>4. /\ e.cmd = "recommend" /\ e.pc = "screen" /\ e.at = c.at
      /\ e.queue = q /\ e.sig = None /\ e.answer = None
      /\ e.rows = c.rows /\ e.found = c.found /\ e.cands = s
  BY DEF Cycles
<1>5. q \in Seq(Symbols) /\ s \in SUBSET Candidates => e \in Cycles
  BY <1>2 DEF Cycles
<1> HIDE DEF e
<1>6. Decided(c, sig, answer, id) = e
  BY <1>1 DEF e
<1> QED
  BY <1>3, <1>4, <1>5, <1>6 DEF x, q, s

(* A cycle in the midst of the symbol at the head of its queue. *)
Deciding(c, committed) ==
    /\ c \in Cycles /\ c.queue # <<>> /\ IsSuffix(c.queue, Universe)
    /\ c.found = {d.sym : d \in c.cands} \cup {Head(c.queue)}
    /\ IsFiniteSet(c.cands) /\ OnePerSymbol(c.cands)
    /\ \A d \in c.cands : CandidateInv(d, c, committed)

(* The analysis of that symbol is none, or the last row of the cycle. *)
AnalysisOf(c, answer, committed, id) ==
    \/ answer = None /\ id = None
    \/ /\ answer \in Answers \ {None} /\ c.rows # <<>>
       /\ id = Len(committed) + Len(c.rows)
       /\ c.rows[Len(c.rows)].sym = Head(c.queue)

LEMMA DecidedKeeps ==
    ASSUME NEW committed \in Seq(Rows), NEW c, Deciding(c, committed),
           NEW sig \in Signals[Head(c.queue)],
           NEW answer, NEW id, AnalysisOf(c, answer, committed, id)
    PROVE  /\ CycleInv(Decided(c, sig, answer, id), committed)
           /\ Decided(c, sig, answer, id).rows = c.rows
           /\ Decided(c, sig, answer, id).at = c.at
<1> DEFINE e == Decided(c, sig, answer, id)
           x == Candidate(c, sig, answer, id)
           h == Head(c.queue)
<1>0. /\ c \in Cycles /\ c.queue # <<>> /\ IsSuffix(c.queue, Universe)
      /\ c.found = {d.sym : d \in c.cands} \cup {h}
      /\ IsFiniteSet(c.cands) /\ OnePerSymbol(c.cands)
      /\ \A d \in c.cands : CandidateInv(d, c, committed)
      /\ answer \in Answers
      /\ \/ answer = None /\ id = None
         \/ /\ answer # None /\ c.rows # <<>>
            /\ id = Len(committed) + Len(c.rows) /\ c.rows[Len(c.rows)].sym = h
  BY DEF Deciding, AnalysisOf, Answers
<1>1. c.queue \in Seq(Symbols) /\ c.rows \in Seq(Rows) /\ c.cands \subseteq Candidates
  BY <1>0 DEF Cycles
<1>2. Universe \in Seq(Symbols)
  BY AdviceAssumption, SeqOfRange DEF Symbols
<1>3. /\ Tail(c.queue) \in Seq(Symbols) /\ IsSuffix(Tail(c.queue), Universe)
      /\ h \in Symbols
  BY <1>0, <1>1, <1>2, TailIsSuffix
<1>4. /\ h \notin Range(Tail(c.queue)) /\ Range(Tail(c.queue)) \subseteq Range(c.queue)
      /\ h \in Range(c.queue)
  BY <1>0, <1>1, HeadLeaves
<1>5. Len(committed) \in Nat /\ Len(c.rows) \in Nat /\ (c.rows # <<>> => Len(c.rows) > 0)
  BY <1>0, <1>1, LenProperties, EmptySeq
<1>6. id \in Nat \cup {None}
  BY <1>0, <1>5
<1> DEFINE output == IF answer = None THEN None ELSE answer.output
<1>7. output \in Outputs \cup {None} /\ (output = None <=> id = None)
  BY <1>0, <1>5, AnswerType, NoneAssumption
<1>8. sig \in SignalRows /\ Merged(sig, output) \in Actions
  BY <1>0, <1>3, <1>7, SignalType, MergedType
<1>9. /\ x.sym = h /\ x.sig = sig /\ x.output = output /\ x.analysis = id
      /\ x.action = Merged(sig, output)
  BY DEF Candidate
<1>10. x \in Candidates
  <2> HIDE DEF h, output
  <2>1. x = [sym |-> h, sig |-> sig, output |-> output, action |-> Merged(sig, output),
             analysis |-> id]
    BY DEF Candidate, h, output
  <2> HIDE DEF x
  <2> QED
    BY <2>1, <1>3, <1>6, <1>7, <1>8 DEF Candidates
<1>11. /\ e.cmd = "recommend" /\ e.pc = "screen" /\ e.at = c.at
       /\ e.queue = Tail(c.queue) /\ e.sig = None /\ e.answer = None
       /\ e.rows = c.rows /\ e.found = c.found /\ e.cands = c.cands \cup {x}
       /\ e \in Cycles
  BY <1>0, <1>3, <1>10, DecidedFields
<1> HIDE DEF e
<1>12. ASSUME NEW d \in c.cands PROVE d.sym # h /\ CandidateInv(d, e, committed)
  <2>1. CandidateInv(d, c, committed)
    BY <1>0
  <2> QED
    BY <2>1, <1>4, <1>11 DEF CandidateInv
<1>13. CandidateInv(x, e, committed)
  <2>1. id # None => /\ id \in (Len(committed) + 1)..(Len(committed) + Len(e.rows))
                     /\ e.rows[id - Len(committed)].sym = h
    <3>1. CASE id = None
      BY <3>1
    <3>2. CASE id = Len(committed) + Len(c.rows) /\ c.rows # <<>>
                 /\ c.rows[Len(c.rows)].sym = h
      <4>1. id - Len(committed) = Len(c.rows)
        BY <3>2, <1>5
      <4> QED
        BY <3>2, <4>1, <1>5, <1>11
    <3> QED
      BY <1>0, <3>1, <3>2
  <2> HIDE DEF x, h, output
  <2> QED
    BY <2>1, <1>4, <1>7, <1>9, <1>11 DEF CandidateInv, h
<1>14. IsFiniteSet(e.cands) /\ OnePerSymbol(e.cands)
  <2> HIDE DEF x, h
  <2>1. IsFiniteSet(c.cands \cup {x})
    BY <1>0, FS_AddElement
  <2> QED
    BY <2>1, <1>0, <1>9, <1>11, <1>12 DEF OnePerSymbol
<1>15. {d.sym : d \in e.cands} = {d.sym : d \in c.cands} \cup {h}
  <2> HIDE DEF x, h
  <2> QED
    BY <1>9, <1>11
<1>16. CycleInv(e, committed)
  <2>1. \A d \in e.cands : CandidateInv(d, e, committed)
    BY <1>11, <1>12, <1>13
  <2>2. e.found = {d.sym : d \in e.cands} \cup Pending(e)
    BY <1>0, <1>11, <1>15 DEF Pending
  <2>3. e.cands # {}
    BY <1>11
  <2> QED
    BY <2>1, <2>2, <2>3, <1>3, <1>11, <1>14 DEF CycleInv
<1> QED
  BY <1>11, <1>16 DEF e

-----------------------------------------------------------------------------
(* What a command is in the midst of is told by its cmd. *)
LEMMA Kinds ==
    ASSUME NEW p \in Procs, CommandInv(p)
    PROVE  /\ proc[p].cmd \in {"none", "analyze", "recommend", "news"}
           /\ proc[p].cmd = "none" => proc[p] = Idle /\ writer # p
           /\ proc[p].cmd = "analyze" =>
                proc[p] \in Analyses /\ writer # p /\ (proc[p].pc = "record" <=> proc[p].answer # None)
           /\ proc[p].cmd = "recommend" =>
                CycleInv(proc[p], analyses) /\ (proc[p].rows = <<>> <=> writer # p)
           /\ proc[p].cmd = "news" =>
                SyncInv(proc[p], news) /\ (proc[p].rows = {} <=> writer # p)
<1>1. proc[p] = Idle => proc[p].cmd = "none"
  BY DEF Idle
<1>2. proc[p] \in Analyses => proc[p].cmd = "analyze"
  BY DEF Analyses
<1>3. CycleInv(proc[p], analyses) => proc[p].cmd = "recommend"
  BY DEF CycleInv, Cycles
<1>4. SyncInv(proc[p], news) => proc[p].cmd = "news"
  BY DEF SyncInv, Syncs
<1> QED
  BY <1>1, <1>2, <1>3, <1>4 DEF CommandInv

(***************************************************************************)
(* Whoever holds the write lock sees the tables stay as they are; whoever  *)
(* does not has nothing in them that a commit could disturb.               *)
(***************************************************************************)
LEMMA OthersKeep ==
    ASSUME IInv, NEW q \in Procs, proc'[q] = proc[q],
           writer' = q <=> writer = q,
           writer = q => news' = news /\ analyses' = analyses,
           news \subseteq news', OnePerUrl(news')
    PROVE  CommandInv(q)'
<1> DEFINE c == proc[q]
<1>1. CommandInv(q)
  BY DEF IInv
<1>2. CASE c.cmd = "none"
  BY <1>1, <1>2, Kinds DEF CommandInv
<1>3. CASE c.cmd = "analyze"
  BY <1>1, <1>3, Kinds DEF CommandInv
<1>4. CASE c.cmd = "recommend"
  <2>1. CycleInv(c, analyses) /\ (c.rows = <<>> <=> writer # q)
    BY <1>1, <1>4, Kinds
  <2>2. CycleInv(c, analyses')
    <3>1. CASE writer = q
      BY <2>1, <3>1
    <3>2. CASE writer # q
      <4>1. c.rows = <<>> /\ Len(c.rows) = 0 /\ Len(analyses) \in Nat
        BY <2>1, <3>2, EmptySeq, LenProperties DEF IInv, TablesInv
      <4>2. ASSUME NEW d \in c.cands PROVE CandidateInv(d, c, analyses')
        <5>1. CandidateInv(d, c, analyses)
          BY <2>1 DEF CycleInv
        <5>2. d.analysis = None
          BY <5>1, <4>1 DEF CandidateInv
        <5> QED
          BY <5>1, <5>2 DEF CandidateInv
      <4> QED
        BY <2>1, <4>2 DEF CycleInv
    <3> QED
      BY <3>1, <3>2
  <2> QED
    BY <2>1, <2>2 DEF CommandInv
<1>5. CASE c.cmd = "news"
  <2>1. SyncInv(c, news) /\ (c.rows = {} <=> writer # q)
    BY <1>1, <1>5, Kinds
  <2>2. SyncInv(c, news')
    <3>1. CASE writer = q
      BY <2>1, <3>1
    <3>2. CASE writer # q
      <4>1. c.rows = {} /\ news' \cup c.rows = news'
        BY <2>1, <3>2
      <4>2. Urls(news \cup c.rows) \subseteq Urls(news' \cup c.rows)
        BY DEF Urls
      <4>3. \A i \in DOMAIN c.results :
               c.results[i].fetched \subseteq Urls(news' \cup c.rows) \cup c.todo
        BY <2>1, <4>2 DEF SyncInv
      <4>4. OnePerUrl(news' \cup c.rows)
        BY <4>1
      <4> HIDE DEF c
      <4> QED
        BY <2>1, <4>3, <4>4 DEF SyncInv
    <3> QED
      BY <3>1, <3>2
  <2> QED
    BY <2>1, <2>2 DEF CommandInv
<1> QED
  BY <1>1, <1>2, <1>3, <1>4, <1>5, Kinds

(***************************************************************************)
(* A step of one command that leaves the tables as they are.               *)
(***************************************************************************)
LEMMA Quiet ==
    ASSUME IInv, NEW p \in Procs, NEW e, proc' = [proc EXCEPT ![p] = e],
           UNCHANGED <<day, tables>>,
           commands' \in {commands, commands + 1},
           writer' \in Procs \cup {None},
           \A q \in Procs \ {p} : writer' = q <=> writer = q,
           CommandInv(p)',
           e.cmd = "recommend" => \/ proc[p].cmd = "recommend" /\ e.at = proc[p].at
                                  \/ e.at = commands /\ commands' = commands + 1
    PROVE  IInv'
<1>1. /\ TablesInv /\ StampsInv
      /\ DOMAIN proc = Procs /\ commands \in Nat /\ commands' \in Nat /\ commands <= commands'
  BY DEF IInv, TablesInv
<1>2. /\ proc'[p] = e /\ \A q \in Procs \ {p} : proc'[q] = proc[q]
      /\ DOMAIN proc' = Procs
  BY <1>1
<1>3. day' = day /\ analyses' = analyses /\ recs' = recs /\ news' = news
  BY DEF tables
<1>4. TablesInv'
  BY <1>1, <1>2, <1>3 DEF TablesInv
<1>5. ASSUME NEW q \in Procs PROVE CommandInv(q)'
  <2>1. CASE q = p
    BY <2>1
  <2>2. CASE q # p
    BY <2>2, <1>1, <1>2, <1>3, OthersKeep DEF TablesInv
  <2> QED
    BY <2>1, <2>2
<1>6. StampsInv'
  <2>1. \A r \in recs : r.at \in Nat /\ r.at < commands
    BY <1>1 DEF StampsInv, TablesInv, RecsInv, Recs
  <2>2. \A q \in Procs : proc[q].cmd = "recommend" => proc[q].at < commands /\ proc[q].at \in Nat
    <3> TAKE q \in Procs
    <3> SUFFICES ASSUME proc[q].cmd = "recommend" PROVE proc[q].at < commands /\ proc[q].at \in Nat
      OBVIOUS
    <3>1. CycleInv(proc[q], analyses)
      BY Kinds DEF IInv
    <3> QED
      BY <3>1, <1>1 DEF StampsInv, CycleInv, Cycles
  <2>3. e.cmd = "recommend" =>
           /\ e.at < commands' /\ e.at \in Nat
           /\ \A r \in recs : r.at # e.at
           /\ \A q \in Procs \ {p} : proc[q].cmd = "recommend" => proc[q].at # e.at
    BY <1>1, <2>1, <2>2 DEF StampsInv
  <2>4. \A q \in Procs : proc'[q].cmd = "recommend" =>
           proc'[q].at < commands' /\ \A r \in recs' : r.at # proc'[q].at
    <3> TAKE q \in Procs
    <3>1. CASE q = p
      BY <3>1, <1>2, <1>3, <2>3
    <3>2. CASE q # p
      BY <3>2, <1>1, <1>2, <1>3, <2>2 DEF StampsInv
    <3> QED
      BY <3>1, <3>2
  <2>5. \A q, s \in Procs : proc'[q].cmd = "recommend" /\ proc'[s].cmd = "recommend"
                              /\ proc'[q].at = proc'[s].at => q = s
    <3> TAKE q, s \in Procs
    <3>1. CASE q = p \/ s = p
      BY <3>1, <1>2, <2>3
    <3>2. CASE q # p /\ s # p
      BY <3>2, <1>1, <1>2 DEF StampsInv
    <3> QED
      BY <3>1, <3>2
  <2>6. \A r \in recs' : r.at < commands'
    BY <1>1, <1>3, <2>1
  <2>7. \A r, s \in recs' : r.at = s.at
    BY <1>1, <1>3 DEF StampsInv
  <2> QED
    BY <2>4, <2>5, <2>6, <2>7 DEF StampsInv
<1> QED
  BY <1>4, <1>5, <1>6 DEF IInv

-----------------------------------------------------------------------------
(* What the invariant says of the command that takes a step. *)
LEMMA Facts ==
    ASSUME IInv, NEW p \in Procs
    PROVE  /\ CommandInv(p) /\ DOMAIN proc = Procs /\ commands \in Nat /\ day \in Nat
           /\ writer \in Procs \cup {None} /\ None \notin Procs
           /\ analyses \in Seq(Rows) /\ news \subseteq NewsRows
           /\ Universe \in Seq(Symbols) /\ Sources \in Seq(DOMAIN Items)
  BY AdviceAssumption, NoneAssumption, SeqOfRange DEF IInv, TablesInv, Symbols

(* A session that ends without a commit leaves nothing behind. *)
LEMMA EndKeeps ==
    ASSUME IInv, NEW p \in Procs, End(p), UNCHANGED <<day, tables, commands>>
    PROVE  IInv'
<1>1. proc' = [proc EXCEPT ![p] = Idle] /\ writer' = IF writer = p THEN None ELSE writer
  BY DEF End
<1>2. proc'[p] = Idle /\ writer' # p
  BY <1>1, Facts
<1>3. CommandInv(p)'
  BY <1>2 DEF CommandInv
<1>4. Idle.cmd # "recommend"
  BY DEF Idle
<1>5. writer' \in Procs \cup {None} /\ \A q \in Procs \ {p} : writer' = q <=> writer = q
  BY <1>1, Facts
<1> QED
  BY <1>1, <1>3, <1>4, <1>5, Facts, Quiet

LEMMA AnalyzeKeeps ==
    ASSUME IInv, NEW p \in Procs, NEW sym \in Range(Universe), Analyze(p, sym)
    PROVE  IInv'
<1> DEFINE e == [cmd |-> "analyze", pc |-> "call", sym |-> sym, answer |-> None]
<1>1. /\ proc[p] = Idle /\ commands' = commands + 1 /\ writer' = writer
      /\ proc' = [proc EXCEPT ![p] = e] /\ UNCHANGED <<day, tables>>
  BY DEF Analyze, Started
<1>2. writer # p
  BY <1>1, Facts, Kinds DEF Idle
<1>3. e \in Analyses /\ e.cmd = "analyze" /\ e.pc = "call" /\ e.answer = None
  BY DEF Analyses, Answers, Symbols
<1>4. proc'[p] = e
  BY <1>1, Facts
<1> HIDE DEF e
<1>5. CommandInv(p)'
  BY <1>1, <1>2, <1>3, <1>4 DEF CommandInv
<1> QED
  BY <1>1, <1>3, <1>5, Facts, Quiet

LEMMA RecommendKeeps ==
    ASSUME IInv, NEW p \in Procs, NEW ai \in BOOLEAN, Recommend(p, ai)
    PROVE  IInv'
<1> DEFINE e == [cmd |-> "recommend", pc |-> "screen", at |-> Stamp, now |-> day, ai |-> ai,
                 queue |-> Universe, sig |-> None, answer |-> None, rows |-> <<>>,
                 cands |-> {}, found |-> {}]
<1>1. /\ proc[p] = Idle /\ commands' = commands + 1 /\ writer' = writer
      /\ proc' = [proc EXCEPT ![p] = e] /\ UNCHANGED <<day, tables>>
  BY DEF Recommend, Started
<1>2. writer # p
  BY <1>1, Facts, Kinds DEF Idle
<1>3. /\ e.cmd = "recommend" /\ e.pc = "screen" /\ e.at = commands /\ e.queue = Universe
      /\ e.answer = None /\ e.rows = <<>> /\ e.cands = {} /\ e.found = {}
  BY DEF Stamp
<1>4. e \in Cycles
  <2>1. <<>> \in Seq(Rows) /\ Stamp \in Nat /\ day \in Nat /\ Universe \in Seq(Symbols)
    BY Facts, EmptySeq DEF Stamp
  <2> QED
    BY <2>1 DEF Cycles, Answers
<1>5. proc'[p] = e
  BY <1>1, Facts
<1> HIDE DEF e
<1>6. CycleInv(e, analyses)
  <2>1. IsSuffix(Universe, Universe)
    BY Facts, WholeIsSuffix
  <2> QED
    BY <2>1, <1>3, <1>4, FS_EmptySet DEF CycleInv, OnePerSymbol, Pending
<1>7. CommandInv(p)'
  BY <1>1, <1>2, <1>3, <1>5, <1>6 DEF CommandInv, tables
<1> QED
  BY <1>1, <1>3, <1>7, Facts, Quiet

LEMMA NewsSyncKeeps ==
    ASSUME IInv, NEW p \in Procs, NewsSync(p)
    PROVE  IInv'
<1> DEFINE e == [cmd |-> "news", pc |-> "fetch", queue |-> Sources,
                 todo |-> {}, rows |-> {}, results |-> <<>>]
<1>1. /\ proc[p] = Idle /\ commands' = commands + 1 /\ writer' = writer
      /\ proc' = [proc EXCEPT ![p] = e] /\ UNCHANGED <<day, tables>>
  BY DEF NewsSync, Started
<1>2. writer # p
  BY <1>1, Facts, Kinds DEF Idle
<1>3. /\ e.cmd = "news" /\ e.pc = "fetch" /\ e.queue = Sources
      /\ e.todo = {} /\ e.rows = {} /\ e.results = <<>>
  OBVIOUS
<1>4. e \in Syncs
  <2>1. <<>> \in Seq([fetched : SUBSET URLs, error : BOOLEAN])
    BY EmptySeq
  <2> QED
    BY <2>1, Facts DEF Syncs
<1>5. proc'[p] = e
  BY <1>1, Facts
<1> HIDE DEF e
<1>6. SyncInv(e, news)
  <2>1. IsSuffix(Sources, Sources) /\ Len(Sources) \in Nat
    BY Facts, WholeIsSuffix, LenProperties
  <2>2. OnePerUrl(news \cup e.rows)
    BY <1>3 DEF IInv, TablesInv, OnePerUrl
  <2>3. Len(e.results) = 0 /\ DOMAIN e.results = {}
    BY <1>3, EmptySeq
  <2> QED
    BY <2>1, <2>2, <2>3, <1>3, <1>4 DEF SyncInv, Counted
<1>7. CommandInv(p)'
  BY <1>1, <1>2, <1>3, <1>5, <1>6 DEF CommandInv, tables
<1> QED
  BY <1>1, <1>3, <1>7, Facts, Quiet

-----------------------------------------------------------------------------
(* The cycle of a command that is in one. *)
LEMMA OfCycle ==
    ASSUME IInv, NEW p \in Procs, proc[p].cmd = "recommend"
    PROVE  LET c == proc[p]
           IN  /\ CycleInv(c, analyses) /\ (c.rows = <<>> <=> writer # p)
               /\ c \in Cycles /\ c.queue \in Seq(Symbols) /\ c.rows \in Seq(Rows)
               /\ c.cands \subseteq Candidates /\ c.answer \in Answers
  BY Facts, Kinds DEF CycleInv, Cycles

(* A step of a cycle that gives another cycle with the same stamp. *)
LEMMA CycleGoesOn ==
    ASSUME IInv, NEW p \in Procs, proc[p].cmd = "recommend", NEW e,
           proc' = [proc EXCEPT ![p] = e], UNCHANGED <<day, tables, commands>>,
           e.at = proc[p].at, CycleInv(e, analyses),
           \/ writer' = writer /\ e.rows = proc[p].rows
           \/ writer' = p /\ writer \in {None, p} /\ e.rows # <<>>
    PROVE  IInv'
<1>1. proc'[p] = e /\ analyses' = analyses
  BY Facts DEF tables
<1>2. e.rows = <<>> <=> writer' # p
  BY OfCycle
<1>3. CommandInv(p)'
  BY <1>1, <1>2 DEF CommandInv
<1>4. writer' \in Procs \cup {None} /\ \A q \in Procs \ {p} : writer' = q <=> writer = q
  BY Facts
<1> QED
  BY <1>3, <1>4, Facts, Quiet

LEMMA ScreenNothingKeeps ==
    ASSUME IInv, NEW p \in Procs, ScreenNothing(p)
    PROVE  IInv'
<1> DEFINE c == proc[p]
           q == Tail(c.queue)
           e == [c EXCEPT !.queue = q]
<1>1. /\ c.cmd = "recommend" /\ c.pc = "screen" /\ c.queue # <<>> /\ writer' = writer
      /\ proc' = [proc EXCEPT ![p] = e] /\ UNCHANGED <<day, tables, commands>>
  BY Facts DEF ScreenNothing
<1>2. CycleInv(c, analyses) /\ c \in Cycles /\ c.queue \in Seq(Symbols)
  BY <1>1, OfCycle
<1>3. q \in Seq(Symbols) /\ IsSuffix(q, Universe)
  BY <1>1, <1>2, Facts, TailIsSuffix DEF CycleInv
<1>4. Range(q) \subseteq Range(c.queue)
  BY <1>1, <1>2, HeadLeaves DEF CycleInv
<1> HIDE DEF q
<1>5. /\ e.pc = "screen" /\ e.queue = q /\ e.at = c.at /\ e.answer = c.answer
      /\ e.rows = c.rows /\ e.cands = c.cands /\ e.found = c.found
      /\ e \in Cycles
  BY <1>1, <1>2, <1>3 DEF Cycles
<1> HIDE DEF e
<1>6. \A d \in e.cands : CandidateInv(d, e, analyses)
  BY <1>2, <1>4, <1>5 DEF CycleInv, CandidateInv
<1>7. CycleInv(e, analyses)
  BY <1>1, <1>2, <1>3, <1>5, <1>6 DEF CycleInv, Pending
<1> QED
  BY <1>1, <1>5, <1>7, CycleGoesOn

LEMMA ScreenSignalKeeps ==
    ASSUME IInv, NEW p \in Procs, NEW sig, ScreenSignal(p, sig)
    PROVE  IInv'
<1> DEFINE c == proc[p]
           h == Head(c.queue)
           f == [c EXCEPT !.found = @ \cup {h}]
           asked == [f EXCEPT !.pc = "call", !.sig = sig]
           alone == Decided(f, sig, None, None)
           e == IF c.ai /\ WithinBudget(analyses \o c.rows, c.now) THEN asked ELSE alone
<1>1. /\ c.cmd = "recommend" /\ c.pc = "screen" /\ c.queue # <<>> /\ writer' = writer
      /\ sig \in Signals[h]
      /\ proc' = [proc EXCEPT ![p] = e] /\ UNCHANGED <<day, tables, commands>>
  BY DEF ScreenSignal
<1>2. /\ CycleInv(c, analyses) /\ c \in Cycles /\ c.queue \in Seq(Symbols)
      /\ c.answer = None
  BY <1>1, OfCycle DEF CycleInv
<1>3. h \in Symbols
  BY <1>1, <1>2, HeadTailProperties
<1>4. sig \in SignalRows
  BY <1>1, <1>3, SignalType
<1>5. /\ f \in Cycles /\ f.at = c.at /\ f.queue = c.queue /\ f.rows = c.rows
      /\ f.cands = c.cands /\ f.found = c.found \cup {h} /\ f.answer = c.answer
  BY <1>2, <1>3 DEF Cycles
<1>6. f.found = {d.sym : d \in f.cands} \cup {h}
  BY <1>1, <1>2, <1>5 DEF CycleInv, Pending
<1>7. \A d \in f.cands : CandidateInv(d, f, analyses)
  BY <1>2, <1>5 DEF CycleInv, CandidateInv
<1> HIDE DEF f
<1>8. CycleInv(asked, analyses) /\ asked.at = c.at /\ asked.rows = c.rows
  <2>1. /\ asked \in Cycles /\ asked.pc = "call" /\ asked.sig = sig /\ asked.at = f.at
        /\ asked.queue = f.queue /\ asked.rows = f.rows /\ asked.cands = f.cands
        /\ asked.found = f.found /\ asked.answer = f.answer
    BY <1>4, <1>5 DEF Cycles
  <2> HIDE DEF asked
  <2>2. \A d \in asked.cands : CandidateInv(d, asked, analyses)
    BY <1>7, <2>1 DEF CandidateInv
  <2> QED
    BY <1>1, <1>2, <1>5, <1>6, <2>1, <2>2 DEF CycleInv, Pending
<1>9. CycleInv(alone, analyses) /\ alone.at = c.at /\ alone.rows = c.rows
  <2>1. Deciding(f, analyses)
    BY <1>1, <1>2, <1>5, <1>6, <1>7 DEF CycleInv, Deciding
  <2>2. AnalysisOf(f, None, analyses, None)
    BY DEF AnalysisOf
  <2>3. sig \in Signals[Head(f.queue)] /\ analyses \in Seq(Rows)
    BY <1>1, <1>5, Facts
  <2> QED
    BY <1>5, <2>1, <2>2, <2>3, DecidedKeeps
<1> HIDE DEF asked, alone
<1> QED
  BY <1>1, <1>8, <1>9, CycleGoesOn

LEMMA CallAnswersKeeps ==
    ASSUME IInv, NEW p \in Procs, NEW output \in Outputs, NEW cost \in Costs,
           CallAnswers(p, output, cost)
    PROVE  IInv'
<1> DEFINE c == proc[p]
           a == [output |-> output, cost |-> cost]
           e == [c EXCEPT !.pc = "record", !.answer = a]
<1>1. a \in Answers /\ a # None
  BY NoneAssumption DEF Answers
<1>2. /\ c.cmd \in {"analyze", "recommend"} /\ c.pc = "call" /\ writer' = writer
      /\ UNCHANGED <<day, tables, commands>>
      /\ proc' = [proc EXCEPT ![p].pc = "record", ![p].answer = a]
  BY DEF CallAnswers, Calling
<1> HIDE DEF a
<1>3. proc' = [proc EXCEPT ![p] = e]
  BY <1>2, Facts
<1>4. CASE c.cmd = "analyze"
  <2>1. c \in Analyses /\ writer # p
    BY <1>4, Facts, Kinds
  <2>2. e \in Analyses /\ e.pc = "record" /\ e.answer = a /\ e.cmd = "analyze"
    BY <1>1, <2>1 DEF Analyses
  <2>3. proc'[p] = e
    BY <1>3, Facts
  <2> HIDE DEF e
  <2>4. CommandInv(p)'
    BY <1>1, <1>2, <2>1, <2>2, <2>3 DEF CommandInv
  <2> QED
    BY <1>2, <1>3, <2>2, <2>4, Facts, Quiet
<1>5. CASE c.cmd = "recommend"
  <2>1. CycleInv(c, analyses) /\ c \in Cycles
    BY <1>5, OfCycle
  <2>2. /\ e \in Cycles /\ e.pc = "record" /\ e.answer = a /\ e.sig = c.sig /\ e.at = c.at
        /\ e.queue = c.queue /\ e.rows = c.rows /\ e.cands = c.cands /\ e.found = c.found
    BY <1>1, <2>1 DEF Cycles
  <2> HIDE DEF e
  <2>3. \A d \in e.cands : CandidateInv(d, e, analyses)
    BY <2>1, <2>2 DEF CycleInv, CandidateInv
  <2>4. CycleInv(e, analyses)
    BY <1>1, <1>2, <2>1, <2>2, <2>3 DEF CycleInv, Pending
  <2> QED
    BY <1>2, <1>3, <1>5, <2>2, <2>4, CycleGoesOn
<1> QED
  BY <1>2, <1>4, <1>5

LEMMA CallFailsKeeps ==
    ASSUME IInv, NEW p \in Procs, CallFails(p)
    PROVE  IInv'
<1> DEFINE c == proc[p]
           e == Decided(c, c.sig, None, None)
<1>1. /\ c.cmd \in {"analyze", "recommend"} /\ c.pc = "call" /\ writer' = writer
      /\ UNCHANGED <<day, tables, commands>>
      /\ proc' = [proc EXCEPT ![p] = IF c.cmd = "analyze" THEN Idle ELSE e]
  BY DEF CallFails, Calling, Unavailable
<1>2. CASE c.cmd = "analyze"
  <2>1. writer # p
    BY <1>2, Facts, Kinds
  <2>2. End(p)
    BY <1>1, <1>2, <2>1 DEF End
  <2> QED
    BY <1>1, <2>2, EndKeeps
<1>3. CASE c.cmd = "recommend"
  <2>1. CycleInv(c, analyses) /\ analyses \in Seq(Rows)
    BY <1>3, OfCycle, Facts
  <2>2. Deciding(c, analyses) /\ c.sig \in Signals[Head(c.queue)]
    <3>1. c.pc = "call" /\ CycleInv(c, analyses)
      BY <1>1, <2>1
    <3> HIDE DEF c
    <3> QED
      BY <3>1 DEF CycleInv, Pending, Deciding
  <2>3. AnalysisOf(c, None, analyses, None)
    BY DEF AnalysisOf
  <2>4. proc' = [proc EXCEPT ![p] = e]
    BY <1>1, <1>3
  <2>5. CycleInv(e, analyses) /\ e.rows = c.rows /\ e.at = c.at
    <3> DEFINE sig == c.sig
    <3>1. sig \in Signals[Head(c.queue)]
      BY <2>2
    <3> HIDE DEF c, sig
    <3>2. /\ CycleInv(Decided(c, sig, None, None), analyses)
          /\ Decided(c, sig, None, None).rows = c.rows
          /\ Decided(c, sig, None, None).at = c.at
      BY <2>1, <2>2, <2>3, <3>1, DecidedKeeps
    <3> QED
      BY <3>2 DEF sig
  <2> HIDE DEF e
  <2> QED
    BY <1>1, <1>3, <2>4, <2>5, CycleGoesOn
<1> QED
  BY <1>1, <1>2, <1>3

LEMMA RecordInCycleKeeps ==
    ASSUME IInv, NEW p \in Procs, RecordInCycle(p)
    PROVE  IInv'
<1> DEFINE c == proc[p]
           h == Head(c.queue)
           row == Row(h, c.answer)
           rows == Append(c.rows, row)
           f == [c EXCEPT !.rows = rows]
           id == Len(analyses) + Len(rows)
           e == Decided(f, c.sig, c.answer, id)
<1>1. /\ c.cmd = "recommend" /\ c.pc = "record" /\ writer' = p /\ writer \in {None, p}
      /\ UNCHANGED <<day, tables, commands>>
      /\ proc' = [proc EXCEPT ![p] = e]
  BY DEF RecordInCycle, MayWrite
<1>2. /\ CycleInv(c, analyses) /\ c \in Cycles /\ analyses \in Seq(Rows)
      /\ c.queue \in Seq(Symbols) /\ c.rows \in Seq(Rows) /\ c.answer \in Answers
  BY <1>1, OfCycle, Facts
<1>3. /\ IsSuffix(c.queue, Universe) /\ c.queue # <<>> /\ IsFiniteSet(c.cands)
      /\ OnePerSymbol(c.cands) /\ c.sig \in Signals[Head(c.queue)]
      /\ c.found = {d.sym : d \in c.cands} \cup {Head(c.queue)}
      /\ \A d \in c.cands : CandidateInv(d, c, analyses)
      /\ c.answer # None
  BY <1>1, <1>2 DEF CycleInv, Pending
<1>4. h \in Symbols
  BY <1>2, <1>3, HeadTailProperties
<1>5. row \in Rows /\ row.sym = h
  BY <1>2, <1>3, <1>4, AnswerType DEF Row, Rows, IInv, TablesInv
<1> HIDE DEF row
<1>6. /\ rows \in Seq(Rows) /\ rows # <<>> /\ Len(rows) = Len(c.rows) + 1
      /\ Len(c.rows) \in Nat
      /\ \A i \in 1..Len(c.rows) : rows[i] = c.rows[i]
      /\ rows[Len(rows)] = row
  BY <1>2, <1>5, AppendProperties, LenProperties
<1> HIDE DEF rows
<1>7. /\ f \in Cycles /\ f.at = c.at /\ f.queue = c.queue /\ f.rows = rows
      /\ f.cands = c.cands /\ f.found = c.found
  BY <1>2, <1>6 DEF Cycles
<1> HIDE DEF f
<1>8. ASSUME NEW d \in f.cands PROVE CandidateInv(d, f, analyses)
  <2>1. CandidateInv(d, c, analyses)
    BY <1>3, <1>7
  <2>2. Len(analyses) \in Nat
    BY <1>2, LenProperties
  <2>3. d.analysis # None =>
           /\ d.analysis \in (Len(analyses) + 1)..(Len(analyses) + Len(rows))
           /\ rows[d.analysis - Len(analyses)].sym = d.sym
    <3> SUFFICES ASSUME d.analysis # None
                 PROVE  /\ d.analysis \in (Len(analyses) + 1)..(Len(analyses) + Len(rows))
                        /\ rows[d.analysis - Len(analyses)].sym = d.sym
      OBVIOUS
    <3>1. /\ d.analysis \in (Len(analyses) + 1)..(Len(analyses) + Len(c.rows))
          /\ c.rows[d.analysis - Len(analyses)].sym = d.sym
      BY <2>1 DEF CandidateInv
    <3>2. d.analysis - Len(analyses) \in 1..Len(c.rows)
      BY <3>1, <2>2, <1>6
    <3> DEFINE m == Len(analyses)
               n == Len(c.rows)
               a == d.analysis
    <3>3. a \in (m + 1)..(m + n) /\ m \in Nat /\ n \in Nat /\ Len(rows) = n + 1
      BY <3>1, <2>2, <1>6
    <3>4. rows[a - m].sym = d.sym
      BY <3>1, <3>2, <1>6
    <3> HIDE DEF m, n, a
    <3>5. a \in (m + 1)..(m + (n + 1))
      BY <3>3
    <3> QED
      BY <3>3, <3>4, <3>5 DEF m, a
  <2> QED
    BY <2>1, <2>3, <1>7 DEF CandidateInv
<1>9. CycleInv(e, analyses) /\ e.rows = f.rows /\ e.at = f.at
  <2>1. Deciding(f, analyses)
    BY <1>3, <1>7, <1>8 DEF Deciding
  <2>2. AnalysisOf(f, c.answer, analyses, id)
    BY <1>2, <1>3, <1>5, <1>6, <1>7 DEF AnalysisOf
  <2>3. c.sig \in Signals[Head(f.queue)]
    BY <1>3, <1>7
  <2> HIDE DEF id
  <2> QED
    BY <1>2, <2>1, <2>2, <2>3, DecidedKeeps
<1> HIDE DEF e
<1> QED
  BY <1>1, <1>6, <1>7, <1>9, CycleGoesOn

-----------------------------------------------------------------------------
Results == [fetched : SUBSET URLs, error : BOOLEAN]

(* The sync of a command that is in one. *)
LEMMA OfSync ==
    ASSUME IInv, NEW p \in Procs, proc[p].cmd = "news"
    PROVE  LET c == proc[p]
           IN  /\ SyncInv(c, news) /\ (c.rows = {} <=> writer # p)
               /\ c \in Syncs /\ c.queue \in Seq(DOMAIN Items) /\ c.rows \subseteq NewsRows
               /\ c.todo \subseteq URLs /\ c.results \in Seq(Results)
  BY Facts, Kinds DEF SyncInv, Syncs, Results

(* A step of a sync that gives another sync. *)
LEMMA SyncGoesOn ==
    ASSUME IInv, NEW p \in Procs, proc[p].cmd = "news", NEW e,
           proc' = [proc EXCEPT ![p] = e], UNCHANGED <<day, tables, commands>>,
           SyncInv(e, news),
           \/ writer' = writer /\ e.rows = proc[p].rows
           \/ writer' = p /\ writer \in {None, p} /\ e.rows # {}
    PROVE  IInv'
<1>1. proc'[p] = e /\ news' = news
  BY Facts DEF tables
<1>2. e.rows = {} <=> writer' # p
  BY OfSync
<1>3. CommandInv(p)'
  BY <1>1, <1>2 DEF CommandInv
<1>4. writer' \in Procs \cup {None} /\ \A q \in Procs \ {p} : writer' = q <=> writer = q
  BY Facts
<1>5. e.cmd = "news"
  BY DEF SyncInv, Syncs
<1> QED
  BY <1>3, <1>4, <1>5, Facts, Quiet

(* Every source's result is appended to those before it. *)
LEMMA ResultAdded ==
    ASSUME NEW S, NEW s \in Seq(S), NEW r \in S
    PROVE  /\ Append(s, r) \in Seq(S) /\ Len(Append(s, r)) = Len(s) + 1 /\ Len(s) \in Nat
           /\ \A i \in DOMAIN Append(s, r) :
                 Append(s, r)[i] = r \/ (i \in DOMAIN s /\ Append(s, r)[i] = s[i])
<1>1. /\ Append(s, r) \in Seq(S) /\ Len(Append(s, r)) = Len(s) + 1 /\ Len(s) \in Nat
      /\ \A i \in 1..Len(s) : Append(s, r)[i] = s[i]
      /\ Append(s, r)[Len(s) + 1] = r
  BY AppendProperties, LenProperties
<1>2. DOMAIN Append(s, r) = 1..Len(s) + 1 /\ DOMAIN s = 1..Len(s)
  BY <1>1, LenProperties
<1> QED
  BY <1>1, <1>2

LEMMA FetchKeeps ==
    ASSUME IInv, NEW p \in Procs, NEW urls, Fetch(p, urls)
    PROVE  IInv'
<1> DEFINE c == proc[p]
           r == [fetched |-> urls, error |-> FALSE]
           results == Append(c.results, r)
           e == [c EXCEPT !.pc = "store", !.todo = urls, !.results = results]
<1>1. /\ c.cmd = "news" /\ c.pc = "fetch" /\ c.queue # <<>> /\ writer' = writer
      /\ urls \subseteq Items[Head(c.queue)] /\ UNCHANGED <<day, tables, commands>>
      /\ proc' = [proc EXCEPT ![p].pc = "store", ![p].todo = urls, ![p].results = Append(@, r)]
  BY DEF Fetch, Fetching
<1>2. /\ SyncInv(c, news) /\ c \in Syncs /\ c.queue \in Seq(DOMAIN Items)
      /\ c.results \in Seq(Results)
  BY <1>1, OfSync
<1>3. urls \subseteq URLs
  <2>1. Head(c.queue) \in DOMAIN Items
    BY <1>1, <1>2, HeadTailProperties
  <2> QED
    BY <1>1, <2>1 DEF URLs, Range
<1>4. r \in Results /\ r.fetched = urls
  BY <1>3 DEF Results
<1> HIDE DEF r
<1>5. /\ results \in Seq(Results) /\ Len(results) = Len(c.results) + 1 /\ Len(c.results) \in Nat
      /\ \A i \in DOMAIN results :
            results[i] = r \/ (i \in DOMAIN c.results /\ results[i] = c.results[i])
  <2> DEFINE old == c.results
  <2>1. old \in Seq(Results)
    BY <1>2
  <2> HIDE DEF old
  <2>2. /\ Append(old, r) \in Seq(Results) /\ Len(Append(old, r)) = Len(old) + 1
        /\ Len(old) \in Nat
        /\ \A i \in DOMAIN Append(old, r) :
              Append(old, r)[i] = r \/ (i \in DOMAIN old /\ Append(old, r)[i] = old[i])
    BY <2>1, <1>4, ResultAdded
  <2> QED
    BY <2>2 DEF old
<1>6. proc' = [proc EXCEPT ![p] = e]
  BY <1>1, Facts
<1> HIDE DEF results
<1>7. /\ e \in Syncs /\ e.pc = "store" /\ e.queue = c.queue /\ e.todo = urls
      /\ e.rows = c.rows /\ e.results = results
  BY <1>2, <1>3, <1>5 DEF Syncs, Results
<1>8. SyncInv(e, news)
  <2>1. /\ IsSuffix(c.queue, Sources) /\ OnePerUrl(news \cup c.rows)
        /\ Len(c.results) + Len(c.queue) = Len(Sources)
        /\ \A i \in DOMAIN c.results : c.results[i].fetched \subseteq Urls(news \cup c.rows)
    <3>1. SyncInv(c, news) /\ c.pc = "fetch"
      BY <1>1, <1>2
    <3> HIDE DEF c
    <3>2. c.todo = {} /\ Counted(c)
      BY <3>1 DEF SyncInv
    <3>3. Urls(news \cup c.rows) \cup c.todo = Urls(news \cup c.rows)
      BY <3>2
    <3>4. Len(c.results) + Len(c.queue) = Len(Sources)
      BY <3>1, <3>2 DEF Counted
    <3>5. IsSuffix(c.queue, Sources)
      BY <3>1 DEF SyncInv
    <3>6. OnePerUrl(news \cup c.rows)
      BY <3>1 DEF SyncInv
    <3>7. \A i \in DOMAIN c.results : c.results[i].fetched \subseteq Urls(news \cup c.rows) \cup c.todo
      BY <3>1 DEF SyncInv
    <3>8. \A i \in DOMAIN c.results : c.results[i].fetched \subseteq Urls(news \cup c.rows)
      BY <3>3, <3>7
    <3> QED
      BY <3>2, <3>4, <3>5, <3>6, <3>8
  <2>2. Len(c.queue) \in Nat /\ Len(Sources) \in Nat
    BY <1>2, Facts, LenProperties
  <2>3. \A i \in DOMAIN e.results :
           e.results[i].fetched \subseteq Urls(news \cup e.rows) \cup e.todo
    BY <1>4, <1>5, <1>7, <2>1
  <2>4. c.queue # <<>>
    BY <1>1
  <2> HIDE DEF e, c
  <2>5. Counted(e)
    <3>1. e.pc # "fetch"
      BY <1>7
    <3>2. e.results = results /\ e.queue = c.queue
      BY <1>7
    <3>3. Len(results) = Len(c.results) + 1 /\ Len(c.results) \in Nat
      BY <1>5
    <3>4. Len(c.results) + Len(c.queue) = Len(Sources)
      BY <2>1
    <3>5. Len(results) + Len(c.queue) = Len(Sources) + 1
      <4> DEFINE n == Len(results)
                 o == Len(c.results)
                 m == Len(c.queue)
                 k == Len(Sources)
      <4>1. n = o + 1 /\ o + m = k /\ o \in Nat /\ m \in Nat /\ k \in Nat
        BY <3>3, <3>4, <2>2
      <4> HIDE DEF n, o, m, k
      <4>2. n + m = k + 1
        BY <4>1
      <4> QED
        BY <4>2 DEF n, m, k
    <3>6. Len(e.results) + Len(e.queue) = Len(Sources) + 1
      BY <3>2, <3>5
    <3> QED
      BY <3>1, <3>6 DEF Counted
  <2>6. IsSuffix(e.queue, Sources)
    BY <1>7, <2>1
  <2>7. OnePerUrl(news \cup e.rows)
    BY <1>7, <2>1
  <2>8. e \in Syncs /\ e.pc = "store" /\ e.queue # <<>>
    BY <1>7, <2>4
  <2> QED
    BY <2>3, <2>5, <2>6, <2>7, <2>8 DEF SyncInv
<1> HIDE DEF e
<1> QED
  BY <1>1, <1>6, <1>7, <1>8, SyncGoesOn

LEMMA FetchFailsKeeps ==
    ASSUME IInv, NEW p \in Procs, FetchFails(p)
    PROVE  IInv'
<1> DEFINE c == proc[p]
           r == [fetched |-> {}, error |-> TRUE]
           results == Append(c.results, r)
           q == Tail(c.queue)
           e == [c EXCEPT !.queue = q, !.results = results]
<1>1. /\ c.cmd = "news" /\ c.pc = "fetch" /\ c.queue # <<>> /\ writer' = writer
      /\ UNCHANGED <<day, tables, commands>>
      /\ proc' = [proc EXCEPT ![p].queue = Tail(@), ![p].results = Append(@, r)]
  BY DEF FetchFails, Fetching, AfterFailure
<1>2. /\ SyncInv(c, news) /\ c \in Syncs /\ c.queue \in Seq(DOMAIN Items)
      /\ c.results \in Seq(Results)
  BY <1>1, OfSync
<1>3. q \in Seq(DOMAIN Items) /\ IsSuffix(q, Sources) /\ Len(q) = Len(c.queue) - 1
  BY <1>1, <1>2, Facts, TailIsSuffix DEF SyncInv
<1>4. r \in Results /\ r.fetched = {}
  BY DEF Results
<1> HIDE DEF r
<1>5. /\ results \in Seq(Results) /\ Len(results) = Len(c.results) + 1 /\ Len(c.results) \in Nat
      /\ \A i \in DOMAIN results :
            results[i] = r \/ (i \in DOMAIN c.results /\ results[i] = c.results[i])
  <2> DEFINE old == c.results
  <2>1. old \in Seq(Results)
    BY <1>2
  <2> HIDE DEF old
  <2>2. /\ Append(old, r) \in Seq(Results) /\ Len(Append(old, r)) = Len(old) + 1
        /\ Len(old) \in Nat
        /\ \A i \in DOMAIN Append(old, r) :
              Append(old, r)[i] = r \/ (i \in DOMAIN old /\ Append(old, r)[i] = old[i])
    BY <2>1, <1>4, ResultAdded
  <2> QED
    BY <2>2 DEF old
<1>6. proc' = [proc EXCEPT ![p] = e]
  BY <1>1, Facts
<1> HIDE DEF results, q
<1>7. /\ e \in Syncs /\ e.pc = c.pc /\ e.queue = q /\ e.todo = c.todo
      /\ e.rows = c.rows /\ e.results = results
  BY <1>2, <1>3, <1>5 DEF Syncs, Results
<1>8. SyncInv(e, news)
  <2>1. /\ OnePerUrl(news \cup c.rows) /\ c.todo = {}
        /\ Len(c.results) + Len(c.queue) = Len(Sources)
        /\ \A i \in DOMAIN c.results : c.results[i].fetched \subseteq Urls(news \cup c.rows)
    <3>1. SyncInv(c, news) /\ c.pc = "fetch"
      BY <1>1, <1>2
    <3> HIDE DEF c
    <3>2. c.todo = {} /\ Counted(c)
      BY <3>1 DEF SyncInv
    <3>3. Urls(news \cup c.rows) \cup c.todo = Urls(news \cup c.rows)
      BY <3>2
    <3>4. Len(c.results) + Len(c.queue) = Len(Sources)
      BY <3>1, <3>2 DEF Counted
    <3>5. IsSuffix(c.queue, Sources)
      BY <3>1 DEF SyncInv
    <3>6. OnePerUrl(news \cup c.rows)
      BY <3>1 DEF SyncInv
    <3>7. \A i \in DOMAIN c.results : c.results[i].fetched \subseteq Urls(news \cup c.rows) \cup c.todo
      BY <3>1 DEF SyncInv
    <3>8. \A i \in DOMAIN c.results : c.results[i].fetched \subseteq Urls(news \cup c.rows)
      BY <3>3, <3>7
    <3> QED
      BY <3>2, <3>4, <3>5, <3>6, <3>8
  <2>2. Len(c.queue) \in Nat /\ Len(Sources) \in Nat
    BY <1>2, Facts, LenProperties
  <2>3. \A i \in DOMAIN e.results :
           e.results[i].fetched \subseteq Urls(news \cup e.rows) \cup e.todo
    BY <1>4, <1>5, <1>7, <2>1
  <2>4. c.pc = "fetch"
    BY <1>1
  <2> HIDE DEF e, c
  <2>5. Counted(e)
    <3>1. e.pc = "fetch"
      BY <1>7, <2>4
    <3>2. e.results = results /\ e.queue = q
      BY <1>7
    <3>3. Len(results) = Len(c.results) + 1 /\ Len(c.results) \in Nat
      BY <1>5
    <3>4. Len(c.results) + Len(c.queue) = Len(Sources) /\ Len(q) = Len(c.queue) - 1
      BY <1>3, <2>1
    <3>5. Len(results) + Len(q) = Len(Sources)
      <4> DEFINE n == Len(results)
                 o == Len(c.results)
                 l == Len(q)
                 m == Len(c.queue)
                 k == Len(Sources)
      <4>1. /\ n = o + 1 /\ o + m = k /\ l = m - 1
            /\ o \in Nat /\ m \in Nat /\ k \in Nat
        BY <3>3, <3>4, <2>2
      <4> HIDE DEF n, o, l, m, k
      <4>2. n + l = k
        BY <4>1
      <4> QED
        BY <4>2 DEF n, l, k
    <3>6. Len(e.results) + Len(e.queue) = Len(Sources)
      BY <3>2, <3>5
    <3> QED
      BY <3>1, <3>6 DEF Counted
  <2>6. IsSuffix(e.queue, Sources)
    BY <1>3, <1>7
  <2>7. OnePerUrl(news \cup e.rows)
    BY <1>7, <2>1
  <2>8. e \in Syncs /\ e.pc = "fetch" /\ e.todo = {}
    BY <1>7, <2>1, <2>4
  <2> QED
    BY <2>3, <2>5, <2>6, <2>7, <2>8 DEF SyncInv
<1> HIDE DEF e
<1> QED
  BY <1>1, <1>6, <1>7, <1>8, SyncGoesOn

LEMMA LookUpKeeps ==
    ASSUME IInv, NEW p \in Procs, NEW url \in URLs, LookUp(p, url)
    PROVE  IInv'
<1> DEFINE c == proc[p]
           left == c.todo \ {url}
           e1 == [c EXCEPT !.todo = left]
           e2 == [c EXCEPT !.pc = url]
<1>1. /\ c.cmd = "news" /\ c.pc = "store" /\ url \in c.todo /\ writer' = writer
      /\ UNCHANGED <<day, tables, commands>>
      /\ proc' = [proc EXCEPT ![p] = IF url \in Urls(news \cup c.rows) THEN e1 ELSE e2]
  BY Facts DEF LookUp, Storing
<1>2. SyncInv(c, news) /\ c \in Syncs /\ c.todo \subseteq URLs
  BY <1>1, OfSync
<1>3. /\ IsSuffix(c.queue, Sources) /\ c.queue # <<>> /\ Counted(c)
      /\ OnePerUrl(news \cup c.rows)
      /\ \A i \in DOMAIN c.results :
            c.results[i].fetched \subseteq Urls(news \cup c.rows) \cup c.todo
  BY <1>1, <1>2 DEF SyncInv
<1>4. CASE url \in Urls(news \cup c.rows)
  <2>1. /\ e1 \in Syncs /\ e1.pc = c.pc /\ e1.queue = c.queue /\ e1.todo = left
        /\ e1.rows = c.rows /\ e1.results = c.results
    BY <1>2 DEF Syncs
  <2>2. proc' = [proc EXCEPT ![p] = e1]
    BY <1>1, <1>4
  <2> HIDE DEF e1
  <2>3. Counted(e1)
    BY <1>3, <2>1 DEF Counted
  <2>4. Urls(news \cup c.rows) \cup c.todo = Urls(news \cup c.rows) \cup left
    BY <1>4
  <2>5. \A i \in DOMAIN e1.results :
           e1.results[i].fetched \subseteq Urls(news \cup e1.rows) \cup e1.todo
    BY <1>3, <2>1, <2>4
  <2> HIDE DEF left
  <2>6. SyncInv(e1, news)
    BY <1>1, <1>3, <2>1, <2>3, <2>5 DEF SyncInv
  <2> QED
    BY <1>1, <2>1, <2>2, <2>6, SyncGoesOn
<1>5. CASE url \notin Urls(news \cup c.rows)
  <2>1. /\ e2 \in Syncs /\ e2.pc = url /\ e2.queue = c.queue /\ e2.todo = c.todo
        /\ e2.rows = c.rows /\ e2.results = c.results
    BY <1>2 DEF Syncs
  <2>2. proc' = [proc EXCEPT ![p] = e2]
    BY <1>1, <1>5
  <2> HIDE DEF e2
  <2>3. url \notin {"fetch", "store"}
    BY NoneAssumption DEF URLs
  <2>4. Counted(e2)
    BY <1>1, <1>3, <2>1, <2>3 DEF Counted
  <2>5. url \notin Urls(c.rows)
    BY <1>5 DEF Urls
  <2>6. \A i \in DOMAIN e2.results :
           e2.results[i].fetched \subseteq Urls(news \cup e2.rows) \cup e2.todo
    BY <1>3, <2>1
  <2>7. SyncInv(e2, news)
    BY <1>1, <1>3, <2>1, <2>3, <2>4, <2>5, <2>6 DEF SyncInv
  <2> QED
    BY <1>1, <2>1, <2>2, <2>7, SyncGoesOn
<1> QED
  BY <1>4, <1>5

LEMMA InsertKeeps ==
    ASSUME IInv, NEW p \in Procs, Insert(p)
    PROVE  IInv'
<1> DEFINE c == proc[p]
           url == c.pc
           new == [url |-> url, source |-> Head(c.queue)]
           left == c.todo \ {url}
           rows == c.rows \cup {new}
           e == [c EXCEPT !.pc = "store", !.todo = left, !.rows = rows]
<1>1. /\ c.cmd = "news" /\ url \notin {"fetch", "store"} /\ writer' = p /\ writer \in {None, p}
      /\ url \notin Urls(news) /\ UNCHANGED <<day, tables, commands>>
      /\ proc' = [proc EXCEPT ![p] = e]
  BY Facts DEF Insert, Inserting, MayWrite
<1>2. /\ SyncInv(c, news) /\ c \in Syncs /\ c.queue \in Seq(DOMAIN Items)
      /\ c.rows \subseteq NewsRows /\ c.todo \subseteq URLs
  BY <1>1, OfSync
<1>3. /\ IsSuffix(c.queue, Sources) /\ c.queue # <<>> /\ Counted(c)
      /\ OnePerUrl(news \cup c.rows) /\ url \in c.todo /\ url \notin Urls(c.rows)
      /\ \A i \in DOMAIN c.results :
            c.results[i].fetched \subseteq Urls(news \cup c.rows) \cup c.todo
  BY <1>1, <1>2 DEF SyncInv
<1>4. new \in NewsRows /\ new.url = url
  <2>1. Head(c.queue) \in DOMAIN Items
    BY <1>2, <1>3, HeadTailProperties
  <2> QED
    BY <1>2, <1>3, <2>1 DEF NewsRows, URLs
<1> HIDE DEF new
<1>5. /\ rows \in SUBSET NewsRows /\ rows # {} /\ left \in SUBSET URLs
      /\ url \in Urls(rows) /\ Urls(news \cup c.rows) \subseteq Urls(news \cup rows)
  BY <1>2, <1>4 DEF Urls
<1>6. OnePerUrl(news \cup rows)
  BY <1>1, <1>3, <1>4 DEF OnePerUrl, Urls
<1>7. Urls(news \cup c.rows) \cup c.todo \subseteq Urls(news \cup rows) \cup left
  BY <1>5 DEF Urls
<1> HIDE DEF rows, left
<1>8. /\ e \in Syncs /\ e.pc = "store" /\ e.queue = c.queue /\ e.todo = left
      /\ e.rows = rows /\ e.results = c.results
  BY <1>2, <1>5 DEF Syncs
<1> HIDE DEF e
<1>9. Counted(e)
  BY <1>1, <1>3, <1>8 DEF Counted
<1>10. \A i \in DOMAIN e.results :
          e.results[i].fetched \subseteq Urls(news \cup e.rows) \cup e.todo
  BY <1>3, <1>7, <1>8
<1>11. SyncInv(e, news)
  BY <1>3, <1>6, <1>8, <1>9, <1>10 DEF SyncInv
<1> QED
  BY <1>1, <1>5, <1>8, <1>11, SyncGoesOn

LEMMA SourceDoneKeeps ==
    ASSUME IInv, NEW p \in Procs, SourceDone(p)
    PROVE  IInv'
<1> DEFINE c == proc[p]
           q == Tail(c.queue)
           e == [c EXCEPT !.pc = "fetch", !.queue = q]
<1>1. /\ c.cmd = "news" /\ c.pc = "store" /\ c.todo = {} /\ writer' = writer
      /\ UNCHANGED <<day, tables, commands>>
      /\ proc' = [proc EXCEPT ![p] = e]
  BY Facts DEF SourceDone, Storing
<1>2. /\ SyncInv(c, news) /\ c \in Syncs /\ c.queue \in Seq(DOMAIN Items)
      /\ c.results \in Seq(Results)
  BY <1>1, OfSync
<1>3. /\ IsSuffix(c.queue, Sources) /\ c.queue # <<>> /\ Counted(c)
      /\ OnePerUrl(news \cup c.rows)
      /\ \A i \in DOMAIN c.results :
            c.results[i].fetched \subseteq Urls(news \cup c.rows) \cup c.todo
  BY <1>1, <1>2 DEF SyncInv
<1>4. q \in Seq(DOMAIN Items) /\ IsSuffix(q, Sources) /\ Len(q) = Len(c.queue) - 1
  BY <1>2, <1>3, Facts, TailIsSuffix
<1> HIDE DEF q
<1>5. /\ e \in Syncs /\ e.pc = "fetch" /\ e.queue = q /\ e.todo = c.todo
      /\ e.rows = c.rows /\ e.results = c.results
  BY <1>2, <1>4 DEF Syncs
<1> HIDE DEF e
<1>6. Counted(e)
  <2> DEFINE n == Len(c.results)
             m == Len(c.queue)
             l == Len(q)
             k == Len(Sources)
  <2>1. n \in Nat /\ m \in Nat /\ k \in Nat
    BY <1>2, Facts, LenProperties
  <2>2. n + m = k + 1 /\ l = m - 1
    BY <1>1, <1>3, <1>4 DEF Counted
  <2> HIDE DEF n, m, l, k
  <2>3. n + l = k
    BY <2>1, <2>2
  <2> QED
    BY <1>5, <2>3 DEF Counted, n, l, k
<1>7. \A i \in DOMAIN e.results :
         e.results[i].fetched \subseteq Urls(news \cup e.rows) \cup e.todo
  BY <1>3, <1>5
<1>8. SyncInv(e, news)
  BY <1>1, <1>3, <1>4, <1>5, <1>6, <1>7 DEF SyncInv
<1> QED
  BY <1>1, <1>5, <1>8, SyncGoesOn

LEMMA InsertRefusedKeeps ==
    ASSUME IInv, NEW p \in Procs, InsertRefused(p)
    PROVE  IInv'
  BY EndKeeps DEF InsertRefused

LEMMA AbortKeeps ==
    ASSUME IInv, NEW p \in Procs, Abort(p)
    PROVE  IInv'
  BY EndKeeps DEF Abort

-----------------------------------------------------------------------------
(* The analyses a recommendation refers to stay when others are added. *)
LEMMA RecsStay ==
    ASSUME NEW rows, NEW old \in Seq(Rows), NEW more \in Seq(Rows), RecsInv(rows, old)
    PROVE  old \o more \in Seq(Rows) /\ RecsInv(rows, old \o more)
<1> DEFINE all == old \o more
<1>1. /\ all \in Seq(Rows) /\ Len(all) = Len(old) + Len(more)
      /\ Len(old) \in Nat /\ Len(more) \in Nat
      /\ DOMAIN all = 1..Len(all) /\ DOMAIN old = 1..Len(old)
      /\ \A i \in 1..Len(old) : all[i] = old[i]
  BY ConcatProperties, LenProperties
<1> HIDE DEF all
<1>2. ASSUME NEW r \in rows, r.analysis # None
      PROVE  r.analysis \in DOMAIN all /\ all[r.analysis].sym = r.sym
  <2>1. r.analysis \in DOMAIN old /\ old[r.analysis].sym = r.sym
    BY <1>2 DEF RecsInv
  <2> QED
    BY <2>1, <1>1
<1> QED
  BY <1>1, <1>2 DEF RecsInv, all

(***************************************************************************)
(* A command that ends with a commit, holding the write lock for whatever  *)
(* it adds.                                                                *)
(***************************************************************************)
LEMMA CommitKeeps ==
    ASSUME IInv, NEW p \in Procs, End(p), day' = day, commands' = commands,
           writer \in {None, p} \/ (analyses' = analyses /\ news' = news),
           analyses' \in Seq(Rows), news \subseteq news', news' \subseteq NewsRows,
           OnePerUrl(news'), RecsInv(recs', analyses'),
           \/ recs' \subseteq recs
           \/ proc[p].cmd = "recommend" /\ \A r \in recs' : r.at = proc[p].at
    PROVE  IInv'
<1>1. proc' = [proc EXCEPT ![p] = Idle] /\ writer' = IF writer = p THEN None ELSE writer
  BY DEF End
<1>2. /\ proc'[p] = Idle /\ DOMAIN proc' = Procs
      /\ \A q \in Procs \ {p} : proc'[q] = proc[q]
  BY <1>1, Facts
<1>3. /\ writer' \in Procs \cup {None} /\ writer' # p
      /\ \A q \in Procs \ {p} : writer' = q <=> writer = q
  BY <1>1, Facts
<1>4. TablesInv'
  BY <1>2, <1>3 DEF IInv, TablesInv
<1>5. ASSUME NEW q \in Procs PROVE CommandInv(q)'
  <2>1. CASE q = p
    BY <2>1, <1>2, <1>3 DEF CommandInv
  <2>2. CASE q # p
    <3>1. writer = q => news' = news /\ analyses' = analyses
      BY <2>2, Facts
    <3> QED
      BY <2>2, <3>1, <1>2, <1>3, OthersKeep
  <2> QED
    BY <2>1, <2>2
<1>6. StampsInv'
  <2>1. Idle.cmd # "recommend"
    BY DEF Idle
  <2>2. \A q \in Procs : proc'[q].cmd = "recommend" => q # p /\ proc'[q] = proc[q]
    BY <2>1, <1>2
  <2>3. StampsInv
    BY DEF IInv
  <2>4. \A r, s \in recs' : r.at = s.at
    BY <2>3 DEF StampsInv
  <2>5. \A r \in recs' : r.at < commands
    BY <2>3 DEF StampsInv
  <2>6. \A q \in Procs : proc'[q].cmd = "recommend" =>
           proc'[q].at < commands /\ \A r \in recs' : r.at # proc'[q].at
    BY <2>2, <2>3 DEF StampsInv
  <2>7. \A q, s \in Procs : proc'[q].cmd = "recommend" /\ proc'[s].cmd = "recommend"
                              /\ proc'[q].at = proc'[s].at => q = s
    BY <2>2, <2>3 DEF StampsInv
  <2> QED
    BY <2>4, <2>5, <2>6, <2>7 DEF StampsInv
<1> QED
  BY <1>4, <1>5, <1>6 DEF IInv

LEMMA RecordAnalysisKeeps ==
    ASSUME IInv, NEW p \in Procs, RecordAnalysis(p)
    PROVE  IInv'
<1> DEFINE c == proc[p]
           row == Row(c.sym, c.answer)
<1>1. /\ c.cmd = "analyze" /\ c.pc = "record" /\ writer \in {None, p} /\ End(p)
      /\ analyses' = Append(analyses, row)
      /\ UNCHANGED <<day, recs, news, commands>>
  BY DEF RecordAnalysis, MayWrite
<1>2. c \in Analyses /\ c.answer # None
  BY <1>1, Facts, Kinds
<1>3. c.sym \in Symbols /\ c.answer \in Answers
  BY <1>2 DEF Analyses
<1>4. row \in Rows
  BY <1>2, <1>3, AnswerType DEF Row, Rows, IInv, TablesInv
<1> HIDE DEF row
<1>5. Append(analyses, row) = analyses \o <<row>> /\ <<row>> \in Seq(Rows) /\ analyses \in Seq(Rows)
  BY <1>4, Facts, AppendIsConcat
<1>6. RecsInv(recs, analyses) /\ OnePerUrl(news) /\ news \subseteq NewsRows
  BY DEF IInv, TablesInv
<1>7. RecsInv(recs', analyses') /\ analyses' \in Seq(Rows)
  <2>1. RecsInv(recs, analyses \o <<row>>) /\ analyses \o <<row>> \in Seq(Rows)
    BY <1>5, <1>6, RecsStay
  <2>2. recs' = recs /\ analyses' = analyses \o <<row>>
    BY <1>1, <1>5
  <2> QED
    BY <2>1, <2>2
<1>8. /\ news \subseteq news' /\ news' \subseteq NewsRows /\ OnePerUrl(news')
      /\ recs' \subseteq recs /\ day' = day /\ commands' = commands
  BY <1>1, <1>6
<1> QED
  BY <1>1, <1>7, <1>8, CommitKeeps

LEMMA CommitNewsKeeps ==
    ASSUME IInv, NEW p \in Procs, CommitNews(p)
    PROVE  IInv'
<1> DEFINE c == proc[p]
<1>1. /\ c.cmd = "news" /\ End(p) /\ news' = news \cup c.rows
      /\ UNCHANGED <<day, analyses, recs, commands>>
  BY DEF CommitNews
<1>2. SyncInv(c, news) /\ (c.rows = {} <=> writer # p) /\ c.rows \subseteq NewsRows
  BY <1>1, OfSync
<1>3. OnePerUrl(news') /\ news' \subseteq NewsRows
  <2>1. OnePerUrl(news \cup c.rows)
    BY <1>2 DEF SyncInv
  <2> QED
    BY <2>1, <1>1, <1>2, Facts
<1>4. writer \in {None, p} \/ (analyses' = analyses /\ news' = news)
  BY <1>1, <1>2
<1>5. RecsInv(recs', analyses') /\ analyses' \in Seq(Rows)
  BY <1>1, Facts DEF IInv, TablesInv
<1>6. news \subseteq news' /\ recs' \subseteq recs /\ day' = day /\ commands' = commands
  BY <1>1
<1> QED
  BY <1>1, <1>3, <1>4, <1>5, <1>6, CommitKeeps

LEMMA NewDayKeeps ==
    ASSUME IInv, NewDay
    PROVE  IInv'
<1>1. /\ day < MaxDay /\ day' = day + 1
      /\ UNCHANGED <<analyses, recs, news, writer, proc, commands>>
  BY DEF NewDay, tables
<1>2. day' \in 0..MaxDay
  BY <1>1, AdviceAssumption DEF IInv, TablesInv
<1>3. TablesInv'
  BY <1>1, <1>2 DEF IInv, TablesInv
<1>4. StampsInv' /\ \A p \in Procs : CommandInv(p)'
  BY <1>1 DEF IInv, StampsInv, CommandInv
<1> QED
  BY <1>3, <1>4 DEF IInv

-----------------------------------------------------------------------------
(* The ranking is a strict order that tells any two symbols apart. *)
LEMMA RankingOrders ==
    /\ \A d \in Candidates : Tier(d.action) \in Nat /\ ~RanksBefore(d, d)
    /\ \A d, e \in Candidates : d.sym # e.sym => RanksBefore(d, e) \/ RanksBefore(e, d)
    /\ \A d, e, f \in Candidates : RanksBefore(d, e) /\ RanksBefore(e, f) => RanksBefore(d, f)
<1>1. \A d \in Candidates : Tier(d.action) \in Nat /\ Conviction(d) \in Nat /\ d.sym \in Nat
  <2> TAKE d \in Candidates
  <2>1. Tier(d.action) \in Nat
    BY DEF Tier, Candidates, Actions
  <2>2. Conviction(d) \in Nat
    <3>1. d.output \in Outputs \cup {None}
      BY DEF Candidates
    <3>2. \A o \in Outputs : o.conviction \in Nat
      BY AdviceAssumption
    <3> QED
      BY <3>1, <3>2 DEF Conviction
  <2>3. d.sym \in Nat
    <3>1. d.sym \in Range(Universe)
      BY DEF Candidates, Symbols
    <3> QED
      BY <3>1, AdviceAssumption, ElementOfSeq, LenProperties DEF Range
  <2> QED
    BY <2>1, <2>2, <2>3
<1> DEFINE t(d) == Tier(d.action)
           v(d) == Conviction(d)
<1>2. \A d, e \in Candidates : RanksBefore(d, e) <=>
        \/ t(d) < t(e)
        \/ t(d) = t(e) /\ v(d) > v(e)
        \/ t(d) = t(e) /\ v(d) = v(e) /\ d.sym < e.sym
  BY DEF RanksBefore
<1>3. \A d \in Candidates : t(d) \in Nat /\ v(d) \in Nat /\ d.sym \in Nat
  BY <1>1
<1> HIDE DEF t, v
<1>4. \A d \in Candidates : ~RanksBefore(d, d)
  BY <1>2, <1>3
<1>5. \A d, e \in Candidates : d.sym # e.sym => RanksBefore(d, e) \/ RanksBefore(e, d)
  <2> TAKE d, e \in Candidates
  <2>1. /\ t(d) \in Nat /\ v(d) \in Nat /\ d.sym \in Nat
        /\ t(e) \in Nat /\ v(e) \in Nat /\ e.sym \in Nat
    BY <1>3
  <2> QED
    BY <2>1, <1>2
<1>6. \A d, e, f \in Candidates : RanksBefore(d, e) /\ RanksBefore(e, f) => RanksBefore(d, f)
  <2> TAKE d, e, f \in Candidates
  <2>1. /\ t(d) \in Nat /\ v(d) \in Nat /\ d.sym \in Nat
        /\ t(e) \in Nat /\ v(e) \in Nat /\ e.sym \in Nat
        /\ t(f) \in Nat /\ v(f) \in Nat /\ f.sym \in Nat
    BY <1>3
  <2> QED
    BY <2>1, <1>2
<1> QED
  BY <1>1, <1>4, <1>5, <1>6

(***************************************************************************)
(* Ranks count from 1, a rank to a candidate, in the order of the ranking. *)
(***************************************************************************)
LEMMA RanksCount ==
    ASSUME NEW S \in SUBSET Candidates, IsFiniteSet(S), OnePerSymbol(S)
    PROVE  /\ {Rank(d, S) : d \in S} = 1..Cardinality(S)
           /\ \A d, e \in S : RanksBefore(d, e) => Rank(d, S) < Rank(e, S)
<1> DEFINE n == Cardinality(S)
           before(d) == {e \in S : RanksBefore(e, d)}
<1>1. n \in Nat
  BY FS_CardinalityType
<1>2. \A d \in S : /\ IsFiniteSet(before(d)) /\ Cardinality(before(d)) \in Nat
                   /\ Rank(d, S) = 1 + Cardinality(before(d))
  <2> TAKE d \in S
  <2>1. before(d) \in SUBSET S
    OBVIOUS
  <2>2. IsFiniteSet(before(d))
    <3> HIDE DEF before
    <3> QED
      BY <2>1, FS_Subset
  <2> QED
    BY <2>2, FS_CardinalityType DEF Rank
<1>3. ASSUME NEW d \in S, NEW e \in S, RanksBefore(d, e) PROVE Rank(d, S) < Rank(e, S)
  <2>1. before(d) \in SUBSET before(e) /\ d \in before(e) /\ d \notin before(d)
    BY <1>3, RankingOrders
  <2> HIDE DEF before
  <2>2. /\ Cardinality(before(d)) <= Cardinality(before(e))
        /\ Cardinality(before(e)) # Cardinality(before(d))
    BY <2>1, <1>2, FS_Subset
  <2>3. /\ Cardinality(before(d)) \in Nat /\ Cardinality(before(e)) \in Nat
        /\ Rank(d, S) = 1 + Cardinality(before(d))
        /\ Rank(e, S) = 1 + Cardinality(before(e))
    BY <1>2
  <2> QED
    BY <2>2, <2>3
<1>4. \A d \in S : Rank(d, S) \in 1..n
  <2> TAKE d \in S
  <2>1. before(d) \in SUBSET (S \ {d})
    BY RankingOrders
  <2>2. IsFiniteSet(S \ {d}) /\ Cardinality(S \ {d}) = n - 1
    BY FS_RemoveElement
  <2> HIDE DEF before
  <2>3. Cardinality(before(d)) <= Cardinality(S \ {d})
    BY <2>1, <2>2, FS_Subset
  <2>4. Cardinality(before(d)) \in Nat /\ Rank(d, S) = 1 + Cardinality(before(d))
    BY <1>2
  <2> HIDE DEF n
  <2> QED
    BY <2>2, <2>3, <2>4, <1>1
<1>5. \A d, e \in S : Rank(d, S) = Rank(e, S) => d = e
  <2> SUFFICES ASSUME NEW d \in S, NEW e \in S, d # e PROVE Rank(d, S) # Rank(e, S)
    OBVIOUS
  <2>1. d.sym # e.sym
    BY DEF OnePerSymbol
  <2>2. RanksBefore(d, e) \/ RanksBefore(e, d)
    BY <2>1, RankingOrders
  <2>3. Rank(d, S) < Rank(e, S) \/ Rank(e, S) < Rank(d, S)
    BY <2>2, <1>3
  <2>4. Rank(d, S) \in Nat /\ Rank(e, S) \in Nat
    BY <1>1, <1>4
  <2> QED
    BY <2>3, <2>4
<1> DEFINE f == [d \in S |-> Rank(d, S)]
<1>6. f \in Injection(S, 1..n)
  BY <1>4, <1>5 DEF Injection, IsInjective
<1>7. IsFiniteSet(1..n) /\ Cardinality(1..n) = n
  BY <1>1, FS_Interval
<1>8. f \in Surjection(S, 1..n)
  <2> HIDE DEF f
  <2> QED
    BY <1>6, <1>7, FS_Injection
<1>9. {Rank(d, S) : d \in S} = 1..n
  BY <1>4, <1>8 DEF Surjection
<1> QED
  BY <1>3, <1>9

\* What a cycle stores of a candidate, and of all of them.
Recommendation(c, d) ==
    [at |-> c.at, sym |-> d.sym, sig |-> d.sig, action |-> d.action,
     rank |-> Rank(d, c.cands), analysis |-> d.analysis]

Recommendations(c) == {Recommendation(c, d) : d \in c.cands}

(* The recommendations of a cycle are whole beside the rows it commits. *)
LEMMA CycleIsWhole ==
    ASSUME NEW committed \in Seq(Rows), NEW c, CycleInv(c, committed)
    PROVE  /\ RecsInv(Recommendations(c), committed \o c.rows)
           /\ \A r \in Recommendations(c) : r.at = c.at
<1> DEFINE S == c.cands
           rec(d) == Recommendation(c, d)
           T == Recommendations(c)
           all == committed \o c.rows
<1>1. /\ c \in Cycles /\ S \in SUBSET Candidates /\ IsFiniteSet(S) /\ OnePerSymbol(S)
      /\ c.rows \in Seq(Rows) /\ c.at \in Nat
      /\ \A d \in S : CandidateInv(d, c, committed)
  BY DEF CycleInv, Cycles
<1>2. /\ {Rank(d, S) : d \in S} = 1..Cardinality(S)
      /\ \A d, e \in S : RanksBefore(d, e) => Rank(d, S) < Rank(e, S)
      /\ Cardinality(S) \in Nat
  BY <1>1, RanksCount, FS_CardinalityType
<1>3. \A d \in S : Rank(d, S) \in Nat
  BY <1>2
<1>4. \A d \in S : /\ rec(d).at = c.at /\ rec(d).sym = d.sym /\ rec(d).action = d.action
                   /\ rec(d).rank = Rank(d, S) /\ rec(d).analysis = d.analysis
                   /\ rec(d) \in Recs
  <2> TAKE d \in S
  <2>1. d \in Candidates /\ Rank(d, S) \in Nat
    BY <1>1, <1>3
  <2> QED
    BY <2>1, <1>1 DEF Recommendation, Recs, Candidates
<1>5. T = {rec(d) : d \in S}
  BY DEF Recommendations
<1> HIDE DEF rec, T
<1>6. T \subseteq Recs
  BY <1>4, <1>5
<1>7. IsFiniteSet(T) /\ Cardinality(T) = Cardinality(S)
  <2> DEFINE f == [d \in S |-> rec(d)]
  <2>1. f \in Injection(S, T)
    BY <1>1, <1>4, <1>5 DEF OnePerSymbol, Injection, IsInjective
  <2>2. f \in Surjection(S, T)
    BY <1>5 DEF Surjection
  <2> HIDE DEF f
  <2> QED
    BY <2>1, <2>2, <1>1, FS_Surjection
<1>8. {r.rank : r \in T} = 1..Cardinality(T)
  <2>1. {r.rank : r \in T} = {Rank(d, S) : d \in S}
    BY <1>4, <1>5
  <2> QED
    BY <2>1, <1>2, <1>7
<1>9. OnePerSymbol(T)
  BY <1>1, <1>4, <1>5 DEF OnePerSymbol
<1>10. ASSUME NEW r \in T, NEW s \in T, r.rank < s.rank
       PROVE  Tier(r.action) <= Tier(s.action)
  <2>1. PICK d \in S : r = rec(d)
    BY <1>5
  <2>2. PICK e \in S : s = rec(e)
    BY <1>5
  <2>3. Rank(d, S) < Rank(e, S) /\ Rank(d, S) \in Nat /\ Rank(e, S) \in Nat
    BY <1>3, <1>4, <1>10, <2>1, <2>2
  <2>4. ~RanksBefore(e, d)
    BY <1>2, <2>3
  <2>5. Tier(d.action) \in Nat /\ Tier(e.action) \in Nat
    BY <1>1, RankingOrders
  <2>6. ~(Tier(e.action) < Tier(d.action))
    BY <2>4 DEF RanksBefore
  <2>7. Tier(d.action) <= Tier(e.action)
    BY <2>5, <2>6
  <2> QED
    BY <2>7, <1>4, <2>1, <2>2
<1>11. ASSUME NEW r \in T, r.analysis # None
       PROVE  r.analysis \in DOMAIN all /\ all[r.analysis].sym = r.sym
  <2> DEFINE m == Len(committed)
             n == Len(c.rows)
  <2>1. PICK d \in S : r = rec(d)
    BY <1>5
  <2>2. d.analysis \in (m + 1)..(m + n) /\ c.rows[d.analysis - m].sym = d.sym
    BY <1>1, <1>4, <1>11, <2>1 DEF CandidateInv
  <2>3. /\ m \in Nat /\ n \in Nat /\ DOMAIN all = 1..(m + n)
        /\ \A i \in 1..(m + n) : all[i] = IF i <= m THEN committed[i] ELSE c.rows[i - m]
    BY <1>1, ConcatProperties, LenProperties
  <2> HIDE DEF m, n, all
  <2>4. d.analysis \in 1..(m + n) /\ ~(d.analysis <= m)
    BY <2>2, <2>3
  <2> QED
    BY <2>1, <2>2, <2>3, <2>4, <1>4
<1>12. \A r \in T : r.at = c.at
  BY <1>4, <1>5
<1> QED
  BY <1>6, <1>7, <1>8, <1>9, <1>10, <1>11, <1>12 DEF RecsInv, T

LEMMA PublishKeeps ==
    ASSUME IInv, NEW p \in Procs, Publish(p)
    PROVE  IInv'
<1> DEFINE c == proc[p]
           new == Recommendations(c)
<1>1. /\ c.cmd = "recommend" /\ (c.cands # {} => writer \in {None, p}) /\ End(p)
      /\ recs' = ListLatestCycle(recs \cup new) /\ analyses' = analyses \o c.rows
      /\ day' = day /\ news' = news /\ commands' = commands
  BY DEF Publish, MayWrite, Recommendations, Recommendation
<1>2. /\ CycleInv(c, analyses) /\ analyses \in Seq(Rows) /\ c.rows \in Seq(Rows)
      /\ c.at \in Nat
  BY <1>1, OfCycle, Facts DEF Cycles
<1>3. RecsInv(new, analyses \o c.rows) /\ \A r \in new : r.at = c.at
  BY <1>2, CycleIsWhole
<1>4. /\ RecsInv(recs, analyses) /\ OnePerUrl(news) /\ news \subseteq NewsRows
      /\ \A r, s \in recs : r.at = s.at
      /\ \A r \in recs : r.at # c.at /\ r.at \in Nat
  BY <1>1 DEF IInv, TablesInv, StampsInv, RecsInv, Recs
<1>5. RecsInv(recs, analyses \o c.rows) /\ analyses \o c.rows \in Seq(Rows)
  BY <1>2, <1>4, RecsStay
<1>6. recs' = recs \/ recs' = new
  <2>1. CASE new = {}
    BY <2>1, <1>1, <1>4 DEF ListLatestCycle
  <2>2. CASE recs = {}
    BY <2>2, <1>1, <1>2, <1>3 DEF ListLatestCycle
  <2>3. CASE new # {} /\ recs # {}
    <3>1. PICK r \in recs : \A s \in recs : s.at = r.at
      BY <2>3, <1>4
    <3> DEFINE a == r.at
               b == c.at
    <3>2. /\ \A s \in recs : s.at = a
          /\ \A s \in new : s.at = b
          /\ a \in Nat /\ b \in Nat /\ a # b
      BY <3>1, <1>2, <1>3, <1>4
    <3> HIDE DEF a, b, new
    <3>3. CASE a < b
      <4>1. recs' = new
        BY <3>2, <3>3, <2>3, <1>1 DEF ListLatestCycle
      <4> QED
        BY <4>1
    <3>4. CASE b < a
      <4>1. recs' = recs
        BY <3>2, <3>4, <2>3, <1>1 DEF ListLatestCycle
      <4> QED
        BY <4>1
    <3> QED
      BY <3>2, <3>3, <3>4
  <2> QED
    BY <2>1, <2>2, <2>3
<1> HIDE DEF new
<1>7. writer \in {None, p} \/ (analyses' = analyses /\ news' = news)
  <2>1. CASE c.cands = {}
    <3>1. c.rows = <<>>
      BY <1>2, <2>1 DEF CycleInv
    <3> QED
      BY <3>1, <1>1, <1>2, ConcatEmptySeq
  <2> QED
    BY <2>1, <1>1
<1>8. RecsInv(recs', analyses') /\ analyses' \in Seq(Rows)
  BY <1>1, <1>3, <1>5, <1>6
<1>9. /\ news \subseteq news' /\ news' \subseteq NewsRows /\ OnePerUrl(news')
  BY <1>1, <1>4
<1>10. \/ recs' \subseteq recs
       \/ proc[p].cmd = "recommend" /\ \A r \in recs' : r.at = proc[p].at
  BY <1>1, <1>3, <1>6
<1> QED
  BY <1>1, <1>7, <1>8, <1>9, <1>10, CommitKeeps

-----------------------------------------------------------------------------
LEMMA InitHolds == Init => IInv
<1> SUFFICES ASSUME Init PROVE IInv
  OBVIOUS
<1>1. /\ day = 0 /\ analyses = <<>> /\ recs = {} /\ news = {} /\ writer = None /\ commands = 0
      /\ DOMAIN proc = Procs /\ \A p \in Procs : proc[p] = Idle
  BY DEF Init
<1>2. RecsInv(recs, analyses)
  <2>1. IsFiniteSet(recs) /\ Cardinality(recs) = 0
    BY <1>1, FS_EmptySet
  <2>2. {r.rank : r \in recs} = 1..Cardinality(recs)
    BY <1>1, <2>1
  <2> QED
    BY <1>1, <2>1, <2>2 DEF RecsInv, OnePerSymbol
<1>3. TablesInv
  <2>1. day \in 0..MaxDay
    BY <1>1, AdviceAssumption
  <2>2. analyses \in Seq(Rows)
    BY <1>1, EmptySeq
  <2> QED
    BY <1>1, <1>2, <2>1, <2>2 DEF TablesInv, OnePerUrl
<1>4. Idle.cmd # "recommend"
  BY DEF Idle
<1>5. StampsInv
  BY <1>1, <1>4 DEF StampsInv
<1>6. \A p \in Procs : CommandInv(p)
  BY <1>1, NoneAssumption DEF CommandInv
<1> QED
  BY <1>3, <1>5, <1>6 DEF IInv

LEMMA StepKeeps ==
    ASSUME IInv, NEW p \in Procs, Step(p)
    PROVE  IInv'
<1>1. CASE \E sym \in Range(Universe) : Analyze(p, sym)
  BY <1>1, AnalyzeKeeps
<1>2. CASE \E ai \in BOOLEAN : Recommend(p, ai)
  BY <1>2, RecommendKeeps
<1>3. CASE NewsSync(p)
  BY <1>3, NewsSyncKeeps
<1>4. CASE ScreenNothing(p)
  BY <1>4, ScreenNothingKeeps
<1>5. CASE \E sig \in UNION Range(Signals) : ScreenSignal(p, sig)
  BY <1>5, ScreenSignalKeeps
<1>6. CASE \E output \in Outputs, cost \in Costs : CallAnswers(p, output, cost)
  BY <1>6, CallAnswersKeeps
<1>7. CASE CallFails(p)
  BY <1>7, CallFailsKeeps
<1>8. CASE RecordAnalysis(p)
  BY <1>8, RecordAnalysisKeeps
<1>9. CASE RecordInCycle(p)
  BY <1>9, RecordInCycleKeeps
<1>10. CASE Publish(p)
  BY <1>10, PublishKeeps
<1>11. CASE \E urls \in SUBSET UNION Range(Items) : Fetch(p, urls)
  BY <1>11, FetchKeeps
<1>12. CASE FetchFails(p)
  BY <1>12, FetchFailsKeeps
<1>13. CASE \E url \in UNION Range(Items) : LookUp(p, url)
  BY <1>13, LookUpKeeps DEF URLs
<1>14. CASE Insert(p)
  BY <1>14, InsertKeeps
<1>15. CASE InsertRefused(p)
  BY <1>15, InsertRefusedKeeps
<1>16. CASE SourceDone(p)
  BY <1>16, SourceDoneKeeps
<1>17. CASE CommitNews(p)
  BY <1>17, CommitNewsKeeps
<1>18. CASE Abort(p)
  BY <1>18, AbortKeeps
<1> QED
  BY <1>1, <1>2, <1>3, <1>4, <1>5, <1>6, <1>7, <1>8, <1>9, <1>10, <1>11, <1>12, <1>13,
     <1>14, <1>15, <1>16, <1>17, <1>18 DEF Step

(***************************************************************************)
(* Whatever the commands of intelligence/ do at once, fail at or are       *)
(* killed in, the inductive invariant holds.                               *)
(***************************************************************************)
THEOREM Invariance == Spec => []IInv
<1>1. IInv /\ [Next]_vars => IInv'
  <2> SUFFICES ASSUME IInv, [Next]_vars PROVE IInv'
    OBVIOUS
  <2>1. CASE NewDay
    BY <2>1, NewDayKeeps
  <2>2. CASE \E p \in Procs : Step(p)
    BY <2>2, StepKeeps
  <2>3. CASE UNCHANGED vars
    BY <2>3 DEF vars, tables, IInv, TablesInv, StampsInv, CommandInv
  <2> QED
    BY <2>1, <2>2, <2>3 DEF Next
<1> QED
  BY <1>1, InitHolds, PTL DEF Spec

LEMMA TypesFollow == IInv => TypeOK
<1> SUFFICES ASSUME IInv PROVE TypeOK
  OBVIOUS
<1>1. writer = None \/ (writer \in Procs /\ proc[writer] # Idle)
  <2> SUFFICES ASSUME writer # None PROVE writer \in Procs /\ proc[writer] # Idle
    OBVIOUS
  <2>1. writer \in Procs
    BY DEF IInv, TablesInv
  <2>2. Idle.cmd = "none"
    BY DEF Idle
  <2> QED
    BY <2>1, <2>2, Facts, Kinds
<1>2. ASSUME NEW p \in Procs
      PROVE  \/ proc[p] = Idle
             \/ proc[p].cmd = "analyze" /\ proc[p].answer \in Answers
             \/ proc[p].cmd = "recommend" /\ IsCycle(proc[p]) /\ (proc[p].rows = <<>> <=> writer # p)
             \/ proc[p].cmd = "news" /\ IsSync(proc[p]) /\ (proc[p].rows = {} <=> writer # p)
  <2> DEFINE c == proc[p]
  <2>1. CASE c.cmd = "none"
    BY <2>1, Facts, Kinds
  <2>2. CASE c.cmd = "analyze"
    BY <2>2, Facts, Kinds DEF Analyses
  <2>3. CASE c.cmd = "recommend"
    <3>1. CycleInv(c, analyses) /\ (c.rows = <<>> <=> writer # p)
      BY <2>3, OfCycle
    <3>2. ASSUME NEW d \in c.cands PROVE IsCandidate(d)
      <4>1. d \in Candidates /\ CandidateInv(d, c, analyses)
        BY <3>1 DEF CycleInv, Cycles
      <4> QED
        BY <4>1 DEF CandidateInv, Candidates, IsCandidate
    <3>3. c \in Cycles
      BY <3>1 DEF CycleInv
    <3>4. /\ c.pc \in {"screen", "call", "record"} /\ c.answer \in Answers
          /\ c.rows \in Seq(Rows)
      BY <3>3 DEF Cycles
    <3> HIDE DEF c
    <3>5. IsCycle(c)
      BY <3>1, <3>2, <3>4 DEF CycleInv, IsCycle
    <3> QED
      BY <2>3, <3>1, <3>5 DEF c
  <2>4. CASE c.cmd = "news"
    <3>1. SyncInv(c, news) /\ (c.rows = {} <=> writer # p) /\ c.rows \subseteq NewsRows
      BY <2>4, OfSync
    <3>2. c.pc \in {"fetch", "store"} \cup c.todo /\ IsSuffix(c.queue, Sources)
      BY <3>1 DEF SyncInv
    <3> QED
      BY <2>4, <3>1, <3>2 DEF IsSync
  <2> QED
    BY <2>1, <2>2, <2>3, <2>4, Facts, Kinds
<1> QED
  BY <1>1, <1>2 DEF TypeOK, IInv, TablesInv

(***************************************************************************)
(* Types; and a command has the write lock exactly while it has rows that  *)
(* are not committed (data/store/db.py, SQLite's one writer).            *)
(***************************************************************************)
THEOREM TypeCorrect == Spec => []TypeOK
  BY Invariance, TypesFollow, PTL

(***************************************************************************)
(* An exhausted budget, an API error or a bad answer costs no signal its   *)
(* recommendation, and an analysis at most turns one into HOLD             *)
(* (recommendation/engine.py, merge.py): for every universe, any number of *)
(* commands and any interleaving.                                          *)
(***************************************************************************)
THEOREM SignalsCorrect == Spec => []EverySignalGetsItsRecommendation
<1>1. IInv => EverySignalGetsItsRecommendation
  <2> SUFFICES ASSUME IInv, NEW p \in Procs, proc[p].cmd = "recommend", proc[p].queue = <<>>
               PROVE  /\ {d.sym : d \in proc[p].cands} = proc[p].found
                      /\ \A d \in proc[p].cands :
                            \/ d.action = DeterministicAction(d.sig)
                            \/ d.action = "HOLD" /\ d.analysis # None
    BY DEF EverySignalGetsItsRecommendation
  <2> DEFINE c == proc[p]
  <2>1. CycleInv(c, analyses) /\ c \in Cycles
    BY OfCycle
  <2>2. c.found = {d.sym : d \in c.cands}
    BY <2>1 DEF CycleInv, Pending
  <2>3. ASSUME NEW d \in c.cands
        PROVE  d.action = DeterministicAction(d.sig) \/ (d.action = "HOLD" /\ d.analysis # None)
    <3>1. d \in Candidates /\ CandidateInv(d, c, analyses)
      BY <2>1 DEF CycleInv, Cycles
    <3>2. d.sig \in SignalRows /\ d.output \in Outputs \cup {None}
      BY <3>1 DEF Candidates
    <3> QED
      BY <3>1, <3>2, MergedType DEF CandidateInv
  <2> QED
    BY <2>2, <2>3
<1> QED
  BY <1>1, Invariance, PTL

(***************************************************************************)
(* What `recommend list` reads is one cycle, whole, with its ranks from 1  *)
(* and the analyses it refers to, whatever other cycles started, committed *)
(* or were rolled back meanwhile (RecommendationRepository).               *)
(***************************************************************************)
THEOREM LatestCycleCorrect == Spec => []LatestCycleIsWhole
<1>1. IInv => LatestCycleIsWhole
  BY DEF IInv, TablesInv, RecsInv, OnePerSymbol, LatestCycleIsWhole
<1> QED
  BY <1>1, Invariance, PTL

(***************************************************************************)
(* A sync that comes to its end has a result from every source, dead or    *)
(* not, and everything it was given is stored, once (news/pipeline.py).    *)
(***************************************************************************)
THEOREM SourcesCorrect == Spec => []NoSourceBlocksAnother
<1>1. IInv => NoSourceBlocksAnother
  <2> SUFFICES ASSUME IInv PROVE NoSourceBlocksAnother
    OBVIOUS
  <2>1. \A r, s \in news : r.url = s.url => r = s
    BY DEF IInv, TablesInv, OnePerUrl
  <2>2. ASSUME NEW p \in Procs, proc[p].cmd = "news", proc[p].queue = <<>>
        PROVE  /\ Len(proc[p].results) = Len(Sources)
               /\ \A i \in DOMAIN proc[p].results :
                     proc[p].results[i].fetched \subseteq Urls(news \cup proc[p].rows)
    <3> DEFINE c == proc[p]
    <3>1. SyncInv(c, news) /\ c.results \in Seq(Results)
      BY <2>2, OfSync
    <3>2. c.pc = "fetch" /\ c.todo = {} /\ Counted(c)
      BY <2>2, <3>1 DEF SyncInv
    <3>3. \A i \in DOMAIN c.results :
             c.results[i].fetched \subseteq Urls(news \cup c.rows) \cup c.todo
      BY <3>1 DEF SyncInv
    <3>4. Len(c.queue) = 0
      BY <2>2, EmptySeq
    <3>5. Len(c.results) = Len(Sources)
      <4> DEFINE n == Len(c.results)
                 k == Len(Sources)
      <4>1. n \in Nat /\ k \in Nat
        BY <3>1, AdviceAssumption, LenProperties
      <4>2. n + 0 = k
        BY <3>2, <3>4 DEF Counted
      <4> HIDE DEF n, k
      <4>3. n = k
        BY <4>1, <4>2
      <4> QED
        BY <4>3 DEF n, k
    <3> QED
      BY <3>2, <3>3, <3>5
  <2> QED
    BY <2>1, <2>2 DEF NoSourceBlocksAnother
<1> QED
  BY <1>1, Invariance, PTL

-----------------------------------------------------------------------------
(***************************************************************************)
(* The two budgets are meters.  A meter reads the rows of one unit of time *)
(* at a price each, none above `most`; the cap is what a call must find    *)
(* unreached.  Calls are counted by the day, costs are added by the month. *)
(***************************************************************************)
Meters == [cap : Nat, most : Nat, unit : [0..MaxDay -> Nat], price : [Rows -> Nat]]

IsMeter(g) ==
    /\ g \in Meters
    /\ g.cap > 0 \/ g.most > 0
    /\ \A r \in Rows : g.price[r] <= g.most
    /\ \A d, e \in 0..MaxDay : d <= e => g.unit[d] <= g.unit[e]

CallMeter == [cap |-> DailyCallCap, most |-> 1, unit |-> [d \in 0..MaxDay |-> d],
              price |-> [r \in Rows |-> 1]]

CostMeter == [cap |-> Max({MonthlyUsdCap, 1}), most |-> Max(Costs),
              unit |-> [d \in 0..MaxDay |-> Month(d)], price |-> [r \in Rows |-> r.cost]]

\* What a row adds to the reading for unit x.
Charge(g, x) == [r \in Rows |-> IF g.unit[r.day] = x THEN g.price[r] ELSE 0]

Spent(rows, w) == SumFunctionOnSet([k \in DOMAIN rows |-> w[rows[k]]], DOMAIN rows)

Reading(g, rows, x) == Spent(rows, Charge(g, x))

LEMMA Places ==
    ASSUME NEW rows \in Seq(Rows)
    PROVE  /\ DOMAIN rows = 1..Len(rows) /\ Len(rows) \in Nat /\ IsFiniteSet(DOMAIN rows)
           /\ \A k \in DOMAIN rows : rows[k] \in Rows
<1>1. DOMAIN rows = 1..Len(rows) /\ Len(rows) \in Nat /\ \A k \in 1..Len(rows) : rows[k] \in Rows
  BY LenProperties, ElementOfSeq
<1>2. IsFiniteSet(1..Len(rows))
  <2>1. 1 \in Int /\ Len(rows) \in Int
    BY <1>1
  <2> QED
    BY <2>1, FS_Interval
<1> QED
  BY <1>1, <1>2

(* Natural numbers add up to one. *)
LEMMA SumNat ==
    ASSUME NEW f, NEW S, IsFiniteSet(S), \A x \in S : f[x] \in Nat
    PROVE  SumFunctionOnSet(f, S) \in Nat
<1> DEFINE Bad == {s \in SUBSET S : SumFunctionOnSet(f, s) \notin Nat}
<1> SUFFICES ASSUME Bad # {} PROVE FALSE
  OBVIOUS
<1>1. PICK m \in Bad : \A t \in Bad : t \subseteq m => t = m
  <2>1. Bad \subseteq SUBSET S
    OBVIOUS
  <2> HIDE DEF Bad
  <2> QED
    BY <2>1, MinimalSubset
<1>2. IsFiniteSet(m) /\ m \subseteq S /\ \A y \in m : f[y] \in Int
  BY FS_Subset
<1>3. PICK x \in m : TRUE
  <2>1. SumFunctionOnSet(f, m) \notin Nat /\ SumFunctionOnSet(f, {}) = 0
    BY <1>1, SumEmpty
  <2>2. m # {}
    BY <2>1
  <2> QED
    BY <2>2
<1>4. m \ {x} \in SUBSET S /\ m \ {x} \subseteq m /\ m \ {x} # m
  BY <1>2, <1>3
<1>5. SumFunctionOnSet(f, m \ {x}) \in Nat
  BY <1>1, <1>4
<1>6. SumFunctionOnSet(f, m) = f[x] + SumFunctionOnSet(f, m \ {x})
  BY <1>2, <1>3, SumRemove
<1> QED
  BY <1>1, <1>2, <1>3, <1>5, <1>6

(* Leaving rows out of a sum of natural numbers does not raise it, and     *)
(* rows that count for nothing may be left out.                            *)
IsPart(f, T, g, S) ==
    /\ IsFiniteSet(S) /\ T \in SUBSET S
    /\ \A x \in S : f[x] \in Nat /\ g[x] \in Nat
    /\ \A x \in T : f[x] = g[x]
    /\ \A x \in S \ T : f[x] = 0

LEMMA SumPart ==
    ASSUME NEW f, NEW g, NEW S, NEW T, IsPart(f, T, g, S)
    PROVE  /\ SumFunctionOnSet(f, S) = SumFunctionOnSet(g, T)
           /\ SumFunctionOnSet(f, S) <= SumFunctionOnSet(g, S)
<1> DEFINE F(s) == SumFunctionOnSet(f, s)
           G(s) == SumFunctionOnSet(g, s)
           Bad == {s \in SUBSET S : ~(F(s) = G(s \cap T) /\ F(s) <= G(s))}
<1>0. /\ IsFiniteSet(S) /\ T \in SUBSET S
      /\ \A x \in S : f[x] \in Nat /\ g[x] \in Nat
      /\ \A x \in T : f[x] = g[x]
      /\ \A x \in S \ T : f[x] = 0
  BY DEF IsPart
<1> USE <1>0
<1> SUFFICES ASSUME Bad # {} PROVE FALSE
  <2>1. S \notin Bad => F(S) = G(S \cap T) /\ F(S) <= G(S)
    OBVIOUS
  <2>2. S \cap T = T
    OBVIOUS
  <2> QED
    BY <2>1, <2>2
<1>1. PICK m \in Bad : \A t \in Bad : t \subseteq m => t = m
  <2>1. Bad \subseteq SUBSET S
    OBVIOUS
  <2> HIDE DEF Bad
  <2> QED
    BY <2>1, MinimalSubset
<1>2. IsFiniteSet(m) /\ m \in SUBSET S /\ \A y \in m : f[y] \in Nat /\ g[y] \in Nat
  BY FS_Subset
<1>3. F({}) = 0 /\ G({}) = 0
  BY SumEmpty
<1>4. PICK x \in m : TRUE
  <2>1. {} \cap T = {} /\ ~(F(m) = G(m \cap T) /\ F(m) <= G(m))
    BY <1>1
  <2> HIDE DEF F, G
  <2>2. m # {}
    BY <1>3, <2>1
  <2> QED
    BY <2>2
<1> DEFINE r == m \ {x}
<1>5. r \in SUBSET S /\ r \subseteq m /\ r # m /\ IsFiniteSet(r)
  BY <1>2, <1>4, FS_RemoveElement
<1>6. F(r) = G(r \cap T) /\ F(r) <= G(r)
  <2> HIDE DEF F, G
  <2> QED
    BY <1>1, <1>5
<1>7. F(m) = f[x] + F(r) /\ G(m) = g[x] + G(r)
  BY <1>2, <1>4, SumRemove
<1>8. F(r) \in Nat /\ G(r) \in Nat
  <2> HIDE DEF r
  <2> QED
    BY <1>2, <1>5, SumNat
<1>9. G(m \cap T) = f[x] + G(r \cap T)
  <2>1. CASE x \in T
    <3>1. /\ IsFiniteSet(m \cap T) /\ x \in m \cap T /\ (m \cap T) \ {x} = r \cap T
          /\ \A y \in m \cap T : g[y] \in Int
      BY <1>2, <1>4, <2>1, FS_Subset
    <3>2. G(m \cap T) = g[x] + G((m \cap T) \ {x})
      BY <3>1, SumRemove
    <3> HIDE DEF G, r
    <3> QED
      BY <2>1, <3>1, <3>2
  <2>2. CASE x \notin T
    <3>1. m \cap T = r \cap T /\ f[x] = 0
      BY <1>2, <1>4, <2>2
    <3>2. G(r \cap T) \in Int
      BY <1>6, <1>8
    <3>3. G(m \cap T) = G(r \cap T)
      BY <3>1
    <3> HIDE DEF F, G, r
    <3> QED
      BY <3>1, <3>2, <3>3
  <2> QED
    BY <2>1, <2>2
<1>10. f[x] \in Nat /\ g[x] \in Nat /\ f[x] <= g[x]
  BY <1>2, <1>4
<1>11. F(m) = G(m \cap T) /\ F(m) <= G(m)
  <2> HIDE DEF F, G, r
  <2> QED
    BY <1>6, <1>7, <1>8, <1>9, <1>10
<1> QED
  BY <1>1, <1>11

(* A set has as many elements as ones add up over it. *)
LEMMA SumOfOnes ==
    ASSUME NEW f, NEW S, IsFiniteSet(S), \A x \in S : f[x] = 1
    PROVE  SumFunctionOnSet(f, S) = Cardinality(S)
<1> DEFINE Bad == {s \in SUBSET S : SumFunctionOnSet(f, s) # Cardinality(s)}
<1> SUFFICES ASSUME Bad # {} PROVE FALSE
  OBVIOUS
<1>1. PICK m \in Bad : \A t \in Bad : t \subseteq m => t = m
  <2>1. Bad \subseteq SUBSET S
    OBVIOUS
  <2> HIDE DEF Bad
  <2> QED
    BY <2>1, MinimalSubset
<1>2. IsFiniteSet(m) /\ m \in SUBSET S /\ \A y \in m : f[y] = 1
  BY FS_Subset
<1>3. PICK x \in m : TRUE
  BY <1>1, SumEmpty, FS_EmptySet
<1>4. m \ {x} \in SUBSET S /\ m \ {x} \subseteq m /\ m \ {x} # m
  BY <1>2, <1>3
<1>5. SumFunctionOnSet(f, m \ {x}) = Cardinality(m \ {x})
  BY <1>1, <1>4
<1>6. SumFunctionOnSet(f, m) = 1 + SumFunctionOnSet(f, m \ {x})
  BY <1>2, <1>3, SumRemove
<1>7. Cardinality(m \ {x}) = Cardinality(m) - 1 /\ Cardinality(m) \in Nat
  BY <1>2, <1>3, FS_RemoveElement, FS_CardinalityType
<1> QED
  BY <1>1, <1>5, <1>6, <1>7

LEMMA SumNext ==
    ASSUME NEW f, NEW n \in Nat, \A i \in 1..(n + 1) : f[i] \in Int
    PROVE  SumFunctionOnSet(f, 1..(n + 1)) = SumFunctionOnSet(f, 1..n) + f[n + 1]
<1> DEFINE S == 1..n
           x == n + 1
<1>1. /\ 1..(n + 1) = S \cup {x} /\ x \notin S
      /\ f[x] \in Int /\ \A y \in S : f[y] \in Int
  OBVIOUS
<1>2. IsFiniteSet(S)
  <2>1. 1 \in Int /\ n \in Int
    OBVIOUS
  <2> QED
    BY <2>1, FS_Interval
<1> HIDE DEF S, x
<1>3. SumFunctionOnSet(f, S \cup {x}) = SumFunctionOnSet(f, S) + f[x]
  BY <1>1, <1>2, SumAdd
<1> QED
  BY <1>1, <1>3 DEF S, x

(* What is counted in two stretches is counted in one. *)
Joins(f, m, g, n, h) ==
    /\ m \in Nat /\ n \in Nat
    /\ \A k \in 1..(m + n) : h[k] \in Int
    /\ \A k \in 1..m : f[k] = h[k]
    /\ \A k \in 1..n : g[k] = h[m + k]

LEMMA SumJoin ==
    ASSUME NEW f, NEW g, NEW h, NEW m, NEW n, Joins(f, m, g, n, h)
    PROVE  SumFunctionOnSet(h, 1..(m + n))
             = SumFunctionOnSet(f, 1..m) + SumFunctionOnSet(g, 1..n)
<1> DEFINE F == SumFunctionOnSet(f, 1..m)
           G(k) == SumFunctionOnSet(g, 1..k)
           H(k) == SumFunctionOnSet(h, 1..(m + k))
           Bad == {k \in 0..n : H(k) # F + G(k)}
<1>0. /\ m \in Nat /\ n \in Nat
      /\ \A k \in 1..(m + n) : h[k] \in Int
      /\ \A k \in 1..m : f[k] = h[k]
      /\ \A k \in 1..n : g[k] = h[m + k]
  BY DEF Joins
<1> USE <1>0
<1> SUFFICES ASSUME Bad # {} PROVE FALSE
  <2>1. n \notin Bad => H(n) = F + G(n)
    <3> HIDE DEF F, G, H
    <3> QED
      OBVIOUS
  <2> QED
    BY <2>1
<1>1. PICK k \in Bad : \A j \in Bad : k <= j
  <2>1. Bad \subseteq Nat
    OBVIOUS
  <2> HIDE DEF Bad
  <2> QED
    BY <2>1, LeastElement
<1>2. k \in 0..n /\ H(k) # F + G(k)
  BY <1>1
<1>3. \A i \in 0..n : IsFiniteSet(1..i) /\ IsFiniteSet(1..(m + i))
  <2> TAKE i \in 0..n
  <2>1. 1 \in Int /\ i \in Int /\ m + i \in Int
    OBVIOUS
  <2> QED
    BY <2>1, FS_Interval
<1>4. \A i \in 0..n : F \in Int /\ G(i) \in Int
  <2> TAKE i \in 0..n
  <2>1. \A j \in 1..m : f[j] \in Int
    <3> TAKE j \in 1..m
    <3>1. j \in 1..(m + n) /\ f[j] = h[j]
      OBVIOUS
    <3> QED
      BY <3>1
  <2>2. \A j \in 1..i : g[j] \in Int
    OBVIOUS
  <2>3. IsFiniteSet(1..m)
    BY <1>3
  <2> QED
    BY <1>3, <2>1, <2>2, <2>3, SumType
<1>5. k # 0
  <2>1. H(0) = F
    <3>1. m + 0 = m /\ IsFiniteSet(1..m) /\ \A i \in 1..m : f[i] = h[i]
      BY <1>3
    <3> QED
      BY <3>1, SumSame
  <2>2. 1..0 = {}
    OBVIOUS
  <2>3. G(0) = 0
    BY <2>2, SumEmpty
  <2> HIDE DEF F, G, H
  <2>4. H(0) = F + G(0)
    BY <2>1, <2>3, <1>4
  <2> QED
    BY <1>2, <2>4
<1> DEFINE j == k - 1
<1>6. j \in 0..n /\ k = j + 1 /\ j + 1 \in 1..n /\ j < k
  BY <1>2, <1>5
<1>7. H(j) = F + G(j)
  <2> SUFFICES ASSUME H(j) # F + G(j) PROVE FALSE
    OBVIOUS
  <2>1. j \in Bad
    BY <1>6
  <2> QED
    BY <1>1, <1>6, <2>1
<1> HIDE DEF j
<1>a. \A i \in 1..n : g[i] \in Int
  <2> TAKE i \in 1..n
  <2>1. m + i \in 1..(m + n) /\ g[i] = h[m + i]
    OBVIOUS
  <2> QED
    BY <2>1
<1>b. k \in 1..n /\ j \in 0..n
  BY <1>2, <1>5, <1>6
<1>8. G(k) = G(j) + g[k]
  <2>1. j \in Nat /\ k = j + 1 /\ \A i \in 1..(j + 1) : g[i] \in Int
    BY <1>a, <1>b, <1>6
  <2> QED
    BY <2>1, SumNext
<1>9. H(k) = H(j) + h[m + k]
  <2>1. m + j \in Nat /\ m + k = (m + j) + 1 /\ \A i \in 1..((m + j) + 1) : h[i] \in Int
    BY <1>b, <1>6
  <2>2. SumFunctionOnSet(h, 1..((m + j) + 1)) = SumFunctionOnSet(h, 1..(m + j)) + h[(m + j) + 1]
    BY <2>1, SumNext
  <2> QED
    BY <2>1, <2>2
<1>10. g[k] = h[m + k] /\ h[m + k] \in Int
  BY <1>2, <1>5
<1> HIDE DEF F, G, H
<1>11. H(k) = F + G(k)
  BY <1>4, <1>6, <1>7, <1>8, <1>9, <1>10
<1> QED
  BY <1>2, <1>11

LEMMA SpentType ==
    ASSUME NEW rows \in Seq(Rows), NEW w \in [Rows -> Nat]
    PROVE  Spent(rows, w) \in Nat
<1> DEFINE f == [k \in DOMAIN rows |-> w[rows[k]]]
<1>1. \A k \in DOMAIN rows : f[k] \in Nat
  BY Places
<1> HIDE DEF f
<1>2. SumFunctionOnSet(f, DOMAIN rows) \in Nat
  BY <1>1, Places, SumNat
<1> QED
  BY <1>2 DEF Spent, f

LEMMA SpentNothing ==
    ASSUME NEW w PROVE Spent(<<>>, w) = 0
<1>1. DOMAIN <<>> = {}
  BY EmptySeq
<1> QED
  BY <1>1, SumEmpty DEF Spent

LEMMA SpentJoin ==
    ASSUME NEW a \in Seq(Rows), NEW b \in Seq(Rows), NEW w \in [Rows -> Nat]
    PROVE  Spent(a \o b, w) = Spent(a, w) + Spent(b, w)
<1> DEFINE c == a \o b
           m == Len(a)
           n == Len(b)
           f == [k \in DOMAIN a |-> w[a[k]]]
           g == [k \in DOMAIN b |-> w[b[k]]]
           h == [k \in DOMAIN c |-> w[c[k]]]
<1>1. /\ c \in Seq(Rows) /\ Len(c) = m + n /\ m \in Nat /\ n \in Nat
      /\ \A k \in 1..(m + n) : c[k] = IF k <= m THEN a[k] ELSE b[k - m]
  BY ConcatProperties, LenProperties
<1>2. DOMAIN a = 1..m /\ DOMAIN b = 1..n /\ DOMAIN c = 1..(m + n)
  BY <1>1, LenProperties
<1>3. \A k \in 1..(m + n) : c[k] \in Rows
  BY <1>1, <1>2, Places
<1>4. \A k \in 1..(m + n) : h[k] \in Int /\ h[k] = w[c[k]]
  <2> HIDE DEF c, m, n
  <2> QED
    BY <1>2, <1>3
<1>5. \A k \in 1..m : f[k] = h[k]
  <2> TAKE k \in 1..m
  <2>1. k \in 1..(m + n) /\ c[k] = a[k]
    BY <1>1
  <2> HIDE DEF c, m, n
  <2> QED
    BY <1>2, <1>4, <2>1
<1>6. \A k \in 1..n : g[k] = h[m + k]
  <2> TAKE k \in 1..n
  <2>1. m + k \in 1..(m + n) /\ c[m + k] = b[k]
    <3>1. m + k \in 1..(m + n) /\ ~(m + k <= m) /\ (m + k) - m = k
      BY <1>1
    <3> QED
      BY <1>1, <3>1
  <2> HIDE DEF c, m, n
  <2> QED
    BY <1>2, <1>4, <2>1
<1> HIDE DEF c, m, n, f, g, h
<1>7. SumFunctionOnSet(h, 1..(m + n)) = SumFunctionOnSet(f, 1..m) + SumFunctionOnSet(g, 1..n)
  <2>1. Joins(f, m, g, n, h)
    BY <1>1, <1>4, <1>5, <1>6 DEF Joins
  <2> QED
    BY <2>1, SumJoin
<1>8. /\ Spent(c, w) = SumFunctionOnSet(h, 1..(m + n))
      /\ Spent(a, w) = SumFunctionOnSet(f, 1..m)
      /\ Spent(b, w) = SumFunctionOnSet(g, 1..n)
  BY <1>2 DEF Spent, f, g, h
<1> QED
  BY <1>7, <1>8 DEF c

LEMMA SpentAppend ==
    ASSUME NEW rows \in Seq(Rows), NEW r \in Rows, NEW w \in [Rows -> Nat]
    PROVE  Spent(Append(rows, r), w) = Spent(rows, w) + w[r]
<1> DEFINE f == [k \in DOMAIN <<r>> |-> w[<<r>>[k]]]
<1>1. <<r>> \in Seq(Rows) /\ Append(rows, r) = rows \o <<r>>
  BY AppendIsConcat
<1>2. Spent(Append(rows, r), w) = Spent(rows, w) + Spent(<<r>>, w)
  BY <1>1, SpentJoin
<1>3. DOMAIN <<r>> = {} \cup {1} /\ f[1] = w[r] /\ w[r] \in Int
  OBVIOUS
<1> HIDE DEF f
<1>4. SumFunctionOnSet(f, {} \cup {1}) = SumFunctionOnSet(f, {}) + f[1]
  <2>1. f[1] \in Int
    BY <1>3
  <2> QED
    BY <2>1, FS_EmptySet, SumAdd
<1>5. SumFunctionOnSet(f, {}) = 0
  BY SumEmpty
<1>6. Spent(<<r>>, w) = SumFunctionOnSet(f, {} \cup {1})
  BY <1>3 DEF Spent, f
<1>7. Spent(<<r>>, w) = w[r]
  BY <1>3, <1>4, <1>5, <1>6
<1> QED
  BY <1>2, <1>7

-----------------------------------------------------------------------------
(* What the readings of a meter are and how a row changes them. *)
LEMMA ChargeIs ==
    ASSUME NEW g, IsMeter(g), NEW x
    PROVE  /\ Charge(g, x) \in [Rows -> Nat]
           /\ \A r \in Rows : Charge(g, x)[r] = IF g.unit[r.day] = x THEN g.price[r] ELSE 0
<1>1. \A r \in Rows : g.price[r] \in Nat
  BY DEF IsMeter, Meters
<1> QED
  BY <1>1 DEF Charge

LEMMA ReadingType ==
    ASSUME NEW g, IsMeter(g), NEW rows \in Seq(Rows), NEW x
    PROVE  Reading(g, rows, x) \in Nat
  BY ChargeIs, SpentType DEF Reading

LEMMA ReadingNothing ==
    ASSUME NEW g, NEW x PROVE Reading(g, <<>>, x) = 0
  BY SpentNothing DEF Reading

LEMMA ReadingJoin ==
    ASSUME NEW g, IsMeter(g), NEW a \in Seq(Rows), NEW b \in Seq(Rows), NEW x
    PROVE  Reading(g, a \o b, x) = Reading(g, a, x) + Reading(g, b, x)
  BY ChargeIs, SpentJoin DEF Reading

LEMMA ReadingAppend ==
    ASSUME NEW g, IsMeter(g), NEW rows \in Seq(Rows), NEW r \in Rows, NEW x
    PROVE  LET c == Charge(g, x)[r]
           IN  /\ Reading(g, Append(rows, r), x) = Reading(g, rows, x) + c
               /\ c \in Nat /\ c <= g.most
               /\ x # g.unit[r.day] => c = 0
<1>1. /\ Charge(g, x) \in [Rows -> Nat] /\ Charge(g, x)[r] \in Nat
      /\ Charge(g, x)[r] = IF g.unit[r.day] = x THEN g.price[r] ELSE 0
  BY ChargeIs
<1>2. Reading(g, Append(rows, r), x) = Reading(g, rows, x) + Charge(g, x)[r]
  BY <1>1, SpentAppend DEF Reading
<1>3. g.price[r] <= g.most /\ 0 <= g.most
  BY DEF IsMeter, Meters
<1> QED
  BY <1>1, <1>2, <1>3

-----------------------------------------------------------------------------
(* The largest of finitely many costs. *)
LEMMA LargestIs ==
    ASSUME NEW S, IsFiniteSet(S), S \subseteq Nat, S # {}
    PROVE  Max(S) \in S /\ \A y \in S : y <= Max(S)
<1> DEFINE Top(s) == \E x \in s : \A y \in s : y <= x
           Bad == {s \in SUBSET S : s # {} /\ ~Top(s)}
<1>1. Top(S)
  <2> SUFFICES ASSUME Bad # {} PROVE FALSE
    <3> HIDE DEF Top
    <3> QED
      OBVIOUS
  <2>1. PICK m \in Bad : \A t \in Bad : t \subseteq m => t = m
    <3>1. Bad \subseteq SUBSET S
      OBVIOUS
    <3> HIDE DEF Bad
    <3> QED
      BY ONLY <3>1, MinimalSubset, IsFiniteSet(S), Bad # {}
  <2>2. m \subseteq S /\ m # {} /\ ~Top(m)
    BY <2>1
  <2>3. PICK x \in m : x \in Nat
    BY <2>2
  <2> DEFINE r == m \ {x}
  <2>4. r # {}
    BY <2>2, <2>3
  <2>5. Top(r)
    <3> HIDE DEF Top
    <3> SUFFICES ASSUME ~Top(r) PROVE FALSE
      OBVIOUS
    <3>1. r \in Bad /\ r \subseteq m /\ r # m
      BY <2>2, <2>3, <2>4
    <3> QED
      BY <2>1, <3>1
  <2>6. PICK z \in r : \A y \in r : y <= z
    BY <2>5
  <2>7. z \in m /\ z \in Nat /\ m \subseteq Nat
    BY <2>2, <2>6
  <2>8. z <= x \/ x <= z
    BY <2>3, <2>7
  <2> QED
    BY <2>2, <2>3, <2>6, <2>7, <2>8
<1>2. \E x \in S : \A y \in S : x >= y
  BY <1>1
<1> QED
  BY <1>2 DEF Max

LEMMA MonthOf ==
    ASSUME NEW d \in Nat
    PROVE  /\ Month(d) \in Nat
           /\ MonthStart(d) \in Nat /\ MonthStart(d) <= d
           /\ d < MonthStart(d) + DaysPerMonth
<1>1. DaysPerMonth \in Nat \ {0}
  BY AdviceAssumption
<1> QED
  BY <1>1 DEF Month, MonthStart

LEMMA MonthsGoOn ==
    ASSUME NEW d \in Nat, NEW e \in Nat, d <= e
    PROVE  Month(d) <= Month(e) /\ MonthStart(d) <= MonthStart(e)
<1> DEFINE n == DaysPerMonth
           a == Month(d)
           b == Month(e)
<1>1. n \in Nat \ {0} /\ a \in Nat /\ b \in Nat /\ a * n <= d /\ e < b * n + n
  BY AdviceAssumption, MonthOf DEF MonthStart
<1> HIDE DEF n, a, b
<1>2. a <= b
  <2> SUFFICES ASSUME b + 1 <= a PROVE FALSE
    BY <1>1
  <2>1. (b + 1) * n <= a * n
    BY <1>1
  <2>2. (b + 1) * n = b * n + n /\ b * n \in Nat /\ a * n \in Nat
    BY <1>1
  <2> HIDE DEF n, a, b
  <2> QED
    BY <1>1, <2>1, <2>2
<1>3. a * n <= b * n
  BY <1>1, <1>2
<1> QED
  BY <1>2, <1>3 DEF MonthStart, n, a, b

LEMMA CapIs ==
    Max({MonthlyUsdCap, 1}) \in Nat \ {0} /\ MonthlyUsdCap <= Max({MonthlyUsdCap, 1})
<1>1. IsFiniteSet({MonthlyUsdCap, 1})
  <2>1. IsFiniteSet({} \cup {MonthlyUsdCap})
    BY FS_EmptySet, FS_AddElement
  <2>2. IsFiniteSet(({} \cup {MonthlyUsdCap}) \cup {1})
    BY <2>1, FS_AddElement
  <2>3. ({} \cup {MonthlyUsdCap}) \cup {1} = {MonthlyUsdCap, 1}
    OBVIOUS
  <2> QED
    BY <2>2, <2>3
<1>2. {MonthlyUsdCap, 1} \subseteq Nat /\ {MonthlyUsdCap, 1} # {}
  BY AdviceAssumption
<1> DEFINE top == Max({MonthlyUsdCap, 1})
<1>3. top \in {MonthlyUsdCap, 1} /\ \A y \in {MonthlyUsdCap, 1} : y <= top
  BY <1>1, <1>2, LargestIs
<1> HIDE DEF top
<1> QED
  BY <1>2, <1>3 DEF top

LEMMA MetersAre == IsMeter(CallMeter) /\ IsMeter(CostMeter)
<1>1. \A d \in 0..MaxDay : d \in Nat /\ Month(d) \in Nat
  <2> TAKE d \in 0..MaxDay
  <2>1. d \in Nat
    OBVIOUS
  <2> QED
    BY <2>1, MonthOf
<1>2. \A d, e \in 0..MaxDay : d <= e => Month(d) <= Month(e)
  BY <1>1, MonthsGoOn
<1>3. IsMeter(CallMeter)
  BY <1>1, AdviceAssumption DEF IsMeter, Meters, CallMeter
<1>4. Max(Costs) \in Nat /\ \A c \in Costs : c \in Nat /\ c <= Max(Costs)
  BY AdviceAssumption, LargestIs
<1>5. Max({MonthlyUsdCap, 1}) \in Nat \ {0}
  BY CapIs
<1>6. \A r \in Rows : r.cost \in Costs
  BY DEF Rows
<1> DEFINE cap == Max({MonthlyUsdCap, 1})
           most == Max(Costs)
<1>7. CostMeter = [cap |-> cap, most |-> most,
                   unit |-> [d \in 0..MaxDay |-> Month(d)], price |-> [r \in Rows |-> r.cost]]
  BY DEF CostMeter
<1> HIDE DEF cap, most
<1>8. IsMeter(CostMeter)
  BY <1>1, <1>2, <1>4, <1>5, <1>6, <1>7 DEF IsMeter, Meters, cap, most
<1> QED
  BY <1>3, <1>8

-----------------------------------------------------------------------------
(* The meters read what the budget and the property add up. *)
LEMMA CallsRead ==
    ASSUME NEW rows \in Seq(Rows), NEW d \in 0..MaxDay
    PROVE  Cardinality({k \in DOMAIN rows : rows[k].day = d}) = Reading(CallMeter, rows, d)
<1> DEFINE S == DOMAIN rows
           T == {k \in S : rows[k].day = d}
           f == [k \in S |-> Charge(CallMeter, d)[rows[k]]]
           g == [k \in S |-> 1]
<1>1. \A k \in S : rows[k] \in Rows /\ rows[k].day \in 0..MaxDay
  BY Places DEF Rows
<1>2. \A k \in S : f[k] = IF rows[k].day = d THEN 1 ELSE 0
  BY <1>1 DEF Charge, CallMeter
<1>3. IsPart(f, T, g, S) /\ IsFiniteSet(S) /\ T \in SUBSET S
  BY <1>2, Places DEF IsPart
<1>4. \A k \in T : g[k] = 1
  OBVIOUS
<1>5. Reading(CallMeter, rows, d) = SumFunctionOnSet(f, S)
  BY DEF Reading, Spent
<1> HIDE DEF S, T, f, g
<1>6. SumFunctionOnSet(f, S) = SumFunctionOnSet(g, T)
  BY <1>3, SumPart
<1>7. SumFunctionOnSet(g, T) = Cardinality(T)
  BY <1>3, <1>4, FS_Subset, SumOfOnes
<1> QED
  BY <1>5, <1>6, <1>7 DEF S, T

LEMMA BillsRead ==
    ASSUME NEW rows \in Seq(Rows), NEW m \in Nat
    PROVE  SumCost(rows, {k \in DOMAIN rows : Month(rows[k].day) = m}) = Reading(CostMeter, rows, m)
<1> DEFINE S == DOMAIN rows
           T == {k \in S : Month(rows[k].day) = m}
           f == [k \in S |-> Charge(CostMeter, m)[rows[k]]]
           g == [k \in S |-> rows[k].cost]
<1>1. \A k \in S : rows[k] \in Rows /\ rows[k].day \in 0..MaxDay /\ rows[k].cost \in Nat
  BY Places, AdviceAssumption DEF Rows
<1>2. \A k \in S : f[k] = IF Month(rows[k].day) = m THEN rows[k].cost ELSE 0
  BY <1>1 DEF Charge, CostMeter
<1>3. IsPart(f, T, g, S) /\ IsFiniteSet(S) /\ T \in SUBSET S
  BY <1>1, <1>2, Places DEF IsPart
<1>4. SumCost(rows, T) = SumFunctionOnSet(g, T)
  BY DEF SumCost
<1>5. Reading(CostMeter, rows, m) = SumFunctionOnSet(f, S)
  BY DEF Reading, Spent
<1> HIDE DEF S, T, f, g
<1>6. SumFunctionOnSet(f, S) = SumFunctionOnSet(g, T)
  BY <1>3, SumPart
<1> QED
  BY <1>4, <1>5, <1>6 DEF S, T

(***************************************************************************)
(* A call that finds its budget finds both meters below their caps for the *)
(* present day and month, even when the cycle began on an earlier day.     *)
(***************************************************************************)
LEMMA BudgetTells ==
    ASSUME NEW rows \in Seq(Rows), NEW now \in Nat, NEW d \in 0..MaxDay, now <= d,
           WithinBudget(rows, now)
    PROVE  /\ Reading(CallMeter, rows, d) < CallMeter.cap
           /\ Reading(CostMeter, rows, Month(d)) < CostMeter.cap
<1> DEFINE S == DOMAIN rows
           days == {k \in S : rows[k].day = d}
           since == {k \in S : rows[k].day >= now}
           bills == {k \in S : Month(rows[k].day) = Month(d)}
           month == {k \in S : rows[k].day >= MonthStart(now)}
           g == [k \in S |-> rows[k].cost]
<1>1. \A k \in S : rows[k] \in Rows /\ rows[k].day \in Nat /\ rows[k].cost \in Nat
  <2>1. Costs \subseteq Nat /\ 0..MaxDay \subseteq Nat
    BY AdviceAssumption
  <2>2. \A r \in Rows : r.day \in 0..MaxDay /\ r.cost \in Costs
    BY DEF Rows
  <2>3. \A k \in S : rows[k] \in Rows
    BY Places
  <2> QED
    BY <2>1, <2>2, <2>3
<1>2. /\ Cardinality(since) < DailyCallCap
      /\ SumCost(rows, month) < MonthlyUsdCap
  BY DEF WithinBudget, WithinDailyCap, CountSince, SumCostSince
<1>3. d \in Nat /\ DailyCallCap \in Nat /\ MonthlyUsdCap \in Nat /\ IsFiniteSet(S)
  BY AdviceAssumption, Places
<1>4. days \in SUBSET since /\ IsFiniteSet(since)
  BY <1>1, <1>3, FS_Subset
<1>5. bills \in SUBSET month /\ month \in SUBSET S
  <2> SUFFICES ASSUME NEW k \in bills PROVE k \in month
    OBVIOUS
  <2>1. /\ rows[k].day \in Nat /\ MonthStart(rows[k].day) = MonthStart(d)
        /\ MonthStart(rows[k].day) <= rows[k].day
    BY <1>1, MonthOf DEF MonthStart
  <2>2. MonthStart(now) <= MonthStart(d) /\ MonthStart(now) \in Nat /\ MonthStart(d) \in Nat
    BY <1>3, MonthsGoOn, MonthOf
  <2>3. rows[k].day >= MonthStart(now)
    BY <2>1, <2>2
  <2> QED
    BY <2>3
<1>6. Reading(CallMeter, rows, d) < CallMeter.cap
  <2>1. Cardinality(days) <= Cardinality(since) /\ Cardinality(since) \in Nat
        /\ Cardinality(days) \in Nat
    <3> HIDE DEF days, since
    <3> QED
      BY <1>4, FS_Subset, FS_CardinalityType
  <2>2. Reading(CallMeter, rows, d) = Cardinality(days)
    BY CallsRead
  <2>3. CallMeter.cap = DailyCallCap
    BY DEF CallMeter
  <2> HIDE DEF days, since
  <2> QED
    BY <1>2, <1>3, <2>1, <2>2, <2>3
<1>7. Reading(CostMeter, rows, Month(d)) < CostMeter.cap
  <2> DEFINE f == [k \in month |-> IF k \in bills THEN rows[k].cost ELSE 0]
  <2>1. /\ IsPart(f, bills, g, month) /\ IsFiniteSet(month)
        /\ \A k \in month : f[k] \in Nat /\ g[k] \in Nat
    <3>1. IsFiniteSet(month)
      BY <1>3, <1>5, FS_Subset
    <3>2. \A k \in month : k \in S /\ rows[k].cost \in Nat
      BY <1>1, <1>5
    <3> HIDE DEF S, bills, month
    <3> QED
      BY <3>1, <3>2, <1>5 DEF IsPart
  <2>2. SumCost(rows, month) = SumFunctionOnSet(g, month)
    BY DEF SumCost
  <2>3. SumCost(rows, bills) = SumFunctionOnSet(g, bills)
    BY DEF SumCost
  <2>4. SumCost(rows, bills) = Reading(CostMeter, rows, Month(d))
    BY <1>3, MonthOf, BillsRead
  <2> HIDE DEF S, bills, month, f, g
  <2>5. /\ SumFunctionOnSet(f, month) = SumFunctionOnSet(g, bills)
        /\ SumFunctionOnSet(f, month) <= SumFunctionOnSet(g, month)
    BY <1>5, <2>1, SumPart
  <2>6. CostMeter.cap >= MonthlyUsdCap
    <3> DEFINE top == Max({MonthlyUsdCap, 1})
    <3>1. top \in Nat /\ top >= MonthlyUsdCap
      BY <1>3, CapIs
    <3>2. CostMeter.cap = top
      BY DEF CostMeter
    <3> HIDE DEF top
    <3> QED
      BY <3>1, <3>2
  <2>7. /\ SumFunctionOnSet(f, month) \in Nat /\ SumFunctionOnSet(g, month) \in Nat
        /\ CostMeter.cap \in Nat
    BY <2>1, SumNat, MetersAre DEF IsMeter, Meters
  <2>8. /\ SumFunctionOnSet(g, month) < MonthlyUsdCap
        /\ Reading(CostMeter, rows, Month(d)) <= SumFunctionOnSet(g, month)
    BY <1>2, <2>2, <2>3, <2>4, <2>5
  <2>9. Reading(CostMeter, rows, Month(d)) \in Nat
    BY MetersAre, ReadingType
  <2> QED
    BY <1>3, <2>6, <2>7, <2>8, <2>9
<1> QED
  BY <1>6, <1>7

-----------------------------------------------------------------------------
(***************************************************************************)
(* Day d, committed rows a, rows o that writer w has not committed, and    *)
(* the commands S that wait for an answer or to record it: each command    *)
(* that does not wait leaves room for a call of its own above the cap.  A  *)
(* writer that waits found the cap unreached by all there is, and one that *)
(* does not is at most a call above it while the rest is below.            *)
(***************************************************************************)
Room(g, S) == Cardinality(Procs \ S) * g.most

WithinUnit(g, now, x, a, o, w, S) ==
    LET K == Reading(g, a, x)
        T == K + Reading(g, o, x)
    IN  /\ x > now => T = 0
        /\ x < now => T < g.cap + Room(g, {})
        /\ x = now => /\ T < g.cap + Room(g, S)
                      /\ w \in S => T < g.cap
                      /\ K < g.cap => T < g.cap + g.most

Within(g, d, a, o, w, S) ==
    /\ S # {} => g.cap > 0
    /\ \A x \in Nat : WithinUnit(g, g.unit[d], x, a, o, w, S)

LEMMA RoomIs ==
    ASSUME NEW g, IsMeter(g), NEW S \in SUBSET Procs
    PROVE  /\ Room(g, S) \in Nat /\ Room(g, S) <= Room(g, {})
           /\ \A p \in Procs \ S : Room(g, S) = Room(g, S \cup {p}) + g.most
           /\ Room(g, {}) >= g.most
<1>1. g.most \in Nat /\ IsFiniteSet(Procs)
  BY AdviceAssumption DEF IsMeter, Meters
<1>2. \A T \in SUBSET Procs : /\ Cardinality(Procs \ T) \in Nat /\ IsFiniteSet(Procs \ T)
                              /\ Room(g, T) \in Nat
  <2> TAKE T \in SUBSET Procs
  <2>1. Procs \ T \in SUBSET Procs
    OBVIOUS
  <2>2. Cardinality(Procs \ T) \in Nat /\ IsFiniteSet(Procs \ T)
    BY <1>1, <2>1, FS_Subset, FS_CardinalityType
  <2> QED
    BY <1>1, <2>2 DEF Room
<1>3. \A m, n \in Nat : m <= n => m * g.most <= n * g.most
  BY <1>1
<1>4. \A n \in Nat : n # 0 => n * g.most = (n - 1) * g.most + g.most /\ (n - 1) * g.most \in Nat
  BY <1>1
<1>5. ASSUME NEW T \in SUBSET Procs, NEW p \in Procs \ T
      PROVE  Room(g, T) = Room(g, T \cup {p}) + g.most
  <2> DEFINE n == Cardinality(Procs \ T)
  <2>1. Procs \ (T \cup {p}) = (Procs \ T) \ {p} /\ p \in Procs \ T
    OBVIOUS
  <2>2. Cardinality((Procs \ T) \ {p}) = n - 1 /\ n \in Nat
    BY <1>2, <2>1, FS_RemoveElement
  <2>3. n - 1 \in Nat
    <3>1. IsFiniteSet((Procs \ T) \ {p})
      BY <1>2, FS_RemoveElement
    <3> QED
      BY <2>2, <3>1, FS_CardinalityType
  <2>4. Room(g, T) = n * g.most /\ Room(g, T \cup {p}) = (n - 1) * g.most
    BY <2>1, <2>2 DEF Room
  <2> HIDE DEF n
  <2>5. n # 0
    BY <2>2, <2>3
  <2> QED
    BY <1>1, <1>4, <2>2, <2>4, <2>5
<1>6. Room(g, S) <= Room(g, {})
  <2>1. Procs \ S \in SUBSET (Procs \ {}) /\ IsFiniteSet(Procs \ {})
    BY <1>2
  <2>2. Cardinality(Procs \ S) <= Cardinality(Procs \ {})
    BY <2>1, FS_Subset
  <2> QED
    BY <1>2, <1>3, <2>2 DEF Room
<1>7. Room(g, {}) >= g.most
  <2>1. PICK p \in Procs : TRUE
    BY AdviceAssumption
  <2>2. Room(g, {}) = Room(g, {} \cup {p}) + g.most /\ Room(g, {} \cup {p}) \in Nat
    BY <1>2, <1>5
  <2> QED
    BY <1>1, <2>2
<1> QED
  BY <1>2, <1>5, <1>6, <1>7

LEMMA RoomLarger ==
    ASSUME NEW g, IsMeter(g), NEW S \in SUBSET Procs, NEW T \in SUBSET S
    PROVE  Room(g, S) <= Room(g, T)
<1>1. g.most \in Nat /\ IsFiniteSet(Procs)
  BY AdviceAssumption DEF IsMeter, Meters
<1>2. \A m, n \in Nat : m <= n => m * g.most <= n * g.most
  BY <1>1
<1>3. Procs \ S \in SUBSET (Procs \ T) /\ IsFiniteSet(Procs \ T) /\ IsFiniteSet(Procs \ S)
  <2>1. Procs \ T \in SUBSET Procs /\ Procs \ S \in SUBSET Procs
    OBVIOUS
  <2> QED
    BY <1>1, <2>1, FS_Subset
<1>4. /\ Cardinality(Procs \ S) <= Cardinality(Procs \ T)
      /\ Cardinality(Procs \ S) \in Nat /\ Cardinality(Procs \ T) \in Nat
  BY <1>3, FS_Subset, FS_CardinalityType
<1> QED
  BY <1>2, <1>4 DEF Room

(* The numbers of a unit, by name. *)
LEMMA UnitIs ==
    ASSUME NEW g, IsMeter(g), NEW a \in Seq(Rows), NEW o \in Seq(Rows), NEW x
    PROVE  /\ g.cap \in Nat /\ g.most \in Nat
           /\ Reading(g, a, x) \in Nat /\ Reading(g, o, x) \in Nat
           /\ Reading(g, <<>>, x) = 0
  BY ReadingType, ReadingNothing DEF IsMeter, Meters

(* Rows are rolled back, commands stop waiting, the lock changes hands. *)
LEMMA Eases ==
    ASSUME NEW g, IsMeter(g), NEW d \in 0..MaxDay, NEW a \in Seq(Rows), NEW o \in Seq(Rows),
           NEW w, NEW S \in SUBSET Procs, Within(g, d, a, o, w, S),
           NEW b \in {o, <<>>}, NEW v, NEW T \in SUBSET S, v \in T => v = w
    PROVE  Within(g, d, a, b, v, T)
<1>1. T # {} => g.cap > 0
  BY DEF Within
<1>2. ASSUME NEW x \in Nat PROVE WithinUnit(g, g.unit[d], x, a, b, v, T)
  <2> DEFINE K == Reading(g, a, x)
             O == Reading(g, o, x)
             B == Reading(g, b, x)
             now == g.unit[d]
  <2>1. /\ g.cap \in Nat /\ g.most \in Nat /\ K \in Nat /\ O \in Nat
        /\ B \in Nat /\ B <= O
    BY UnitIs
  <2>2. /\ Room(g, S) \in Nat /\ Room(g, T) \in Nat /\ Room(g, S) <= Room(g, T)
        /\ Room(g, {}) \in Nat
    BY RoomIs, RoomLarger
  <2>3. /\ x > now => K + O = 0
        /\ x < now => K + O < g.cap + Room(g, {})
        /\ x = now => /\ K + O < g.cap + Room(g, S)
                      /\ w \in S => K + O < g.cap
                      /\ K < g.cap => K + O < g.cap + g.most
    BY DEF Within, WithinUnit
  <2>4. v \in T => w \in S
    OBVIOUS
  <2> HIDE DEF K, O, B, now
  <2>6. K + B <= K + O /\ K + B \in Nat /\ K + O \in Nat
    BY <2>1
  <2>5. /\ x > now => K + B = 0
        /\ x < now => K + B < g.cap + Room(g, {})
        /\ x = now => /\ K + B < g.cap + Room(g, T)
                      /\ v \in T => K + B < g.cap
                      /\ K < g.cap => K + B < g.cap + g.most
    <3>1. x > now => K + B = 0
      BY <2>1, <2>3
    <3>2. x < now => K + B < g.cap + Room(g, {})
      BY <2>6, <2>1, <2>2, <2>3
    <3>3. x = now => K + B < g.cap + Room(g, T)
      BY <2>6, <2>1, <2>2, <2>3
    <3>4. x = now /\ v \in T => K + B < g.cap
      BY <2>6, <2>1, <2>3, <2>4
    <3>5. x = now /\ K < g.cap => K + B < g.cap + g.most
      BY <2>6, <2>1, <2>3
    <3> QED
      BY <3>1, <3>2, <3>3, <3>4, <3>5
  <2> QED
    BY <2>5 DEF WithinUnit, K, B, now
<1> QED
  BY <1>1, <1>2 DEF Within

(* A command finds its budget, in what is committed and in its own rows. *)
LEMMA Passes ==
    ASSUME NEW g, IsMeter(g), NEW d \in 0..MaxDay, NEW a \in Seq(Rows), NEW o \in Seq(Rows),
           NEW w, NEW S \in SUBSET Procs, Within(g, d, a, o, w, S),
           w \in Procs \/ o = <<>>,
           NEW p \in Procs \ S, NEW own \in Seq(Rows), w = p => own = o,
           Reading(g, a \o own, g.unit[d]) < g.cap
    PROVE  Within(g, d, a, o, w, S \cup {p})
<1> DEFINE now == g.unit[d]
           T == S \cup {p}
<1>1. Reading(g, a \o own, now) = Reading(g, a, now) + Reading(g, own, now)
  BY ReadingJoin
<1>2. Reading(g, own, now) \in Nat /\ Reading(g, a, now) \in Nat /\ g.cap \in Nat
  BY ReadingType, UnitIs
<1>3. Reading(g, a, now) < g.cap /\ g.cap > 0
  BY <1>1, <1>2
<1>4. ASSUME NEW x \in Nat PROVE WithinUnit(g, now, x, a, o, w, T)
  <2> DEFINE K == Reading(g, a, x)
             O == Reading(g, o, x)
  <2>1. /\ g.cap \in Nat /\ g.most \in Nat /\ K \in Nat /\ O \in Nat
        /\ o = <<>> => O = 0
    BY UnitIs
  <2>2. /\ Room(g, S) = Room(g, T) + g.most /\ Room(g, T) \in Nat /\ Room(g, {}) \in Nat
    BY RoomIs
  <2>3. /\ x > now => K + O = 0
        /\ x < now => K + O < g.cap + Room(g, {})
        /\ x = now => /\ K + O < g.cap + Room(g, S)
                      /\ w \in S => K + O < g.cap
                      /\ K < g.cap => K + O < g.cap + g.most
    BY DEF Within, WithinUnit
  <2>4. x = now => K < g.cap
    BY <1>3
  <2>5. x = now /\ w = p => K + O < g.cap
    BY <1>1, <2>1
  <2>6. w \in T <=> w \in S \/ w = p
    OBVIOUS
  <2>7. w \in Procs \ T => Room(g, T) >= g.most
    <3> SUFFICES ASSUME w \in Procs \ T PROVE Room(g, T) >= g.most
      OBVIOUS
    <3>1. T \in SUBSET Procs /\ T \cup {w} \in SUBSET Procs
      OBVIOUS
    <3>2. Room(g, T) = Room(g, T \cup {w}) + g.most /\ Room(g, T \cup {w}) \in Nat
      <4> HIDE DEF T
      <4> QED
        BY <3>1, RoomIs
    <3> QED
      BY <2>1, <3>2
  <2> HIDE DEF K, O, now, T
  <2>8. x = now => K + O < g.cap + Room(g, T)
    <3> SUFFICES ASSUME x = now PROVE K + O < g.cap + Room(g, T)
      OBVIOUS
    <3>1. CASE w \in T
      <4>1. K + O < g.cap
        BY <3>1, <2>3, <2>5, <2>6
      <4> QED
        BY ONLY <4>1, <2>1, <2>2
    <3>2. CASE w \in Procs \ T
      <4>1. K + O < g.cap + g.most /\ g.most <= Room(g, T)
        BY <3>2, <2>3, <2>4, <2>7
      <4> QED
        BY ONLY <4>1, <2>1, <2>2
    <3>3. CASE o = <<>>
      <4>1. K + O < g.cap
        BY <3>3, <2>1, <2>4
      <4> QED
        BY ONLY <4>1, <2>1, <2>2
    <3> QED
      BY <3>1, <3>2, <3>3
  <2>9. /\ x > now => K + O = 0
        /\ x < now => K + O < g.cap + Room(g, {})
        /\ x = now => /\ K + O < g.cap + Room(g, T)
                      /\ w \in T => K + O < g.cap
                      /\ K < g.cap => K + O < g.cap + g.most
    BY <2>3, <2>5, <2>6, <2>8
  <2> QED
    BY <2>9 DEF WithinUnit, K, O
<1> QED
  BY <1>3, <1>4 DEF Within

LEMMA OneMore ==
    ASSUME NEW s \in Nat, NEW u \in Nat, NEW cap \in Nat, NEW most \in Nat, NEW room \in Nat,
           s < cap + room, u <= s + most
    PROVE  u < cap + (room + most)
  OBVIOUS

(* A command records its call among rows that are not committed. *)
LEMMA RecordsOpen ==
    ASSUME NEW g, IsMeter(g), NEW d \in 0..MaxDay, NEW a \in Seq(Rows), NEW o \in Seq(Rows),
           NEW w, NEW S \in SUBSET Procs, Within(g, d, a, o, w, S),
           NEW p \in S, w = p \/ o = <<>>, NEW r \in Rows, r.day = d
    PROVE  Within(g, d, a, Append(o, r), p, S \ {p})
<1> DEFINE now == g.unit[d]
           T == S \ {p}
           b == Append(o, r)
<1>1. g.cap > 0
  BY DEF Within
<1>2. ASSUME NEW x \in Nat PROVE WithinUnit(g, now, x, a, b, p, T)
  <2> DEFINE K == Reading(g, a, x)
             O == Reading(g, o, x)
             B == Reading(g, b, x)
             c == Charge(g, x)[r]
  <2>1. /\ g.cap \in Nat /\ g.most \in Nat /\ K \in Nat /\ O \in Nat
        /\ o = <<>> => O = 0
    BY UnitIs
  <2>2. B = O + c /\ c \in Nat /\ c <= g.most /\ (x # now => c = 0)
    <3>1. /\ Reading(g, Append(o, r), x) = Reading(g, o, x) + c
          /\ c \in Nat /\ c <= g.most
          /\ x # g.unit[r.day] => c = 0
      BY ReadingAppend
    <3> HIDE DEF c
    <3> QED
      BY <3>1
  <2>3. Room(g, T) = Room(g, S) + g.most /\ Room(g, S) \in Nat
    <3>1. T \in SUBSET Procs /\ p \in Procs \ T /\ T \cup {p} = S
      OBVIOUS
    <3> HIDE DEF T
    <3> QED
      BY <3>1, RoomIs
  <2>4. /\ x > now => K + O = 0
        /\ x < now => K + O < g.cap + Room(g, {})
        /\ x = now => /\ K + O < g.cap + Room(g, S)
                      /\ w \in S => K + O < g.cap
                      /\ K < g.cap => K + O < g.cap + g.most
    BY DEF Within, WithinUnit
  <2>5. p \notin T /\ now \in Nat
    BY DEF IsMeter, Meters
  <2>6. x = now /\ K < g.cap => K + O < g.cap
    <3>1. CASE w = p
      BY <3>1, <2>4
    <3>2. CASE o = <<>>
      BY <3>2, <2>1
    <3> QED
      BY <3>1, <3>2
  <2> HIDE DEF K, O, B, c, now, T, b
  <2>7. /\ x > now => K + B = 0
        /\ x < now => K + B < g.cap + Room(g, {})
        /\ x = now => /\ K + B < g.cap + Room(g, T)
                      /\ K < g.cap => K + B < g.cap + g.most
    <3>1. CASE x = now
      <4>1. K + O < g.cap + Room(g, S) /\ K + B <= (K + O) + g.most
        BY ONLY <3>1, <2>1, <2>2, <2>4
      <4>2. K + B < g.cap + Room(g, T)
        <5>1. K + O \in Nat /\ K + B \in Nat
          BY ONLY <2>1, <2>2
        <5> QED
          BY ONLY <4>1, <5>1, <2>1, <2>3, OneMore
      <4>3. K < g.cap => K + B < g.cap + g.most
        BY ONLY <3>1, <4>1, <2>1, <2>2, <2>6
      <4> QED
        BY <3>1, <4>2, <4>3, <2>5
    <3>2. CASE x # now
      BY <3>2, <2>1, <2>2, <2>4, <2>5
    <3> QED
      BY <3>1, <3>2
  <2> QED
    BY <2>5, <2>7 DEF WithinUnit, K, B
<1> QED
  BY <1>1, <1>2 DEF Within

(* A command records its call and commits at once. *)
LEMMA RecordsAtOnce ==
    ASSUME NEW g, IsMeter(g), NEW d \in 0..MaxDay, NEW a \in Seq(Rows),
           NEW w, NEW S \in SUBSET Procs, Within(g, d, a, <<>>, w, S), w \notin S,
           NEW p \in S, NEW r \in Rows, r.day = d
    PROVE  Within(g, d, Append(a, r), <<>>, w, S \ {p})
<1> DEFINE now == g.unit[d]
           T == S \ {p}
           b == Append(a, r)
<1>1. g.cap > 0
  BY DEF Within
<1>2. ASSUME NEW x \in Nat PROVE WithinUnit(g, now, x, b, <<>>, w, T)
  <2> DEFINE K == Reading(g, a, x)
             O == Reading(g, <<>>, x)
             B == Reading(g, b, x)
             c == Charge(g, x)[r]
  <2>1. g.cap \in Nat /\ g.most \in Nat /\ K \in Nat /\ O = 0
    BY UnitIs, EmptySeq
  <2>2. B = K + c /\ c \in Nat /\ c <= g.most /\ (x # now => c = 0)
    <3>1. /\ Reading(g, Append(a, r), x) = Reading(g, a, x) + c
          /\ c \in Nat /\ c <= g.most
          /\ x # g.unit[r.day] => c = 0
      BY ReadingAppend
    <3> HIDE DEF c
    <3> QED
      BY <3>1
  <2>3. Room(g, T) = Room(g, S) + g.most /\ Room(g, S) \in Nat
    <3>1. T \in SUBSET Procs /\ p \in Procs \ T /\ T \cup {p} = S
      OBVIOUS
    <3> HIDE DEF T
    <3> QED
      BY <3>1, RoomIs
  <2>4. /\ x > now => K + O = 0
        /\ x < now => K + O < g.cap + Room(g, {})
        /\ x = now => K + O < g.cap + Room(g, S)
    BY DEF Within, WithinUnit
  <2>5. w \notin T /\ now \in Nat
    BY DEF IsMeter, Meters
  <2> HIDE DEF K, O, B, c, now, T, b
  <2>6. /\ x > now => B + O = 0
        /\ x < now => B + O < g.cap + Room(g, {})
        /\ x = now => /\ B + O < g.cap + Room(g, T)
                      /\ B < g.cap => B + O < g.cap + g.most
    <3>1. CASE x = now
      <4>1. K + O < g.cap + Room(g, S) /\ B + O <= (K + O) + g.most
        BY ONLY <3>1, <2>1, <2>2, <2>4
      <4>2. B + O < g.cap + Room(g, T)
        <5>1. K + O \in Nat /\ B + O \in Nat
          BY ONLY <2>1, <2>2
        <5> QED
          BY ONLY <4>1, <5>1, <2>1, <2>3, OneMore
      <4>3. B < g.cap => B + O < g.cap + g.most
        BY ONLY <2>1, <2>2
      <4> QED
        BY <3>1, <4>2, <4>3, <2>5
    <3>2. CASE x # now
      BY <3>2, <2>1, <2>2, <2>4, <2>5
    <3> QED
      BY <3>1, <3>2
  <2> QED
    BY <2>5, <2>6 DEF WithinUnit, O, B
<1> QED
  BY <1>1, <1>2 DEF Within

(* The writer commits its rows. *)
LEMMA Commits ==
    ASSUME NEW g, IsMeter(g), NEW d \in 0..MaxDay, NEW a \in Seq(Rows), NEW o \in Seq(Rows),
           NEW w, NEW S \in SUBSET Procs, Within(g, d, a, o, w, S), NEW v, v \notin S
    PROVE  Within(g, d, a \o o, <<>>, v, S)
<1> DEFINE now == g.unit[d]
           b == a \o o
<1>1. S # {} => g.cap > 0
  BY DEF Within
<1>2. ASSUME NEW x \in Nat PROVE WithinUnit(g, now, x, b, <<>>, v, S)
  <2> DEFINE K == Reading(g, a, x)
             O == Reading(g, o, x)
             B == Reading(g, b, x)
             Z == Reading(g, <<>>, x)
  <2>1. /\ g.cap \in Nat /\ g.most \in Nat /\ K \in Nat /\ O \in Nat /\ Z = 0
        /\ B = K + O
    BY UnitIs, ReadingJoin
  <2>2. /\ x > now => K + O = 0
        /\ x < now => K + O < g.cap + Room(g, {})
        /\ x = now => K + O < g.cap + Room(g, S)
    BY DEF Within, WithinUnit
  <2> HIDE DEF K, O, B, Z, now, b
  <2>3. /\ x > now => B + Z = 0
        /\ x < now => B + Z < g.cap + Room(g, {})
        /\ x = now => /\ B + Z < g.cap + Room(g, S)
                      /\ B < g.cap => B + Z < g.cap + g.most
    BY <2>1, <2>2
  <2> QED
    BY <2>3 DEF WithinUnit, B, Z
<1> QED
  BY <1>1, <1>2 DEF Within

(* Midnight, and at the end of a month the meter of costs starts anew. *)
LEMMA NextDay ==
    ASSUME NEW g, IsMeter(g), NEW d \in 0..MaxDay, d + 1 \in 0..MaxDay,
           NEW a \in Seq(Rows), NEW o \in Seq(Rows),
           NEW w, NEW S \in SUBSET Procs, Within(g, d, a, o, w, S)
    PROVE  Within(g, d + 1, a, o, w, S)
<1> DEFINE now == g.unit[d]
           next == g.unit[d + 1]
<1>1. S # {} => g.cap > 0
  BY DEF Within
<1>2. now \in Nat /\ next \in Nat /\ now <= next /\ (g.cap > 0 \/ g.most > 0)
  <2>1. d <= d + 1
    OBVIOUS
  <2>2. g.unit \in [0..MaxDay -> Nat]
    BY DEF IsMeter, Meters
  <2> QED
    BY <2>1, <2>2 DEF IsMeter
<1>3. ASSUME NEW x \in Nat PROVE WithinUnit(g, next, x, a, o, w, S)
  <2> DEFINE K == Reading(g, a, x)
             O == Reading(g, o, x)
  <2>1. g.cap \in Nat /\ g.most \in Nat /\ K \in Nat /\ O \in Nat
    BY UnitIs
  <2>2. /\ Room(g, S) \in Nat /\ Room(g, S) <= Room(g, {}) /\ Room(g, {}) >= g.most
        /\ Room(g, {}) \in Nat
    BY RoomIs
  <2>3. /\ x > now => K + O = 0
        /\ x < now => K + O < g.cap + Room(g, {})
        /\ x = now => /\ K + O < g.cap + Room(g, S)
                      /\ w \in S => K + O < g.cap
                      /\ K < g.cap => K + O < g.cap + g.most
    BY DEF Within, WithinUnit
  <2>4. S = {} => Room(g, S) = Room(g, {})
    OBVIOUS
  <2>5. w \in S => g.cap > 0
    BY <1>1
  <2> HIDE DEF K, O, now, next
  <2>6. g.cap + Room(g, S) > 0 /\ g.cap + Room(g, {}) > 0
    BY <1>1, <1>2, <2>1, <2>2, <2>4
  <2>7. /\ x > next => K + O = 0
        /\ x < next => K + O < g.cap + Room(g, {})
        /\ x = next => /\ K + O < g.cap + Room(g, S)
                       /\ w \in S => K + O < g.cap
                       /\ K < g.cap => K + O < g.cap + g.most
    <3>1. CASE now = next
      BY <3>1, <2>3
    <3>2. CASE now < next
      <4>1. /\ x > next => x > now
            /\ x < next => x > now \/ x = now \/ x < now
            /\ x = next => x > now
        BY <3>2, <1>2
      <4>2. x > now => K + O = 0 /\ K = 0
        BY <2>1, <2>3
      <4>3. x < next => K + O < g.cap + Room(g, {})
        <5>1. x = now => K + O < g.cap + Room(g, {})
          BY <2>1, <2>2, <2>3
        <5> QED
          BY <5>1, <2>1, <2>3, <2>6, <4>1, <4>2
      <4>4. x = next => /\ K + O < g.cap + Room(g, S)
                        /\ w \in S => K + O < g.cap
                        /\ K < g.cap => K + O < g.cap + g.most
        BY <2>1, <2>5, <2>6, <4>1, <4>2
      <4> QED
        BY <4>1, <4>2, <4>3, <4>4
    <3> QED
      BY <1>2, <3>1, <3>2
  <2> QED
    BY <2>7 DEF WithinUnit, K, O
<1> QED
  BY <1>1, <1>3 DEF Within

(* Nothing is spent, and nobody waits. *)
LEMMA Unspent ==
    ASSUME NEW g, IsMeter(g), NEW w PROVE Within(g, 0, <<>>, <<>>, w, {})
<1>1. 0 \in 0..MaxDay
  BY AdviceAssumption
<1>2. /\ g.cap \in Nat /\ g.most \in Nat /\ g.unit[0] \in Nat
      /\ Room(g, {}) \in Nat /\ Room(g, {}) >= g.most /\ (g.cap > 0 \/ g.most > 0)
  BY <1>1, RoomIs DEF IsMeter, Meters
<1>3. g.cap + Room(g, {}) > 0
  BY <1>2
<1>4. \A x \in Nat : Reading(g, <<>>, x) = 0
  BY ReadingNothing
<1>5. \A x \in Nat : WithinUnit(g, g.unit[0], x, <<>>, <<>>, w, {})
  BY <1>2, <1>3, <1>4 DEF WithinUnit
<1> QED
  BY <1>5 DEF Within

(* What is committed stays within the cap and a call of each command. *)
LEMMA CommittedStays ==
    ASSUME NEW g, IsMeter(g), NEW d \in 0..MaxDay, NEW a \in Seq(Rows), NEW o \in Seq(Rows),
           NEW w, NEW S \in SUBSET Procs, Within(g, d, a, o, w, S), NEW x \in Nat
    PROVE  Reading(g, a, x) < g.cap + Room(g, {})
<1> DEFINE K == Reading(g, a, x)
           O == Reading(g, o, x)
           now == g.unit[d]
<1>1. g.cap \in Nat /\ g.most \in Nat /\ K \in Nat /\ O \in Nat /\ now \in Nat
  BY UnitIs DEF IsMeter, Meters
<1>2. /\ Room(g, S) \in Nat /\ Room(g, S) <= Room(g, {}) /\ Room(g, {}) >= g.most
      /\ Room(g, {}) \in Nat /\ (g.cap > 0 \/ g.most > 0)
  BY RoomIs DEF IsMeter
<1>3. /\ x > now => K + O = 0
      /\ x < now => K + O < g.cap + Room(g, {})
      /\ x = now => K + O < g.cap + Room(g, S)
  BY DEF Within, WithinUnit
<1> HIDE DEF K, O, now
<1>4. K < g.cap + Room(g, {})
  BY <1>1, <1>2, <1>3
<1> QED
  BY <1>4 DEF K

-----------------------------------------------------------------------------
(***************************************************************************)
(* The meters as the commands go on.  A command waits from the moment its  *)
(* call found the budget until the call is recorded; the rows that are not *)
(* committed are those of the cycle with the write lock.                   *)
(***************************************************************************)
Waits(c) == c.cmd \in {"analyze", "recommend"} /\ c.pc \in {"call", "record"}

Waiting == {p \in Procs : Waits(proc[p])}

OpenRows ==
    IF writer \in Procs /\ proc[writer].cmd = "recommend" THEN proc[writer].rows ELSE <<>>

SpendInv ==
    /\ \A p \in Procs : proc[p].cmd = "recommend" => proc[p].now <= day
    /\ \A g \in {CallMeter, CostMeter} : Within(g, day, analyses, OpenRows, writer, Waiting)

LEMMA OpenIs ==
    ASSUME IInv
    PROVE  /\ OpenRows \in Seq(Rows) /\ Waiting \in SUBSET Procs
           /\ writer \in Procs \/ OpenRows = <<>>
           /\ \A p \in Procs : proc[p].cmd = "recommend" =>
                 proc[p].rows = IF writer = p THEN OpenRows ELSE <<>>
           /\ \A p \in Procs : writer = p /\ proc[p].cmd # "recommend" =>
                 OpenRows = <<>> /\ p \notin Waiting
           /\ day \in 0..MaxDay /\ analyses \in Seq(Rows)
<1>1. \A p \in Procs : proc[p].cmd = "recommend" =>
         proc[p].rows \in Seq(Rows) /\ (proc[p].rows = <<>> <=> writer # p)
  BY OfCycle
<1>2. OpenRows \in Seq(Rows)
  BY <1>1, EmptySeq DEF OpenRows
<1>3. \A p \in Procs : writer = p => proc[p].cmd # "analyze"
  BY Facts, Kinds
<1>4. \A p \in Procs : writer = p /\ proc[p].cmd # "recommend" => OpenRows = <<>> /\ p \notin Waiting
  BY <1>3 DEF OpenRows, Waiting, Waits
<1> QED
  BY <1>1, <1>2, <1>4 DEF OpenRows, Waiting, IInv, TablesInv

LEMMA DecidedNow ==
    ASSUME NEW c \in Cycles, NEW sig, NEW answer, NEW id
    PROVE  Decided(c, sig, answer, id).now = c.now
  BY DEF Decided, Cycles

(* The command p takes a step, the others do not. *)
Alone(p) == \A q \in Procs \ {p} : proc'[q] = proc[q]

LEMMA AloneMeans ==
    ASSUME NEW p \in Procs, Alone(p)
    PROVE  /\ Waiting' = (Waiting \ {p}) \cup {q \in {p} : Waits(proc'[p])}
           /\ writer' = p /\ proc'[p].cmd # "recommend" => OpenRows' = <<>>
           /\ writer' = p /\ proc'[p].cmd = "recommend" => OpenRows' = proc'[p].rows
           /\ writer' # p /\ writer' = writer => OpenRows' = OpenRows
           /\ writer' \notin Procs => OpenRows' = <<>>
<1>1. \A q \in Procs : Waits(proc[q])' <=> Waits(proc'[q])
  BY DEF Waits
<1>2. \A q \in Procs \ {p} : Waits(proc'[q]) <=> Waits(proc[q])
  BY DEF Alone
<1>3. Waiting' = {q \in Procs : Waits(proc'[q])}
  BY DEF Waiting, Waits
<1>4. Waiting' = (Waiting \ {p}) \cup {q \in {p} : Waits(proc'[p])}
  BY <1>2, <1>3 DEF Waiting
<1> QED
  BY <1>4 DEF OpenRows, Alone

(* The meters after a step are read off the state after it. *)
LEMMA SpentSoFar ==
    ASSUME \A p \in Procs : proc'[p].cmd = "recommend" => proc'[p].now <= day',
           \A g \in {CallMeter, CostMeter} :
              Within(g, day', analyses', OpenRows', writer', Waiting')
    PROVE  SpendInv'
<1>1. \A g \in {CallMeter, CostMeter} :
         Within(g, day, analyses, OpenRows, writer, Waiting)'
           <=> Within(g, day', analyses', OpenRows', writer', Waiting')
  BY DEF Within, WithinUnit, Reading, Spent, Charge, CallMeter, CostMeter
<1> QED
  BY <1>1 DEF SpendInv

(* A step that spends nothing and starts no call. *)
LEMMA SpendsNothing ==
    ASSUME IInv, SpendInv, NEW p \in Procs, Alone(p), day' = day, analyses' = analyses,
           Waits(proc'[p]) => Waits(proc[p]),
           proc'[p].cmd = "recommend" => proc'[p].now <= day,
           OpenRows' \in {OpenRows, <<>>},
           writer' \in Waiting' => writer' = writer
    PROVE  SpendInv'
<1>1. Waiting' \in SUBSET Waiting
  BY AloneMeans DEF Waiting
<1>2. \A q \in Procs : proc'[q].cmd = "recommend" => proc'[q].now <= day'
  BY DEF SpendInv, Alone
<1>3. ASSUME NEW g \in {CallMeter, CostMeter}
      PROVE  Within(g, day', analyses', OpenRows', writer', Waiting')
  <2>1. IsMeter(g) /\ Within(g, day, analyses, OpenRows, writer, Waiting)
    BY MetersAre DEF SpendInv
  <2>2. Within(g, day, analyses, OpenRows', writer', Waiting')
    BY <1>1, <2>1, OpenIs, Eases
  <2> QED
    BY <2>2
<1> QED
  BY <1>2, <1>3, SpentSoFar

(* The same, when the lock stays where it is. *)
LEMMA StaysPut ==
    ASSUME IInv, SpendInv, NEW p \in Procs, Alone(p), day' = day, analyses' = analyses,
           writer' = writer,
           Waits(proc'[p]) => Waits(proc[p]),
           writer = p => proc'[p].cmd = proc[p].cmd,
           proc'[p].cmd = "recommend" =>
              \/ /\ proc[p].cmd = "recommend"
                 /\ proc'[p].rows = proc[p].rows /\ proc'[p].now = proc[p].now
              \/ proc[p] = Idle /\ proc'[p].now <= day
    PROVE  SpendInv'
<1>1. proc[p] = Idle => writer # p
  BY Facts, Kinds DEF Idle
<1>2. proc'[p].cmd = "recommend" => proc'[p].now <= day
  BY DEF SpendInv
<1>3. OpenRows' \in {OpenRows, <<>>}
  <2>1. CASE writer = p /\ proc[p].cmd = "recommend"
    <3>1. OpenRows' = proc'[p].rows /\ proc'[p].rows = proc[p].rows
      BY <1>1, <2>1, AloneMeans
    <3>2. OpenRows = proc[p].rows
      BY <2>1, OpenIs
    <3> QED
      BY <3>1, <3>2
  <2>2. CASE writer = p /\ proc[p].cmd # "recommend"
    BY <2>2, AloneMeans
  <2>3. CASE writer # p
    BY <2>3, AloneMeans
  <2> QED
    BY <2>1, <2>2, <2>3
<1> QED
  BY <1>2, <1>3, SpendsNothing

(* A session that ends and commits no analysis. *)
LEMMA EndSpends ==
    ASSUME IInv, SpendInv, NEW p \in Procs, End(p), day' = day, analyses' = analyses
    PROVE  SpendInv'
<1>1. /\ proc' = [proc EXCEPT ![p] = Idle]
      /\ writer' = IF writer = p THEN None ELSE writer
  BY DEF End
<1>2. Alone(p) /\ proc'[p] = Idle
  BY <1>1, Facts DEF Alone
<1>3. ~Waits(proc'[p]) /\ proc'[p].cmd # "recommend"
  BY <1>2 DEF Idle, Waits
<1>4. OpenRows' \in {OpenRows, <<>>}
  BY <1>1, <1>2, Facts, AloneMeans
<1>5. writer' \in Waiting' => writer' = writer
  BY <1>1, Facts DEF Waiting
<1> QED
  BY <1>2, <1>3, <1>4, <1>5, SpendsNothing

LEMMA RecommendSpends ==
    ASSUME IInv, SpendInv, NEW p \in Procs, NEW ai, Recommend(p, ai)
    PROVE  SpendInv'
<1>1. /\ proc[p] = Idle /\ writer' = writer /\ day' = day /\ analyses' = analyses
      /\ Alone(p)
      /\ proc'[p].cmd = "recommend" /\ proc'[p].pc = "screen" /\ proc'[p].now = day
  BY Facts DEF Recommend, tables, Alone
<1>2. writer # p /\ day <= day
  BY <1>1, Facts, Kinds DEF Idle
<1>3. ~Waits(proc'[p])
  BY <1>1 DEF Waits
<1> QED
  BY <1>1, <1>2, <1>3, StaysPut

(* The steps of a sync change nothing that is metered. *)
LEMMA SyncSpends ==
    ASSUME IInv, SpendInv, NEW p \in Procs, Alone(p), day' = day, analyses' = analyses,
           writer' = writer, proc'[p].cmd = "news", proc[p] = Idle \/ proc[p].cmd = "news"
    PROVE  SpendInv'
<1>1. proc[p] = Idle => writer # p
  BY Facts, Kinds DEF Idle
<1>2. ~Waits(proc'[p])
  BY DEF Waits
<1> QED
  BY <1>1, <1>2, StaysPut

LEMMA NewsSpends ==
    ASSUME IInv, SpendInv, NEW p \in Procs,
           \/ NewsSync(p) \/ FetchFails(p) \/ SourceDone(p)
           \/ \E urls \in SUBSET URLs : Fetch(p, urls)
           \/ \E url \in URLs : LookUp(p, url)
    PROVE  SpendInv'
<1>1. CASE NewsSync(p)
  <2>1. /\ proc[p] = Idle /\ writer' = writer /\ day' = day /\ analyses' = analyses
        /\ Alone(p) /\ proc'[p].cmd = "news"
    BY <1>1, Facts DEF NewsSync, tables, Alone
  <2> QED
    BY <2>1, SyncSpends
<1>2. CASE ~NewsSync(p)
  <2>1. proc[p].cmd = "news" /\ writer' = writer /\ day' = day /\ analyses' = analyses
    BY <1>2 DEF FetchFails, SourceDone, Fetch, LookUp, Fetching, Storing, tables
  <2>2. proc[p] \in Syncs /\ DOMAIN proc = Procs
    BY <2>1, OfSync, Facts
  <2>3. Alone(p) /\ proc'[p].cmd = "news"
    <3>1. CASE FetchFails(p)
      BY <3>1, <2>1, <2>2 DEF FetchFails, Alone, Syncs
    <3>2. CASE SourceDone(p)
      BY <3>2, <2>1, <2>2 DEF SourceDone, Alone, Syncs
    <3>3. CASE \E urls \in SUBSET URLs : Fetch(p, urls)
      <4>1. PICK urls \in SUBSET URLs : Fetch(p, urls)
        BY <3>3
      <4> DEFINE c == proc[p]
                 results == Append(c.results, [fetched |-> urls, error |-> FALSE])
                 e == [c EXCEPT !.pc = "store", !.todo = urls, !.results = results]
      <4>2. proc' = [proc EXCEPT ![p] = e]
        BY <4>1, <2>2 DEF Fetch
      <4>3. e.cmd = "news"
        BY <2>1, <2>2 DEF Syncs
      <4> HIDE DEF e
      <4> QED
        BY <2>2, <4>2, <4>3 DEF Alone
    <3>4. CASE \E url \in URLs : LookUp(p, url)
      <4>1. PICK url \in URLs : LookUp(p, url)
        BY <3>4
      <4>2. \/ proc' = [proc EXCEPT ![p].todo = @ \ {url}]
            \/ proc' = [proc EXCEPT ![p].pc = url]
        BY <4>1 DEF LookUp
      <4>3. CASE proc' = [proc EXCEPT ![p].todo = @ \ {url}]
        BY <4>3, <2>1, <2>2 DEF Alone, Syncs
      <4>4. CASE proc' = [proc EXCEPT ![p].pc = url]
        BY <4>4, <2>1, <2>2 DEF Alone, Syncs
      <4> QED
        BY <4>2, <4>3, <4>4
    <3> QED
      BY <1>2, <3>1, <3>2, <3>3, <3>4
  <2> QED
    BY <2>1, <2>3, SyncSpends
<1> QED
  BY <1>1, <1>2

LEMMA InsertSpends ==
    ASSUME IInv, SpendInv, NEW p \in Procs, Insert(p)
    PROVE  SpendInv'
<1>1. /\ proc[p].cmd = "news" /\ writer \in {None, p} /\ writer' = p
      /\ day' = day /\ analyses' = analyses
  BY DEF Insert, Inserting, MayWrite, tables
<1>2. proc[p] \in Syncs /\ DOMAIN proc = Procs
  BY <1>1, OfSync, Facts
<1>3. Alone(p) /\ proc'[p].cmd = "news"
  BY <1>1, <1>2 DEF Insert, Alone, Syncs
<1>4. ~Waits(proc'[p])
  BY <1>3 DEF Waits
<1>5. OpenRows' = <<>>
  BY <1>1, <1>3, AloneMeans
<1>6. writer' \notin Waiting'
  BY <1>1, <1>3, <1>4, AloneMeans
<1> QED
  BY <1>1, <1>3, <1>4, <1>5, <1>6, SpendsNothing

(* The call of a cycle or of `analyze` is made, or the symbol is left. *)
LEMMA ScreenNothingSpends ==
    ASSUME IInv, SpendInv, NEW p \in Procs, ScreenNothing(p)
    PROVE  SpendInv'
<1>1. /\ proc[p].cmd = "recommend" /\ proc[p].pc = "screen" /\ writer' = writer
      /\ day' = day /\ analyses' = analyses
      /\ proc' = [proc EXCEPT ![p].queue = Tail(@)]
  BY DEF ScreenNothing, tables
<1>2. proc[p] \in Cycles /\ DOMAIN proc = Procs
  BY <1>1, OfCycle, Facts
<1>3. /\ Alone(p) /\ proc'[p].cmd = "recommend" /\ proc'[p].pc = "screen"
      /\ proc'[p].rows = proc[p].rows /\ proc'[p].now = proc[p].now
  BY <1>1, <1>2 DEF Alone, Cycles
<1>4. ~Waits(proc'[p])
  BY <1>3 DEF Waits
<1> QED
  BY <1>1, <1>3, <1>4, StaysPut

LEMMA CallAnswersSpends ==
    ASSUME IInv, SpendInv, NEW p \in Procs, NEW output, NEW cost, CallAnswers(p, output, cost)
    PROVE  SpendInv'
<1> DEFINE answer == [output |-> output, cost |-> cost]
<1>1. /\ proc[p].cmd \in {"analyze", "recommend"} /\ proc[p].pc = "call" /\ writer' = writer
      /\ day' = day /\ analyses' = analyses
      /\ proc' = [proc EXCEPT ![p].pc = "record", ![p].answer = answer]
  BY DEF CallAnswers, Calling, tables
<1> HIDE DEF answer
<1>2. DOMAIN proc = Procs /\ (proc[p] \in Cycles \/ proc[p] \in Analyses)
  BY <1>1, OfCycle, Facts, Kinds
<1>3. /\ Alone(p) /\ proc'[p].cmd = proc[p].cmd
      /\ proc[p].cmd = "recommend" => proc'[p].rows = proc[p].rows /\ proc'[p].now = proc[p].now
  <2>1. CASE proc[p] \in Cycles
    BY <2>1, <1>1, <1>2 DEF Alone, Cycles
  <2>2. CASE proc[p] \in Analyses
    BY <2>2, <1>1, <1>2 DEF Alone, Analyses
  <2> QED
    BY <1>2, <2>1, <2>2
<1>4. Waits(proc[p])
  BY <1>1 DEF Waits
<1> QED
  BY <1>1, <1>3, <1>4, StaysPut

LEMMA CallFailsSpends ==
    ASSUME IInv, SpendInv, NEW p \in Procs, CallFails(p)
    PROVE  SpendInv'
<1> DEFINE c == proc[p]
           e == Decided(c, c.sig, None, None)
<1>1. /\ c.cmd \in {"analyze", "recommend"} /\ c.pc = "call" /\ writer' = writer
      /\ day' = day /\ analyses' = analyses
      /\ proc' = [proc EXCEPT ![p] = IF c.cmd = "analyze" THEN Idle ELSE e]
  BY DEF CallFails, Calling, Unavailable, tables
<1>2. CASE c.cmd = "analyze"
  <2>1. writer # p
    BY <1>2, Facts, Kinds
  <2>2. End(p)
    BY <1>1, <1>2, <2>1 DEF End
  <2> QED
    BY <1>1, <2>2, EndSpends
<1>3. CASE c.cmd = "recommend"
  <2>1. c \in Cycles /\ DOMAIN proc = Procs
    BY <1>3, OfCycle, Facts
  <2>2. e.cmd = "recommend" /\ e.pc = "screen" /\ e.rows = c.rows /\ e.now = c.now
    BY <2>1, DecidedFields, DecidedNow
  <2>3. Alone(p) /\ proc'[p] = e
    <3> HIDE DEF c, e
    <3> QED
      BY <1>1, <1>3, <2>1 DEF Alone
  <2>4. ~Waits(proc'[p])
    BY <2>2, <2>3 DEF Waits
  <2> QED
    BY <1>1, <1>3, <2>2, <2>3, <2>4, StaysPut
<1> QED
  BY <1>1, <1>2, <1>3

(***************************************************************************)
(* A call that found its budget.  The check of a cycle counts the rows of  *)
(* the cycle itself, and from the day the cycle began; that of `analyze`   *)
(* from the present day.                                                   *)
(***************************************************************************)
LEMMA CallSpends ==
    ASSUME IInv, SpendInv, NEW p \in Procs, Alone(p), day' = day, analyses' = analyses,
           writer' = writer, p \notin Waiting, Waits(proc'[p]),
           NEW own \in Seq(Rows), own = IF writer = p THEN OpenRows ELSE <<>>,
           NEW now \in Nat, now <= day, WithinBudget(analyses \o own, now),
           writer = p => proc'[p].cmd = "recommend" /\ proc'[p].rows = own,
           proc'[p].cmd = "recommend" => proc'[p].now <= day
    PROVE  SpendInv'
<1>1. /\ Waiting' = Waiting \cup {p} /\ OpenRows' = OpenRows
      /\ p \in Procs \ Waiting
  BY AloneMeans
<1>2. \A q \in Procs : proc'[q].cmd = "recommend" => proc'[q].now <= day'
  BY DEF SpendInv, Alone
<1>3. analyses \o own \in Seq(Rows) /\ day \in 0..MaxDay /\ day \in Nat
  BY OpenIs, ConcatProperties, Facts
<1>4. /\ Reading(CallMeter, analyses \o own, day) < CallMeter.cap
      /\ Reading(CostMeter, analyses \o own, Month(day)) < CostMeter.cap
  BY <1>3, BudgetTells
<1>5. \A g \in {CallMeter, CostMeter} : Reading(g, analyses \o own, g.unit[day]) < g.cap
  <2>1. CallMeter.unit[day] = day /\ CostMeter.unit[day] = Month(day)
    BY <1>3 DEF CallMeter, CostMeter
  <2> QED
    BY <1>4, <2>1
<1>6. ASSUME NEW g \in {CallMeter, CostMeter}
      PROVE  Within(g, day', analyses', OpenRows', writer', Waiting')
  <2>1. IsMeter(g) /\ Within(g, day, analyses, OpenRows, writer, Waiting)
    BY MetersAre DEF SpendInv
  <2>2. Reading(g, analyses \o own, g.unit[day]) < g.cap
    BY <1>5
  <2>3. Within(g, day, analyses, OpenRows, writer, Waiting \cup {p})
    BY <1>1, <1>3, <2>1, <2>2, OpenIs, Passes
  <2> QED
    BY <1>1, <2>3
<1> QED
  BY <1>2, <1>6, SpentSoFar

LEMMA AnalyzeSpends ==
    ASSUME IInv, SpendInv, NEW p \in Procs, NEW sym, Analyze(p, sym)
    PROVE  SpendInv'
<1>1. /\ proc[p] = Idle /\ writer' = writer /\ day' = day /\ analyses' = analyses
      /\ Alone(p) /\ proc'[p].cmd = "analyze" /\ proc'[p].pc = "call"
      /\ WithinBudget(analyses, day)
  BY Facts DEF Analyze, tables, Alone
<1>2. writer # p /\ p \notin Waiting
  BY <1>1, Facts, Kinds DEF Idle, Waiting, Waits
<1>3. Waits(proc'[p])
  BY <1>1 DEF Waits
<1>4. <<>> \in Seq(Rows) /\ analyses \o <<>> = analyses /\ day \in Nat /\ day <= day
  BY Facts, EmptySeq, ConcatEmptySeq
<1>5. WithinBudget(analyses \o <<>>, day)
  BY <1>1, <1>4
<1> QED
  BY <1>1, <1>2, <1>3, <1>4, <1>5, CallSpends

LEMMA ScreenSignalSpends ==
    ASSUME IInv, SpendInv, NEW p \in Procs, NEW sig, ScreenSignal(p, sig)
    PROVE  SpendInv'
<1> DEFINE c == proc[p]
           f == [c EXCEPT !.found = @ \cup {Head(c.queue)}]
           asked == [f EXCEPT !.pc = "call", !.sig = sig]
           alone == Decided(f, sig, None, None)
           found == c.ai /\ WithinBudget(analyses \o c.rows, c.now)
<1>1. /\ c.cmd = "recommend" /\ c.pc = "screen" /\ writer' = writer
      /\ day' = day /\ analyses' = analyses /\ c.queue # <<>>
      /\ proc' = [proc EXCEPT ![p] = IF found THEN asked ELSE alone]
  BY DEF ScreenSignal, tables
<1>2. c \in Cycles /\ DOMAIN proc = Procs /\ c.queue \in Seq(Symbols)
  BY <1>1, OfCycle, Facts
<1>3. f \in Cycles /\ f.rows = c.rows /\ f.now = c.now
  <2>1. Head(c.queue) \in Symbols
    BY <1>1, <1>2, HeadTailProperties
  <2> QED
    BY <1>2, <2>1 DEF Cycles
<1> HIDE DEF f
<1>4. /\ asked.cmd = "recommend" /\ asked.pc = "call"
      /\ asked.rows = c.rows /\ asked.now = c.now
  BY <1>3 DEF Cycles
<1>5. alone.cmd = "recommend" /\ alone.pc = "screen" /\ alone.rows = c.rows /\ alone.now = c.now
  BY <1>3, DecidedFields, DecidedNow
<1> HIDE DEF asked, alone, found
<1>6. Alone(p) /\ proc'[p] = IF found THEN asked ELSE alone
  BY <1>1, <1>2 DEF Alone
<1>7. CASE ~found
  <2>1. ~Waits(proc'[p])
    BY <1>5, <1>6, <1>7 DEF Waits
  <2> QED
    BY <1>1, <1>5, <1>6, <1>7, <2>1, StaysPut
<1>8. CASE found
  <2>1. WithinBudget(analyses \o c.rows, c.now) /\ proc'[p] = asked
    BY <1>6, <1>8 DEF found
  <2>2. Waits(proc'[p]) /\ p \notin Waiting
    BY <1>1, <1>4, <2>1 DEF Waits, Waiting
  <2>3. c.rows \in Seq(Rows) /\ c.now \in Nat /\ c.now <= day
    BY <1>1, <1>2 DEF Cycles, SpendInv
  <2>4. c.rows = IF writer = p THEN OpenRows ELSE <<>>
    BY <1>1, OpenIs
  <2> QED
    BY <1>1, <1>4, <1>6, <2>1, <2>2, <2>3, <2>4, CallSpends
<1> QED
  BY <1>7, <1>8

(* What a call is recorded with. *)
LEMMA RowIs ==
    ASSUME IInv, NEW sym \in Symbols, NEW answer \in Answers, answer # None
    PROVE  Row(sym, answer) \in Rows /\ Row(sym, answer).day = day
<1>1. day \in 0..MaxDay /\ answer.cost \in Costs
  BY AnswerType DEF IInv, TablesInv
<1> QED
  BY <1>1 DEF Row, Rows

LEMMA RecordInCycleSpends ==
    ASSUME IInv, SpendInv, NEW p \in Procs, RecordInCycle(p)
    PROVE  SpendInv'
<1> DEFINE c == proc[p]
           r == Row(Head(c.queue), c.answer)
           rows == Append(c.rows, r)
           f == [c EXCEPT !.rows = rows]
           id == Len(analyses) + Len(rows)
           e == Decided(f, c.sig, c.answer, id)
<1>1. /\ c.cmd = "recommend" /\ c.pc = "record" /\ writer \in {None, p} /\ writer' = p
      /\ day' = day /\ analyses' = analyses
      /\ proc' = [proc EXCEPT ![p] = e]
  BY DEF RecordInCycle, MayWrite, tables
<1>2. /\ c \in Cycles /\ DOMAIN proc = Procs /\ c.rows \in Seq(Rows) /\ c.answer \in Answers
      /\ CycleInv(c, analyses) /\ c.queue \in Seq(Symbols)
  BY <1>1, OfCycle, Facts
<1>3. r \in Rows /\ r.day = day
  <2>1. c.queue # <<>> /\ c.answer # None
    BY <1>1, <1>2 DEF CycleInv
  <2>2. Head(c.queue) \in Symbols
    BY <1>2, <2>1, HeadTailProperties
  <2> QED
    BY <1>2, <2>1, <2>2, RowIs
<1> HIDE DEF r
<1>4. rows \in Seq(Rows)
  BY <1>2, <1>3, AppendProperties
<1> HIDE DEF rows
<1>5. f \in Cycles /\ f.rows = rows /\ f.now = c.now
  BY <1>2, <1>4 DEF Cycles
<1> HIDE DEF f, id
<1>6. e.cmd = "recommend" /\ e.pc = "screen" /\ e.rows = rows /\ e.now = c.now
  BY <1>5, DecidedFields, DecidedNow
<1> HIDE DEF e
<1>7. Alone(p) /\ proc'[p] = e
  BY <1>1, <1>2 DEF Alone
<1>8. p \in Waiting /\ Waiting' = Waiting \ {p}
  BY <1>1, <1>6, <1>7, AloneMeans DEF Waiting, Waits
<1>9. /\ OpenRows \in Seq(Rows) /\ OpenRows' = Append(OpenRows, r)
      /\ (writer = p \/ OpenRows = <<>>)
  <2>1. c.rows = IF writer = p THEN OpenRows ELSE <<>>
    BY <1>1, OpenIs
  <2>2. writer # p => OpenRows = <<>>
    BY <1>1, Facts DEF OpenRows
  <2>3. OpenRows' = rows
    BY <1>1, <1>6, <1>7, AloneMeans
  <2> QED
    BY <2>1, <2>2, <2>3, OpenIs DEF rows
<1>10. \A q \in Procs : proc'[q].cmd = "recommend" => proc'[q].now <= day'
  <2>1. c.now <= day
    BY <1>1 DEF SpendInv
  <2> QED
    BY <1>1, <1>6, <1>7, <2>1 DEF SpendInv, Alone
<1> HIDE DEF c
<1>11. ASSUME NEW g \in {CallMeter, CostMeter}
       PROVE  Within(g, day', analyses', OpenRows', writer', Waiting')
  <2>1. IsMeter(g) /\ Within(g, day, analyses, OpenRows, writer, Waiting)
    BY MetersAre DEF SpendInv
  <2>2. Within(g, day, analyses, Append(OpenRows, r), p, Waiting \ {p})
    BY <1>3, <1>8, <1>9, <2>1, OpenIs, RecordsOpen
  <2> QED
    BY <1>1, <1>8, <1>9, <2>2
<1> QED
  BY <1>10, <1>11, SpentSoFar

LEMMA RecordAnalysisSpends ==
    ASSUME IInv, SpendInv, NEW p \in Procs, RecordAnalysis(p)
    PROVE  SpendInv'
<1> DEFINE c == proc[p]
           r == Row(c.sym, c.answer)
<1>1. /\ c.cmd = "analyze" /\ c.pc = "record" /\ writer \in {None, p}
      /\ analyses' = Append(analyses, r) /\ End(p) /\ day' = day
  BY DEF RecordAnalysis, MayWrite
<1>2. /\ c \in Analyses /\ writer # p /\ c.answer # None
  BY <1>1, Facts, Kinds
<1>3. c.sym \in Symbols /\ c.answer \in Answers
  BY <1>2 DEF Analyses
<1>4. r \in Rows /\ r.day = day
  BY <1>2, <1>3, RowIs
<1> HIDE DEF r
<1>5. proc' = [proc EXCEPT ![p] = Idle] /\ writer = None /\ writer' = writer
  BY <1>1, <1>2 DEF End
<1>6. Alone(p) /\ proc'[p] = Idle
  BY <1>5, Facts DEF Alone
<1>7. ~Waits(proc'[p]) /\ proc'[p].cmd # "recommend"
  BY <1>6 DEF Idle, Waits
<1>8. p \in Waiting /\ Waiting' = Waiting \ {p}
  BY <1>1, <1>6, <1>7, AloneMeans DEF Waiting, Waits
<1>9. OpenRows = <<>> /\ OpenRows' = <<>> /\ writer \notin Waiting
  BY <1>5, <1>6, Facts, AloneMeans DEF OpenRows, Waiting
<1>10. \A q \in Procs : proc'[q].cmd = "recommend" => proc'[q].now <= day'
  BY <1>1, <1>6, <1>7 DEF SpendInv, Alone
<1> HIDE DEF c
<1>11. ASSUME NEW g \in {CallMeter, CostMeter}
       PROVE  Within(g, day', analyses', OpenRows', writer', Waiting')
  <2>1. IsMeter(g) /\ Within(g, day, analyses, <<>>, writer, Waiting)
    BY <1>9, MetersAre DEF SpendInv
  <2>2. Within(g, day, Append(analyses, r), <<>>, writer, Waiting \ {p})
    BY <1>4, <1>8, <1>9, <2>1, OpenIs, RecordsAtOnce
  <2> QED
    BY <1>1, <1>5, <1>8, <1>9, <2>2
<1> QED
  BY <1>10, <1>11, SpentSoFar

LEMMA PublishSpends ==
    ASSUME IInv, SpendInv, NEW p \in Procs, Publish(p)
    PROVE  SpendInv'
<1> DEFINE c == proc[p]
<1>1. /\ c.cmd = "recommend" /\ c.pc = "screen"
      /\ analyses' = analyses \o c.rows /\ End(p) /\ day' = day
  BY DEF Publish
<1>2. c.rows = IF writer = p THEN OpenRows ELSE <<>>
  BY <1>1, OpenIs
<1>3. CASE writer # p
  <2>1. analyses' = analyses
    BY <1>1, <1>2, <1>3, Facts, ConcatEmptySeq
  <2> QED
    BY <1>1, <2>1, EndSpends
<1>4. CASE writer = p
  <2>1. proc' = [proc EXCEPT ![p] = Idle] /\ writer' = None
    BY <1>1, <1>4 DEF End
  <2>2. Alone(p) /\ proc'[p] = Idle
    BY <2>1, Facts DEF Alone
  <2>3. ~Waits(proc'[p]) /\ proc'[p].cmd # "recommend"
    BY <2>2 DEF Idle, Waits
  <2>4. p \notin Waiting /\ Waiting' = Waiting
    BY <1>1, <2>2, <2>3, AloneMeans DEF Waiting, Waits
  <2>5. OpenRows' = <<>> /\ None \notin Waiting /\ analyses' = analyses \o OpenRows
    BY <1>1, <1>2, <1>4, <2>1, <2>2, Facts, AloneMeans DEF Waiting
  <2>6. \A q \in Procs : proc'[q].cmd = "recommend" => proc'[q].now <= day'
    BY <1>1, <2>2, <2>3 DEF SpendInv, Alone
  <2> HIDE DEF c
  <2>7. ASSUME NEW g \in {CallMeter, CostMeter}
        PROVE  Within(g, day', analyses', OpenRows', writer', Waiting')
    <3>1. IsMeter(g) /\ Within(g, day, analyses, OpenRows, writer, Waiting)
      BY MetersAre DEF SpendInv
    <3>2. Within(g, day, analyses \o OpenRows, <<>>, None, Waiting)
      BY <2>5, <3>1, OpenIs, Commits
    <3> QED
      BY <1>1, <2>1, <2>4, <2>5, <3>2
  <2> QED
    BY <2>6, <2>7, SpentSoFar
<1> QED
  BY <1>3, <1>4

LEMMA NewDaySpends ==
    ASSUME IInv, SpendInv, NewDay
    PROVE  SpendInv'
<1>1. /\ day' = day + 1 /\ day < MaxDay /\ day \in 0..MaxDay
      /\ analyses' = analyses /\ writer' = writer /\ proc' = proc
  BY OpenIs DEF NewDay, tables
<1>2. day + 1 \in 0..MaxDay
  BY <1>1, AdviceAssumption
<1>3. OpenRows' = OpenRows /\ Waiting' = Waiting
  BY <1>1 DEF OpenRows, Waiting, Waits
<1>4. ASSUME NEW q \in Procs, proc'[q].cmd = "recommend" PROVE proc'[q].now <= day'
  <2>1. proc[q].now <= day /\ proc[q].now \in Nat
    BY <1>1, <1>4, OfCycle DEF SpendInv, Cycles
  <2> QED
    BY <1>1, <2>1
<1>5. ASSUME NEW g \in {CallMeter, CostMeter}
      PROVE  Within(g, day', analyses', OpenRows', writer', Waiting')
  <2>1. IsMeter(g) /\ Within(g, day, analyses, OpenRows, writer, Waiting)
    BY MetersAre DEF SpendInv
  <2>2. Within(g, day + 1, analyses, OpenRows, writer, Waiting)
    BY <1>1, <1>2, <2>1, OpenIs, NextDay
  <2> QED
    BY <1>1, <1>3, <2>2
<1> QED
  BY <1>4, <1>5, SpentSoFar

LEMMA NothingSpentYet == Init => SpendInv
<1> SUFFICES ASSUME Init PROVE SpendInv
  OBVIOUS
<1>1. /\ day = 0 /\ analyses = <<>> /\ writer = None /\ \A p \in Procs : proc[p] = Idle
  BY DEF Init
<1>2. Idle.cmd = "none"
  BY DEF Idle
<1>3. OpenRows = <<>> /\ Waiting = {}
  BY <1>1, <1>2, NoneAssumption DEF OpenRows, Waiting, Waits
<1>4. ASSUME NEW g \in {CallMeter, CostMeter}
      PROVE  Within(g, day, analyses, OpenRows, writer, Waiting)
  BY <1>1, <1>3, MetersAre, Unspent
<1> QED
  BY <1>1, <1>2, <1>4 DEF SpendInv

LEMMA StepSpends ==
    ASSUME IInv, SpendInv, NEW p \in Procs, Step(p)
    PROVE  SpendInv'
<1>1. CASE \E sym \in Range(Universe) : Analyze(p, sym)
  BY <1>1, AnalyzeSpends
<1>2. CASE \E ai \in BOOLEAN : Recommend(p, ai)
  BY <1>2, RecommendSpends
<1>3. CASE \/ NewsSync(p) \/ FetchFails(p) \/ SourceDone(p)
           \/ \E urls \in SUBSET UNION Range(Items) : Fetch(p, urls)
           \/ \E url \in UNION Range(Items) : LookUp(p, url)
  BY <1>3, NewsSpends DEF URLs
<1>4. CASE ScreenNothing(p)
  BY <1>4, ScreenNothingSpends
<1>5. CASE \E sig \in UNION Range(Signals) : ScreenSignal(p, sig)
  BY <1>5, ScreenSignalSpends
<1>6. CASE \E output \in Outputs, cost \in Costs : CallAnswers(p, output, cost)
  BY <1>6, CallAnswersSpends
<1>7. CASE CallFails(p)
  BY <1>7, CallFailsSpends
<1>8. CASE RecordAnalysis(p)
  BY <1>8, RecordAnalysisSpends
<1>9. CASE RecordInCycle(p)
  BY <1>9, RecordInCycleSpends
<1>10. CASE Publish(p)
  BY <1>10, PublishSpends
<1>11. CASE Insert(p)
  BY <1>11, InsertSpends
<1>12. CASE InsertRefused(p) \/ CommitNews(p) \/ Abort(p)
  <2>1. End(p) /\ day' = day /\ analyses' = analyses
    BY <1>12 DEF InsertRefused, CommitNews, Abort, tables
  <2> QED
    BY <2>1, EndSpends
<1> QED
  BY <1>1, <1>2, <1>3, <1>4, <1>5, <1>6, <1>7, <1>8, <1>9, <1>10, <1>11, <1>12 DEF Step

(***************************************************************************)
(* Checked before the call and counted when it is committed, the calls of  *)
(* a day exceed ai.daily_call_cap by at most a call of every other command *)
(* that runs, and the cost of a month stays below ai.monthly_usd_cap but   *)
(* for a call of each (analysis/service.py): for every number of commands, *)
(* every price list and every calendar, over rollbacks and midnights.      *)
(***************************************************************************)
THEOREM SpendingCorrect == Spec => []SpendingStaysNearCaps
<1>1. IInv /\ SpendInv /\ [Next]_vars => SpendInv'
  <2> SUFFICES ASSUME IInv, SpendInv, [Next]_vars PROVE SpendInv'
    OBVIOUS
  <2>1. CASE NewDay
    BY <2>1, NewDaySpends
  <2>2. CASE \E p \in Procs : Step(p)
    BY <2>2, StepSpends
  <2>3. CASE UNCHANGED vars
    <3>1. /\ day' = day /\ analyses' = analyses /\ writer' = writer /\ proc' = proc
      BY <2>3 DEF vars, tables
    <3>2. OpenRows' = OpenRows /\ Waiting' = Waiting
      BY <3>1 DEF OpenRows, Waiting, Waits
    <3> QED
      BY <3>1, <3>2, SpentSoFar DEF SpendInv
  <2> QED
    BY <2>1, <2>2, <2>3 DEF Next
<1>2. IInv /\ SpendInv => SpendingStaysNearCaps
  <2> SUFFICES ASSUME IInv, SpendInv, NEW d \in 0..MaxDay
               PROVE  LET calls == {k \in DOMAIN analyses : analyses[k].day = d}
                          bills == {k \in DOMAIN analyses : Month(analyses[k].day) = Month(d)}
                      IN  /\ Cardinality(calls) <= DailyCallCap + Cardinality(Procs) - 1
                          /\ SumCost(analyses, bills)
                               < Max({MonthlyUsdCap, 1}) + Cardinality(Procs) * Max(Costs)
    BY DEF SpendingStaysNearCaps
  <2> DEFINE calls == Cardinality({k \in DOMAIN analyses : analyses[k].day = d})
             bills == SumCost(analyses, {k \in DOMAIN analyses : Month(analyses[k].day) = Month(d)})
             n == Cardinality(Procs)
             cap == Max({MonthlyUsdCap, 1})
             cost == Max(Costs)
  <2>1. d \in Nat /\ Month(d) \in Nat
    <3>1. d \in Nat
      OBVIOUS
    <3> QED
      BY <3>1, MonthOf
  <2>2. \A g \in {CallMeter, CostMeter}, x \in Nat : Reading(g, analyses, x) < g.cap + Room(g, {})
    BY OpenIs, MetersAre, CommittedStays DEF SpendInv
  <2>3. calls = Reading(CallMeter, analyses, d) /\ bills = Reading(CostMeter, analyses, Month(d))
    BY <2>1, OpenIs, CallsRead, BillsRead
  <2>4. n \in Nat /\ DailyCallCap \in Nat
    BY AdviceAssumption, FS_CardinalityType
  <2>5. /\ CallMeter.cap = DailyCallCap /\ Room(CallMeter, {}) = n * 1
        /\ CostMeter.cap = cap /\ Room(CostMeter, {}) = n * cost
    BY DEF CallMeter, CostMeter, Room
  <2>6. calls \in Nat
    BY <2>3, OpenIs, MetersAre, ReadingType
  <2>7. calls < DailyCallCap + n * 1 /\ bills < cap + n * cost
    BY <2>1, <2>2, <2>3, <2>5
  <2> HIDE DEF calls, bills, n, cap, cost
  <2>8. calls <= DailyCallCap + n - 1
    BY <2>4, <2>6, <2>7
  <2> QED
    BY <2>7, <2>8 DEF calls, bills, n, cap, cost
<1> QED
  BY <1>1, <1>2, NothingSpentYet, Invariance, PTL DEF Spec

=============================================================================
