--------------------------- MODULE HistoryProofs ---------------------------
(***************************************************************************)
(* Proofs about History, for any number of sync commands, any ranges,      *)
(* dates, chunk and partition sizes, masters, kills and revisions.         *)
(***************************************************************************)
EXTENDS History, FiniteSetTheorems, SequenceTheorems, TLAPS

(***************************************************************************)
(* Types.                                                                  *)
(***************************************************************************)
Command ==
    [pc : {"idle", "fetch", "read", "open", "close", "count", "manifest"},
     from : Nat, to : Nat, chunkEnd : Int, requests : Seq(SUBSET Int),
     frame : Frames, years : SUBSET Years, merged : Frames, total : Nat]

TypeInv ==
    /\ vendor \in [Days -> Candles \cup {None}]
    /\ parts \in [Years -> Frames \cup {None, Torn}]
    /\ sync \in [Syncs -> Command]
    /\ written \in Frames /\ overlapped \in BOOLEAN /\ interrupted \in BOOLEAN

(***************************************************************************)
(* The windows asked for so far are disjoint, at most ChunkDays long and   *)
(* cover what lies after the chunk that is fetched next; when the frame is *)
(* being stored nothing is left before them.                               *)
(***************************************************************************)
Cover(windows, first, last) ==
    /\ \A k \in DOMAIN windows :
          windows[k] \subseteq first..last /\ Cardinality(windows[k]) <= ChunkDays
    /\ \A d \in first..last : \E k \in DOMAIN windows :
          d \in windows[k] /\ \A j \in DOMAIN windows : d \in windows[j] => j = k

AskedInv(s) ==
    s.pc # "idle" =>
        /\ Cover(s.requests, s.chunkEnd + 1, s.to)
        /\ IF s.pc = "fetch" THEN s.from <= s.chunkEnd /\ s.chunkEnd <= s.to
           ELSE s.chunkEnd = s.from - 1

(***************************************************************************)
(* While no two commands were storing at once: the one that stores knows   *)
(* that every file but the one it has open holds what was written, and     *)
(* what it merged is that with its own rows over it.                       *)
(***************************************************************************)
InPart(s) == s.pc \in {"read", "open", "close"}

PartSound(y) ==
    /\ parts[y] \in Frames => parts[y] = OfYear(written, y)
    /\ parts[y] = None => DOMAIN OfYear(written, y) = {}

MergeInv(s) ==
    /\ s.pc \in {"open", "close"} =>
          s.merged = Over(OfYear(s.frame, Year(s)), OfYear(written, Year(s)))
    /\ s.pc = "manifest" => s.total = Cardinality(DOMAIN written)

OneStores == \A p, q \in Syncs : Storing(sync[p]) /\ Storing(sync[q]) => p = q

StoreInv ==
    ~overlapped =>
        /\ OneStores
        /\ \A y \in Years : PartSound(y)
        /\ \A p \in Syncs : MergeInv(sync[p])
        /\ \A p \in Syncs : Storing(sync[p]) => interrupted

(***************************************************************************)
(* The instruments table has well-formed rows, of which no two have the    *)
(* same key or the same symbol.                                            *)
(***************************************************************************)
TableInv ==
    /\ instruments \in SUBSET Rows /\ IsFiniteSet(instruments)
    /\ Unique(instruments)

CommandsInv ==
    /\ \A p \in Syncs : AskedInv(sync[p])
    /\ \A p \in Syncs : InPart(sync[p]) => sync[p].years # {}

FilesInv == TypeInv /\ CommandsInv /\ StoreInv /\ ManifestTellsTheFiles

IInv == FilesInv /\ TableInv

-----------------------------------------------------------------------------
(* The constants the proofs need. *)
LEMMA ConstantFacts ==
    /\ Days \subseteq Nat \ {0} /\ IsFiniteSet(Days) /\ Days \subseteq Int
    /\ ChunkDays \in Nat \ {0} /\ DaysPerYear \in Nat \ {0}
    /\ DayLength \in Nat \ {0} /\ IstOffset \in 0..(DayLength - 1)
    /\ None \notin Frames /\ Torn \notin Frames /\ None # Torn /\ None \notin Rows
  BY HistoryAssumption, CalendarAssumption, NoneAssumption

(***************************************************************************)
(* The year of a date is a natural number: its IST midnight lies less than *)
(* a day after a UTC one.                                                  *)
(***************************************************************************)
LEMMA YearType == ASSUME NEW d \in Days PROVE YearOf(d) \in Nat /\ YearOf(d) \in Years
<1>1. d \in Nat /\ d >= 1 /\ DayLength \in Nat /\ DayLength >= 1 /\ IstOffset \in Nat
      /\ IstOffset < DayLength /\ DaysPerYear \in Nat \ {0}
  BY ConstantFacts
<1>2. d * DayLength \in Nat /\ d * DayLength >= DayLength
  <2>1. (d - 1) * DayLength \in Nat /\ d * DayLength = (d - 1) * DayLength + DayLength
    BY <1>1
  <2> QED BY <1>1, <2>1
<1> DEFINE n == d * DayLength
<1> HIDE DEF n
<1>3. n - IstOffset \in Nat
  BY <1>1, <1>2 DEF n
<1>4. (n - IstOffset) \div DayLength \in Nat
  BY <1>1, <1>3
<1>5. UtcDate(d * DayLength) \in Nat
  BY <1>4 DEF UtcDate, n
<1>6. YearOf(d) \in Nat
  BY <1>1, <1>5 DEF YearOf
<1> QED BY <1>6 DEF Years

(***************************************************************************)
(* The year that is stored next is one of those left.                      *)
(***************************************************************************)
LEMMA LeastIn == ASSUME NEW S, S \subseteq Nat, S # {} PROVE Min(S) \in S
<1>1. PICK x \in S : \A y \in S : ~ (<<y, x>> \in OpToRel(<,Nat))
  BY WFMin, NatLessThanWellFounded
<1>2. \A y \in S : ~(y < x) /\ x \in Nat /\ y \in Nat
  BY <1>1 DEF OpToRel
<1>3. \A y \in S : x <= y
  BY <1>2
<1> QED BY <1>3 DEF Min

(* The larger of two numbers. *)
LEMMA MaxOfTwo ==
    ASSUME NEW a \in Int, NEW b \in Int
    PROVE  Max({a, b}) = IF a >= b THEN a ELSE b
<1> DEFINE m == Max({a, b})
<1>1. \E x \in {a, b} : \A y \in {a, b} : x >= y
  OBVIOUS
<1>2. m \in {a, b} /\ \A y \in {a, b} : m >= y
  BY <1>1 DEF Max
<1> HIDE DEF m
<1>3. m \in Int /\ m >= a /\ m >= b /\ (m = a \/ m = b)
  BY <1>2
<1>4. m = IF a >= b THEN a ELSE b
  BY <1>3
<1> QED BY <1>4 DEF m

(***************************************************************************)
(* Frames: what a frame is, the rows of a year, and rows laid over others. *)
(***************************************************************************)
LEMMA FrameIs ==
    ASSUME NEW f
    PROVE  f \in Frames <=> /\ DOMAIN f \subseteq Days /\ f = [d \in DOMAIN f |-> f[d]]
                            /\ \A d \in DOMAIN f : f[d] \in Candles
<1>1. ASSUME f \in Frames
      PROVE  /\ DOMAIN f \subseteq Days /\ f = [d \in DOMAIN f |-> f[d]]
             /\ \A d \in DOMAIN f : f[d] \in Candles
  BY <1>1 DEF Frames
<1>2. ASSUME DOMAIN f \subseteq Days, f = [d \in DOMAIN f |-> f[d]],
             \A d \in DOMAIN f : f[d] \in Candles
      PROVE  f \in Frames
  <2>1. f \in [DOMAIN f -> Candles]
    BY <1>2
  <2> QED BY <1>2, <2>1 DEF Frames
<1> QED BY <1>1, <1>2

LEMMA Empty == EmptyFrame \in Frames /\ DOMAIN EmptyFrame = {}
  BY FrameIs DEF EmptyFrame

LEMMA OverlaidType ==
    ASSUME NEW f \in Frames, NEW g \in Frames PROVE Over(f, g) \in Frames
<1> DEFINE h == Over(f, g)
<1>1. /\ DOMAIN h = DOMAIN f \cup DOMAIN g
      /\ \A d \in DOMAIN h : h[d] = IF d \in DOMAIN f THEN f[d] ELSE g[d]
  BY DEF Over
<1>0. h = [d \in DOMAIN h |-> h[d]]
  BY DEF Over
<1> HIDE DEF h
<1>2. DOMAIN h \subseteq Days /\ \A d \in DOMAIN h : h[d] \in Candles
  BY <1>1, FrameIs
<1> QED BY <1>0, <1>2, FrameIs DEF h

LEMMA OfYearIs ==
    ASSUME NEW f \in Frames, NEW y
    PROVE  /\ OfYear(f, y) \in Frames
           /\ DOMAIN OfYear(f, y) = {d \in DOMAIN f : YearOf(d) = y}
           /\ \A d \in DOMAIN OfYear(f, y) : OfYear(f, y)[d] = f[d]
<1> DEFINE g == OfYear(f, y)
<1>1. /\ DOMAIN g = {d \in DOMAIN f : YearOf(d) = y}
      /\ \A d \in DOMAIN g : g[d] = f[d]
      /\ g = [d \in DOMAIN g |-> g[d]]
  BY DEF OfYear
<1> HIDE DEF g
<1>2. g \in Frames
  BY <1>1, FrameIs
<1> QED BY <1>1, <1>2 DEF g

(* Frames with the same dates and the same candles are the same. *)
LEMMA SameFrame ==
    ASSUME NEW f \in Frames, NEW g \in Frames, DOMAIN f = DOMAIN g,
           \A d \in DOMAIN f : f[d] = g[d]
    PROVE  f = g
<1>1. f = [d \in DOMAIN f |-> f[d]] /\ g = [d \in DOMAIN g |-> g[d]]
  BY FrameIs
<1> QED BY <1>1

(***************************************************************************)
(* Storing the rows of a year changes what is written of that year as      *)
(* MergedWith does, and nothing of the other years.                        *)
(***************************************************************************)
LEMMA YearWritten ==
    ASSUME NEW f \in Frames, NEW w \in Frames, NEW y, NEW z
    PROVE  /\ Over(OfYear(f, y), w) \in Frames
           /\ OfYear(Over(OfYear(f, y), w), y) = Over(OfYear(f, y), OfYear(w, y))
           /\ z # y => OfYear(Over(OfYear(f, y), w), z) = OfYear(w, z)
<1> DEFINE r == OfYear(f, y)
           wy == OfYear(w, y)
           wz == OfYear(w, z)
           v == Over(r, w)
           m == Over(r, wy)
<1>1. /\ r \in Frames /\ wy \in Frames /\ wz \in Frames
      /\ \A d \in DOMAIN r : YearOf(d) = y
      /\ DOMAIN wy = {d \in DOMAIN w : YearOf(d) = y}
      /\ DOMAIN wz = {d \in DOMAIN w : YearOf(d) = z}
      /\ \A d \in DOMAIN wy : wy[d] = w[d]
      /\ \A d \in DOMAIN wz : wz[d] = w[d]
  BY OfYearIs
<1> HIDE DEF r, wy, wz
<1>2. /\ v \in Frames /\ m \in Frames
      /\ DOMAIN v = DOMAIN r \cup DOMAIN w /\ DOMAIN m = DOMAIN r \cup DOMAIN wy
      /\ \A d \in DOMAIN v : v[d] = IF d \in DOMAIN r THEN r[d] ELSE w[d]
      /\ \A d \in DOMAIN m : m[d] = IF d \in DOMAIN r THEN r[d] ELSE wy[d]
  <2>1. v \in Frames /\ m \in Frames
    BY <1>1, OverlaidType
  <2>2. /\ DOMAIN v = DOMAIN r \cup DOMAIN w
        /\ \A d \in DOMAIN v : v[d] = IF d \in DOMAIN r THEN r[d] ELSE w[d]
    BY DEF Over
  <2>3. /\ DOMAIN m = DOMAIN r \cup DOMAIN wy
        /\ \A d \in DOMAIN m : m[d] = IF d \in DOMAIN r THEN r[d] ELSE wy[d]
    BY DEF Over
  <2> QED BY <2>1, <2>2, <2>3
<1> HIDE DEF v, m
<1> DEFINE vy == OfYear(v, y)
           vz == OfYear(v, z)
<1>3. /\ vy \in Frames /\ vz \in Frames
      /\ DOMAIN vy = {d \in DOMAIN v : YearOf(d) = y}
      /\ DOMAIN vz = {d \in DOMAIN v : YearOf(d) = z}
      /\ \A d \in DOMAIN vy : vy[d] = v[d]
      /\ \A d \in DOMAIN vz : vz[d] = v[d]
  BY <1>2, OfYearIs
<1> HIDE DEF vy, vz
<1>4. vy = m
  <2>1. DOMAIN vy = DOMAIN m
    BY <1>1, <1>2, <1>3
  <2>2. \A d \in DOMAIN vy : vy[d] = m[d]
    BY <1>1, <1>2, <1>3
  <2> QED BY <1>2, <1>3, <2>1, <2>2, SameFrame
<1>5. z # y => vz = wz
  <2> SUFFICES ASSUME z # y PROVE vz = wz
    OBVIOUS
  <2>1. DOMAIN vz = DOMAIN wz
    BY <1>1, <1>2, <1>3
  <2>2. \A d \in DOMAIN vz : vz[d] = wz[d]
    BY <1>1, <1>2, <1>3
  <2> QED BY <1>1, <1>3, <2>1, <2>2, SameFrame
<1> QED BY <1>2, <1>4, <1>5 DEF r, wy, wz, v, m, vy, vz
-----------------------------------------------------------------------------
(* The fields of a command, and the command after a step of process p. *)
LEMMA CommandFields ==
    ASSUME NEW s \in Command
    PROVE  /\ s.from \in Nat /\ s.to \in Nat /\ s.chunkEnd \in Int
           /\ s.requests \in Seq(SUBSET Int) /\ s.frame \in Frames
           /\ s.years \subseteq Years /\ s.years \subseteq Nat
           /\ s.merged \in Frames /\ s.total \in Nat
           /\ s.pc \in {"idle", "fetch", "read", "open", "close", "count", "manifest"}
  BY YearType DEF Command, Years

LEMMA IdleIs ==
    /\ Idle \in Command /\ ~Storing(Idle) /\ ~InPart(Idle) /\ AskedInv(Idle) /\ MergeInv(Idle)
<1>1. Idle \in Command
  BY Empty DEF Idle, Command
<1>2. Idle.pc = "idle"
  BY DEF Idle
<1> QED BY <1>1, <1>2 DEF Storing, InPart, AskedInv, MergeInv

Started(a, b) == [Idle EXCEPT !.pc = "fetch", !.from = a, !.to = b, !.chunkEnd = b]
Fetched(s, asked, frame, next, years, pc) ==
    [s EXCEPT !.requests = asked, !.frame = frame, !.chunkEnd = next, !.years = years, !.pc = pc]

LEMMA StartedIs ==
    ASSUME NEW a \in Nat, NEW b \in Nat
    PROVE  LET t == Started(a, b)
           IN /\ t \in Command /\ t.pc = "fetch" /\ t.from = a /\ t.to = b
              /\ t.chunkEnd = b /\ t.requests = <<>>
<1> DEFINE t1 == [Idle EXCEPT !.pc = "fetch"]
           t2 == [t1 EXCEPT !.from = a]
           t3 == [t2 EXCEPT !.to = b]
           t4 == [t3 EXCEPT !.chunkEnd = b]
           t == Started(a, b)
<1>1. Idle \in Command /\ Idle.requests = <<>>
  BY IdleIs DEF Idle
<1>2. t1 \in Command /\ t1.requests = <<>> /\ t1.pc = "fetch"
  BY <1>1 DEF Command
<1> HIDE DEF t1
<1>3. t2 \in Command /\ t2.requests = <<>> /\ t2.pc = "fetch" /\ t2.from = a
  BY <1>2 DEF Command
<1> HIDE DEF t2
<1>4. t3 \in Command /\ t3.requests = <<>> /\ t3.pc = "fetch" /\ t3.from = a /\ t3.to = b
  BY <1>3 DEF Command
<1> HIDE DEF t3
<1>5. /\ t4 \in Command /\ t4.requests = <<>> /\ t4.pc = "fetch" /\ t4.from = a /\ t4.to = b
      /\ t4.chunkEnd = b
  BY <1>4 DEF Command
<1> HIDE DEF t4
<1>6. t = t4
  BY DEF t1, t2, t3, t4, Started
<1> HIDE DEF t
<1> QED BY <1>5, <1>6 DEF t

LEMMA FetchedIs ==
    ASSUME NEW s \in Command, NEW asked \in Seq(SUBSET Int), NEW frame \in Frames,
           NEW next \in Int, NEW years \in SUBSET Years, NEW pc \in {"fetch", "count", "read"}
    PROVE  LET t == Fetched(s, asked, frame, next, years, pc)
           IN /\ t \in Command /\ t.pc = pc /\ t.years = years /\ t.from = s.from
              /\ t.to = s.to /\ t.chunkEnd = next /\ t.requests = asked
<1> DEFINE t1 == [s EXCEPT !.requests = asked]
           t2 == [t1 EXCEPT !.frame = frame]
           t3 == [t2 EXCEPT !.chunkEnd = next]
           t4 == [t3 EXCEPT !.years = years]
           t5 == [t4 EXCEPT !.pc = pc]
           t == Fetched(s, asked, frame, next, years, pc)
<1>1. t1 \in Command /\ t1.from = s.from /\ t1.to = s.to /\ t1.requests = asked
  BY DEF Command
<1> HIDE DEF t1
<1>2. t2 \in Command /\ t2.from = s.from /\ t2.to = s.to /\ t2.requests = asked
  BY <1>1 DEF Command
<1> HIDE DEF t2
<1>3. /\ t3 \in Command /\ t3.from = s.from /\ t3.to = s.to /\ t3.requests = asked
      /\ t3.chunkEnd = next
  BY <1>2 DEF Command
<1> HIDE DEF t3
<1>4. /\ t4 \in Command /\ t4.from = s.from /\ t4.to = s.to /\ t4.requests = asked
      /\ t4.chunkEnd = next /\ t4.years = years
  BY <1>3 DEF Command
<1> HIDE DEF t4
<1>5. /\ t5 \in Command /\ t5.from = s.from /\ t5.to = s.to /\ t5.requests = asked
      /\ t5.chunkEnd = next /\ t5.years = years /\ t5.pc = pc
  BY <1>4 DEF Command
<1> HIDE DEF t5
<1>6. t = t5
  BY DEF t1, t2, t3, t4, t5, Fetched
<1> HIDE DEF t
<1> QED BY <1>5, <1>6 DEF t

(***************************************************************************)
(* What process p makes of its own command is sound when the new one is.   *)
(***************************************************************************)
LEMMA CommandsKept ==
    ASSUME TypeInv, CommandsInv, NEW p \in Syncs, NEW t \in Command,
           sync' = [sync EXCEPT ![p] = t], AskedInv(t), InPart(t) => t.years # {}
    PROVE  sync' \in [Syncs -> Command] /\ CommandsInv'
<1>1. sync \in [Syncs -> Command]
  BY DEF TypeInv
<1>2. \A q \in Syncs : sync'[q] = IF q = p THEN t ELSE sync[q]
  BY <1>1
<1>3. \A q \in Syncs : AskedInv(sync'[q])
  BY <1>2 DEF CommandsInv
<1>4. \A q \in Syncs : InPart(sync'[q]) => sync'[q].years # {}
  BY <1>2 DEF CommandsInv
<1> QED BY <1>1, <1>3, <1>4 DEF CommandsInv

(***************************************************************************)
(* A step that writes no file and starts no storing keeps StoreInv.        *)
(***************************************************************************)
LEMMA StoreKept ==
    ASSUME TypeInv, StoreInv, NEW p \in Syncs, NEW t \in Command,
           sync' = [sync EXCEPT ![p] = t], UNCHANGED <<parts, ghosts>>,
           Storing(t) => Storing(sync[p]), ~overlapped => MergeInv(t)
    PROVE  StoreInv'
<1> SUFFICES ASSUME ~overlapped PROVE StoreInv'
  BY DEF StoreInv, ghosts
<1>1. \A q \in Syncs : sync'[q] = IF q = p THEN t ELSE sync[q]
  BY DEF TypeInv
<1>2. written' = written /\ parts' = parts /\ interrupted' = interrupted
      /\ overlapped' = overlapped
  BY DEF ghosts
<1>3. OneStores'
  BY <1>1 DEF StoreInv, OneStores
<1>4. \A y \in Years : PartSound(y)'
  BY <1>2 DEF StoreInv, PartSound
<1>5. \A q \in Syncs : MergeInv(sync[q])'
  BY <1>1, <1>2 DEF StoreInv, MergeInv
<1>6. \A q \in Syncs : Storing(sync'[q]) => interrupted'
  BY <1>1, <1>2 DEF StoreInv
<1> QED BY <1>3, <1>4, <1>5, <1>6 DEF StoreInv

LEMMA ManifestKept ==
    ASSUME ManifestTellsTheFiles, manifest' = manifest, UNCHANGED ghosts
    PROVE  ManifestTellsTheFiles'
  BY DEF ManifestTellsTheFiles, ghosts

-----------------------------------------------------------------------------
(***************************************************************************)
(* One more window before those that were asked for.                       *)
(***************************************************************************)
LEMMA CoverExtended ==
    ASSUME NEW w \in Seq(SUBSET Int), NEW a \in Int, NEW b \in Int, NEW last \in Int,
           a <= b, b <= last, b - a + 1 <= ChunkDays, Cover(w, b + 1, last)
    PROVE  Append(w, a..b) \in Seq(SUBSET Int) /\ Cover(Append(w, a..b), a, last)
<1> DEFINE n == Len(w)
           v == Append(w, a..b)
<1>1. /\ n \in Nat /\ v \in Seq(SUBSET Int) /\ DOMAIN w = 1..n /\ DOMAIN v = 1..(n + 1)
      /\ v[n + 1] = a..b /\ \A k \in 1..n : v[k] = w[k]
  BY AppendProperties, LenProperties
<1> HIDE DEF n, v
<1>2. Cardinality(a..b) = b - a + 1
  BY FS_Interval
<1>3. \A k \in 1..(n + 1) : k \in 1..n \/ k = n + 1
  BY <1>1
<1>4. \A k \in 1..n : k \in 1..(n + 1) /\ k # n + 1
  BY <1>1
<1>5. \A k \in DOMAIN v : v[k] \subseteq a..last /\ Cardinality(v[k]) <= ChunkDays
  <2> SUFFICES ASSUME NEW k \in 1..(n + 1)
               PROVE  v[k] \subseteq a..last /\ Cardinality(v[k]) <= ChunkDays
    BY <1>1
  <2>1. CASE k \in 1..n
    <3>1. v[k] \subseteq (b + 1)..last /\ Cardinality(v[k]) <= ChunkDays
      BY <1>1, <2>1 DEF Cover
    <3> QED BY <3>1
  <2>2. CASE k = n + 1
    BY <1>1, <1>2, <2>2
  <2> QED BY <1>3, <2>1, <2>2
<1>6. \A d \in a..last : \E k \in DOMAIN v :
          d \in v[k] /\ \A j \in DOMAIN v : d \in v[j] => j = k
  <2> SUFFICES ASSUME NEW d \in a..last
               PROVE  \E k \in 1..(n + 1) :
                         d \in v[k] /\ \A j \in 1..(n + 1) : d \in v[j] => j = k
    BY <1>1
  <2>1. CASE d <= b
    <3>1. n + 1 \in 1..(n + 1) /\ d \in v[n + 1]
      BY <1>1, <2>1
    <3>2. \A j \in 1..n : d \notin v[j]
      <4>1. \A j \in 1..n : v[j] \subseteq (b + 1)..last
        BY <1>1 DEF Cover
      <4> QED BY <2>1, <4>1
    <3> QED BY <1>3, <3>1, <3>2
  <2>2. CASE d > b
    <3>1. PICK k \in 1..n : d \in w[k] /\ \A j \in 1..n : d \in w[j] => j = k
      <4>1. d \in (b + 1)..last
        BY <2>2
      <4> QED BY <1>1, <4>1 DEF Cover
    <3>2. d \notin v[n + 1]
      BY <1>1, <2>2
    <3> QED BY <1>1, <1>3, <1>4, <3>1, <3>2
  <2> QED BY <2>1, <2>2
<1> QED BY <1>1, <1>5, <1>6 DEF Cover, v

LEMMA NothingAsked ==
    ASSUME NEW n \in Int PROVE Cover(<<>>, n + 1, n)
  BY DEF Cover

(* The chunk that is fetched next. *)
LEMMA NextChunk ==
    ASSUME NEW s \in Command, s.from <= s.chunkEnd
    PROVE  /\ ChunkStart(s) \in Int /\ NextChunkEnd(s) = ChunkStart(s) - 1
           /\ s.from <= ChunkStart(s) /\ ChunkStart(s) <= s.chunkEnd
           /\ s.chunkEnd - ChunkStart(s) + 1 <= ChunkDays
<1> DEFINE from == s.from
           e == s.chunkEnd
           b == e - (ChunkDays - 1)
<1>1. from \in Int /\ e \in Int /\ ChunkDays \in Nat \ {0} /\ from <= e
  BY ConstantFacts, CommandFields
<1>2. ChunkStart(s) = Max({from, b})
  BY DEF ChunkStart
<1>3. NextChunkEnd(s) = ChunkStart(s) - 1
  BY DEF NextChunkEnd
<1> HIDE DEF from, e
<1>4. b \in Int
  BY <1>1
<1>5. ChunkStart(s) = IF from >= b THEN from ELSE b
  BY <1>1, <1>2, <1>4, MaxOfTwo
<1>6. /\ ChunkStart(s) \in Int /\ from <= ChunkStart(s) /\ ChunkStart(s) <= e
      /\ e - ChunkStart(s) + 1 <= ChunkDays
  BY <1>1, <1>4, <1>5
<1> QED BY <1>3, <1>6 DEF from, e

-----------------------------------------------------------------------------
(* The year that a command is at. *)
LEMMA YearIs ==
    ASSUME TypeInv, CommandsInv, NEW p \in Syncs, InPart(sync[p])
    PROVE  Year(sync[p]) \in sync[p].years /\ Year(sync[p]) \in Years
<1>1. sync[p] \in Command /\ sync[p].years # {}
  BY DEF TypeInv, CommandsInv
<1>2. sync[p].years \subseteq Years /\ sync[p].years \subseteq Nat
  BY <1>1, CommandFields
<1> QED BY <1>1, <1>2, LeastIn DEF Year

(***************************************************************************)
(* Steps that write no file and start no storing: those that end a         *)
(* command, or start one.                                                  *)
(***************************************************************************)
LEMMA QuietStep ==
    ASSUME FilesInv, NEW p \in Syncs, NEW t \in Command,
           sync' = [sync EXCEPT ![p] = t], UNCHANGED <<vendor, parts, manifest, ghosts>>,
           InPart(t) => t.years # {}, AskedInv(t), Storing(t) => Storing(sync[p]),
           ~overlapped => MergeInv(t)
    PROVE  FilesInv'
<1>1. sync' \in [Syncs -> Command] /\ CommandsInv'
  BY CommandsKept DEF FilesInv
<1>2. TypeInv'
  BY <1>1 DEF FilesInv, TypeInv, ghosts
<1>3. StoreInv'
  BY StoreKept DEF FilesInv
<1>4. ManifestTellsTheFiles'
  BY ManifestKept DEF FilesInv
<1> QED BY <1>1, <1>2, <1>3, <1>4 DEF FilesInv

LEMMA EndKeeps ==
    ASSUME FilesInv, NEW p \in Syncs, FetchFails(p) \/ Abort(p) \/ Crash(p)
    PROVE  FilesInv'
<1>1. sync' = [sync EXCEPT ![p] = Idle] /\ UNCHANGED <<vendor, parts, manifest, ghosts>>
  BY DEF FetchFails, Abort, Crash, external
<1> QED BY <1>1, IdleIs, QuietStep

LEMMA StartKeeps ==
    ASSUME FilesInv, NEW p \in Syncs, NEW range \in Ranges, StartSync(p, range)
    PROVE  FilesInv'
<1> DEFINE t == Started(range[1], range[2])
<1>1. sync' = [sync EXCEPT ![p] = t] /\ UNCHANGED <<vendor, parts, manifest, ghosts>>
      /\ range[1] <= range[2]
  BY DEF StartSync, external, Started
<1>2. range[1] \in Nat /\ range[2] \in Nat
  BY HistoryAssumption, ConstantFacts
<1>3. /\ t \in Command /\ t.pc = "fetch" /\ t.from = range[1] /\ t.to = range[2]
      /\ t.chunkEnd = range[2] /\ t.requests = <<>>
  BY <1>2, StartedIs
<1> HIDE DEF t
<1>4. AskedInv(t)
  <2>1. Cover(t.requests, t.chunkEnd + 1, t.to)
    BY <1>2, <1>3, NothingAsked
  <2> QED BY <1>1, <1>2, <1>3, <2>1 DEF AskedInv
<1>5. ~InPart(t) /\ ~Storing(t) /\ MergeInv(t)
  BY <1>3 DEF InPart, Storing, MergeInv
<1> QED BY <1>1, <1>3, <1>4, <1>5, QuietStep

(***************************************************************************)
(* A chunk: after the first one of the range the frame is complete.        *)
(***************************************************************************)
LEMMA AnswerIs ==
    ASSUME TypeInv, NEW window PROVE Answer(window) \in Frames
<1> DEFINE f == Answer(window)
<1>1. /\ DOMAIN f \subseteq Days /\ \A d \in DOMAIN f : f[d] = vendor[d] /\ vendor[d] # None
      /\ f = [d \in DOMAIN f |-> f[d]]
  BY DEF Answer
<1>2. \A d \in Days : vendor[d] # None => vendor[d] \in Candles
  BY DEF TypeInv
<1> HIDE DEF f
<1>3. \A d \in DOMAIN f : f[d] \in Candles
  BY <1>1, <1>2
<1> QED BY <1>1, <1>3, FrameIs DEF f

LEMMA FetchKeeps ==
    ASSUME FilesInv, NEW p \in Syncs, FetchChunk(p)
    PROVE  FilesInv'
<1> DEFINE s == sync[p]
           window == ChunkStart(s)..s.chunkEnd
           frame == Over(s.frame, Answer(window))
           final == NextChunkEnd(s) < s.from
           years == IF final THEN {YearOf(d) : d \in DOMAIN frame} ELSE {}
           pc == IF ~final THEN "fetch" ELSE IF DOMAIN frame = {} THEN "count" ELSE "read"
           asked == Append(s.requests, window)
           next == NextChunkEnd(s)
           t == Fetched(s, asked, frame, next, years, pc)
<1>1. /\ s.pc = "fetch" /\ sync' = [sync EXCEPT ![p] = t]
      /\ overlapped' = (overlapped \/ (final /\ Overlapping(p)))
      /\ interrupted' = (interrupted \/ final)
      /\ UNCHANGED <<vendor, parts, manifest, written>>
  BY DEF FetchChunk, external, Fetched
<1>2. s \in Command /\ AskedInv(s)
  BY DEF FilesInv, TypeInv, CommandsInv
<1>3. /\ s.from \in Nat /\ s.to \in Nat /\ s.chunkEnd \in Int /\ s.frame \in Frames
      /\ s.requests \in Seq(SUBSET Int)
      /\ s.from <= s.chunkEnd /\ s.chunkEnd <= s.to
      /\ Cover(s.requests, s.chunkEnd + 1, s.to)
  BY <1>1, <1>2, CommandFields DEF AskedInv
<1>4. /\ ChunkStart(s) \in Int /\ NextChunkEnd(s) = ChunkStart(s) - 1
      /\ s.from <= ChunkStart(s) /\ ChunkStart(s) <= s.chunkEnd
      /\ s.chunkEnd - ChunkStart(s) + 1 <= ChunkDays
  BY <1>2, <1>3, NextChunk
<1>5. frame \in Frames
  BY <1>3, AnswerIs, OverlaidType DEF FilesInv
<1> HIDE DEF frame
<1>6. years \subseteq Years /\ (final /\ DOMAIN frame # {} => years # {})
  BY <1>5, FrameIs, YearType
<1>7. final \in BOOLEAN
  OBVIOUS
<1>8. Append(s.requests, window) \in Seq(SUBSET Int)
      /\ Cover(Append(s.requests, window), ChunkStart(s), s.to)
  BY <1>3, <1>4, CoverExtended
<1>7a. pc \in {"fetch", "count", "read"}
  OBVIOUS
<1>9. /\ t \in Command /\ t.pc = pc /\ t.years = years /\ t.from = s.from /\ t.to = s.to
      /\ t.chunkEnd = next /\ t.requests = asked
  <2>1. asked \in Seq(SUBSET Int) /\ next \in Int
    BY <1>4, <1>8
  <2> HIDE DEF window, years, pc, asked, next, final, s
  <2> QED BY <1>2, <1>5, <1>6, <1>7a, <2>1, FetchedIs
<1>10. final => ChunkStart(s) = s.from
  BY <1>3, <1>4
<1>11. ~final => s.from <= NextChunkEnd(s) /\ NextChunkEnd(s) <= s.to
  BY <1>3, <1>4
<1>12. NextChunkEnd(s) + 1 = ChunkStart(s)
  BY <1>4
<1> HIDE DEF t, window, years, final
<1>13. AskedInv(t)
  BY <1>4, <1>7, <1>8, <1>9, <1>10, <1>11, <1>12 DEF AskedInv
<1>14. InPart(t) => t.years # {}
  BY <1>6, <1>9 DEF InPart
<1>15. sync' \in [Syncs -> Command] /\ CommandsInv'
  BY <1>1, <1>9, <1>13, <1>14, CommandsKept DEF FilesInv
<1>16. TypeInv'
  BY <1>1, <1>7, <1>15 DEF FilesInv, TypeInv
<1>17. MergeInv(t) /\ (Storing(t) => final)
  BY <1>9 DEF MergeInv, Storing
<1>18. StoreInv' /\ ManifestTellsTheFiles'
  <2>1. CASE ~final
    <3>1. UNCHANGED ghosts
      BY <1>1, <2>1 DEF ghosts, FilesInv, TypeInv
    <3> QED BY <1>1, <1>9, <1>17, <2>1, <3>1, StoreKept, ManifestKept DEF FilesInv
  <2>2. CASE final
    <3>1. interrupted' = TRUE /\ overlapped' = (overlapped \/ Overlapping(p))
      BY <1>1, <2>2
    <3>2. ManifestTellsTheFiles'
      BY <3>1 DEF ManifestTellsTheFiles
    <3>3. ASSUME ~overlapped' PROVE StoreInv'
      <4>1. ~overlapped /\ \A q \in Syncs \ {p} : ~Storing(sync[q])
        BY <3>1, <3>3 DEF Overlapping
      <4>2. \A q \in Syncs : sync'[q] = IF q = p THEN t ELSE sync[q]
        BY <1>1 DEF FilesInv, TypeInv
      <4>3. OneStores'
        BY <4>1, <4>2 DEF OneStores
      <4>4. \A y \in Years : PartSound(y)'
        BY <1>1, <4>1 DEF FilesInv, StoreInv, PartSound
      <4>5. \A q \in Syncs : MergeInv(sync[q])'
        BY <1>1, <1>17, <4>1, <4>2 DEF FilesInv, StoreInv, MergeInv
      <4> QED BY <3>1, <4>3, <4>4, <4>5 DEF StoreInv
    <3> QED BY <3>2, <3>3 DEF StoreInv
  <2> QED BY <1>7, <2>1, <2>2
<1> QED BY <1>15, <1>16, <1>18 DEF FilesInv

-----------------------------------------------------------------------------
(***************************************************************************)
(* The files, year by year.                                                *)
(***************************************************************************)
LEMMA MergedIs ==
    ASSUME TypeInv, NEW y \in Years, parts[y] # Torn, NEW rows \in Frames
    PROVE  /\ MergedWith(parts[y], rows) \in Frames
           /\ PartSound(y) => MergedWith(parts[y], rows) = Over(rows, OfYear(written, y))
<1> DEFINE part == parts[y]
           wy == OfYear(written, y)
           m == Over(rows, wy)
<1>1. part \in Frames \cup {None} /\ wy \in Frames /\ None \notin Frames
  BY OfYearIs, ConstantFacts DEF TypeInv
<1>2. CASE part = None
  <2>1. MergedWith(part, rows) = rows
    BY <1>2 DEF MergedWith
  <2>2. ASSUME PartSound(y) PROVE m = rows
    <3>1. DOMAIN wy = {}
      BY <1>2, <2>2 DEF PartSound
    <3> HIDE DEF wy
    <3>2. m \in Frames
      BY <1>1, OverlaidType
    <3>3. DOMAIN m = DOMAIN rows /\ \A d \in DOMAIN m : m[d] = rows[d]
      BY <3>1 DEF Over
    <3> QED BY <3>2, <3>3, SameFrame
  <2> QED BY <2>1, <2>2
<1>3. CASE part # None
  <2>1. MergedWith(part, rows) = Over(rows, part)
    BY <1>3 DEF MergedWith
  <2>2. Over(rows, part) \in Frames
    BY <1>1, <1>3, OverlaidType
  <2>3. PartSound(y) => part = wy
    BY <1>1, <1>3 DEF PartSound
  <2> QED BY <2>1, <2>2, <2>3
<1> QED BY <1>2, <1>3

LEMMA ReadKeeps ==
    ASSUME FilesInv, NEW p \in Syncs, ReadPart(p)
    PROVE  FilesInv'
<1> DEFINE s == sync[p]
           y == Year(s)
           rows == OfYear(s.frame, y)
           m == MergedWith(parts[y], rows)
           t == [s EXCEPT !.merged = m, !.pc = "open"]
<1>1. /\ s.pc = "read" /\ parts[y] # Torn /\ sync' = [sync EXCEPT ![p] = t]
      /\ UNCHANGED <<vendor, parts, manifest, ghosts>>
  BY DEF ReadPart, external
<1>2. s \in Command /\ AskedInv(s) /\ s.years # {} /\ InPart(s)
  BY <1>1 DEF FilesInv, TypeInv, CommandsInv, InPart
<1>3. y \in Years /\ rows \in Frames
  BY <1>2, YearIs, CommandFields, OfYearIs DEF FilesInv
<1>4. m \in Frames /\ (PartSound(y) => m = Over(rows, OfYear(written, y)))
  BY <1>1, <1>3, MergedIs DEF FilesInv
<1> HIDE DEF m
<1>5. /\ t \in Command /\ t.pc = "open" /\ t.years = s.years /\ t.merged = m
      /\ t.frame = s.frame /\ t.from = s.from /\ t.to = s.to /\ t.chunkEnd = s.chunkEnd
      /\ t.requests = s.requests
  <2> HIDE DEF s
  <2> QED BY <1>2, <1>4 DEF Command
<1> HIDE DEF t
<1>6. Year(t) = y
  BY <1>5 DEF Year
<1>7. ~overlapped => MergeInv(t)
  BY <1>3, <1>4, <1>5, <1>6 DEF MergeInv, FilesInv, StoreInv
<1>8. AskedInv(t)
  BY <1>1, <1>2, <1>5 DEF AskedInv
<1>9. Storing(s)
  BY <1>1 DEF Storing
<1> QED BY <1>1, <1>2, <1>5, <1>7, <1>8, <1>9, QuietStep

LEMMA OpenKeeps ==
    ASSUME FilesInv, NEW p \in Syncs, OpenPart(p)
    PROVE  FilesInv'
<1> DEFINE s == sync[p]
           y == Year(s)
           t == [s EXCEPT !.pc = "close"]
<1>1. /\ s.pc = "open" /\ parts' = [parts EXCEPT ![y] = Torn]
      /\ UNCHANGED <<vendor, manifest, written, overlapped, interrupted>>
  BY DEF OpenPart, external, ghosts
<1>1a. sync' = [sync EXCEPT ![p] = t]
  BY DEF OpenPart, FilesInv, TypeInv
<1>2. s \in Command /\ AskedInv(s) /\ s.years # {} /\ InPart(s)
  BY <1>1 DEF FilesInv, TypeInv, CommandsInv, InPart
<1>3. /\ t \in Command /\ t.pc = "close" /\ t.years = s.years /\ t.merged = s.merged
      /\ t.frame = s.frame /\ t.from = s.from /\ t.to = s.to /\ t.chunkEnd = s.chunkEnd
      /\ t.requests = s.requests
  <2> HIDE DEF s
  <2> QED BY <1>2 DEF Command
<1> HIDE DEF t
<1>4. AskedInv(t)
  BY <1>1, <1>2, <1>3 DEF AskedInv
<1>5. sync' \in [Syncs -> Command] /\ CommandsInv'
  BY <1>1a, <1>2, <1>3, <1>4, CommandsKept DEF FilesInv
<1>6. TypeInv'
  BY <1>1, <1>5 DEF FilesInv, TypeInv
<1>7. ManifestTellsTheFiles'
  BY <1>1 DEF FilesInv, ManifestTellsTheFiles
<1>8. ASSUME ~overlapped PROVE StoreInv'
  <2>1. \A q \in Syncs : sync'[q] = IF q = p THEN t ELSE sync[q]
    BY <1>1a DEF FilesInv, TypeInv
  <2>2. Storing(s) /\ Year(t) = y
    BY <1>1, <1>3 DEF Storing, Year
  <2>3. OneStores'
    BY <1>8, <2>1, <2>2 DEF FilesInv, StoreInv, OneStores
  <2>4. \A z \in Years : PartSound(z)'
    <3> SUFFICES ASSUME NEW z \in Years PROVE PartSound(z)'
      OBVIOUS
    <3>1. PartSound(z)
      BY <1>8 DEF FilesInv, StoreInv
    <3>2. parts'[z] = IF z = y THEN Torn ELSE parts[z]
      BY <1>1 DEF FilesInv, TypeInv
    <3> QED BY <1>1, <3>1, <3>2, ConstantFacts DEF PartSound
  <2>5. MergeInv(s)
    BY <1>8 DEF FilesInv, StoreInv
  <2>6. MergeInv(t)
    BY <1>1, <1>3, <2>2, <2>5 DEF MergeInv
  <2>7. \A q \in Syncs : MergeInv(sync[q])'
    BY <1>1, <1>8, <2>1, <2>6 DEF FilesInv, StoreInv, MergeInv
  <2>8. \A q \in Syncs : Storing(sync'[q]) => interrupted'
    BY <1>1, <1>8, <2>1, <2>2 DEF FilesInv, StoreInv
  <2> QED BY <2>3, <2>4, <2>7, <2>8 DEF StoreInv
<1> QED BY <1>1, <1>5, <1>6, <1>7, <1>8 DEF FilesInv, StoreInv

LEMMA CloseKeeps ==
    ASSUME FilesInv, NEW p \in Syncs, ClosePart(p)
    PROVE  FilesInv'
<1> DEFINE s == sync[p]
           y == Year(s)
           rows == OfYear(s.frame, y)
           rest == s.years \ {y}
           pc == IF rest = {} THEN "count" ELSE "read"
           t == [s EXCEPT !.years = rest, !.merged = EmptyFrame, !.pc = pc]
<1>1. /\ s.pc = "close" /\ parts' = [parts EXCEPT ![y] = s.merged]
      /\ written' = Over(rows, written) /\ sync' = [sync EXCEPT ![p] = t]
      /\ UNCHANGED <<vendor, manifest, overlapped, interrupted>>
  BY DEF ClosePart, external
<1>2. s \in Command /\ AskedInv(s) /\ s.years # {} /\ InPart(s)
  BY <1>1 DEF FilesInv, TypeInv, CommandsInv, InPart
<1>3. /\ y \in Years /\ rest \subseteq Years /\ rows \in Frames /\ s.merged \in Frames
      /\ s.frame \in Frames
  BY <1>2, YearIs, CommandFields, OfYearIs DEF FilesInv
<1>3a. pc \in {"count", "read"} /\ (pc = "read" => rest # {})
  OBVIOUS
<1>4. /\ t \in Command /\ t.pc = pc /\ t.years = rest
      /\ t.from = s.from /\ t.to = s.to /\ t.chunkEnd = s.chunkEnd /\ t.requests = s.requests
  <2> HIDE DEF s, rest, pc
  <2> QED BY <1>2, <1>3, <1>3a, Empty DEF Command
<1> HIDE DEF t, pc, rest
<1>5. AskedInv(t)
  BY <1>1, <1>2, <1>3a, <1>4 DEF AskedInv
<1>6. InPart(t) => t.years # {}
  BY <1>3a, <1>4 DEF InPart
<1>7. sync' \in [Syncs -> Command] /\ CommandsInv'
  BY <1>1, <1>4, <1>5, <1>6, CommandsKept DEF FilesInv
<1>8. written \in Frames /\ parts \in [Years -> Frames \cup {None, Torn}]
  BY DEF FilesInv, TypeInv
<1>9. written' \in Frames
  BY <1>1, <1>3, <1>8, OverlaidType
<1>10. parts' \in [Years -> Frames \cup {None, Torn}]
  BY <1>1, <1>3, <1>8
<1>11. TypeInv'
  BY <1>1, <1>7, <1>9, <1>10 DEF FilesInv, TypeInv
<1>12. Storing(s)
  BY <1>1 DEF Storing
<1>13. ManifestTellsTheFiles'
  <2> SUFFICES ASSUME ~overlapped, ~interrupted PROVE FALSE
    BY <1>1 DEF ManifestTellsTheFiles
  <2> QED BY <1>12 DEF FilesInv, StoreInv
<1>14. ASSUME ~overlapped PROVE StoreInv'
  <2>1. \A q \in Syncs : sync'[q] = IF q = p THEN t ELSE sync[q]
    BY <1>1 DEF FilesInv, TypeInv
  <2>2. /\ OneStores /\ MergeInv(s) /\ interrupted
        /\ \A z \in Years : PartSound(z)
        /\ \A q \in Syncs \ {p} : ~Storing(sync[q])
    BY <1>12, <1>14 DEF FilesInv, StoreInv, OneStores
  <2>3. OneStores'
    BY <2>1, <2>2 DEF OneStores
  <2>4. s.merged = Over(rows, OfYear(written, y))
    BY <1>1, <2>2 DEF MergeInv
  <2>5. \A z \in Years : PartSound(z)'
    <3> SUFFICES ASSUME NEW z \in Years PROVE PartSound(z)'
      OBVIOUS
    <3>1. PartSound(z)
      BY <2>2
    <3>2. parts'[z] = IF z = y THEN s.merged ELSE parts[z]
      BY <1>1, <1>8
    <3>3. /\ OfYear(written', y) = Over(rows, OfYear(written, y))
          /\ z # y => OfYear(written', z) = OfYear(written, z)
      BY <1>1, <1>3, <1>8, YearWritten
    <3>4. CASE z = y
      <4>1. parts'[z] = OfYear(written', z) /\ parts'[z] # None
        BY <1>3, <2>4, <3>2, <3>3, <3>4, ConstantFacts
      <4> QED BY <4>1 DEF PartSound
    <3>5. CASE z # y
      <4>1. parts'[z] = parts[z] /\ OfYear(written', z) = OfYear(written, z)
        BY <3>2, <3>3, <3>5
      <4> QED BY <3>1, <4>1 DEF PartSound
    <3> QED BY <3>4, <3>5
  <2>7. \A q \in Syncs \ {p} : MergeInv(sync[q])'
    <3> SUFFICES ASSUME NEW q \in Syncs \ {p} PROVE MergeInv(sync[q])'
      OBVIOUS
    <3>1. sync'[q] = sync[q] /\ sync[q].pc \in {"idle", "fetch"}
      BY <2>1, <2>2 DEF Storing
    <3> QED BY <3>1 DEF MergeInv
  <2>6. sync'[p] = t
    BY <2>1
  <2>8. \A q \in Syncs : MergeInv(sync[q])'
    <3>1. MergeInv(sync[p])'
      BY <1>3a, <1>4, <2>6 DEF MergeInv
    <3> QED BY <2>7, <3>1
  <2>9. \A q \in Syncs : Storing(sync'[q]) => interrupted'
    BY <1>1, <2>2
  <2> QED BY <2>3, <2>5, <2>8, <2>9 DEF StoreInv
<1> QED BY <1>1, <1>7, <1>11, <1>13, <1>14 DEF FilesInv, StoreInv

(***************************************************************************)
(* What is stored is what was written when every file is sound.            *)
(***************************************************************************)
LEMMA StoredDates ==
    ASSUME TypeInv, Readable
    PROVE  /\ DOMAIN Stored \subseteq Days /\ IsFiniteSet(DOMAIN Stored)
           /\ (\A y \in Years : PartSound(y)) => DOMAIN Stored = DOMAIN written
<1> DEFINE Dates == UNION {DOMAIN parts[y] : y \in {z \in Years : parts[z] # None}}
<1>1. DOMAIN Stored = Dates
  BY DEF Stored
<1>2. \A y \in Years : parts[y] # None => parts[y] \in Frames
  BY DEF TypeInv, Readable
<1>3. Dates \subseteq Days
  BY <1>2, FrameIs
<1>4. ASSUME \A y \in Years : PartSound(y) PROVE Dates = DOMAIN written
  <2>1. \A y \in Years : DOMAIN OfYear(written, y) = {d \in DOMAIN written : YearOf(d) = y}
    BY OfYearIs DEF TypeInv
  <2>2. \A y \in Years : parts[y] # None => DOMAIN parts[y] = DOMAIN OfYear(written, y)
    BY <1>2, <1>4 DEF PartSound
  <2>3. \A y \in Years : parts[y] = None => {d \in DOMAIN written : YearOf(d) = y} = {}
    BY <1>4, <2>1 DEF PartSound
  <2>4. DOMAIN written \subseteq Days
    BY FrameIs DEF TypeInv
  <2>5. Dates \subseteq DOMAIN written
    BY <2>1, <2>2
  <2>6. ASSUME NEW d \in DOMAIN written PROVE d \in Dates
    <3>1. YearOf(d) \in Years
      BY <2>4, YearType
    <3>2. parts[YearOf(d)] # None
      BY <2>3, <3>1
    <3>3. d \in DOMAIN parts[YearOf(d)]
      BY <2>1, <2>2, <3>1, <3>2
    <3> QED BY <3>1, <3>2, <3>3
  <2> QED BY <2>5, <2>6
<1> HIDE DEF Dates
<1>5. IsFiniteSet(Dates)
  BY <1>3, ConstantFacts, FS_Subset
<1> QED BY <1>1, <1>3, <1>4, <1>5

LEMMA CountKeeps ==
    ASSUME FilesInv, NEW p \in Syncs, CountRows(p)
    PROVE  FilesInv'
<1> DEFINE s == sync[p]
           n == Cardinality(DOMAIN Stored)
           t == [s EXCEPT !.total = n, !.pc = "manifest"]
<1>1. s.pc = "count" /\ Readable /\ UNCHANGED <<vendor, parts, manifest, ghosts>>
  BY DEF CountRows, external
<1>1a. sync' = [sync EXCEPT ![p] = t]
  BY DEF CountRows, FilesInv, TypeInv
<1>2. s \in Command /\ AskedInv(s)
  BY DEF FilesInv, TypeInv, CommandsInv
<1>3. n \in Nat /\ ((\A y \in Years : PartSound(y)) => n = Cardinality(DOMAIN written))
  BY <1>1, StoredDates, FS_CardinalityType DEF FilesInv
<1> HIDE DEF n
<1>4. /\ t \in Command /\ t.pc = "manifest" /\ t.total = n
      /\ t.from = s.from /\ t.to = s.to /\ t.chunkEnd = s.chunkEnd /\ t.requests = s.requests
  <2> HIDE DEF s
  <2> QED BY <1>2, <1>3 DEF Command
<1> HIDE DEF t
<1>5. AskedInv(t)
  BY <1>1, <1>2, <1>4 DEF AskedInv
<1>6. ~InPart(t) /\ Storing(s)
  BY <1>1, <1>4 DEF InPart, Storing
<1>7. ~overlapped => MergeInv(t)
  BY <1>3, <1>4 DEF MergeInv, FilesInv, StoreInv
<1> QED BY <1>1, <1>1a, <1>4, <1>5, <1>6, <1>7, QuietStep

LEMMA ManifestKeeps ==
    ASSUME FilesInv, NEW p \in Syncs, WriteManifest(p)
    PROVE  FilesInv'
<1> DEFINE s == sync[p]
<1>1. /\ s.pc = "manifest" /\ Readable /\ sync' = [sync EXCEPT ![p] = Idle]
      /\ manifest' = ManifestOf(s) /\ interrupted' = FALSE
      /\ UNCHANGED <<vendor, parts, written, overlapped>>
  BY DEF WriteManifest, external
<1>2. sync' \in [Syncs -> Command] /\ CommandsInv'
  BY <1>1, IdleIs, CommandsKept DEF FilesInv
<1>3. TypeInv'
  BY <1>1, <1>2 DEF FilesInv, TypeInv
<1>4. ASSUME ~overlapped
      PROVE  ManifestTellsTheFiles' /\ StoreInv'
  <2>1. \A q \in Syncs : sync'[q] = IF q = p THEN Idle ELSE sync[q]
    BY <1>1 DEF FilesInv, TypeInv
  <2>2. /\ MergeInv(s) /\ \A y \in Years : PartSound(y)
        /\ \A q \in Syncs \ {p} : ~Storing(sync[q]) /\ MergeInv(sync[q])
    <3>1. Storing(s)
      BY <1>1 DEF Storing
    <3> QED BY <1>4, <3>1 DEF FilesInv, StoreInv, OneStores
  <2>3. \A q \in Syncs : ~Storing(sync'[q])
    BY <2>1, <2>2, IdleIs
  <2>4. \A y \in Years : PartSound(y)'
    BY <1>1, <2>2 DEF PartSound
  <2>5. \A q \in Syncs : MergeInv(sync[q])'
    BY <2>3 DEF MergeInv, Storing
  <2>6. StoreInv'
    BY <2>3, <2>4, <2>5 DEF StoreInv, OneStores
  <2>7. DOMAIN Stored = DOMAIN written /\ s.total = Cardinality(DOMAIN written)
    BY <1>1, <2>2, StoredDates DEF FilesInv, MergeInv
  <2>8. /\ ManifestOf(s).rows = s.total
        /\ DOMAIN Stored # {} => /\ ManifestOf(s).first = Min(DOMAIN Stored)
                                 /\ ManifestOf(s).last = Max(DOMAIN Stored)
    BY DEF ManifestOf
  <2>9. written # EmptyFrame => DOMAIN written # {}
    <3>1. DOMAIN written = {} => written = EmptyFrame
      BY Empty, SameFrame DEF FilesInv, TypeInv
    <3> QED BY <3>1
  <2> QED BY <1>1, <2>6, <2>7, <2>8, <2>9 DEF ManifestTellsTheFiles
<1>5. ASSUME overlapped PROVE ManifestTellsTheFiles' /\ StoreInv'
  BY <1>1, <1>5 DEF ManifestTellsTheFiles, StoreInv
<1> QED BY <1>2, <1>3, <1>4, <1>5 DEF FilesInv

-----------------------------------------------------------------------------
(***************************************************************************)
(* The instruments table.  AfterUpserts folds Upsert over the master: a    *)
(* recursive function over the sets of its positions that takes out the    *)
(* last one.  What a function is that obeys the recursion on the sets of   *)
(* D:                                                                      *)
(***************************************************************************)
Upsert(table, info) ==
    IF table # Refused /\ Unique(Upserted(table, info)) THEN Upserted(table, info) ELSE Refused

Unfolds(rows, master, D, g) ==
    g = [s \in D |-> IF s = {} THEN rows ELSE Upsert(g[s \ {Max(s)}], master[Max(s)])]

LEMMA UpsertsDef ==
    ASSUME NEW rows, NEW master
    PROVE  AfterUpserts(rows, master) =
              (CHOOSE g : Unfolds(rows, master, SUBSET DOMAIN master, g))[DOMAIN master]
  BY DEF AfterUpserts, FoldLeft, MapThenFoldSet, Unfolds, Upsert

LEMMA LeastNat ==
    ASSUME NEW T, T \subseteq Nat, T # {}
    PROVE  \E n \in T : \A m \in T : n <= m
<1>1. PICK x \in T : \A y \in T : ~ (<<y, x>> \in OpToRel(<,Nat))
  BY WFMin, NatLessThanWellFounded
<1>2. \A y \in T : ~(y < x)
  BY <1>1 DEF OpToRel
<1> QED BY <1>2

LEMMA PlacesAreFinite ==
    ASSUME NEW n \in Nat PROVE IsFiniteSet(1..n) /\ Cardinality(1..n) = n
<1>1. 1 \in Int /\ n \in Int /\ (1 > n => n = 0) /\ n - 1 + 1 = n
  OBVIOUS
<1> QED BY <1>1, FS_Interval

(* The last position is one of them, and without it there is one less. *)
LEMMA LastOut ==
    ASSUME NEW n \in Nat, NEW s \in SUBSET (1..n), s # {}
    PROVE  /\ Max(s) \in s /\ s \ {Max(s)} \in SUBSET (1..n)
           /\ Cardinality(s) \in Nat \ {0}
           /\ Cardinality(s \ {Max(s)}) = Cardinality(s) - 1
<1> DEFINE mirror == {n - x : x \in s}
<1>0. \A x \in s : x \in Int /\ 1 <= x /\ x <= n /\ n - x \in Nat
  OBVIOUS
<1>1. mirror \subseteq Nat /\ mirror # {}
  BY <1>0
<1>2. PICK m \in mirror : \A k \in mirror : m <= k
  <2> HIDE DEF mirror
  <2> QED BY <1>1, LeastNat
<1>3. PICK x \in s : \A y \in s : x >= y
  <2>1. PICK x \in s : m = n - x
    BY <1>2
  <2>2. \A y \in s : n - y \in mirror
    OBVIOUS
  <2>3. \A y \in s : n - x <= n - y
    BY <1>2, <2>1, <2>2
  <2>4. \A y \in s : x >= y
    BY <1>0, <2>3
  <2> QED BY <2>4
<1>4. Max(s) \in s
  BY <1>3 DEF Max
<1>5. IsFiniteSet(s)
  <2>1. IsFiniteSet(1..n)
    BY PlacesAreFinite
  <2> QED BY <2>1, FS_Subset
<1>6. Cardinality(s) \in Nat /\ Cardinality(s) # 0
  BY <1>5, FS_CardinalityType, FS_EmptySet
<1>7. Cardinality(s \ {Max(s)}) = Cardinality(s) - 1
  BY <1>4, <1>5, FS_RemoveElement
<1> QED BY <1>4, <1>6, <1>7

UpTo(S, n) == {s \in SUBSET S : Cardinality(s) <= n}

LEMMA UnfoldsUpTo ==
    ASSUME NEW rows, NEW master, NEW n \in Nat, DOMAIN master = 1..n
    PROVE  \A k \in Nat : \E g : Unfolds(rows, master, UpTo(1..n, k), g)
<1> DEFINE S == 1..n
           Bad == {k \in Nat : ~ \E g : Unfolds(rows, master, UpTo(S, k), g)}
<1> SUFFICES ASSUME Bad # {} PROVE FALSE
  OBVIOUS
<1>1. PICK k \in Bad : \A m \in Bad : k <= m
  <2>1. Bad \subseteq Nat OBVIOUS
  <2> HIDE DEF Bad
  <2> QED BY <2>1, LeastNat
<1>a. \A s \in SUBSET S : s # {} => /\ s \ {Max(s)} \in SUBSET S
                                    /\ Cardinality(s) \in Nat \ {0}
                                    /\ Cardinality(s \ {Max(s)}) = Cardinality(s) - 1
  BY LastOut
<1>b. \A s \in SUBSET S : Cardinality(s) \in Nat
  <2> SUFFICES ASSUME NEW s \in SUBSET S PROVE Cardinality(s) \in Nat
    OBVIOUS
  <2>1. IsFiniteSet(S)
    BY PlacesAreFinite
  <2> QED BY <2>1, FS_Subset, FS_CardinalityType
<1>2. CASE k = 0
  <2> DEFINE g == [s \in UpTo(S, 0) |-> rows]
  <2>1. \A s \in UpTo(S, 0) : s = {}
    <3> SUFFICES ASSUME NEW s \in UpTo(S, 0), s # {} PROVE FALSE
      OBVIOUS
    <3>1. s \in SUBSET S /\ Cardinality(s) <= 0
      BY DEF UpTo
    <3>2. Cardinality(s) \in Nat \ {0}
      BY <1>a, <3>1
    <3> QED BY <3>1, <3>2
  <2>2. Unfolds(rows, master, UpTo(S, 0), g)
    BY <2>1 DEF Unfolds
  <2> QED BY <1>2, <2>2
<1>3. CASE k # 0
  <2>1. k - 1 \in Nat /\ k - 1 \notin Bad
    BY <1>1, <1>3
  <2>2. PICK g : Unfolds(rows, master, UpTo(S, k - 1), g)
    BY <2>1
  <2> DEFINE h == [s \in UpTo(S, k) |->
                     IF s = {} THEN rows ELSE Upsert(g[s \ {Max(s)}], master[Max(s)])]
  <2>3. \A s \in UpTo(S, k - 1) : s \in UpTo(S, k) /\ h[s] = g[s]
    <3> SUFFICES ASSUME NEW s \in UpTo(S, k - 1)
                 PROVE  s \in UpTo(S, k) /\ h[s] = g[s]
      OBVIOUS
    <3>1. s \in UpTo(S, k)
      <4>1. s \in SUBSET S /\ Cardinality(s) \in Nat /\ Cardinality(s) <= k - 1
        BY <1>b DEF UpTo
      <4> QED BY <4>1, <2>1 DEF UpTo
    <3>2. g[s] = IF s = {} THEN rows ELSE Upsert(g[s \ {Max(s)}], master[Max(s)])
      BY <2>2 DEF Unfolds
    <3> QED BY <3>1, <3>2
  <2>4. \A s \in UpTo(S, k) : s # {} => s \ {Max(s)} \in UpTo(S, k - 1)
    <3> SUFFICES ASSUME NEW s \in UpTo(S, k), s # {}
                 PROVE  s \ {Max(s)} \in UpTo(S, k - 1)
      OBVIOUS
    <3>1. s \in SUBSET S /\ Cardinality(s) <= k
      BY DEF UpTo
    <3>2. /\ s \ {Max(s)} \in SUBSET S /\ Cardinality(s) \in Nat
          /\ Cardinality(s \ {Max(s)}) = Cardinality(s) - 1
      BY <1>a, <3>1
    <3>3. Cardinality(s \ {Max(s)}) <= k - 1
      BY <1>1, <3>1, <3>2
    <3> QED BY <3>2, <3>3 DEF UpTo
  <2>5. Unfolds(rows, master, UpTo(S, k), h)
    BY <2>3, <2>4 DEF Unfolds
  <2> QED BY <2>5
<1> QED BY <1>2, <1>3

(* The recursion has a solution on the sets of positions of a master. *)
LEMMA UnfoldsAll ==
    ASSUME NEW rows, NEW master, NEW n \in Nat, DOMAIN master = 1..n
    PROVE  \E g : Unfolds(rows, master, SUBSET (1..n), g)
<1>1. \A s \in SUBSET (1..n) : Cardinality(s) <= n
  <2>1. IsFiniteSet(1..n) /\ Cardinality(1..n) = n
    BY PlacesAreFinite
  <2> QED BY <2>1, FS_Subset
<1>2. SUBSET (1..n) = UpTo(1..n, n)
  BY <1>1 DEF UpTo
<1>3. PICK g : Unfolds(rows, master, UpTo(1..n, n), g)
  BY UnfoldsUpTo
<1>4. Unfolds(rows, master, SUBSET (1..n), g)
  BY <1>2, <1>3
<1> QED BY <1>4

(***************************************************************************)
(* So there are tables, one after each record of the master, the last of   *)
(* them AfterUpserts.                                                      *)
(***************************************************************************)
OnTheWay(rows, master, n, after) ==
    /\ after[0] = rows
    /\ after[n] = AfterUpserts(rows, master)
    /\ \A k \in 1..n : after[k] = Upsert(after[k - 1], master[k])

LEMMA TablesOnTheWay ==
    ASSUME NEW rows, NEW master, NEW n \in Nat, DOMAIN master = 1..n
    PROVE  \E after : OnTheWay(rows, master, n, after)
<1> DEFINE g == CHOOSE g : Unfolds(rows, master, SUBSET (1..n), g)
           after == [k \in 0..n |-> g[1..k]]
<1>1. Unfolds(rows, master, SUBSET (1..n), g)
  BY UnfoldsAll
<1>2. AfterUpserts(rows, master) = g[1..n]
  BY UpsertsDef
<1> HIDE DEF g
<1>3. after[0] = rows
  <2>1. 1..0 = {} /\ {} \in SUBSET (1..n) /\ after[0] = g[1..0]
    OBVIOUS
  <2> QED BY <1>1, <2>1 DEF Unfolds
<1>4. after[n] = AfterUpserts(rows, master)
  BY <1>2
<1>5. ASSUME NEW k \in 1..n PROVE after[k] = Upsert(after[k - 1], master[k])
  <2>1. 1..k \in SUBSET (1..n) /\ k \in 1..k
    OBVIOUS
  <2>2. \E x \in 1..k : \A y \in 1..k : x >= y
    BY <2>1
  <2>3. Max(1..k) \in 1..k /\ \A y \in 1..k : Max(1..k) >= y
    BY <2>2 DEF Max
  <2>4. Max(1..k) = k
    BY <2>1, <2>3
  <2>5. (1..k) \ {k} = 1..(k - 1)
    OBVIOUS
  <2>6. g[1..k] = Upsert(g[(1..k) \ {Max(1..k)}], master[Max(1..k)])
    BY <1>1, <2>1 DEF Unfolds
  <2>7. k - 1 \in 0..n /\ k \in 0..n
    OBVIOUS
  <2> QED BY <2>4, <2>5, <2>6, <2>7
<1> HIDE DEF after
<1> QED BY <1>3, <1>4, <1>5 DEF OnTheWay

(***************************************************************************)
(* A record of the master in a sound table: either refused, or a sound     *)
(* table again.                                                            *)
(***************************************************************************)
SoundTable(rows) == rows \in SUBSET Rows /\ IsFiniteSet(rows) /\ Unique(rows)

LEMMA RowFound ==
    ASSUME NEW rows \in SUBSET Rows, NEW info \in [symbol : Symbols, key : Keys]
    PROVE  Existing(rows, info) \in rows \cup {None}
  BY DEF Existing, RowWith

LEMMA UpsertSound ==
    ASSUME NEW rows, SoundTable(rows), NEW info \in [symbol : Symbols, key : Keys]
    PROVE  Upsert(rows, info) = Refused \/ SoundTable(Upsert(rows, info))
<1> DEFINE old == Existing(rows, info)
           id == IF old = None THEN Cardinality(rows) + 1 ELSE old.id
           new == [id |-> id, symbol |-> info.symbol, key |-> info.key]
           table == Upserted(rows, info)
<1>1. rows \in SUBSET Rows /\ IsFiniteSet(rows)
  BY DEF SoundTable
<1>2. old \in rows \cup {None}
  BY <1>1, RowFound
<1>3. table = (rows \ {old}) \cup {new}
  BY DEF Upserted
<1> HIDE DEF old
<1>4. id \in Nat
  <2>1. old # None => old.id \in Nat
    BY <1>1, <1>2 DEF Rows
  <2> QED BY <1>1, <2>1, FS_CardinalityType
<1> HIDE DEF id
<1>5. new \in Rows
  BY <1>4 DEF Rows
<1> HIDE DEF new
<1>6. IsFiniteSet(rows \ {old})
  BY <1>1, FS_Difference
<1>7. table \in SUBSET Rows /\ IsFiniteSet(table)
  BY <1>1, <1>3, <1>5, <1>6, FS_AddElement
<1> HIDE DEF table
<1> QED BY <1>7 DEF Upsert, SoundTable, table

LEMMA UpsertsSound ==
    ASSUME NEW rows, SoundTable(rows), NEW master \in Seq([symbol : Symbols, key : Keys])
    PROVE  AfterUpserts(rows, master) = Refused \/ SoundTable(AfterUpserts(rows, master))
<1> DEFINE n == Len(master)
           Infos == [symbol : Symbols, key : Keys]
<1>0. master \in Seq(Infos)
  OBVIOUS
<1> HIDE DEF Infos
<1>1. n \in Nat /\ DOMAIN master = 1..n
  BY <1>0, LenProperties
<1>1a. \A k \in 1..n : master[k] \in Infos
  BY <1>0
<1> HIDE DEF n
<1>2. PICK after : OnTheWay(rows, master, n, after)
  BY <1>1, TablesOnTheWay
<1> DEFINE Bad == {k \in 0..n : after[k] # Refused /\ ~SoundTable(after[k])}
<1>3. Bad = {}
  <2> SUFFICES ASSUME Bad # {} PROVE FALSE
    OBVIOUS
  <2>1. PICK k \in Bad : \A j \in Bad : k <= j
    <3>1. Bad \subseteq Nat
      BY <1>1
    <3> HIDE DEF Bad
    <3> QED BY <3>1, LeastNat
  <2>2. k \in 1..n /\ k - 1 \in 0..n /\ k - 1 < k
    BY <1>1, <1>2, <2>1 DEF OnTheWay
  <2>3. k - 1 \notin Bad
    BY <2>1, <2>2
  <2>4. after[k] = Upsert(after[k - 1], master[k]) /\ master[k] \in Infos
    BY <1>1a, <1>2, <2>2 DEF OnTheWay
  <2>5. after[k - 1] = Refused \/ SoundTable(after[k - 1])
    BY <2>2, <2>3
  <2>6. CASE after[k - 1] = Refused
    <3>1. after[k] = Refused
      BY <2>4, <2>6 DEF Upsert
    <3> QED BY <2>1, <3>1
  <2>7. CASE SoundTable(after[k - 1])
    <3>1. after[k] = Refused \/ SoundTable(after[k])
      BY <2>4, <2>7, UpsertSound DEF Infos
    <3> QED BY <2>1, <3>1
  <2> QED BY <2>5, <2>6, <2>7
<1>4. n \in 0..n
  BY <1>1
<1> QED BY <1>2, <1>3, <1>4 DEF OnTheWay

LEMMA SyncKeeps ==
    ASSUME IInv, NEW master \in Masters, SyncInstruments(master)
    PROVE  IInv'
<1>1. master \in Seq([symbol : Symbols, key : Keys])
  BY HistoryAssumption
<1>2. SoundTable(instruments)
  BY DEF IInv, TableInv, SoundTable
<1>3. SoundTable(instruments')
  BY <1>1, <1>2, UpsertsSound DEF SyncInstruments
<1>4. UNCHANGED <<vendor, parts, manifest, sync, written, overlapped, interrupted>>
  BY DEF SyncInstruments, external, ghosts
<1>5. FilesInv'
  BY <1>4 DEF IInv, FilesInv, TypeInv, CommandsInv, StoreInv, OneStores, PartSound, MergeInv,
              ManifestTellsTheFiles
<1> QED BY <1>3, <1>5 DEF IInv, TableInv, SoundTable

(***************************************************************************)
(* A revision changes what the provider has and nothing else.              *)
(***************************************************************************)
LEMMA ReviseKeeps ==
    ASSUME FilesInv, NEW d \in Days, NEW candle \in Candles, Revise(d, candle)
    PROVE  FilesInv'
<1>1. /\ vendor' = [vendor EXCEPT ![d] = candle]
      /\ UNCHANGED <<parts, manifest, sync, written, overlapped, interrupted>>
  BY DEF Revise, ghosts
<1>2. vendor' \in [Days -> Candles \cup {None}]
  BY <1>1 DEF FilesInv, TypeInv
<1> QED BY <1>1, <1>2 DEF FilesInv, TypeInv, CommandsInv, StoreInv, OneStores, PartSound, MergeInv,
                          ManifestTellsTheFiles

-----------------------------------------------------------------------------
(***************************************************************************)
(* The invariant holds at first and is kept by every step.                 *)
(***************************************************************************)
LEMMA InitSound == ASSUME Init PROVE IInv
<1>1. \A p \in Syncs : sync[p] = Idle
  BY DEF Init
<1>2. TypeInv
  <2>1. vendor \in [Days -> Candles \cup {None}]
    BY HistoryAssumption DEF Init
  <2>2. sync \in [Syncs -> Command]
    BY IdleIs DEF Init
  <2>3. parts \in [Years -> Frames \cup {None, Torn}]
    BY DEF Init
  <2> QED BY <2>1, <2>2, <2>3, Empty DEF Init, TypeInv
<1>3. CommandsInv
  BY <1>1, IdleIs DEF CommandsInv
<1>4. StoreInv
  <2>1. OneStores /\ \A p \in Syncs : MergeInv(sync[p]) /\ ~Storing(sync[p])
    BY <1>1, IdleIs DEF OneStores
  <2>2. \A y \in Years : PartSound(y)
    <3>1. written = EmptyFrame /\ \A y \in Years : parts[y] = None
      BY DEF Init
    <3>2. \A y \in Years : DOMAIN OfYear(written, y) = {}
      BY <3>1, Empty, OfYearIs
    <3> QED BY <3>1, <3>2, ConstantFacts DEF PartSound
  <2> QED BY <2>1, <2>2 DEF StoreInv
<1>5. ManifestTellsTheFiles
  BY DEF Init, ManifestTellsTheFiles
<1>6. TableInv
  BY FS_EmptySet DEF Init, TableInv, Unique
<1> QED BY <1>2, <1>3, <1>4, <1>5, <1>6 DEF IInv, FilesInv

LEMMA CommandKeeps ==
    ASSUME IInv, NEW p \in Syncs,
           \/ \E range \in Ranges : StartSync(p, range)
           \/ FetchChunk(p) \/ FetchFails(p)
           \/ ReadPart(p) \/ OpenPart(p) \/ ClosePart(p)
           \/ CountRows(p) \/ WriteManifest(p)
           \/ Abort(p) \/ Crash(p)
    PROVE  IInv'
<1>1. FilesInv
  BY DEF IInv
<1>2. FilesInv'
  <2>1. CASE \E range \in Ranges : StartSync(p, range)
    BY <1>1, <2>1, StartKeeps
  <2>2. CASE FetchChunk(p)
    BY <1>1, <2>2, FetchKeeps
  <2>3. CASE FetchFails(p) \/ Abort(p) \/ Crash(p)
    BY <1>1, <2>3, EndKeeps
  <2>4. CASE ReadPart(p)
    BY <1>1, <2>4, ReadKeeps
  <2>5. CASE OpenPart(p)
    BY <1>1, <2>5, OpenKeeps
  <2>6. CASE ClosePart(p)
    BY <1>1, <2>6, CloseKeeps
  <2>7. CASE CountRows(p)
    BY <1>1, <2>7, CountKeeps
  <2>8. CASE WriteManifest(p)
    BY <1>1, <2>8, ManifestKeeps
  <2> QED BY <2>1, <2>2, <2>3, <2>4, <2>5, <2>6, <2>7, <2>8
<1>3. instruments' = instruments
  BY DEF StartSync, FetchChunk, FetchFails, ReadPart, OpenPart, ClosePart, CountRows,
         WriteManifest, Abort, Crash
<1>4. TableInv'
  BY <1>3 DEF IInv, TableInv
<1> QED BY <1>2, <1>4 DEF IInv

LEMMA StepSound == ASSUME IInv, [Next]_vars PROVE IInv'
<1>1. CASE \E master \in Masters : SyncInstruments(master)
  BY <1>1, SyncKeeps
<1>2. CASE \E d \in Days, candle \in Candles : IsTradingDay(d) /\ Revise(d, candle)
  <2>1. PICK d \in Days, candle \in Candles : Revise(d, candle)
    BY <1>2
  <2>2. FilesInv'
    BY <2>1, ReviseKeeps DEF IInv
  <2>3. instruments' = instruments
    BY <2>1 DEF Revise
  <2> QED BY <2>2, <2>3 DEF IInv, TableInv
<1>3. CASE \E p \in Syncs :
              \/ \E range \in Ranges : StartSync(p, range)
              \/ FetchChunk(p) \/ FetchFails(p)
              \/ ReadPart(p) \/ OpenPart(p) \/ ClosePart(p)
              \/ CountRows(p) \/ WriteManifest(p)
              \/ Abort(p) \/ Crash(p)
  BY <1>3, CommandKeeps
<1>4. CASE UNCHANGED vars
  BY <1>4 DEF vars, external, ghosts, IInv, FilesInv, TableInv, TypeInv, CommandsInv, StoreInv,
              OneStores, PartSound, MergeInv, ManifestTellsTheFiles
<1> QED BY <1>1, <1>2, <1>3, <1>4 DEF Next

(***************************************************************************)
(* Whatever the commands, the provider and the kills do, the invariant of  *)
(* the files and the table holds.                                          *)
(***************************************************************************)
THEOREM Invariance == Spec => []IInv
<1>1. Init => IInv
  BY InitSound
<1>2. IInv /\ [Next]_vars => IInv'
  BY StepSound
<1> QED BY <1>1, <1>2, PTL DEF Spec

(***************************************************************************)
(* NothingStoredIsLost: while no two commands were storing at once, every  *)
(* file that can be read holds exactly what was last stored for its dates  *)
(* (CandleStore.write).                                                    *)
(***************************************************************************)
THEOREM StoreCorrect == Spec => []NothingStoredIsLost
<1>1. IInv => NothingStoredIsLost
  <2> SUFFICES ASSUME IInv, ~overlapped, NEW y \in Years, parts[y] \notin {None, Torn}
               PROVE  parts[y] = OfYear(written, y)
    BY DEF NothingStoredIsLost
  <2>1. PartSound(y) /\ parts[y] \in Frames
    BY DEF IInv, FilesInv, StoreInv, TypeInv
  <2> QED BY <2>1 DEF PartSound
<1> QED BY <1>1, Invariance, PTL

(***************************************************************************)
(* ManifestTellsTheFiles: the manifest tells what is in the files, unless  *)
(* a command was stopped or another stored at the same time                *)
(* (_write_manifest).                                                      *)
(***************************************************************************)
THEOREM ManifestCorrect == Spec => []ManifestTellsTheFiles
<1>1. IInv => ManifestTellsTheFiles
  BY DEF IInv, FilesInv
<1> QED BY <1>1, Invariance, PTL

(***************************************************************************)
(* EveryDayIsAskedForOnce: the windows of a completed fetch partition the  *)
(* range and none is longer than the provider allows                       *)
(* (get_historical_candles).                                               *)
(***************************************************************************)
THEOREM RequestsCorrect == Spec => []EveryDayIsAskedForOnce
<1>1. IInv => EveryDayIsAskedForOnce
  <2> SUFFICES ASSUME IInv, NEW p \in Syncs, Storing(sync[p])
               PROVE  LET s == sync[p]
                      IN /\ \A k \in DOMAIN s.requests : Cardinality(s.requests[k]) <= ChunkDays
                         /\ \A d \in s.from..s.to : Cardinality({k \in DOMAIN s.requests :
                                                                    d \in s.requests[k]}) = 1
                         /\ UNION {s.requests[k] : k \in DOMAIN s.requests} = s.from..s.to
    BY DEF EveryDayIsAskedForOnce
  <2> DEFINE s == sync[p]
             w == s.requests
  <2>1. Cover(w, s.from, s.to)
    <3>1. s \in Command /\ AskedInv(s) /\ s.pc \notin {"idle", "fetch"}
      BY DEF IInv, FilesInv, TypeInv, CommandsInv, Storing
    <3>2. s.from \in Nat /\ s.chunkEnd = s.from - 1 /\ Cover(w, s.chunkEnd + 1, s.to)
      BY <3>1, CommandFields DEF AskedInv
    <3>3. s.chunkEnd + 1 = s.from
      BY <3>2
    <3> QED BY <3>2, <3>3
  <2> HIDE DEF w, s
  <2>2. \A k \in DOMAIN w : Cardinality(w[k]) <= ChunkDays
    BY <2>1 DEF Cover
  <2>3. ASSUME NEW d \in s.from..s.to PROVE Cardinality({k \in DOMAIN w : d \in w[k]}) = 1
    <3>1. PICK k \in DOMAIN w : d \in w[k] /\ \A j \in DOMAIN w : d \in w[j] => j = k
      BY <2>1 DEF Cover
    <3>2. {j \in DOMAIN w : d \in w[j]} = {k}
      BY <3>1
    <3> QED BY <3>2, FS_Singleton
  <2>4. UNION {w[k] : k \in DOMAIN w} = s.from..s.to
    BY <2>1 DEF Cover
  <2> QED BY <2>2, <2>3, <2>4 DEF w, s
<1> QED BY <1>1, Invariance, PTL

(***************************************************************************)
(* A master on its way into the table of rows.  After its first n records, *)
(* if none was refused, each of them has its row, every other row is one   *)
(* of those there were, and each of those is still there as it was, or     *)
(* holds a record and has its symbol or its key still.                     *)
(***************************************************************************)
Records == [symbol : Symbols, key : Keys]

Listed(row, master, n) == \E k \in 1..n : Holds(row, master[k])

Remains(old, row, master, n) ==
    /\ row.id = old.id
    /\ \/ row = old
       \/ Listed(row, master, n) /\ (row.symbol = old.symbol \/ row.key = old.key)

Followed(rows, master, n, table) ==
    /\ SoundTable(table)
    /\ \A k \in 1..n : \E row \in table : Holds(row, master[k])
    /\ \A row \in table : row \in rows \/ Listed(row, master, n)
    /\ \A old \in rows : \E row \in table : Remains(old, row, master, n)

(* What Existing finds: the row with the key, else the one with the symbol. *)
LEMMA ExistingIs ==
    ASSUME NEW table, SoundTable(table), NEW info \in Records
    PROVE  LET old == Existing(table, info)
           IN /\ old \in table => old.key = info.key \/ old.symbol = info.symbol
              /\ \A row \in table \ {old} :
                    /\ row.key # info.key
                    /\ row.symbol = info.symbol => old \in table /\ old.key = info.key
<1> DEFINE old == Existing(table, info)
<1>1. table \subseteq Rows /\ None \notin table /\ Unique(table)
  BY ConstantFacts DEF SoundTable
<1>2. CASE \E r \in table : r.key = info.key
  <2>1. PICK r \in table : r.key = info.key
    BY <1>2
  <2>2. \A s \in table : s.key = info.key => s = r
    BY <1>1, <2>1 DEF Unique
  <2>3. (CHOOSE s \in table : s.key = info.key) = r
    BY <2>1, <2>2
  <2>4. old = r
    BY <1>1, <1>2, <2>1, <2>3 DEF Existing, RowWith
  <2> QED BY <2>1, <2>2, <2>4
<1>3. CASE ~ \E r \in table : r.key = info.key
  <2>1. CASE \E r \in table : r.symbol = info.symbol
    <3>1. PICK r \in table : r.symbol = info.symbol
      BY <2>1
    <3>2. \A s \in table : s.symbol = info.symbol => s = r
      BY <1>1, <3>1 DEF Unique
    <3>3. (CHOOSE s \in table : s.symbol = info.symbol) = r
      BY <3>1, <3>2
    <3>4. old = r
      BY <1>3, <2>1, <3>3 DEF Existing, RowWith
    <3> QED BY <1>3, <3>1, <3>2, <3>4
  <2>2. CASE ~ \E r \in table : r.symbol = info.symbol
    <3>1. old = None
      BY <1>3, <2>2 DEF Existing, RowWith
    <3> QED BY <1>1, <1>3, <2>2, <3>1
  <2> QED BY <2>1, <2>2
<1> QED BY <1>2, <1>3

(***************************************************************************)
(* One record more.  The row it changes holds none of the records before,  *)
(* as they have other symbols and keys, so it is as it was at first; and   *)
(* where the master fits the rows, no other row is in its way.             *)
(***************************************************************************)
LEMMA RecordFollowed ==
    ASSUME NEW rows, NEW master, NEW n \in Nat, Listing(master),
           n + 1 \in DOMAIN master, 1..n \subseteq DOMAIN master, master[n + 1] \in Records,
           NEW table, Followed(rows, master, n, table)
    PROVE  LET next == Upsert(table, master[n + 1])
           IN /\ next # Refused => Followed(rows, master, n + 1, next)
              /\ Fits(rows, master) => next # Refused
<1> DEFINE info == master[n + 1]
           old == Existing(table, info)
           id == IF old = None THEN Cardinality(table) + 1 ELSE old.id
           new == [id |-> id, symbol |-> info.symbol, key |-> info.key]
           kept == table \ {old}
           after == kept \cup {new}
           next == Upsert(table, info)
<1>1. /\ SoundTable(table) /\ None \notin table /\ info \in Records
      /\ table # Refused
  BY ConstantFacts DEF Followed, SoundTable, Refused
<1>2. /\ old \in table => old.key = info.key \/ old.symbol = info.symbol
      /\ \A row \in kept : /\ row.key # info.key
                           /\ row.symbol = info.symbol => old \in table /\ old.key = info.key
  BY <1>1, ExistingIs
<1>3. old \in table \/ old = None
  BY <1>1, RowFound DEF SoundTable, Records
<1>4. Upserted(table, info) = after
  BY DEF Upserted
<1>5. Holds(new, info) /\ (old \in table => new.id = old.id)
  BY <1>1 DEF Holds
<1>6. \A k \in 1..n : master[k].symbol # info.symbol /\ master[k].key # info.key
  <2> TAKE k \in 1..n
  <2>1. k \in DOMAIN master /\ k # n + 1
    OBVIOUS
  <2> QED BY <2>1 DEF Listing
<1> DEFINE m == n + 1
<1>7. 1..m = 1..n \cup {m}
  OBVIOUS
<1>8. /\ \A row : Listed(row, master, n) \/ Holds(row, info) <=> Listed(row, master, m)
      /\ 1..m = 1..n \cup {m} /\ master[m] = info /\ m \in DOMAIN master
  BY <1>7 DEF Listed
<1> HIDE DEF m, info, old, new, id
<1>9. \A row \in table : Listed(row, master, n) => row.symbol # info.symbol /\ row.key # info.key
  BY <1>6 DEF Listed, Holds
<1>10. old \in table => ~Listed(old, master, n)
  BY <1>2, <1>9
<1>11. next \in {Refused, after}
  BY <1>4 DEF Upsert, info
<1>12. ASSUME next # Refused PROVE Followed(rows, master, m, next)
  <2>1. next = after
    BY <1>11, <1>12
  <2>2. SoundTable(after)
    BY <1>1, <1>12, <2>1, UpsertSound DEF Records
  <2>3. \A k \in 1..m : \E row \in after : Holds(row, master[k])
    <3> TAKE k \in 1..m
    <3>1. CASE k = m
      BY <1>5, <1>8, <3>1
    <3>2. CASE k \in 1..n
      <4>1. PICK row \in table : Holds(row, master[k])
        BY <3>2 DEF Followed
      <4>2. row # old
        BY <1>10, <3>2, <4>1 DEF Listed
      <4> QED BY <4>1, <4>2
    <3> QED BY <1>8, <3>1, <3>2
  <2>4. \A row \in after : row \in rows \/ Listed(row, master, m)
    <3> TAKE row \in after
    <3>1. CASE row = new
      BY <1>5, <1>8, <3>1
    <3>2. CASE row \in table
      BY <1>8, <3>2 DEF Followed
    <3> QED BY <3>1, <3>2
  <2>5. \A was \in rows : \E row \in after : Remains(was, row, master, m)
    <3> TAKE was \in rows
    <3>1. PICK row \in table : Remains(was, row, master, n)
      BY DEF Followed
    <3>2. CASE row # old
      <4>1. Remains(was, row, master, m)
        BY <1>8, <3>1 DEF Remains
      <4> QED BY <3>2, <4>1
    <3>3. CASE row = old
      <4>1. row = was /\ new.id = was.id
        BY <1>5, <1>10, <3>1, <3>3 DEF Remains
      <4>2. was.key = info.key \/ was.symbol = info.symbol
        BY <1>2, <3>3, <4>1
      <4>3. new.symbol = was.symbol \/ new.key = was.key
        BY <1>5, <4>2 DEF Holds
      <4>4. Remains(was, new, master, m)
        BY <1>5, <1>8, <4>1, <4>3 DEF Remains
      <4> QED BY <4>4
    <3> QED BY <3>2, <3>3
  <2> QED BY <2>1, <2>2, <2>3, <2>4, <2>5 DEF Followed
<1>13. ASSUME Fits(rows, master) PROVE next # Refused
  <2>1. \A row \in kept : row.symbol # info.symbol
    <3> SUFFICES ASSUME NEW row \in kept, row.symbol = info.symbol PROVE FALSE
      OBVIOUS
    <3>1. old \in table /\ old.key = info.key
      BY <1>2
    <3>2. row \in rows /\ old \in rows
      BY <1>9, <1>10, <3>1 DEF Followed
    <3>3. row = old
      BY <1>8, <1>13, <3>1, <3>2 DEF Fits
    <3> QED BY <3>3
  <2>2. \A r, t \in kept : r.key = t.key \/ r.symbol = t.symbol => r = t
    BY <1>1 DEF SoundTable, Unique
  <2>3. Unique(after)
    <3>1. \A row \in kept : row.key # new.key /\ row.symbol # new.symbol
      BY <1>2, <1>5, <2>1 DEF Holds
    <3> HIDE DEF kept
    <3> QED BY <2>2, <3>1 DEF Unique
  <2>4. next = after
    BY <1>1, <1>4, <2>3 DEF Upsert, info
  <2>5. new \in after /\ new # None
    <3>1. new \in after
      OBVIOUS
    <3>2. SoundTable(next) \/ next = Refused
      BY <1>1, UpsertSound DEF Records
    <3>3. new # None
      <4>1. new \in Rows
        <5>1. id \in Nat
          <6>1. old # None => old.id \in Nat
            BY <1>1, <1>3 DEF SoundTable, Rows
          <6> QED BY <1>1, <6>1, FS_CardinalityType DEF SoundTable, id
        <5> QED BY <1>1, <5>1 DEF new, Rows, Records
      <4> QED BY <4>1, ConstantFacts
    <3> QED BY <3>1, <3>3
  <2> QED BY <2>4, <2>5 DEF Refused
<1> QED BY <1>12, <1>13 DEF m, info

(* All the records. *)
LEMMA MasterFollowed ==
    ASSUME NEW rows, SoundTable(rows), NEW master \in Seq(Records), Listing(master)
    PROVE  LET table == AfterUpserts(rows, master)
           IN /\ Fits(rows, master) => table # Refused
              /\ table # Refused => Followed(rows, master, Len(master), table)
<1> DEFINE n == Len(master)
<1>1. n \in Nat /\ DOMAIN master = 1..n /\ \A k \in 1..n : master[k] \in Records
  BY LenProperties
<1> HIDE DEF n
<1>2. PICK after : OnTheWay(rows, master, n, after)
  BY <1>1, TablesOnTheWay
<1> DEFINE Good(k) == /\ after[k] # Refused => Followed(rows, master, k, after[k])
                      /\ Fits(rows, master) => after[k] # Refused
           Bad == {k \in 0..n : ~Good(k)}
<1>3. Good(0)
  <2>1. after[0] = rows /\ rows # Refused
    BY <1>2, ConstantFacts DEF OnTheWay, SoundTable, Refused
  <2>2. \A k \in 1..0 : FALSE
    OBVIOUS
  <2>3. Followed(rows, master, 0, rows)
    BY <2>2 DEF Followed, Remains
  <2> QED BY <2>1, <2>3
<1>4. ASSUME NEW k \in 1..n, Good(k - 1) PROVE Good(k)
  <2>1. after[k] = Upsert(after[k - 1], master[k])
    BY <1>2 DEF OnTheWay
  <2>2. CASE after[k - 1] = Refused
    BY <1>4, <2>1, <2>2 DEF Upsert
  <2>3. CASE after[k - 1] # Refused
    <3> DEFINE j == k - 1
    <3>1. /\ j \in Nat /\ j + 1 = k /\ j + 1 \in DOMAIN master /\ 1..j \subseteq DOMAIN master
          /\ master[j + 1] \in Records
      BY <1>1
    <3>2. Followed(rows, master, j, after[j])
      BY <1>4, <2>3
    <3> HIDE DEF j
    <3>3. LET next == Upsert(after[j], master[j + 1])
          IN /\ next # Refused => Followed(rows, master, j + 1, next)
             /\ Fits(rows, master) => next # Refused
      BY <3>1, <3>2, RecordFollowed
    <3>4. Upsert(after[j], master[j + 1]) = after[k]
      BY <2>1, <3>1 DEF j
    <3> QED BY <3>1, <3>3, <3>4
  <2> QED BY <2>2, <2>3
<1>5. Bad = {}
  <2> SUFFICES ASSUME Bad # {} PROVE FALSE
    OBVIOUS
  <2>1. PICK k \in Bad : \A j \in Bad : k <= j
    <3>1. Bad \subseteq Nat
      BY <1>1
    <3> HIDE DEF Bad
    <3> QED BY <3>1, LeastNat
  <2> HIDE DEF Good
  <2>2. k \in 1..n /\ k - 1 \in 0..n /\ k - 1 < k
    BY <1>1, <1>3, <2>1
  <2>3. Good(k - 1)
    BY <2>1, <2>2
  <2> QED BY <1>4, <2>1, <2>2, <2>3
<1>6. Good(n)
  <2>1. n \in 0..n
    BY <1>1
  <2> HIDE DEF Good
  <2> QED BY <1>5, <2>1
<1>7. after[n] = AfterUpserts(rows, master)
  BY <1>2 DEF OnTheWay
<1> QED BY <1>6, <1>7 DEF n

(***************************************************************************)
(* RowsFollowSymbolOrKey: a master that fits the table is not refused, and *)
(* an accepted one has a row for each record and has lost no row: each has *)
(* kept its symbol, or else its key, with which another symbol is listed   *)
(* (sync_instruments).                                                     *)
(***************************************************************************)
THEOREM RowsCorrect == Spec => []RowsFollowSymbolOrKey
<1>1. IInv => RowsFollowSymbolOrKey
  <2> SUFFICES ASSUME IInv, NEW master \in Masters, Listing(master)
               PROVE  LET table == AfterUpserts(instruments, master)
                      IN /\ Fits(instruments, master) => table # Refused
                         /\ table # Refused =>
                            /\ \A k \in DOMAIN master : \E row \in table : Holds(row, master[k])
                            /\ \A old \in instruments : \E row \in table :
                                  row.id = old.id /\ (row.symbol = old.symbol \/ row.key = old.key)
    BY DEF RowsFollowSymbolOrKey
  <2> DEFINE table == AfterUpserts(instruments, master)
  <2>1. master \in Seq(Records) /\ DOMAIN master = 1..Len(master)
    BY HistoryAssumption, LenProperties DEF Records
  <2>2. /\ Fits(instruments, master) => table # Refused
        /\ table # Refused => Followed(instruments, master, Len(master), table)
    BY <2>1, MasterFollowed DEF IInv, TableInv, SoundTable
  <2> HIDE DEF table
  <2>3. ASSUME table # Refused
        PROVE  /\ \A k \in DOMAIN master : \E row \in table : Holds(row, master[k])
               /\ \A old \in instruments : \E row \in table :
                     row.id = old.id /\ (row.symbol = old.symbol \/ row.key = old.key)
    BY <2>1, <2>2, <2>3 DEF Followed, Remains
  <2> QED BY <2>2, <2>3 DEF table
<1> QED BY <1>1, Invariance, PTL
=============================================================================
