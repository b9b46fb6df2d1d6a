------------------------------ MODULE History ------------------------------
(***************************************************************************)
(* Historical data: the instrument master in the state store, and the      *)
(* daily candles of one symbol, fetched from the provider in chunks,       *)
(* checked and merged into Parquet partitions, one per year, beside a      *)
(* manifest (data/historical/, data/store/candles.py).  Several            *)
(* `pt data sync` commands may run at once; nothing locks the files.       *)
(*                                                                         *)
(* A row of the dataset is a date and a candle; a candle is its close and  *)
(* whether its prices and its volume are possible (sound).                 *)
(***************************************************************************)
EXTENDS Calendar

CONSTANTS
    Syncs,          \* sync commands that may run at once
    Ranges,         \* the pairs <<from, to>> of dates they are asked for
    Days,           \* the dates the provider may have a candle for
    Candles,        \* the candles it may have: [close, sound]
    Published,      \* what it may have at first: date -> candle or None
    ChunkDays,      \* max days per request of the interval (_INTERVAL_MAP)
    DaysPerYear,    \* days of a UTC year, that is, of a partition
    SpikePercent,   \* SPIKE_THRESHOLDS of the interval
    Target,         \* the symbol whose candles are synced
    Symbols, Keys,  \* symbols of the instruments, and their keys
    Masters,        \* instrument masters the provider may publish
    MaxRevisions,   \* bound on the revisions of a provider's candle
    MaxCrashes,     \* bound on the commands killed
    Torn,           \* a file opened for writing and not closed: not Parquet
    None

ASSUME HistoryAssumption ==
    /\ Days \subseteq Nat \ {0} /\ IsFiniteSet(Days)
    /\ Ranges \subseteq Days \X Days
    /\ ChunkDays \in Nat \ {0} /\ DaysPerYear \in Nat \ {0}
    /\ SpikePercent \in Nat
    /\ Published \subseteq [Days -> Candles \cup {None}]
    /\ \A master \in Masters : master \in Seq([symbol : Symbols, key : Keys])
    /\ MaxRevisions \in Nat /\ MaxCrashes \in Nat

(***************************************************************************)
(* None and Torn are neither rows, candles nor frames of candles.          *)
(***************************************************************************)
Rows == [id : Nat, symbol : Symbols, key : Keys]
Frames == UNION {[dates -> Candles] : dates \in SUBSET Days}

ASSUME NoneAssumption ==
    /\ None \notin Rows /\ None \notin Candles /\ None \notin Frames
    /\ Torn \notin Frames /\ None # Torn

VARIABLES
    instruments,  \* rows of the instruments table: [id, symbol, key]
    vendor,       \* date -> the candle the provider has for it, or None
    parts,        \* year -> part.parquet: date -> candle; None if there is none
    manifest,     \* manifest.json, or None
    sync,         \* the sync commands
    revisions,    \* revisions so far
    crashes,      \* commands killed so far
    written,      \* ghost: date -> the candle that was last stored, or None
    overlapped,   \* ghost: two commands were storing at once
    interrupted   \* ghost: the last command to store did not come to its end

external == <<vendor, revisions, crashes>>
ghosts == <<written, overlapped, interrupted>>
vars == <<instruments, external, parts, manifest, sync, ghosts>>

-----------------------------------------------------------------------------
(***************************************************************************)
(* sync_instruments: each record of the master updates the row with its    *)
(* key, else the row with its symbol, else is added.  Two rows with one    *)
(* key or one symbol are refused by the database, and then the whole       *)
(* transaction is rolled back.                                             *)
(***************************************************************************)
RowWith(rows, P(_)) == IF \E r \in rows : P(r) THEN CHOOSE r \in rows : P(r) ELSE None

Existing(rows, info) ==
    LET byKey == RowWith(rows, LAMBDA r : r.key = info.key)
    IN IF byKey # None THEN byKey ELSE RowWith(rows, LAMBDA r : r.symbol = info.symbol)

(* Mutant of Upserted: without the fallback on the symbol. *)
UpsertedByKey(rows, info) ==
    LET old == RowWith(rows, LAMBDA r : r.key = info.key)
        id == IF old = None THEN Cardinality(rows) + 1 ELSE old.id
    IN (rows \ {old}) \cup {[id |-> id, symbol |-> info.symbol, key |-> info.key]}

Upserted(rows, info) ==
    LET old == Existing(rows, info)
        id == IF old = None THEN Cardinality(rows) + 1 ELSE old.id
    IN (rows \ {old}) \cup {[id |-> id, symbol |-> info.symbol, key |-> info.key]}

Unique(rows) ==
    \A r, s \in rows : r.key = s.key \/ r.symbol = s.symbol => r = s

\* The table after the records of a master, Refused when one of them was.
Refused == {None}

AfterUpserts(rows, master) ==
    FoldLeft(LAMBDA table, info :
                IF table # Refused /\ Unique(Upserted(table, info)) THEN Upserted(table, info)
                ELSE Refused,
             rows, master)

SyncInstruments(master) ==
    LET table == AfterUpserts(instruments, master)
    IN /\ instruments' = IF table = Refused THEN instruments ELSE table
       /\ UNCHANGED <<external, parts, manifest, sync, ghosts>>

-----------------------------------------------------------------------------
(***************************************************************************)
(* check_candles on a frame, a function from dates.  (It looks for double  *)
(* and unsorted timestamps too, but the frame is normalised before.)       *)
(***************************************************************************)
Previous(frame, d) == Max({e \in DOMAIN frame : e < d})

Spikes(frame) ==
    {d \in DOMAIN frame \ {Min(DOMAIN frame)} :
        LET before == frame[Previous(frame, d)].close
            now == frame[d].close
        IN 100 * Max({now - before, before - now}) > SpikePercent * before}

MissingDays(frame) ==
    TradingDaysBetween(Min(DOMAIN frame), Max(DOMAIN frame)) \ DOMAIN frame

CheckCandles(frame) ==
    IF DOMAIN frame = {} \/ \E d \in DOMAIN frame : ~frame[d].sound THEN "errors"
    ELSE IF Spikes(frame) # {} \/ MissingDays(frame) # {} THEN "warnings"
    ELSE "ok"

-----------------------------------------------------------------------------
(***************************************************************************)
(* A sync command.  pc is where it is: "idle", "fetch", then for each year *)
(* of the frame "read", "open" and "close", then "count" and "manifest".   *)
(***************************************************************************)
EmptyFrame == [d \in {} |-> None]
Idle == [pc |-> "idle", from |-> 0, to |-> 0, chunkEnd |-> 0, requests |-> <<>>,
         frame |-> EmptyFrame, years |-> {}, merged |-> EmptyFrame, total |-> 0]
Storing(s) == s.pc \notin {"idle", "fetch"}

\* A daily candle is stamped at the IST midnight of its date.
YearOf(d) == UtcDate(d * DayLength) \div DaysPerYear
Years == {YearOf(d) : d \in Days}

\* drop_duplicates(keep="last"): the rows of a later frame win.
Over(later, frame) ==
    [d \in DOMAIN later \cup DOMAIN frame |->
        IF d \in DOMAIN later THEN later[d] ELSE frame[d]]

Readable == \A y \in Years : parts[y] # Torn
Stored == [d \in UNION {DOMAIN parts[y] : y \in {z \in Years : parts[z] # None}} |->
              parts[YearOf(d)][d]]

Overlapping(p) == \E q \in Syncs \ {p} : Storing(sync[q])

\* UnknownSymbol, unless the instrument is known.
StartSync(p, range) ==
    /\ sync[p].pc = "idle"
    /\ \E r \in instruments : r.symbol = Target
    /\ range[1] <= range[2]
    /\ sync' = [sync EXCEPT ![p] = [Idle EXCEPT !.pc = "fetch", !.from = range[1],
                                                !.to = range[2], !.chunkEnd = range[2]]]
    /\ UNCHANGED <<instruments, external, parts, manifest, ghosts>>

(* Mutant of ChunkStart: a chunk is one day longer than the limit. *)
ChunkStartLonger(s) == Max({s.from, s.chunkEnd - ChunkDays})

ChunkStart(s) == Max({s.from, s.chunkEnd - (ChunkDays - 1)})

NextChunkEnd(s) == ChunkStart(s) - 1

\* What the provider answers for a window.
Answer(window) == [d \in {e \in Days \cap window : vendor[e] # None} |-> vendor[d]]

\* From the last chunk back to the first; the report and the years follow.
FetchChunk(p) ==
    LET s == sync[p]
        window == ChunkStart(s)..s.chunkEnd
        frame == Over(s.frame, Answer(window))
        final == NextChunkEnd(s) < s.from
    IN /\ s.pc = "fetch"
       /\ sync' = [sync EXCEPT ![p] =
             [s EXCEPT !.requests = Append(s.requests, window), !.frame = frame,
                       !.chunkEnd = NextChunkEnd(s),
                       !.years = IF final THEN {YearOf(d) : d \in DOMAIN frame} ELSE {},
                       !.pc = IF ~final THEN "fetch"
                              ELSE IF DOMAIN frame = {} THEN "count" ELSE "read"]]
       /\ overlapped' = (overlapped \/ (final /\ Overlapping(p)))
       /\ interrupted' = (interrupted \/ final)
       /\ UNCHANGED <<instruments, external, parts, manifest, written>>

\* MarketDataError: reported, nothing is stored.
FetchFails(p) ==
    /\ sync[p].pc = "fetch"
    /\ sync' = [sync EXCEPT ![p] = Idle]
    /\ UNCHANGED <<instruments, external, parts, manifest, ghosts>>

-----------------------------------------------------------------------------
(***************************************************************************)
(* CandleStore.write: for each year the file is read, merged with the rows *)
(* of the frame, which win, and written over itself.                       *)
(***************************************************************************)
Year(s) == Min(s.years)
OfYear(frame, y) == [d \in {e \in DOMAIN frame : YearOf(e) = y} |-> frame[d]]

(* Mutant of MergedWith: what was there is dropped. *)
MergedWithNothing(part, rows) == rows

MergedWith(part, rows) == IF part = None THEN rows ELSE Over(rows, part)

ReadPart(p) ==
    LET s == sync[p]
        part == parts[Year(s)]
    IN /\ s.pc = "read" /\ part # Torn
       /\ sync' = [sync EXCEPT ![p] =
             [s EXCEPT !.merged = MergedWith(part, OfYear(s.frame, Year(s))), !.pc = "open"]]
       /\ UNCHANGED <<instruments, external, parts, manifest, ghosts>>

OpenPart(p) ==
    LET s == sync[p]
    IN /\ s.pc = "open"
       /\ parts' = [parts EXCEPT ![Year(s)] = Torn]
       /\ sync' = [sync EXCEPT ![p].pc = "close"]
       /\ UNCHANGED <<instruments, external, manifest, ghosts>>

ClosePart(p) ==
    LET s == sync[p]
        rest == s.years \ {Year(s)}
    IN /\ s.pc = "close"
       /\ parts' = [parts EXCEPT ![Year(s)] = s.merged]
       /\ written' = Over(OfYear(s.frame, Year(s)), written)
       /\ sync' = [sync EXCEPT ![p] =
             [s EXCEPT !.years = rest, !.merged = EmptyFrame,
                       !.pc = IF rest = {} THEN "count" ELSE "read"]]
       /\ UNCHANGED <<instruments, external, manifest, overlapped, interrupted>>

\* _count_rows over all the files there are.
CountRows(p) ==
    /\ sync[p].pc = "count" /\ Readable
    /\ sync' = [sync EXCEPT ![p].total = Cardinality(DOMAIN Stored), ![p].pc = "manifest"]
    /\ UNCHANGED <<instruments, external, parts, manifest, ghosts>>

(* Mutant of ManifestOf: the bounds are those of the fetched frame. *)
ManifestOfFrame(s) ==
    [rows |-> s.total,
     first |-> IF DOMAIN s.frame = {} THEN None ELSE Min(DOMAIN s.frame),
     last |-> IF DOMAIN s.frame = {} THEN None ELSE Max(DOMAIN s.frame),
     validation |-> CheckCandles(s.frame)]

\* _write_manifest: the bounds of all the rows, the verdict on the fetched.
ManifestOf(s) ==
    [rows |-> s.total,
     first |-> IF DOMAIN Stored = {} THEN None ELSE Min(DOMAIN Stored),
     last |-> IF DOMAIN Stored = {} THEN None ELSE Max(DOMAIN Stored),
     validation |-> CheckCandles(s.frame)]

WriteManifest(p) ==
    /\ sync[p].pc = "manifest" /\ Readable
    /\ manifest' = ManifestOf(sync[p])
    /\ sync' = [sync EXCEPT ![p] = Idle]
    /\ interrupted' = FALSE
    /\ UNCHANGED <<instruments, external, parts, written, overlapped>>

\* A torn file raises what `pt data sync` does not catch.
Abort(p) ==
    /\ \/ sync[p].pc = "read" /\ parts[Year(sync[p])] = Torn
       \/ sync[p].pc \in {"count", "manifest"} /\ ~Readable
    /\ sync' = [sync EXCEPT ![p] = Idle]
    /\ UNCHANGED <<instruments, external, parts, manifest, ghosts>>

\* The command is killed.
Crash(p) ==
    /\ sync[p].pc # "idle" /\ crashes < MaxCrashes
    /\ crashes' = crashes + 1
    /\ sync' = [sync EXCEPT ![p] = Idle]
    /\ UNCHANGED <<instruments, vendor, revisions, parts, manifest, ghosts>>

\* The provider publishes or revises a candle.
Revise(d, candle) ==
    /\ revisions < MaxRevisions
    /\ vendor' = [vendor EXCEPT ![d] = candle]
    /\ revisions' = revisions + 1
    /\ UNCHANGED <<instruments, crashes, parts, manifest, sync, ghosts>>

Init ==
    /\ instruments = {}
    /\ vendor \in Published
    /\ parts = [y \in Years |-> None] /\ manifest = None
    /\ sync = [p \in Syncs |-> Idle]
    /\ revisions = 0 /\ crashes = 0
    /\ written = EmptyFrame /\ overlapped = FALSE /\ interrupted = FALSE

Next ==
    \/ \E master \in Masters : SyncInstruments(master)
    \/ \E d \in Days, candle \in Candles : IsTradingDay(d) /\ Revise(d, candle)
    \/ \E p \in Syncs :
          \/ \E range \in Ranges : StartSync(p, range)
          \/ FetchChunk(p) \/ FetchFails(p)
          \/ ReadPart(p) \/ OpenPart(p) \/ ClosePart(p)
          \/ CountRows(p) \/ WriteManifest(p)
          \/ Abort(p) \/ Crash(p)

Spec == Init /\ [][Next]_vars

-----------------------------------------------------------------------------
(***************************************************************************)
(* A range is asked for day by day exactly once, and never more than the   *)
(* provider allows at a time (get_historical_candles).                     *)
(***************************************************************************)
EveryDayIsAskedForOnce ==
    \A p \in Syncs :
        LET s == sync[p]
        IN Storing(s) =>
              /\ \A k \in DOMAIN s.requests : Cardinality(s.requests[k]) <= ChunkDays
              /\ \A d \in s.from..s.to : Cardinality({k \in DOMAIN s.requests :
                                                         d \in s.requests[k]}) = 1
              /\ UNION {s.requests[k] : k \in DOMAIN s.requests} = s.from..s.to

(***************************************************************************)
(* Re-syncing is idempotent and loses nothing: unless two commands were    *)
(* storing at once, every file that can be read holds exactly what was     *)
(* last stored for its dates, over crashes, failed fetches and syncs of    *)
(* ranges that overlap (CandleStore.write).                                *)
(***************************************************************************)
NothingStoredIsLost ==
    ~overlapped =>
        \A y \in Years : parts[y] \notin {None, Torn} => parts[y] = OfYear(written, y)

(***************************************************************************)
(* The manifest tells what is in the files, unless a command was stopped   *)
(* between the two or another was storing at the same time                 *)
(* (_write_manifest).                                                      *)
(***************************************************************************)
ManifestTellsTheFiles ==
    manifest # None /\ ~overlapped /\ ~interrupted =>
        /\ manifest.rows = Cardinality(DOMAIN written)
        /\ written # EmptyFrame => /\ manifest.first = Min(DOMAIN written)
                                   /\ manifest.last = Max(DOMAIN written)

(***************************************************************************)
(* Of the masters that list no symbol and no key twice: one of which no    *)
(* record asks for the key of a row and the symbol of another.             *)
(***************************************************************************)
Listing(master) ==
    \A j, k \in DOMAIN master :
        master[j].symbol = master[k].symbol \/ master[j].key = master[k].key => j = k

Fits(rows, master) ==
    \A k \in DOMAIN master, r, s \in rows :
        r.key = master[k].key /\ s.symbol = master[k].symbol => r = s

Holds(row, info) == row.symbol = info.symbol /\ row.key = info.key

(***************************************************************************)
(* Whatever the masters were so far and in whatever order the next one     *)
(* rotates keys between symbols: a master that fits the table is not       *)
(* refused (without the fallback on the symbol one that gives a symbol a   *)
(* new key is), each record of an accepted one has its row at the end,     *)
(* none having been overwritten by a later record, and no row that orders  *)
(* and positions point to is lost.  A row keeps its symbol or its key: it  *)
(* leaves its symbol only for the one that is listed with its key.         *)
(***************************************************************************)
RowsFollowSymbolOrKey ==
    \A master \in Masters : Listing(master) =>
        LET table == AfterUpserts(instruments, master)
        IN /\ Fits(instruments, master) => table # Refused
           /\ table # Refused =>
                 /\ \A k \in DOMAIN master : \E row \in table : Holds(row, master[k])
                 /\ \A old \in instruments : \E row \in table :
                       row.id = old.id /\ (row.symbol = old.symbol \/ row.key = old.key)

(***************************************************************************)
(* What orders and positions would need is more: that a row never leaves   *)
(* its symbol.  A key that is given to another symbol, in a record before  *)
(* the old symbol's new one, takes the row along.                          *)
(***************************************************************************)
RowsStayWithSymbols ==
    [][\A old \in instruments : \E row \in instruments' :
           row.id = old.id /\ row.symbol = old.symbol]_vars
=============================================================================
