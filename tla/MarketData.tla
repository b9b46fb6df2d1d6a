----------------------------- MODULE MarketData -----------------------------
(***************************************************************************)
(* The live market data path of `pt run`: the Upstox websocket with its    *)
(* reconnects (data/providers/upstox.py, reconnect.py), the feed with one  *)
(* candle aggregator per instrument and interval and its staleness alarm   *)
(* (data/live/), the start and stop of the feed by the orchestrator        *)
(* (orchestrator/service.py) and the cron jobs that ask for it             *)
(* (orchestrator/scheduler.py).  Everything runs on one asyncio loop, so a *)
(* step ends where the code awaits.                                        *)
(***************************************************************************)
EXTENDS Calendar

CONSTANTS
    Instruments,     \* the instrument keys of the universe
    Subscriptions,   \* instrument -> bar lengths, LiveFeed's subscriptions
    Prices,          \* last traded prices
    Quantities,      \* last traded quantities
    Threshold,       \* staleness_threshold
    BaseDelay,       \* ReconnectPolicy.base_delay; the factor is 2
    MaxDelay,        \* ReconnectPolicy.max_delay
    FirstDay,        \* bound: the day on which a behaviour starts
    Horizon,         \* bound: the last instant
    MaxLag,          \* bound: how late a trade is delivered
    MaxTicks,        \* bound: ticks delivered
    MaxAttempts,     \* bound: failures counted; the delay is MaxDelay by then
    None

ASSUME MarketDataAssumption ==
    /\ Subscriptions \in [Instruments -> SUBSET (Nat \ {0})]
    /\ \A k \in Instruments : \A s \in Subscriptions[k] : DayLength % s = 0
    /\ Prices \subseteq Nat /\ Quantities \subseteq Nat
    /\ Threshold \in Nat \ {0}
    /\ BaseDelay \in Nat \ {0} /\ MaxDelay \in Nat /\ BaseDelay <= MaxDelay
    /\ MaxAttempts \in Nat \ {0} /\ BaseDelay * 2^(MaxAttempts - 1) >= MaxDelay
    /\ IsFiniteSet(Instruments)
    /\ {FirstDay, Horizon, MaxLag, MaxTicks} \subseteq Nat
    /\ (FirstDay + 1) * DayLength <= Horizon + 1

VARIABLES
    now,          \* the clock
    running,      \* the pt run process exists
    due,          \* cron jobs whose time has come and that have not fired
    task,         \* _feed_task and, while it lives, where stream_quotes is
    attempt,      \* stream_quotes: failures since the last message
    wakeAt,       \* stream_quotes: end of the backoff sleep
    bar,          \* the aggregators: the bar in progress, or None
    lastTickAt,   \* StalenessDetector._last_tick_at
    staleNotified,\* LiveFeed._stale_notified
    \* Observers, reset when the process starts: what went in and came out.
    ticks,        \* per instrument, the ticks delivered
    published,    \* per aggregator, the CandleReceived events
    flushes,      \* number of LiveFeed.flush calls
    alarms,       \* FeedStale events since the last tick
    stopMissed,   \* a session_stop of this process did not fire
    delivered     \* number of ticks, for the bound MaxTicks

process == <<running, due, task>>
stream  == <<attempt, wakeAt>>
feed    == <<bar, lastTickAt, staleNotified>>
history == <<ticks, published, flushes, alarms>>
vars == <<now, process, stream, feed, history, stopMissed, delivered>>

Aggregators == UNION {{k} \X Subscriptions[k] : k \in Instruments}
Key(a) == a[1]
Seconds(a) == a[2]

Tick == [ltp : Prices, ltq : Quantities, ltt : Nat]
Candle == [ts : Nat, open : Prices, high : Prices, low : Prices,
           close : Prices, volume : Nat]

ASSUME NoneAssumption == None \notin Nat \cup Candle

Sound(c) == c.low <= c.open /\ c.low <= c.close /\ c.open <= c.high /\ c.close <= c.high

\* The states of a task that has not ended, and of one that has.
Alive == {"created", "connecting", "streaming", "sleeping"}
Done  == {"returned", "dead"}
Jobs  == {"session_start", "session_stop"}

TypeOK ==
    /\ now \in 0..Horizon /\ running \in BOOLEAN /\ due \subseteq Jobs
    /\ task \in Alive \cup Done \cup {"none"}
    /\ attempt \in 0..MaxAttempts /\ wakeAt \in Nat
    /\ bar \in [Aggregators -> Candle \cup {None}]
    /\ \A a \in Aggregators : bar[a] # None => Sound(bar[a])
    /\ lastTickAt \in Nat \cup {None} /\ staleNotified \in BOOLEAN
    /\ \A k \in Instruments : \A i \in DOMAIN ticks[k] :
          ticks[k][i] \in [tick : Tick, epoch : Nat]
    /\ \A a \in Aggregators : \A i \in DOMAIN published[a] :
          published[a][i] \in Candle /\ Sound(published[a][i])
    /\ flushes \in Nat /\ alarms \in Nat /\ stopMissed \in BOOLEAN
    /\ delivered \in 0..MaxTicks

-----------------------------------------------------------------------------
(***************************************************************************)
(* CandleAggregator.                                                       *)
(***************************************************************************)
BucketStartFor(ts, seconds) == ts - (ts % seconds)

Opened(tick, seconds) ==
    [ts |-> BucketStartFor(tick.ltt, seconds), open |-> tick.ltp,
     high |-> tick.ltp, low |-> tick.ltp, close |-> tick.ltp,
     volume |-> tick.ltq]

(* Mutant of Extended: a new low is not noticed. *)
ExtendedHighOnly(b, tick) ==
    [b EXCEPT !.high = IF tick.ltp > @ THEN tick.ltp ELSE @,
              !.close = tick.ltp,
              !.volume = @ + tick.ltq]

Extended(b, tick) ==
    [b EXCEPT !.high = IF tick.ltp > @ THEN tick.ltp ELSE @,
              !.low = IF tick.ltp < @ THEN tick.ltp ELSE @,
              !.close = tick.ltp,
              !.volume = @ + tick.ltq]

\* The tick falls out of the bar in progress, which is then complete.
Completes(b, tick, seconds) ==
    b # None /\ BucketStartFor(tick.ltt, seconds) # b.ts

(* Mutant of AddTick: the completed bar's figures are carried on. *)
AddTickCarriesOn(b, tick, seconds) ==
    IF b = None THEN Opened(tick, seconds)
    ELSE [Extended(b, tick) EXCEPT !.ts = BucketStartFor(tick.ltt, seconds)]

AddTick(b, tick, seconds) ==
    IF b = None \/ Completes(b, tick, seconds)
    THEN Opened(tick, seconds) ELSE Extended(b, tick)

NoBars == [a \in Aggregators |-> None]

(* Mutant of ClearAlarm: the flag is left as it was. *)
KeepAlarm == staleNotified' = staleNotified /\ alarms' = 0

\* on_tick: the next silence is a new outage.
ClearAlarm == staleNotified' = FALSE /\ alarms' = 0

(***************************************************************************)
(* LiveFeed.on_tick for the quotes of one message.  The quotes are those of *)
(* different instruments, so their aggregators do not meet; lastTickAt is  *)
(* that of the quote which the message's map yields last.                  *)
(***************************************************************************)
OnTicks(quotes) ==
    LET fed == {a \in Aggregators : Key(a) \in DOMAIN quotes}
    IN /\ bar' = [a \in Aggregators |->
                    IF a \in fed THEN AddTick(bar[a], quotes[Key(a)], Seconds(a))
                    ELSE bar[a]]
       /\ published' = [a \in Aggregators |->
                    IF a \in fed /\ Completes(bar[a], quotes[Key(a)], Seconds(a))
                    THEN Append(published[a], bar[a]) ELSE published[a]]
       /\ ticks' = [k \in Instruments |->
                    IF k \in DOMAIN quotes
                    THEN Append(ticks[k], [tick |-> quotes[k], epoch |-> flushes])
                    ELSE ticks[k]]
       /\ \E k \in DOMAIN quotes : lastTickAt' = quotes[k].ltt
       /\ ClearAlarm
       /\ delivered' = delivered + Cardinality(DOMAIN quotes)
       /\ UNCHANGED flushes

(***************************************************************************)
(* LiveFeed.flush: every bar in progress is published.                     *)
(***************************************************************************)
Flush ==
    /\ published' = [a \in Aggregators |->
          IF bar[a] = None THEN published[a] ELSE Append(published[a], bar[a])]
    /\ bar' = NoBars
    /\ flushes' = flushes + 1

(* Mutant of IsStale: the age is compared the wrong way. *)
IsFresh(at) == lastTickAt # None => at - lastTickAt < Threshold

(***************************************************************************)
(* StalenessDetector.is_stale: a feed that has had no tick is stale.       *)
(***************************************************************************)
IsStale(at) == lastTickAt # None => at - lastTickAt >= Threshold

(***************************************************************************)
(* ReconnectPolicy.delay_for.                                              *)
(***************************************************************************)
DelayFor(n) ==
    IF BaseDelay * 2^n < MaxDelay THEN BaseDelay * 2^n ELSE MaxDelay

-----------------------------------------------------------------------------
JobsAt(ts) ==
    {j \in Jobs : \/ j = "session_start" /\ TimeOfDay(ts) = MarketOpen
                  \/ j = "session_stop" /\ TimeOfDay(ts) = MarketClose}

Forget ==
    /\ task' = "none" /\ attempt' = 0 /\ wakeAt' = 0
    /\ bar' = NoBars /\ lastTickAt' = None /\ staleNotified' = FALSE
    /\ ticks' = [k \in Instruments |-> <<>>]
    /\ published' = [a \in Aggregators |-> <<>>]
    /\ flushes' = 0 /\ alarms' = 0 /\ stopMissed' = FALSE

Init ==
    /\ now \in FirstDay * DayLength .. (FirstDay + 1) * DayLength - 1
    /\ running = FALSE /\ due = {} /\ task = "none"
    /\ attempt = 0 /\ wakeAt = 0
    /\ bar = NoBars /\ lastTickAt = None /\ staleNotified = FALSE
    /\ ticks = [k \in Instruments |-> <<>>]
    /\ published = [a \in Aggregators |-> <<>>]
    /\ flushes = 0 /\ alarms = 0 /\ stopMissed = FALSE
    /\ delivered = 0

(***************************************************************************)
(* Time passes once everything due now has happened.                       *)
(***************************************************************************)
Advance ==
    /\ now < Horizon
    /\ due = {} /\ task # "created"
    /\ task = "sleeping" => now < wakeAt
    /\ now' = now + 1
    /\ due' = IF running THEN JobsAt(now') ELSE {}
    /\ UNCHANGED <<running, task, stream, feed, history, stopMissed, delivered>>

(***************************************************************************)
(* Orchestrator.start_feed: a task that has ended is replaced.             *)
(***************************************************************************)
StartFeed(t) == IF t \in Alive THEN t ELSE "created"

(***************************************************************************)
(* pt run, LiveScheduler.start: a process that starts inside the session   *)
(* does not wait for tomorrow's cron job.                                  *)
(***************************************************************************)
StartProcess ==
    /\ ~running
    /\ running' = TRUE
    /\ due' = JobsAt(now)
    /\ task' = IF IsOpenAt(now) THEN StartFeed(task) ELSE task
    /\ UNCHANGED <<now, stream, feed, history, stopMissed, delivered>>

(***************************************************************************)
(* Ctrl-C or death of the process.  Neither stops the feed through         *)
(* stop_feed, so the bars in progress are gone.                            *)
(***************************************************************************)
EndProcess ==
    /\ running
    /\ running' = FALSE /\ due' = {}
    /\ Forget
    /\ UNCHANGED <<now, delivered>>

SessionStart ==
    /\ "session_start" \in due
    /\ due' = due \ {"session_start"}
    /\ task' = IF IsTradingDay(IstTradingDate(now)) THEN StartFeed(task) ELSE task
    /\ UNCHANGED <<now, running, stream, feed, history, stopMissed, delivered>>

(***************************************************************************)
(* Orchestrator.stop_feed.  A live task is cancelled and one that returned *)
(* is awaited without effect; awaiting one that died raises its exception, *)
(* and neither the assignment nor the flush behind it is reached.          *)
(***************************************************************************)
(* Mutant of StopFeed: the task is cancelled, the bars are not flushed. *)
StopFeedWithoutFlush ==
    /\ task' = IF task = "dead" THEN task ELSE "none"
    /\ UNCHANGED <<bar, published, flushes>>

StopFeed ==
    IF task \in {"none", "dead"} THEN UNCHANGED <<task, bar, published, flushes>>
    ELSE task' = "none" /\ Flush

SessionStop ==
    /\ "session_stop" \in due
    /\ due' = due \ {"session_stop"}
    /\ StopFeed
    /\ UNCHANGED <<now, running, stream, lastTickAt, staleNotified, ticks,
                   alarms, stopMissed, delivered>>

(***************************************************************************)
(* A job that finds the loop busy for longer than the scheduler's grace    *)
(* time is skipped.  HTTP calls are made synchronously on the loop.        *)
(***************************************************************************)
Misfire(job) ==
    /\ job \in due
    /\ due' = due \ {job}
    /\ stopMissed' = (stopMissed \/ job = "session_stop")
    /\ UNCHANGED <<now, running, task, stream, feed, history, delivered>>

(***************************************************************************)
(* run_housekeeping, the part that follows the broker's: check_staleness.  *)
(* When the broker's part raises, this one is skipped and nothing changes. *)
(***************************************************************************)
Alarm ==
    /\ alarms' = alarms + 1
    /\ staleNotified' = TRUE

Housekeeping ==
    /\ running
    /\ IsStale(now) /\ ~staleNotified
    /\ Alarm
    /\ UNCHANGED <<now, process, stream, bar, lastTickAt, ticks, published,
                   flushes, stopMissed, delivered>>

-----------------------------------------------------------------------------
(***************************************************************************)
(* LiveFeed.run and UpstoxMarketData.stream_quotes.                        *)
(***************************************************************************)
Stays == UNCHANGED <<now, running, due, feed, history, stopMissed, delivered>>

FeedRun ==
    /\ task = "created"
    /\ task' = IF IsOpenAt(now) THEN "connecting" ELSE "returned"
    /\ attempt' = 0 /\ wakeAt' = 0
    /\ Stays

\* _authorize_websocket, websockets.connect and the subscription.
Connect ==
    /\ task = "connecting"
    /\ task' = "streaming"
    /\ UNCHANGED stream
    /\ Stays

\* OSError, WebSocketException or MarketDataError: back off and retry.
(* Mutant of BacksOff: a failure ends the generator. *)
BreaksOff ==
    /\ task' = "returned"
    /\ UNCHANGED stream

BacksOff ==
    /\ task' = "sleeping"
    /\ attempt' = IF attempt < MaxAttempts THEN attempt + 1 ELSE attempt
    /\ wakeAt' = now + DelayFor(attempt' - 1)

Fails ==
    /\ task \in {"connecting", "streaming"}
    /\ BacksOff
    /\ Stays

Wake ==
    /\ task = "sleeping"
    /\ now >= wakeAt \/ now = Horizon
    /\ task' = "connecting"
    /\ UNCHANGED stream
    /\ Stays

\* A clean close ends the iteration without an exception: no backoff.
ClosedOK ==
    /\ task = "streaming"
    /\ task' = "connecting"
    /\ UNCHANGED stream
    /\ Stays

\* MissingAccessToken, or an exception that the retry does not catch.
Dies ==
    /\ task \in {"connecting", "streaming"}
    /\ task' = "dead"
    /\ UNCHANGED stream
    /\ Stays

\* The trades that a message may tell of: made in market hours, not long ago.
RecentTicks ==
    [ltp : Prices, ltq : Quantities,
     ltt : {t \in 0..now : now - t <= MaxLag /\ IsOpenAt(t)}]

Message ==
    /\ task = "streaming"
    /\ attempt' = 0
    /\ \E keys \in SUBSET Instruments \ {{}} :
          /\ delivered + Cardinality(keys) <= MaxTicks
          /\ \E quotes \in [keys -> RecentTicks] : OnTicks(quotes)
    /\ UNCHANGED <<now, process, wakeAt, stopMissed>>

\* A message that does not decode, or carries another mode, has no quotes.
EmptyMessage ==
    /\ task = "streaming" /\ attempt # 0
    /\ attempt' = 0
    /\ UNCHANGED <<task, wakeAt>>
    /\ Stays

Next ==
    \/ Advance \/ StartProcess \/ EndProcess
    \/ SessionStart \/ SessionStop
    \/ \E job \in Jobs : Misfire(job)
    \/ Housekeeping
    \/ FeedRun \/ Connect \/ Fails \/ Wake \/ ClosedOK \/ Dies
    \/ Message \/ EmptyMessage

Spec == Init /\ [][Next]_vars

(***************************************************************************)
(* The interval job runs for as long as the process does, and its broker's *)
(* part succeeds now and then.  The loop runs what it has been given: the  *)
(* new task, the sleeper, the connection attempt, of which some succeed.   *)
(***************************************************************************)
Fairness ==
    /\ WF_vars(Housekeeping)
    /\ WF_vars(FeedRun) /\ WF_vars(Wake) /\ SF_vars(Connect)
    /\ WF_vars(Advance) /\ WF_vars(SessionStart) /\ WF_vars(SessionStop)

FairSpec == Spec /\ Fairness

-----------------------------------------------------------------------------
(***************************************************************************)
(* The ticks q of an instrument, cut where a tick opens a bar of the given *)
(* length: where the bucket changes or the feed was flushed in between.    *)
(* The bar a tick belongs to is the number of cuts up to it.               *)
(***************************************************************************)
Bucket(q, seconds, i) == BucketStartFor(q[i].tick.ltt, seconds)

Cuts(q, seconds) ==
    {i \in DOMAIN q : \/ i = 1
                      \/ Bucket(q, seconds, i) # Bucket(q, seconds, i - 1)
                      \/ q[i].epoch # q[i - 1].epoch}

BarOf(q, seconds, i) == Cardinality({j \in Cuts(q, seconds) : j <= i})

TicksOf(q, seconds, n) == {i \in DOMAIN q : BarOf(q, seconds, i) = n}

Volumes(q) == [i \in DOMAIN q |-> q[i].tick.ltq]

Summary(q, seconds, S) ==
    LET prices == {q[i].tick.ltp : i \in S}
    IN [ts |-> Bucket(q, seconds, Min(S)), open |-> q[Min(S)].tick.ltp,
        high |-> Max(prices), low |-> Min(prices), close |-> q[Max(S)].tick.ltp,
        volume |-> SumFunctionOnSet(Volumes(q), S)]

Bars(q, seconds) ==
    [n \in 1..Cardinality(Cuts(q, seconds)) |-> Summary(q, seconds, TicksOf(q, seconds, n))]

(***************************************************************************)
(* The bars that came out, with the one in progress, are the bars of the   *)
(* ticks that went in: no tick is lost, counted twice or put into a bar of *)
(* another bucket, whatever reconnects, late trades, session ends and      *)
(* restarts of the feed lie between (CandleAggregator.add_tick and flush,  *)
(* LiveFeed.on_tick).                                                      *)
(***************************************************************************)
CameOut(a) == published[a] \o (IF bar[a] = None THEN <<>> ELSE <<bar[a]>>)

BarsAreOfTheTicks == \A a \in Aggregators : Bars(ticks[Key(a)], Seconds(a)) = CameOut(a)

(***************************************************************************)
(* No bar outlives its session, unless the feed task died or the stop job  *)
(* was skipped: then the next session's first tick publishes it            *)
(* (Orchestrator.stop_feed, LiveScheduler._session_stop).                  *)
(***************************************************************************)
NoBarOutlivesItsSession ==
    running /\ due = {} /\ ~IsOpenAt(now) /\ bar # NoBars
        => task = "dead" \/ stopMissed

(***************************************************************************)
(* An alarm means silence, and an outage has one: when FeedStale is        *)
(* published it is the first since the last tick, and no delivered trade   *)
(* is younger than the threshold, provided that the latest to come was not *)
(* older than one before (LiveFeed.check_staleness: edge-triggered).       *)
(***************************************************************************)
AlarmMeansSilence ==
    [][ alarms' > alarms =>
          /\ alarms = 0
          /\ \A k \in Instruments : \A i \in DOMAIN ticks[k] :
                \/ now - ticks[k][i].tick.ltt >= Threshold
                \/ ticks[k][i].tick.ltt > lastTickAt ]_vars

(***************************************************************************)
(* Every outage is announced: a feed that is stale in a running process    *)
(* raises its alarm or gets a tick, also the second and the third time.    *)
(***************************************************************************)
EveryOutageIsAnnounced ==
    running /\ IsStale(now) ~> alarms > 0 \/ ~IsStale(now) \/ ~running

(***************************************************************************)
(* A connection that fails is tried until it stands again, until the       *)
(* session is over or the task has died of something else: stream_quotes   *)
(* does not end by itself (its docstring: callers see a gap in ticks).     *)
(***************************************************************************)
StreamComesBack ==
    task \in {"connecting", "sleeping"} ~> task \in {"streaming", "dead", "none"}
=============================================================================
