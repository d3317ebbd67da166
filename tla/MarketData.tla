------------------------------ MODULE MarketData ------------------------------
(***************************************************************************)
(* The reference market (market-data-service/, marketDataStream.worker.js, *)
(* marketProjection.worker.js): one worker holds a WebSocket to the        *)
(* provider and publishes every update to a Kafka partition, another one   *)
(* stores them, tickers in Redis for a while, candles in the database, the *)
(* last write winning.  A backfill fetches candles from the provider and   *)
(* stores them through the same code beside the running projection.        *)
(*                                                                         *)
(* A feed is the ticker or one candle of a symbol; its updates are         *)
(* numbered in the order of the provider.  The values are left out: every  *)
(* update carries the whole state.                                         *)
(***************************************************************************)
EXTENDS Naturals, Sequences

CONSTANTS Feeds, CandleFeeds,
          MaxUpdates,        \* bounds: updates of each feed,
          MaxMarketFaults    \*         faults

ASSUME MarketAssumption ==
    CandleFeeds \subseteq Feeds /\ MaxUpdates \in Nat /\ MaxMarketFaults \in Nat

VARIABLES provided,          \* at the provider: the last update of each feed
          socket, reconnectTimer,
          sending,           \* producer.send calls in flight, oldest first
          marketLog,         \* the partition
          marketPosition, marketCommitted,  \* messages handled, and committed
          active,            \* candle feeds whose trading pair is ACTIVE
          projected,         \* the update that is stored, 0: none
          backfill,          \* the page being stored, or whether there was one
          marketFaults

streamVars == <<provided, socket, reconnectTimer, sending>>
projectionVars == <<marketPosition, marketCommitted, active, projected>>
marketVars == <<streamVars, marketLog, projectionVars, backfill, marketFaults>>

Updates == [feed : Feeds, number : 1..MaxUpdates]
NoBackfill == [pc |-> "none"]

MarketTypeOK ==
    /\ provided \in [Feeds -> 0..MaxUpdates]
    /\ socket \in {"open", "closed"}
    /\ reconnectTimer \in {"null", "set", "fired"}
    /\ sending \in Seq(Updates) /\ marketLog \in Seq(Updates)
    /\ marketPosition \in 0..Len(marketLog)
    /\ marketCommitted \in 0..marketPosition
    /\ active \subseteq CandleFeeds
    /\ projected \in [Feeds -> 0..MaxUpdates]
    /\ backfill \in {NoBackfill} \cup [pc : {"store", "done"}, update : Updates]
    /\ marketFaults \in 0..MaxMarketFaults

\* startMarketDataStreamWorker has connected at the start.
MarketInit ==
    /\ provided = [f \in Feeds |-> 0]
    /\ socket = "open" /\ reconnectTimer = "null"
    /\ sending = << >> /\ marketLog = << >>
    /\ marketPosition = 0 /\ marketCommitted = 0
    /\ active = CandleFeeds
    /\ projected = [f \in Feeds |-> 0]
    /\ backfill = NoBackfill
    /\ marketFaults = 0
-------------------------------------------------------------------------------
MarketFault == marketFaults < MaxMarketFaults /\ marketFaults' = marketFaults + 1

\* The provider sends an update; the message listener parses it and calls
\* producer.send without waiting for the calls before it.
Provide(f) ==
    /\ provided[f] < MaxUpdates
    /\ provided' = [provided EXCEPT ![f] = @ + 1]
    /\ sending' = IF socket = "open"
                  THEN Append(sending, [feed |-> f, number |-> provided'[f]])
                  ELSE sending
    /\ UNCHANGED <<socket, reconnectTimer, marketLog, projectionVars, backfill, marketFaults>>

Without(s, i) == SubSeq(s, 1, i - 1) \o SubSeq(s, i + 1, Len(s))

\* The calls share a connection: the oldest is answered first ...
PublishMarketEvent ==
    /\ sending # << >>
    /\ marketLog' = Append(marketLog, Head(sending))
    /\ sending' = Tail(sending)
    /\ UNCHANGED <<provided, socket, reconnectTimer, projectionVars, backfill, marketFaults>>

\* ... unless it is retried after others, or fails for good: the listener
\* logs the error and the update is lost.
PublishGoesWrong ==
    /\ MarketFault
    /\ \E i \in DOMAIN sending :
          /\ sending' = Without(sending, i)
          /\ marketLog' \in {marketLog} \cup
                {Append(marketLog, sending[j]) : j \in {i} \ {1}}
    /\ UNCHANGED <<provided, socket, reconnectTimer, projectionVars, backfill>>

\* Fault: a timer that was set once is taken for a running one.
ScheduleOnce == reconnectTimer' = IF reconnectTimer = "null" THEN "set" ELSE reconnectTimer

\* scheduleReconnect: a running timer is started anew.
ScheduleReconnect == reconnectTimer' = "set"

SocketCloses ==
    /\ socket = "open" /\ MarketFault
    /\ socket' = "closed"
    /\ ScheduleReconnect
    /\ UNCHANGED <<provided, sending, marketLog, projectionVars, backfill>>

\* The timer fires: startMarketDataStreamWorker opens a new socket ...
Reconnect ==
    /\ reconnectTimer = "set" /\ socket = "closed"
    /\ reconnectTimer' = "fired" /\ socket' = "open"
    /\ UNCHANGED <<provided, sending, marketLog, projectionVars, backfill, marketFaults>>

\* ... or throws, or its socket is closed before it opened.
ReconnectFails ==
    /\ reconnectTimer = "set" /\ socket = "closed" /\ MarketFault
    /\ ScheduleReconnect
    /\ UNCHANGED <<provided, socket, sending, marketLog, projectionVars, backfill>>
-------------------------------------------------------------------------------
\* projectMarketEvent: setEx or upsert of what the event carries, for a
\* candle only while its trading pair is ACTIVE.
ProjectMarketEvent(u) ==
    /\ u.feed \in CandleFeeds => u.feed \in active
    /\ projected' = [projected EXCEPT ![u.feed] = u.number]

EachMessage ==
    /\ marketPosition < Len(marketLog)
    /\ ProjectMarketEvent(marketLog[marketPosition + 1])
    /\ marketPosition' = marketPosition + 1
    /\ UNCHANGED <<streamVars, marketLog, marketCommitted, active, backfill, marketFaults>>

\* Fault: the error is logged and the message passed over.
PassOver ==
    /\ marketPosition < Len(marketLog)
    /\ marketLog[marketPosition + 1].feed \in CandleFeeds \ active
    /\ marketPosition' = marketPosition + 1
    /\ UNCHANGED <<streamVars, marketLog, marketCommitted, active, projected, backfill, marketFaults>>

\* The candle of a pair that is not ACTIVE throws, and the consumer returns
\* to the committed offset: messages behind it wait, whatever their symbol.
ProjectionThrows ==
    /\ marketPosition < Len(marketLog)
    /\ marketLog[marketPosition + 1].feed \in CandleFeeds \ active
    /\ marketPosition' = marketCommitted
    /\ UNCHANGED <<streamVars, marketLog, marketCommitted, active, projected, backfill, marketFaults>>

CommitMarketOffset ==
    /\ marketCommitted < marketPosition
    /\ marketCommitted' = marketPosition
    /\ UNCHANGED <<streamVars, marketLog, marketPosition, active, projected, backfill, marketFaults>>

ProjectionRestarts ==
    /\ MarketFault /\ marketPosition # marketCommitted
    /\ marketPosition' = marketCommitted
    /\ UNCHANGED <<streamVars, marketLog, marketCommitted, active, projected, backfill>>

\* MARKET_TICKER_CACHE_TTL_SECONDS pass.
TickerExpires(f) ==
    /\ f \notin CandleFeeds /\ projected[f] > 0
    /\ projected' = [projected EXCEPT ![f] = 0]
    /\ UNCHANGED <<streamVars, marketLog, marketPosition, marketCommitted, active, backfill, marketFaults>>

\* The operator halts or resumes a trading pair.
HaltPair(f) ==
    /\ f \in active /\ MarketFault
    /\ active' = active \ {f}
    /\ UNCHANGED <<streamVars, marketLog, marketPosition, marketCommitted, projected, backfill>>

ResumePair(f) ==
    /\ f \in CandleFeeds \ active
    /\ active' = active \cup {f}
    /\ UNCHANGED <<streamVars, marketLog, marketPosition, marketCommitted, projected, backfill, marketFaults>>

\* backfillMarketCandlePage fetches the candles as they are now ...
FetchPage(f) ==
    /\ backfill = NoBackfill /\ f \in CandleFeeds /\ provided[f] > 0
    /\ backfill' = [pc |-> "store", update |-> [feed |-> f, number |-> provided[f]]]
    /\ UNCHANGED <<streamVars, marketLog, projectionVars, marketFaults>>

\* ... and stores them later; a pair that is not ACTIVE ends it.
StorePage ==
    /\ backfill.pc = "store"
    /\ backfill' = [backfill EXCEPT !.pc = "done"]
    /\ IF backfill.update.feed \in active
       THEN ProjectMarketEvent(backfill.update)
       ELSE UNCHANGED projected
    /\ UNCHANGED <<streamVars, marketLog, marketPosition, marketCommitted, active, marketFaults>>

Stream ==
    \/ \E f \in Feeds : Provide(f)
    \/ PublishMarketEvent \/ PublishGoesWrong
    \/ SocketCloses \/ Reconnect \/ ReconnectFails

Projection ==
    \/ EachMessage \/ ProjectionThrows \/ CommitMarketOffset \/ ProjectionRestarts
    \/ \E f \in Feeds : TickerExpires(f) \/ HaltPair(f) \/ ResumePair(f) \/ FetchPage(f)
    \/ StorePage

MarketNext == Stream \/ Projection

MarketSpec == MarketInit /\ [][MarketNext]_marketVars

\* Timers fire, sends are answered, kafkajs hands out the next message.
MarketFairness ==
    /\ WF_marketVars(Reconnect)
    /\ WF_marketVars(PublishMarketEvent)
    /\ WF_marketVars(EachMessage)
-------------------------------------------------------------------------------
\* A stream that was cut is open again in the end, however often it is cut
\* or fails to reconnect.
StreamReconnects == socket = "closed" ~> socket = "open"

\* The projection catches up with the partition again and again, after
\* restarts and once a halted pair that held it up is resumed for good.
ProjectionCatchesUp ==
    <>[](active = CandleFeeds) => []<>(marketPosition = Len(marketLog))

LastLogged(f) ==
    LET at == {i \in DOMAIN marketLog : marketLog[i].feed = f} IN
    IF at = {} THEN 0 ELSE marketLog[CHOOSE i \in at : \A j \in at : j <= i].number

CaughtUp == marketPosition = Len(marketLog)

\* Whatever was delivered again or held up on the way, a projection that has
\* caught up shows the last message of every feed: only a backfill may have
\* put back the update it had fetched, and a ticker may have expired.
ShowsLastMessage ==
    CaughtUp => \A f \in Feeds :
       \/ projected[f] = LastLogged(f)
       \/ f \in CandleFeeds /\ backfill.pc = "done" /\ backfill.update = [feed |-> f, number |-> projected[f]]
       \/ f \notin CandleFeeds /\ projected[f] = 0

\* Without a fault nothing is lost or overtaken between the provider and the
\* partition: once everything is at rest its last message of a feed is the
\* provider's last update, although sends overlap.
NothingOvertakes ==
    sending = << >> /\ marketFaults = 0 => \A f \in Feeds : LastLogged(f) = provided[f]

\* The two ways in which the reference market can stand still both end.
MarketRecovers == StreamReconnects /\ ProjectionCatchesUp

\* What is stored is what the provider said last, as far as it was published.
ProjectionFaithful == ShowsLastMessage /\ NothingOvertakes
===============================================================================
