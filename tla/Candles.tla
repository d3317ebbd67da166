-------------------------------- MODULE Candles --------------------------------
(***************************************************************************)
(* The exchange's own candles: trade candle workers read trade.executed    *)
(* messages (workers/tradeCandle.worker.js) and fold every trade into one  *)
(* candle per interval (trading-service/candle.service.js).                *)
(*                                                                         *)
(* Kafka redelivers a message whose handler threw, and whatever a worker   *)
(* had not committed when it died.  A worker handles one message at a      *)
(* time; a rebalance of the group may give its partition to another one    *)
(* meanwhile, and it goes on writing candles all the same.  A candle is    *)
(* read in one step and written in another.  One pair and the source       *)
(* EXCHANGE_TRADES are modelled, prices and quantities are natural         *)
(* numbers, quoteVolume follows volume and is left out.                    *)
(***************************************************************************)
EXTENDS EventLog, FiniteSetsExt

CONSTANTS TradePartitions,   \* partitions of the trade topic
          CandleWorkers,     \* members of the consumer group
          Trade,             \* event -> [price, quantity, time] of its payload
          CandleInterval     \* lengths of the intervals, shortest first

ASSUME CandleAssumption ==
    /\ TradePartitions \subseteq Partitions /\ CandleWorkers # {} /\ IsFiniteSet(CandleWorkers)
    /\ CandleInterval \in Seq(Nat \ {0}) /\ CandleInterval # << >>
    /\ \A i \in 2..Len(CandleInterval) : CandleInterval[i] % CandleInterval[i - 1] = 0

VARIABLES candle,            \* MarketCandle rows by <<interval, openTime>>
          owner,             \* partition -> worker that reads it
          committed,         \* offset of the group in each partition
          position,          \* messages its worker has finished with
          job,               \* per worker: message and interval in hand
          applied,           \* times a trade was written into an interval
          redeliveries,      \* times that messages were handed back
          shared             \* history: candles that two workers had read at once

candleVars == <<candle, owner, committed, position, job, applied, redeliveries, shared,
                log, logFaults>>
offsets == <<owner, committed>>

Intervals == DOMAIN CandleInterval
Messages == {e \in DomainEvents : PartitionOf[e] \in TradePartitions}

ASSUME TradeAssumption ==
    /\ IsFiniteSet(Messages)
    /\ Trade \in [Messages -> [price : Nat, quantity : Nat, time : Nat]]

\* getCandleOpenTime
OpenTime(time, i) == (time \div CandleInterval[i]) * CandleInterval[i]
Key(e, i) == <<i, OpenTime(Trade[e].time, i)>>
Keys == {Key(e, i) : e \in Messages, i \in Intervals}

NoCandle == [tradeCount |-> 0]
IdleJob == [pc |-> "idle"]

FirstCandle(e) == LET t == Trade[e] IN
    [open |-> t.price, high |-> t.price, low |-> t.price, close |-> t.price,
     volume |-> t.quantity, tradeCount |-> 1]

\* Fault: every field is computed from the row that was read.
CountedFromRead(seen, current, e) == LET t == Trade[e] IN
    [current EXCEPT !.high = IF t.price > seen.high THEN t.price ELSE seen.high,
                    !.low = IF t.price < seen.low THEN t.price ELSE seen.low,
                    !.close = t.price,
                    !.volume = seen.volume + t.quantity,
                    !.tradeCount = seen.tradeCount + 1]

\* The update sends the values computed from the row that was read; only the
\* count is an increment in the database.
NextCandle(seen, current, e) == LET t == Trade[e] IN
    [current EXCEPT !.high = IF t.price > seen.high THEN t.price ELSE seen.high,
                    !.low = IF t.price < seen.low THEN t.price ELSE seen.low,
                    !.close = t.price,
                    !.volume = seen.volume + t.quantity,
                    !.tradeCount = @ + 1]

Candle == [open : Nat, high : Nat, low : Nat, close : Nat, volume : Nat,
           tradeCount : Nat \ {0}]

CandleTypeOK ==
    /\ candle \in [Keys -> Candle \cup {NoCandle}]
    /\ owner \in [TradePartitions -> CandleWorkers]
    /\ committed \in [TradePartitions -> Nat] /\ position \in [TradePartitions -> Nat]
    /\ \A p \in TradePartitions : /\ committed[p] <= position[p]
                                  /\ position[p] <= Len(log[p])
    /\ job \in [CandleWorkers ->
                   {IdleJob} \cup [pc : {"read", "write"}, from : TradePartitions, e : Messages,
                                  i : Intervals, seen : Candle \cup {NoCandle}]]
    /\ applied \in [Intervals -> [Messages -> Nat]] /\ redeliveries \in Nat
    /\ shared \subseteq Keys

CandleInit ==
    /\ candle = [k \in Keys |-> NoCandle]
    /\ owner \in [TradePartitions -> CandleWorkers]
    /\ committed = [p \in TradePartitions |-> 0] /\ position = committed
    /\ job = [c \in CandleWorkers |-> IdleJob]
    /\ applied = [i \in Intervals |-> [e \in Messages |-> 0]]
    /\ redeliveries = 0 /\ shared = {}
-------------------------------------------------------------------------------
\* eachMessage receives the next message of a partition.
Receive(c, p) ==
    /\ job[c].pc = "idle" /\ owner[p] = c /\ position[p] < Len(log[p])
    /\ job' = [job EXCEPT ![c] = [pc |-> "read", from |-> p, i |-> 1,
                                  e |-> log[p][position[p] + 1], seen |-> NoCandle]]
    /\ UNCHANGED <<candle, offsets, position, applied, redeliveries, shared, log, logFaults>>

InHand(c) == Key(job[c].e, job[c].i)

\* updateSingleCandleFromTrade: findUnique ...
ReadCandle(c) ==
    /\ job[c].pc = "read"
    /\ job' = [job EXCEPT ![c].pc = "write", ![c].seen = candle[InHand(c)]]
    /\ shared' = shared \cup ({InHand(c)} \cap
                               {InHand(d) : d \in {d \in CandleWorkers : job[d].pc = "write"}})
    /\ UNCHANGED <<candle, offsets, position, applied, redeliveries, log, logFaults>>

WriteRow(c) ==
    /\ candle' = [candle EXCEPT ![InHand(c)] =
          IF job[c].seen = NoCandle THEN FirstCandle(job[c].e)
          ELSE NextCandle(job[c].seen, @, job[c].e)]
    /\ applied' = [applied EXCEPT ![job[c].i][job[c].e] = @ + 1]

\* The unique key refuses a second row of the same candle.
Conflict(c) == job[c].seen = NoCandle /\ candle[InHand(c)] # NoCandle

\* The broker takes no offset from a worker that has lost the partition.
Owns(c) == owner[job[c].from] = c

\* ... then create or update, for each of the intervals in turn.
WriteCandle(c) ==
    /\ job[c].pc = "write" /\ ~Conflict(c)
    /\ WriteRow(c)
    /\ IF job[c].i < Len(CandleInterval)
       THEN /\ job' = [job EXCEPT ![c].pc = "read", ![c].i = @ + 1, ![c].seen = NoCandle]
            /\ UNCHANGED position
       ELSE /\ job' = [job EXCEPT ![c] = IdleJob]
            /\ IF Owns(c) THEN position' = [position EXCEPT ![job[c].from] = @ + 1]
                          ELSE UNCHANGED position
    /\ UNCHANGED <<offsets, redeliveries, shared, log, logFaults>>

\* Fault: eachMessage swallows the error, so Kafka takes the message for done.
SkipMessage(c) ==
    /\ job' = [job EXCEPT ![c] = IdleJob]
    /\ position' = [position EXCEPT ![job[c].from] = @ + 1]
    /\ UNCHANGED redeliveries

\* The handler rethrows: Kafka delivers the message again, from its start.
HandBack(c) ==
    /\ job' = [job EXCEPT ![c] = IdleJob]
    /\ redeliveries' = redeliveries + 1
    /\ UNCHANGED position

WriteConflicts(c) ==
    /\ job[c].pc = "write" /\ Conflict(c)
    /\ HandBack(c)
    /\ UNCHANGED <<candle, offsets, applied, shared, log, logFaults>>

\* The database fails, before the write takes effect or after it.
CandleFails(c) ==
    /\ job[c].pc # "idle" /\ LogFault
    /\ HandBack(c)
    /\ \/ job[c].pc = "write" /\ ~Conflict(c) /\ WriteRow(c)
       \/ UNCHANGED <<candle, applied>>
    /\ UNCHANGED <<offsets, shared, log>>

CommitOffset(p) ==
    /\ committed[p] < position[p]
    /\ committed' = [committed EXCEPT ![p] = position[p]]
    /\ UNCHANGED <<candle, owner, position, job, applied, redeliveries, shared, log, logFaults>>

\* A worker dies and comes back at the offsets its group has committed.
ConsumerCrash(c) ==
    /\ LogFault
    /\ \/ job[c].pc # "idle"
       \/ \E p \in TradePartitions : owner[p] = c /\ committed[p] < position[p]
    /\ job' = [job EXCEPT ![c] = IdleJob]
    /\ position' = [p \in TradePartitions |-> IF owner[p] = c THEN committed[p]
                                              ELSE position[p]]
    /\ redeliveries' = redeliveries + 1
    /\ UNCHANGED <<candle, offsets, applied, shared, log>>

\* A member joins or leaves the group, or was silent for longer than its
\* session: those who are not in a handler share the partitions anew and go on
\* from the committed offsets.
Rebalance ==
    /\ LogFault
    /\ owner' \in [TradePartitions -> {c \in CandleWorkers : job[c].pc = "idle"}]
    /\ position' = committed
    /\ redeliveries' = redeliveries + 1
    /\ UNCHANGED <<candle, committed, job, applied, shared, log>>

ConsumerStep(c) ==
    \/ \E p \in TradePartitions : Receive(c, p)
    \/ ReadCandle(c) \/ WriteCandle(c) \/ WriteConflicts(c)

CandleNext ==
    \/ \E c \in CandleWorkers : ConsumerStep(c) \/ CandleFails(c) \/ ConsumerCrash(c)
    \/ \E p \in TradePartitions : CommitOffset(p)
    \/ Rebalance

CandleFairness ==
    \A c \in CandleWorkers : WF_candleVars(ConsumerStep(c))
-------------------------------------------------------------------------------
\* The trades written into a candle, each as often as it was and weighted.
Folded(k, weight) ==
    SumFunctionOnSet([e \in Messages |-> applied[k[1]][e] * weight[e]],
                     {e \in Messages : Key(e, k[1]) = k})

\* The trade count of a candle is the number of trades folded into it, also
\* when several workers update the candle at once; its volume is theirs too
\* unless two workers had read it at once, before either wrote.
CandlesAddUp ==
    \A k \in Keys : candle[k] # NoCandle =>
       /\ candle[k].tradeCount = Folded(k, [e \in Messages |-> 1])
       /\ k \notin shared => candle[k].volume = Folded(k, [e \in Messages |-> Trade[e].quantity])

\* Open and close lie between low and high, although an update mixes a row
\* read earlier with the row it writes to.
CandleShape ==
    \A k \in Keys : candle[k] # NoCandle =>
       /\ candle[k].low <= candle[k].open /\ candle[k].open <= candle[k].high
       /\ candle[k].low <= candle[k].close /\ candle[k].close <= candle[k].high

\* What the group has moved past is in every interval, at least once, and no
\* more often than the message was in the topic or was handed back.
NoTradeSkipped ==
    \A i \in Intervals, e \in Messages :
       /\ \A n \in 1..position[PartitionOf[e]] :
             log[PartitionOf[e]][n] = e => applied[i][e] > 0
       /\ applied[i][e] <= Copies(e) * (1 + redeliveries)

\* The intervals of a message are written from the shortest to the longest:
\* a candle never counts more trades than the shorter candles inside it.
ShorterIntervalsLead ==
    \A k \in Keys : k[1] > 1 =>
       candle[k].tradeCount <=
          SumFunctionOnSet([s \in Keys |-> candle[s].tradeCount],
                           {s \in Keys : s[1] = k[1] - 1 /\ OpenTime(s[2], k[1]) = k[2]})

\* What the candles show is what the topic holds, each trade at least once and
\* as often as it was delivered, through conflicts, crashes, redelivery and
\* rebalances that leave a former owner at work.
CandlesAccounted == CandlesAddUp /\ CandleShape /\ NoTradeSkipped /\ ShorterIntervalsLead
===============================================================================
