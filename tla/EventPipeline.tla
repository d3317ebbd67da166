----------------------------- MODULE EventPipeline -----------------------------
(***************************************************************************)
(* From a settled trade to the exchange's candles: the outbox, its Kafka   *)
(* topic and the candle workers, which share nothing but the topic.        *)
(***************************************************************************)
EXTENDS Outbox, Candles

pipelineVars == <<outboxVars, candleVars>>
candleOwn == <<candle, offsets, position, job, applied, redeliveries, shared>>
outboxOwn == <<happened, emitting, tables, worker>>

ASSUME TopicsAssumption == Messages = TradeEvents

PipelineInit == OutboxInit /\ CandleInit

PipelineNext == \/ OutboxNext /\ UNCHANGED candleOwn
                \/ CandleNext /\ UNCHANGED outboxOwn

PipelineSpec == PipelineInit /\ [][PipelineNext]_pipelineVars

PipelineFairness == OutboxFairness /\ CandleFairness

\* A settled trade ends up in every candle it belongs to, through every retry
\* of the two workers, unless a failure strands its row in the outbox.
TradeReachesCandles ==
    \A e \in TradeEvents :
       e \in happened ~> Stranded(e) \/ \A i \in Intervals : applied[i][e] > 0
===============================================================================
