------------------------------ MODULE MCServices ------------------------------
(***************************************************************************)
(* The services around the ledger on small instances.  They share no       *)
(* state, so a behaviour runs one part of them and leaves the others at    *)
(* rest: the graph is the sum of the parts' graphs, not their product.     *)
(* Each part says which of the bounds it uses.                             *)
(***************************************************************************)
EXTENDS Services, TLC

CONSTANTS t1, t2, w1, c1

VARIABLE part

Parts == {"outbox", "candles", "pipeline", "fiat", "kyc", "sessions",
          "enrolment", "codes", "tokens", "market", "address", "window", "bucket"}
TwoFaParts == {"enrolment", "codes", "tokens"}
LimiterParts == {"window", "bucket"}

MCPartitionOf == t1 :> 1 @@ t2 :> 2 @@ w1 :> 0

\* The earlier trade has the higher price, the later one the larger quantity.
MCTrade == t1 :> [price |-> 3, quantity |-> 1, time |-> 0]
        @@ t2 :> [price |-> 2, quantity |-> 2, time |-> 1]

\* Both trades fall into one of the longer intervals.
MCCandleInterval == <<1, 2>>

\* The candle workers find both trades published, the second one perhaps twice.
TradesPublished ==
    \E second \in {<<t2>>, <<t2, t2>>} :
       /\ log = (0 :> << >> @@ 1 :> <<t1>> @@ 2 :> second)
       /\ logFaults = 1
       /\ happened = TradeEvents /\ emitting = {} /\ created = <<t1, t2>>
       /\ outbox = [e \in DomainEvents |->
             IF e \in TradeEvents
             THEN [status |-> "PUBLISHED", due |-> TRUE, attempts |-> Copies(e)]
             ELSE Absent]
       /\ worker = [w \in OutboxWorkers |-> IdleWorker]

\* A user whose enrolment is over.
EnrolledUser ==
    /\ isTwoFaEnabled = TRUE
    /\ twoFaSecret = [version |-> MaxSecrets, isVerified |-> TRUE]
    /\ tokens = << >>
    /\ attempts = [k \in Scopes |-> NoAttempts]
    /\ granted = [t \in 1..MaxTwoFaTokens |-> 0]
    /\ twoFa = [h \in TwoFaHandlers |-> TwoFaIdle]
    /\ twoFaFaults = 0
    /\ proven = {MaxSecrets} /\ met = {} /\ crossed = {}
    /\ together = [k \in Scopes |-> 0] /\ logins = 0

MCInit ==
    /\ part \in Parts
    /\ IF part = "candles" THEN TradesPublished ELSE OutboxInit
    /\ CandleInit
    /\ owner[1] = c1 /\ (part # "candles" => owner[2] = c1)
    /\ FiatInit /\ KycInit /\ SessionInit /\ MarketInit /\ AddressInit /\ LimiterInit
    /\ IF part \in {"codes", "tokens"} THEN EnrolledUser ELSE TwoFaInit

OthersRest ==
    /\ UNCHANGED part
    /\ part \notin {"outbox", "candles", "pipeline"} => UNCHANGED pipelineVars
    /\ part # "fiat" => UNCHANGED fiatVars
    /\ part # "kyc" => UNCHANGED kycVars
    /\ part # "sessions" => UNCHANGED sessionVars
    /\ part \notin TwoFaParts => UNCHANGED twoFaVars
    /\ part # "market" => UNCHANGED marketVars
    /\ part # "address" => UNCHANGED addressVars
    /\ part \notin LimiterParts => UNCHANGED limiterVars

\* One application with three files, or two with two of them.
KycBound == Len(submissions') + Cardinality({f \in DocumentFiles : disk'[f] # "new"}) <= 4

\* The sessions that follow from one login; the fourth is a second successor.
SessionBound ==
    /\ Cardinality({n \in DOMAIN origin' : origin'[n] = NoSession}) <= 1
    /\ Len(origin') = MaxSessions =>
          \E s \in DOMAIN origin' : Cardinality({n \in DOMAIN origin' : origin'[n] = s}) > 1

\* One limiter at a time; two windows, or the life of a bucket whose time is
\* set back by one.
LimiterBound ==
    /\ \A c \in Callers : stamp'[c].limiter \in {"none", part}
    /\ part = "window" => clock' < 2 * windowMs
    /\ setBack' <= 1

\* One fault; the trades are alike for the outbox, so t1 happens first.
OutboxBound == logFaults' <= 1 /\ (t2 \in happened' => t1 \in happened')

\* One login and one counter at a time; logins overlap in the part "tokens".
CodesBound == /\ Len(tokens') <= 1 /\ logins' <= 1
              /\ attempts'[Recent].count = 0 \/ attempts'[1].count = 0

\* A step of ServicesNext, within the bounds of its part.
MCNext ==
    /\ OthersRest
    /\ \/ part = "outbox" /\ OutboxNext /\ UNCHANGED candleOwn /\ OutboxBound
       \/ part = "candles" /\ CandleNext /\ UNCHANGED outboxOwn
       \/ part = "pipeline" /\ PipelineNext /\ happened' \subseteq {t1} /\ logFaults' <= 1
       \/ part = "fiat" /\ FiatNext
       \/ part = "kyc" /\ KycNext /\ KycBound
       \/ part = "sessions" /\ SessionNext /\ SessionBound
       \/ part = "enrolment" /\ TwoFaNext /\ tokens' = << >> /\ attempts'[Recent].count <= 1
       \/ part = "codes" /\ TwoFaNext /\ CodesBound
       \/ part = "tokens" /\ TwoFaNext /\ \A h \in TwoFaHandlers : twoFa'[h].scope = Recent /\ twoFa'[h].pc # "attempts"
       \/ part = "market" /\ MarketNext /\ \A f \in Feeds \ CandleFeeds : provided'[f] <= 1
       \/ part = "address" /\ AddressNext
       \/ part \in LimiterParts /\ LimiterNext /\ LimiterBound

\* The fairness of the components, owed in the parts that run them.
MCFairness ==
    /\ \A w \in OutboxWorkers :
          WF_outboxVars(part \in {"outbox", "pipeline"} /\ WorkerStep(w))
    /\ \A e \in DomainEvents :
          /\ WF_outboxVars(part \in {"outbox", "pipeline"} /\ Emit(e))
          /\ WF_outboxVars(part \in {"outbox", "pipeline"} /\ BecomeDue(e))
    /\ \A c \in CandleWorkers :
          WF_candleVars(part \in {"candles", "pipeline"} /\ ConsumerStep(c))
    /\ \A h \in FiatHandlers : WF_fiatVars(part = "fiat" /\ HandlerStep(h))
    /\ WF_marketVars(part = "market" /\ Reconnect)
    /\ WF_marketVars(part = "market" /\ PublishMarketEvent)
    /\ WF_marketVars(part = "market" /\ EachMessage)

MCSpec == MCInit /\ [][MCNext]_<<servicesVars, part>> /\ MCFairness

\* What happened is heard of: a row that waits is sent, and where the consumers
\* run behind the outbox a settled trade reaches its candles, unless a failure
\* strands the row (domainEventOutbox.worker.js, candle.service.js).
EventsArrive == PendingIsSent /\ (part = "pipeline" => TradeReachesCandles)
===============================================================================
