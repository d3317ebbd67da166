CONSTANTS
    t1 = t1
    t2 = t2
    w1 = w1
    x1 = x1
    x2 = x2
    c1 = c1
    c2 = c2
    DomainEvents = {t1, t2, w1}
    TradeEvents = {t1, t2}
    Partitions = {0, 1, 2}
    PartitionOf <- MCPartitionOf
    MaxLogFaults = 2
    OutboxWorkers = {x1, x2}
    OUTBOX_BATCH_SIZE = 2
    TradePartitions = {1, 2}
    CandleWorkers = {c1, c2}
    Trade <- MCTrade
    CandleInterval <- MCCandleInterval
    FiatDeposits = {d1, d2}
    FiatHandlers = {h1, h2}
    MaxFiatFaults = 1
    KycHandlers = {h1, h2}
    RequiredFileTypes = {ID_FRONT, PROOF_OF_ADDRESS}
    MaxFiles = 3
    MaxSubmissions = 2
    SessionHandlers = {h1, h2}
    MaxSessions = 4
    MaxSessionFaults = 1
    TwoFaHandlers = {h1, h2}
    MAX_TWO_FA_ATTEMPTS = 2
    MaxTwoFaTokens = 3
    MaxSecrets = 2
    MaxTwoFaFaults = 1
    Feeds = {ticker, kline}
    CandleFeeds = {kline}
    MaxUpdates = 2
    MaxMarketFaults = 2
    AddressHandlers = {h1, h2}
    MaxAddresses = 4
    MaxAddressFaults = 1
    Callers = {h1, h2}
    windowMs = 3
    maxRequests = 2
    capacity = 2
    refillTokens = 2
    refillIntervalMs = 3
    SCALE = 1000
    MaxTime = 7
    MaxDelay = 2
SPECIFICATION MCSpec
CHECK_DEADLOCK FALSE
INVARIANT
    CommittedIsEmitted
