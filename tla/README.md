# CryptoEx: a verification project

TLA+ models of the parts of CryptoEx that move money and of the services around
them that keep state, the TLC runs that check them on small instances, and
proofs checked by TLAPS. CryptoEx is a custodial
exchange back end: an Express API, PostgreSQL (through Prisma), Redis, BullMQ
workers, Kafka, a custody provider (BitGo) and a payment provider (Razorpay).
Paths below are relative to `src/Backend/` unless they start with `src/`.

Almost every operation of this program has one shape: read some rows, compute,
write absolute values back, tell a queue or a provider. PostgreSQL runs at its
default READ COMMITTED, nothing is read `FOR UPDATE`, no row has a version
column. What protects the program is a small set of means: unique indexes
(idempotency keys of the ledger and of orders, trade keys, the deposit's
network/hash/index), status checks before an action, job ids in BullMQ, and
recovery scans. The models ask what these means guarantee when handlers
overlap, throw, or die between any two steps, and where they stop.

## 1. Inventory

| Component | Code | State | Operations | Talks to |
|---|---|---|---|---|
| Ledger and wallet accounts | `services/wallet-ledger-service/ledger.service.js`, `walletAccount.service.js` | `WalletAccount`, `WalletBalance`, `LedgerTransaction`, `LedgerEntry` | open accounts (upsert), post a balanced transaction under an idempotency key | called by all that move money |
| Trading | `services/trading-service/tradingOrder.service.js`, `matchingEngine.service.js` | `TradeOrder`, `Trade` | place and lock, match in a loop, settle, cancel and unlock | ledger; outbox (trade events) |
| Withdrawals | `services/wallet-ledger-service/withdrawal.service.js`, `withdrawalProcessor.service.js`, `jobs/withdrawalJob.service.js`, `workers/withdrawal.worker.js` | `Withdrawal`, its jobs | request, lock, approve or hold for review, submit to custody, fail and unlock, finalize | ledger, BullMQ, custody; outbox |
| Deposits | `services/wallet-ledger-service/deposit.service.js` | `Deposit` | record, update confirmations, credit | ledger |
| Webhook inbox | `services/custody-service/custodyWebhook*.js`, `jobs/custodyWebhookJob.service.js`, `workers/custodyWebhook.worker.js`, its controller | `CustodyWebhookEvent`, its jobs | receive, process, finalize, recover | deposits, withdrawals, BullMQ, custody |
| Fiat deposits | `services/payment-service/*` | `FiatDeposit` | create provider order, verify signature, capture, credit | Razorpay, ledger |
| Outbox | `services/event-service/*`, `workers/domainEventOutbox.worker.js` | `DomainEventOutbox` | insert event, claim and publish a batch, mark, postpone | PostgreSQL, Kafka |
| Trade candles | `services/trading-service/candle.service.js`, `workers/tradeCandle.worker.js` | `MarketCandle` of source EXCHANGE_TRADES | fold a trade into five intervals | Kafka |
| Market data | `services/market-data-service/*`, `workers/marketDataStream.worker.js`, `marketProjection.worker.js` | tickers in Redis, `MarketCandle` of source REFERENCE_MARKET | stream, publish, project, back-fill | Binance, Kafka, Redis |
| Deposit addresses | `services/wallet-ledger-service/depositAddress.service.js` | `DepositAddress` | look up or create an address | custody |
| Deposit scanning | `services/blockchain-service/*` | scan checkpoint | scan blocks (nothing calls it) | chain node |
| KYC | `services/user-kyc-service/*` | submissions, documents, audit rows, files, `User.kycStatus` | submit, upload, review | disk |
| Sessions | `services/auth-service/session.service.js`, `utils/token.js` | access and refresh keys in Redis | log in, refresh, log out | Redis |
| Two-factor login | `services/twofa-service/*` | `TwoFaSecret`, `AuthToken`, attempt counters in Redis | enrol, verify at login, verify again | Redis, sessions |
| Accounts of users | the rest of `services/auth-service/*` | `User`, sign-up and reset tokens, trusted devices | sign up, verify e-mail, reset password, trust a device | mail |
| Rate limiters | `middleware/slidingWindowCounter.js`, `tokenBucket.js` | counters and buckets in Redis | admit or refuse | Redis |
| Reads, HTTP surface, utilities, scripts | order book, summaries, `router/`, `controllers/`, `validators/`, `utils/`, `scripts/` | none of their own | format and route | |

What is hard in each of them, and what makes it correct:

- **Ledger.** Hard: lookup, read and write of one posting are three round trips;
  the write sets balances to values computed from the read. Correct when user
  balances stay non-negative, a business key is posted once, each asset sums to
  zero, a balance changes only with a journal entry, and (the promise to its
  callers) a posting behaves as if it were one step.
- **Trading.** Hard: several request handlers match against one book with rows
  they read earlier; matching starts after the order has committed and nothing
  resumes it; partial fills. Correct when orders, trades, fills and locks add
  up, an order that is closed stays closed, price-time priority holds, the book
  is not crossed, one key makes one order.
- **Withdrawals.** Hard: five parties (handler, job, finalizer, webhook,
  provider) and no transaction around any two of their steps; the provider may
  accept and the reply be lost. Correct when nothing is sent without a lock or
  twice, funds return only when nothing was sent, the status moves forward, and
  the withdrawal ends.
- **Deposits and the webhook inbox.** Hard: deliveries repeat; several workers
  and a periodic scan work on one row; a worker may die in each state. Correct
  when a deposit is credited at most once, never before it is final, and
  eventually once it is.
- **Outbox and candles.** Hard: a row is claimed, published and marked in three
  awaits, by several workers; Kafka delivers again what was not committed, and a
  rebalance gives a partition away while its former owner is still in its
  handler; a candle is read and written apart. Correct when one worker holds a row at a
  time, a trade never lacks its event, what is published is published as often
  as it was attempted, and a trade reaches every candle it belongs to.
- **Fiat deposits.** Hard: nobody but the customer's browser asks, possibly
  several times at once; a late request overwrites the status. Correct when a
  payment is credited once, and CREDITED is backed by a posting.
- **Market data.** Hard: the socket closes at any time; a message of a halted
  pair stops its partition; a backfill stores what it fetched earlier. Correct
  when the stream comes back, the projection catches up and shows the last
  message.
- **Deposit addresses.** Hard: look up, create, store are three awaits. Correct
  when the user is never told an address that no row has.
- **KYC.** Hard: each operation decides on what it read before its transaction.
  Correct when the trail explains the status, a decision stands once the requests
  that overlapped it are over, and no document row names a removed file.
- **Sessions and two-factor login.** Hard: every key is set and deleted by a
  command of its own; check and use are apart. Correct when a session that ended
  stays ended, an enrolment stands, and limits are exceeded by no more than the
  requests that overlapped.
- **Rate limiters.** Hard: stamps are older than the scripts that use them, keys
  expire by themselves, the estimate is rounded. Correct when a span of time
  admits no more than it may.

`PROJECT.json` lists all components with their status and the hazards at their
lines, with the properties that cover each.

## 2. Modules

| Module | Role |
|---|---|
| `DoubleEntry` | the rules of a posting as operators without state: well-formed, balanced per asset, simulated balances, overdraft, the write |
| `Accounting` | abstract specification: a book in which a posting is one indivisible step |
| `Ledger` | detailed specification: concurrent posters, three steps per posting; refines `Accounting` but for the writes of calls that overlapped on an account |
| `LedgerProofs` | TLAPS proofs about `Ledger`, its refinement of `Accounting` included |
| `Exchange` | abstract specification: a book in which an entry, a trade and a cancellation are one indivisible step each |
| `Trading` | orders of one pair: `createTradeOrder`, `processOrderMatches`, `cancelTradeOrder` as concurrent handlers; implements `Exchange` while handlers run one at a time |
| `Withdrawal` | one or more withdrawals: request handler, processing job, finalizers, webhook, provider |
| `Deposit` | one transfer from webhook delivery to credit: inbox, jobs, finalizers, recovery scan, row |
| `CreditOnce` | abstract specification: a payment received is credited once, never before; `Deposit` and `FiatDeposit` implement it |
| `FiatDeposit` | fiat deposits: order, row, payment, and overlapping requests to verify and credit |
| `EventLog` | the Kafka topic of domain events as the code uses it (external) |
| `Outbox` | event rows and the workers that publish them |
| `Candles` | the consumer group that folds trades into candles |
| `EventPipeline` | `Outbox` and `Candles` composed over their topic: from a settled trade to its candles |
| `MarketData` | the reference market: stream, partition, projection, backfill |
| `DepositAddresses` | the deposit address of one user |
| `Kyc` | application, documents and reviews of one user |
| `Sessions` | access and refresh keys |
| `TwoFactor` | enrolment, second step of a login, counters of failed codes |
| `RateLimiters` | sliding window counter and token bucket |
| `Services` | the last ten modules in one server: whichever service acts, the others rest |
| `TradingProofs`, `WithdrawalProofs`, `DepositProofs` | TLAPS proofs about those modules |
| `OutboxProofs` | TLAPS proofs about `Outbox`, `Candles` and `EventPipeline` |
| `ServicesProofs` | TLAPS proofs about `FiatDeposit`, `DepositAddresses`, `Sessions`, `TwoFactor`, `Kyc`, `MarketData` and `RateLimiters`, a part for each, and about `Services` |
| `DoubleEntryProofs` | lemmas about the postings of `DoubleEntry`, which `LedgerProofs` and `TradingProofs` use |
| `FiniteSums` | lemmas about finite sets: induction, cardinalities, sums of the values of a function |
| `MCLedger`, `MCTrading`, `MCWithdrawal`, `MCDeposit`, `MCServices` | constants for the runs; `MCServices` runs the parts of `Services` |

`Trading` EXTENDS `DoubleEntry`, so a settlement and a lock follow the same
rules as a ledger posting. `Withdrawal` and `Deposit` use the ledger through what
`Ledger` shows of it: a posting under a key takes effect at most once.

Conventions. A variable is a table (a function from ids to rows), a queue, or
what a running handler holds in memory; the control state of a handler is the
field `at` of its record. One action is the code between two awaits that others
can observe. A definition whose comment begins with `Fault:` is no part of the
specification; it is the changed form of the definition it precedes or follows,
used to confirm that a property notices that change.

### Ledger (`Ledger.tla`)

`balance` holds the `WalletBalance` rows, `history` the journal, `call` what
each poster has read. `Open` is the upsert of `getOrCreateUserWalletAccounts`
and `getOrcreateSystemWalletAccount`. `postLedgerTransaction` is `Lookup`
(validation, then `findUnique` on the key, lines 7-86), `Load` (accounts with
balances, checks and simulation, 88-156) and `Write` (158-205: one transaction
whose unique index refuses a second row of the same key). `Abort` stands for a
refusal after the read, a unique violation, a lost connection, or a rollback by
the caller. Amounts are integers: `Decimal` sums exactly.

Two history variables, written by `Recorded` beside every step, remember where
calls overlapped: `crossed` the callers who, between read and write, had an account
in hand together with another one, `contended` the accounts for which that ever
happened. With them the exact statements need no assumption about the callers:
`BalancesExplained` holds for every account on which no two calls overlapped, and
`ImplementsAccounting` excepts nothing but the `Write` of a crossed caller.
`Isolated` (no two callers share an account) is the special case without exceptions.

### Trading (`Trading.tla`)

`createTradeOrder` is `SubmitOrder` (key lookup, lock, balance read) and
`InsertOrder` (the commit of the OPEN row and of the lock). Then the loop of
`processOrderMatches`: `FindOpposite` (the query, best candidate first),
`ReadSettlement` (fill quantity from the two rows in memory; balance read) and
`CommitTrade` (trade, both rows, balances, in one commit), until no candidate
or nothing remains. `RefuseDuplicate` is a unique index doing its work.
`cancelTradeOrder` is `ReadForCancel`, `ReadUnlock`, `CommitCancel`. `Crash`
loses a handler between any two steps. Rows are written as computed from the
rows in memory, as the code does; `releasedLockAmount` is left to the row,
because the match update does not write it.

`Promise` maps the tables to `Exchange` and drops what handlers carry: a row
becomes an open or closed entry with what it has left (`Entries`), one that was
created earlier entered earlier (`Seniority`), and the AVAILABLE and LOCKED
balances are what a user has free and held (`Purse`). `InsertOrder` then is an
`Enter`, `CommitTrade` a `Trade` of the newest order with the best of the others,
`CommitCancel` a `TakeOut`, and everything else, a crash included, changes nothing.
`Exchange` says what is promised, not what one might wish: what a buyer saves on a
better price stays held (finding 2), and an order whose matching a crash cut
short rests in the book even if it crosses. The stamp of a row
is the time at which its transaction began, and the model gives every transaction
a stamp of its own; between two orders of one price and one millisecond, the
resolution of the column, the database decides.

Two abstractions: a pair has one price and quantity step, so prices and
quantities are small naturals (rounding of `price * quantity` to 18 decimals is
not represented); `timeInForce` is absent because the matching loop never reads
it: IOC and FOK orders are treated as GTC by the code.

### Withdrawal (`Withdrawal.tla`)

`createWithdrawalRequest`: `CreateRow`, `LockFunds`, `Approve`, `Enqueue`.
`processApprovedWithdrawal`: `TakeJob` (status check), `Claim`, `Send`, `Record`,
`Announce`; its catch block and `failWithdrawalAndUnlockFunds`: `ReadToFail`,
`MarkFailed`, `ReadToUnlock`, `PostUnlock`. `finalizeSubmittedWithdrawal`:
`TakeFinalizer` or `Webhook`, `Fetch`, `Save`, `Follow`. The environment:
`Accept` inside `Send`, `Advance` and `TransferFails` (BitGo), `HandlerCrash`,
`RunnerCrash`, `Throw`, `Stall` (BullMQ delivers a job again while its first run
is still active). The reply of the custodian may name the transfer, only an
approval request, or nothing (`ref`): the row becomes SUBMITTED with any of them,
and a finalizer throws on a row without one (`ReadToFinalize`). Of the amount only
its presence is kept: `posted` is the set of ledger keys of the withdrawal. Audit
rows and outbox events are left out (the events are in `Outbox`).

`FundsFollowTransfer` speaks of what the row knows: a lock before a send, sends
bounded by stalls and lost replies, and an unlock only where the row is FAILED and
knows of no transfer. That the row does not always know is finding 3.

### Deposit (`Deposit.tla`)

`Receive` and `Enqueue` are the webhook endpoint, `Add` is `queue.add` with a
fixed job id (BullMQ ignores an id it knows). `TakeJob`, `Mark`, `Processed`,
`Schedule`, `Catch` are `processBitGoTransferWebhookEvent`; `TakeInitial`,
`TakeFollowUp`, `Fetch` are the finalizer. Both share `processDetectedDeposit`:
`Find`, `Create`, `Read`, `Write`, `Credit`, `Lookup`, `Post`, `Close`. `Recover`
is the scan. `Confirm` and `Drop` are the chain, `Crash`, `Throw` and
`HandlerCrash` the faults. Left out: outgoing transfers (in `Withdrawal`),
malformed payloads (they leave no row), the limit of 100 deposits per scan,
BullMQ forgetting a finished job after 1000 later ones. Delayed finalizers of
one event have ids of their own; the model keeps whether one is waiting. The
20 attempts of a finalizer are not counted: with one fault they are not used up.
One recovery scan runs at a time. `Promise` maps the model to `CreditOnce`: the
transfer arrives with its last confirmation, and no interleaving does anything to
the customer's balance but credit it once after that.

### Fiat deposits (`FiatDeposit.tla`, `CreditOnce.tla`)

`createFiatDepositOrder` is `CreateOrder` (at Razorpay) and `InsertRow`.
`verifyAndCreditFiatDeposit` is `Verify` (the signature), `FindRow`, `Capture`;
`creditCapturedFiatDeposit` is `Reload`, `Post`, `Close`. `HandlerFails` ends a
request at any await, with the effect of that await or without. `Pay` is the
customer, who can pay only after the answer that carries the order. The provider
never calls back, and `expiresAt` is written and never read, so no row expires.

### Outbox and candles (`EventLog.tla`, `Outbox.tla`, `Candles.tla`, `EventPipeline.tla`)

`SettleTrade` commits a trade with its row; `ChangeWithdrawal` and `Emit` are a
status change and the insert that follows it, outside its transaction
(finding 6): `emitting` is the event in between.
`processOutboxBatch` is `Fetch` (the due rows, oldest first), then per row
`Claim` (`updateMany` with the status in its condition), `Publish`, `Mark`; a row
whose publishing or marking threw goes through `Postpone`. `BatchFails` is a
throw that leaves the loop, `WorkerCrash` a process that dies. `BecomeDue` is the
30 seconds.

A candle worker takes a message (`Receive`) and for each interval reads the row
(`ReadCandle`) and writes it (`WriteCandle`); `WriteConflicts` is the unique
index. `HandBack` is the rethrown error: Kafka delivers the message again from
its first interval. `applied` counts how often a trade was written, as a ghost.
The five intervals are a sequence of lengths of which each divides the next.
`Rebalance` gives the partitions to the workers that are not in a handler, from the
committed offsets on. A worker that is in its handler
(`workers/tradeCandle.worker.js:75`) has lost its partitions and goes on all the
same: it writes every interval it has left, and the broker refuses its offset
(`Owns`). Two workers therefore meet on one candle with trades of different
partitions, and with the same trade. `shared`, a ghost, remembers the candles that
two workers had read before either wrote: there, and only there, volume is lost.
`EventPipeline` lets both run over one log; they share nothing else.

### Market data (`MarketData.tla`)

`Provide` is an update and the listener's `producer.send`, which nobody awaits;
`PublishMarketEvent` and `PublishGoesWrong` are its answers. `SocketCloses`,
`Reconnect`, `ReconnectFails` are the life of the socket and its timer.
`EachMessage` and `ProjectionThrows` are the consumer; `HaltPair` and
`ResumePair` change what `projectMarketEvent` accepts. `FetchPage`, `StorePage`
are one page of a backfill. A feed is the ticker or one candle of a symbol.

### Deposit addresses (`DepositAddresses.tla`)

`FindAddress`, `CreateReceiveAddress`, `StoreAddress` are the three awaits of
`getOrCreateDepositAddress`; `AddressFails` ends a request at one of them.

### KYC (`Kyc.tla`)

`submitKyc`: `SubmitKyc` (the user), `FindPending`, `CreateSubmission` (the
transaction). `reviewKycSubmission`: `Review` (the submission), `CheckDocuments`
(for an approval), `Decide` (the transaction).
`uploadKycDocumentForSubmission`: `Upload` (multer has stored the file; the
latest pending submission), `FindDocument`, `StoreDocument`, `Unlink`. A
submission is its status, a file its number.

### Sessions (`Sessions.tla`) and two-factor login (`TwoFactor.tla`)

`refreshAuthSession`: `RefreshAuthSession` (the key is there),
`RevokeRefreshToken`, `RevokeToken`, `SignAccessToken`, `SignRefreshToken`; a login
begins at `SignAccessToken`. `revokeAuthSession`: `LogoutRefresh`,
`LogoutAccess`. `ExpireKey` is Redis. A token exists for a client once its
request was answered (`issued`).

`SetupTwoFa`, `UpsertSecret`, `VerifyTwoFaSetup`, `EnableTwoFa` are the
enrolment. `LoginUser`, `DeleteTokens`, `CreateTwoFaToken` are a login that asks
for a code. `VerifyTwoFaLogin` and `VerifyRecentTwoFa` then share
`CheckTwoFaAttempts`, `VerifyUserTwoFaOtp`, and either `IncrAttempts` and
`ExpireAttempts` or `ClearTwoFaAttempts`; the login goes on with
`MarkTwoFaTokenUsed` and `GrantSession`. Whether a code is right is a choice.

Five history variables name what overlap costs, so that the properties can say
what holds without it: `proven` holds the secrets a right code was given for, `met`
the setups that had a verification beside them and `crossed` the secrets those
stored, `together` and `logins` the most requests at once that tried codes of a
scope, or replaced the user's tokens. An enrolment is whole, switched on only with a
verified secret and verified only by its own code, unless its secret was crossed;
failed codes stay below the maximum plus the requests that ran together, exactly at
it if there was one at a time; a token gives at most as many sessions as tried it
together.

### Rate limiters (`RateLimiters.tla`)

`Stamp` takes the time in the process, `SlidingWindow` and `TokenBucket` are the
Lua scripts, which Redis runs in one step and possibly later. The arithmetic,
its scale, its rounding and the expiry of keys are those of the scripts.
`admitted` counts what scripts let by in the window of their stamp (one that runs
later writes into a counter of the past), and `setBack` measures the time that
late stamps put back into the bucket. `BucketAssumption` says that a bucket lives
long enough after its last script to be full when it is dropped, late scripts
included: for the buckets of `rate-limiters/index.js:123-139` it allows scripts a
minute late.

## 3. Runs

`tlc -config <cfg> <module>`, each below five minutes.

| Run | Checks | Shows |
|---|---|---|
| `ledger_shared` | `SafetyInv UserBalancesNonNegative KeyPostedOnce JournalConserves BalancesExplained MovementsAreJournaled ImplementsAccounting` | what the ledger guarantees when two posters share every account (20,144 states); it implements `Accounting` but for overlapping writes |
| `ledger_overspend` | `UsersNeverOverspend` (violated) | finding 1 |
| `trading_serial` | `BooksAddUp NoCrossedBook ImplementsExchange PriceTimePriority` | the accounting and the order of matching, one handler at a time, with a crash: it implements `Exchange` |
| `trading_racing` | `TypeOK UserBalancesNonNegative OrdersSound HandlersEnd` | what is left of it with two handlers at once; matching ends |
| `trading_surplus` | `LockedIsReserved` (violated) | finding 2 |
| `withdrawal_faults` | `TypeOK FundsFollowTransfer ForwardOnly Settles` | a withdrawal under crashes, throws, lost replies and a job run twice |
| `withdrawal_lostreply` | `NoUnlockAfterSend` (violated) | finding 3 |
| `withdrawal_failed` | `FailedReturnsFunds` (violated) | finding 4 |
| `deposit_credit` | `TypeOK RecordedIsTrue DepositImplementsCreditOnce DetectedIsPaid EventsAreHandled` | a deposit is paid once, when final, and in the end; it implements `CreditOnce` |
| `deposit_recovery` | `DetectedIsCredited` (violated) | finding 5 |
| `outbox_missed` | `CommittedIsEmitted` (violated) | finding 6 |
| `services` | the properties of the next table | the services around the ledger under overlap, failures, redelivery and expiry |

The services share no state. A step of `Services` is a step of one of them;
`services` runs one per behaviour (the variable `part` of `MCServices`) and leaves
the others at rest, so that its graph is the sum of theirs. That nothing is lost by
this is read off the code: no row, Redis key, queue or topic is written by two of
them. It is an assumption of the model, not a result of it. Two kinds of parts start further along: the
candle workers behind a topic that is full (`TradesPublished`), the codes and
tokens of a login with a user who has enrolled (`EnrolledUser`). What it checks of
each:

| Part | States | Invariants | Actions, refinement, liveness |
|---|---|---|---|
| `outbox` | 35,871 | `EventsAccounted`: claims are exclusive, copies never exceed attempts, a row is stranded only by a failure, a trade never lacks its row, a withdrawal only by a failure of its insert | `EventsArrive`: a pending row is sent unless a failure strands it |
| `candles` | 66,510 | `CandlesAccounted`: counts are those of the trades folded in and so are volumes unless two workers had read the candle at once, shapes hold under mixed rows, nothing is skipped, shorter intervals lead | |
| `pipeline` | 1,618 | both of the above | `EventsArrive`: a settled trade reaches every candle |
| `fiat` | 2,541 | | `FiatImplementsCreditOnce`, `CapturedIsCredited` |
| `kyc` | 21,385 | `KycConsistent`: the trail explains every status, PENDING is reviewable, decisions are bounded by overlap, approvals have documents, files exist | `DecisionsStand` |
| `sessions` | 27,149 | `SessionsAccounted`: successors and left-over keys are bounded by overlap and failures | `EndedStaysEnded` |
| `enrolment`, `codes`, `tokens` | 7,129, 28,194, 235 | `TwoFaSound`: an enrolment is half done only by overlap, attempts, sessions per token and live tokens exceed their limit only by the requests that ran together, a counter without expiry needs a failure | `EnrolmentStands` |
| `market` | 18,319 | `ProjectionFaithful`: a projection that caught up shows the last message, and without faults that is the provider's last update | `MarketRecovers`: the stream reopens, the projection catches up |
| `address` | 78 | `AddressesAccounted`: answered addresses are stored, orphans come of overlap or failure | |
| `window`, `bucket` | 6,973, 16,493 | `LimitsHold`: the quota of a span, the content of a bucket | |

`ServicesTypeOK` is the type invariant of all of them. The invariants are
conjunctions of named parts, defined and explained one by one in the modules
(`SafetyInv`, `BooksAddUp`, `OrdersSound`, `FundsFollowTransfer` and
`RecordedIsTrue` likewise). Many of them bound a misbehaviour instead of
excluding it ("at most as many as requests overlapped"): the code checks first
and writes later, and the bound says what that costs and where it stops.

Why `trading_*` has two settings: with two handlers at once the exact statements
are false (`UsersNeverOverspend`, finding 1, is the reason), so the racing run
checks what still holds and the serial run checks the exact accounting. The ledger
needs one setting only, because its statements name the overlap they except. The
split is the result: the code's arithmetic is right, its isolation is not.

### Bounds, and why they are enough

- *Ledger*: two posters; seven requests on one user's two BTC accounts and the
  custody account (a deposit, two locks, two unlocks with one key and different
  amounts), plus one that pays one asset with another and one that names the
  wrong asset. Keys bound the journal. Two posters reach every interleaving of
  one read with one foreign write, which is all a posting is exposed to.
- *Trading, serial*: three users, five orders: two sellers at one price (age
  decides), a dearer one (price decides), a buyer who sweeps two and saves on
  the first, a buyer at the low price who rests; cancellations of all; one crash.
  Each request may be refused for want of funds or come in any order.
- *Trading, racing*: a resting sell of 2, two buyers competing for it, and a
  second POST with one key; two handlers in flight. No crash here: what a crash
  leaves behind, an order with its lock and a part of its trades, is in the
  serial run, and a handler that pauses for ever has the same effect on the
  safety properties.
- *Withdrawal*: one withdrawal (two share only runners), two runners, two faults
  of any kind, one stalled job. Two faults are a fault in each of the two
  runners, or one on each side of a retry.
- *Deposit*: one transfer and one event, which already gives three runners on
  the row: its job or a follow-up, an initial finalizer, the recovery scan. Two
  required confirmations, so that CONFIRMING exists; two attempts per processing
  job instead of five; one fault.

- *Services*. Two handlers or workers everywhere: one read and one foreign write is
  all these handlers are exposed to, and the bounds by overlap are stated in the
  number of handlers. One fault per part (two for the market) reaches
  every await of every handler. Outbox: two trades, which are alike and so happen in
  one order, and a withdrawal, batches of two, so that a batch ends before the rows
  do (`OutboxBound`). Candles: two trades on two
  partitions in one long and two short intervals, the second perhaps published
  twice; one crash, failure or rebalance; the pipeline follows one trade. KYC: two applications or three files
  (`KycBound`). Sessions: one login and its successors (`SessionBound`).
  Two-factor login: two wrong codes block, three logins, two secrets, each group
  of operations on its own (the conditions in `MCNext`), the codes of one login with
  one of the two counters at a time (`CodesBound`). Market: a ticker and a
  candle, two updates. Limiters: two windows of 3 ms with a quota of two, a bucket
  of two that refills two per 3 ms, scripts late by up to 2 ms (`LimiterBound`);
  rates that do not divide the scale, so that rounding matters.

`CHECK_DEADLOCK FALSE` everywhere: requests are finite, so a system that has
answered all of them may stop.

### Fairness and why the code justifies it

- *Trading*: weak fairness of a running `createTradeOrder` handler only: Node
  runs a started handler on. Nothing forces a request or a cancellation, and a
  cancellation need not go on. `HandlersEnd` holds although others change the
  book during the sweep.
- *Withdrawal*: weak fairness of the handler, of each runner's steps and of the
  provider's progress; strong fairness of job delivery, because a waiting job
  can be disabled for a while by busy runners and BullMQ still delivers it. No
  webhook is forced: `Settles` rests on the queue's finalizers alone.
- *Deposit*: weak fairness of runners and of the endpoint's second step, strong
  fairness of job delivery and of the recovery scan, which `setInterval` repeats
  every five minutes. No webhook, confirmation or drop is forced.

- *Outbox*: weak fairness of a worker's steps (each ends at an await that the event
  loop resumes; a batch begins again and again, by notification or poll timer),
  of an insert under way and of the 30 seconds. No business change is forced.
- *Candles*: weak fairness of each consumer's steps: kafkajs hands out the next
  message. No commit of an offset is forced, so a crash may always go back.
- *Fiat deposits*: weak fairness of running handlers only. Nobody is made to pay or
  to ask for verification.
- *Market data*: weak fairness of the timer, of the answer to a send and of the next
  message. That a halted pair is resumed is a premise of the property, not a
  fairness.

Crashes and thrown awaits are bounded by `MaxFaults` and its like, not excluded: the
liveness properties say by name where a fault excuses them. `DetectedIsPaid`
is not excused by any.

## 4. What is proved

Every safety property and every refinement that the passing runs check is a theorem
for all values of the constants. Unless a row says otherwise, a theorem needs only
the named assumptions of the module's constants, which TLC evaluates in the runs.

| Module | Theorem | Statement |
|---|---|---|
| `LedgerProofs` | `TypeCorrect` | `Spec => []TypeOK` |
| | `SafetyInvariant` | `Spec => []SafetyInv` |
| | `NoNegativeUserBalance` | `Spec => []UserBalancesNonNegative` |
| | `AtMostOncePerKey` | `Spec => []KeyPostedOnce` |
| | `NoSilentMovement` | `Spec => MovementsAreJournaled` |
| | `JournalIsConserved` | `Spec => []JournalConserves` |
| | `OnlyOverlapsGoStale` | `Spec => []ReadsStayCurrent`: what a call has read is current unless it overlapped, on an account that was overlapped on |
| | `LedgerImplementsAccounting` | `Spec => ImplementsAccounting` |
| | `IsolatedImplementsAccounting` | `Isolated` implies `Spec => Books!Spec`: without exceptions |
| | `ExplainedUnlessContended` | `Spec => []BalancesExplained` |
| | `IsolatedNeverOverspend` | `Isolated` implies `Spec => []UsersNeverOverspend`: what finding 1 refutes holds without overlap |
| `TradingProofs` | `TradingInvariant` | `Spec => []TradingInv` |
| | `TradingTypeCorrect` | `Spec => []TypeOK` |
| | `TradingBalancesNonNegative` | `Spec => []UserBalancesNonNegative` |
| | `TradingOrdersSound` | `Spec => []OrdersSound` |
| | `TradingSerialInvariant` | `MaxInFlight = 1` implies `Spec => []SerialInv` |
| | `TradingClosedIsFinal` | `MaxInFlight = 1` implies `Spec => ClosedIsFinal` |
| | `TradingPriceTimePriority` | `MaxInFlight = 1` implies `Spec => PriceTimePriority` |
| | `TradingBooksInvariant` | `MaxInFlight = 1` and finitely many users imply `Spec => []BooksInv` |
| | `TradingBooksAddUp` | the same imply `Spec => []BooksAddUp` |
| | `TradingNoCrossedBook` | the same imply `Spec => []NoCrossedBook` |
| | `TradingAgesInvariant` | `MaxInFlight = 1` implies `Spec => []AgesInv` |
| | `TradingImplementsExchange` | `MaxInFlight = 1` and finitely many users imply `Spec => ImplementsExchange` |
| `WithdrawalProofs` | `WithdrawalTypeCorrect` | `Spec => []TypeOK` |
| | `WithdrawalInvariant` | `Spec => []WithdrawalInv` |
| | `WithdrawalFundsFollowTransfer` | `Spec => []FundsFollowTransfer` |
| | `WithdrawalForwardOnly` | `Spec => ForwardOnly` |
| `DepositProofs` | `DepositTypeCorrect` | `Spec => []TypeOK` |
| | `DepositInvariant` | `Spec => []DepositInv` |
| | `DepositRecordIsTrue` | `Spec => []RecordedIsTrue` |
| | `DepositRefinesCreditOnce` | `Spec => DepositImplementsCreditOnce` |
| `OutboxProofs` | `OutboxTypeCorrect` | `OutboxSpec => []OutboxTypeOK` |
| | `OutboxInvariant` | `OutboxSpec => []OutboxInv` |
| | `OutboxEventsAccounted` | `OutboxSpec => []EventsAccounted` |
| | `PipelineInvariant` | `PipelineSpec => [](OutboxInv /\ CandleInv)` |
| | `PipelineEventsAccounted` | `PipelineSpec => []EventsAccounted`: the two share a budget of faults |
| | `CandlesTypeCorrect` | `PipelineSpec => []CandleTypeOK` |
| | `CandlesAreAccounted` | `PipelineSpec => []CandlesAccounted` |
| `ServicesProofs` | `FiatTypeCorrect`, `FiatInvariant`, `FiatCreditsArePaid` | `FiatSpec => []FiatTypeOK`, `[]FiatInv`, `[]CreditsArePaid` |
| | `FiatRefinesCreditOnce` | `FiatSpec => FiatImplementsCreditOnce` |
| | `AddressInvariant`, `AddressesAreAccounted` | `AddressSpec => []AddressInv`, `[]AddressesAccounted` |
| | `SessionInvariant`, `SessionsAreAccounted` | `SessionSpec => []SessionInv`, `[]SessionsAccounted` |
| | `SessionEndedStays` | `SessionSpec => EndedStaysEnded` |
| | `TwoFaInvariant`, `TwoFaIsSound` | `TwoFaSpec => []TwoFaInv`, `[]TwoFaSound` |
| | `EnrolmentIsFinal` | `TwoFaSpec => EnrolmentStands` |
| | `KycInvariant`, `KycIsConsistent` | `KycSpec => []KycInv`, `[]KycConsistent` |
| | `DecisionsAreFinal` | `KycSpec => DecisionsStand` |
| | `MarketInvariant`, `MarketProjectionFaithful` | `MarketSpec => []MarketInv`, `[]ProjectionFaithful` |
| | `LimiterInvariant`, `LimiterLimitsHold` | `LimiterSpec => []LimiterInv`, `[]LimitsHold` |
| | `ServicesTypeCorrect` | `ServicesSpec => []ServicesTypeOK` |

What is assumed. `OwnersAssumption` (no user is called SYSTEM);
`RequestsAssumption` and `MineAssumption` (a request is a key with a posting over
existing kinds of accounts); `AssetsAssumption` and `ReqAssumption` of `Trading`
(two assets; an order has a side, a price and a quantity, both positive);
`BoundsAssumption` (bounds are naturals, a deposit needs at least one
confirmation); `CandleAssumption` and `TradeAssumption` (at least one interval, each
a multiple of the one before; finitely many trades, with natural prices, quantities
and times). Where a bound counts overlapping requests, there are finitely many
requests at once: `RunnersAssumption`, and the same for the handlers of addresses,
sessions, two-factor login and KYC. `BucketAssumption` is explained in section 2.
The statements about the ledger need no precondition, because they except what
overlapped by name; `Isolated` (no two posters name one account) turns them into
exact ones. A user who does one thing at a time has it for his own accounts; the
custody account of an asset, which all deposits share, does not. `MaxInFlight = 1`
is the corresponding precondition of trading.

What is not proved of `Services`: that its parts share no state. Its next-state
relation is written so (one service acts, the others rest), and `ServicesTypeCorrect`
carries the type invariants over; the other theorems are stated for each service.

### The inductive invariants, and why they are needed

None of the properties is inductive as it stands.

- *Ledger.* `UserBalancesNonNegative` alone says nothing about a write, which sets
  balances that were simulated earlier. What protects it is that the simulated
  values themselves passed the check: `CheckedBalances`, in `SafetyInv`. Note what
  follows and what does not: balances never go negative *because* the write is
  absolute, and for the same reason an entry may be lost from a balance
  (finding 1). `ReadsStayCurrent` says that a pending write still is what a
  simulation from the current balances would give, but for a crossed call on a
  contended account. It is inductive only with `CrossingsSeen` (whoever shares an account
  with another pending call is recorded): a `Write` changes what another call has
  read only if both had the account in hand, and then the history says so. With
  `CallsAccepted` (a pending call passed its checks and is its poster's own), `Write`
  of a call that is not crossed is exactly `Accounting!Post`, every other step an
  `Open` or a stutter. `BalancesExplained` needs that nothing was posted to
  an account that is not open (`ExplainedInv`), and a lemma on the sum over a journal
  with one more entry.
- *Trading.* `TradingInv` holds for any overlap: rows, trades and balances are
  sound because what each handler carries from its reads to its commit is. With
  one handler at a time `SerialInv` adds that what a handler has read is what is
  written. `BooksInv` then keeps the sums: what is read of balances is current,
  closed orders are sound (`ClosedSound`), locked balances are what open orders
  reserve and buyers saved (`LockedSums`), fills are sums of trades (`FillSums`),
  assets are conserved; and `SweepsEnd`, that a crossing pair of resting orders
  has one of them in a running sweep, is what makes the book uncrossed at rest.
  The refinement of `Exchange` goes commit by commit and needs two things more. A
  balance must move as `Exchange` moves it: the four accounts of a settlement are
  those of two different users, and what was simulated is what is in the rows
  (`MatchInBook`, `SettlementInPurses`). And a trade must be made by the newest
  order with the oldest of the best: `AgesInv` says that stamps tell orders apart
  and that the order being matched has the latest. Without it a sweep could go
  on for an order that a later one has overtaken. `ClosedIsFinal` is not run
  separately, an entry of `Exchange` that is closed has no step; it is proved.
- *Withdrawal.* `WithdrawalInv` says what a runner may rely on at each await about
  the handler, the row and the chain (`RequestInv`), budgets the requests to the
  chain, made or still in hand, by the jobs delivered again (`SendInv`), and, until a job is
  taken for stalled, that nobody works on a withdrawal twice at once (`Calm`).
- *Deposit.* `DepositInv`: the row (`RowIsCurrent`) and every copy of it in a
  runner's hands (`ReadsAreCurrent`) tell no more than the transfer has done, so
  a stale copy may only repeat the truth. The refinement of `CreditOnce` is shown
  step by step: `Post` of a final deposit is its `Credit`, `Confirm` its arrival,
  everything else a stutter.
- *Outbox.* `WorkInv` relates each row to the worker that holds it and shows that
  claims exclude; `LossesPaid` charges each stranded row, and each event of a
  withdrawal that has no row and nobody about to insert it, to a fault.
- *Candles.* `CandleInv` keeps, for every row, that it is the fold of what was
  written into it (`RowFolded`: the volume only of a candle that is not `shared`,
  since there the row that was read is the row that is written, `SeenSound`). A
  message in hand is in the shorter intervals already, and is the next one of its
  partition while its worker owns it (`JobSound`). The bound on repetition is not
  inductive by itself: `TimesApplied` counts with a trade the workers that have yet
  to write it, former owners included (`DueTimes`), and splits what is due into the
  copies delivered since the group last went back (`Delivered`) and what
  redeliveries have paid for. A write leaves both alone, a delivery adds one to both,
  and whatever sends the group back, a rebalance too, pays for all of them. What is
  due never grows with the interval. That shorter intervals lead then is a sum taken group by group, and
  that the start of the longer interval is the same seen from the start of the
  shorter one inside it (`OpeningsNest`, where divisibility is used).
- *Fiat deposits.* `RequestsHoldProof`: whoever may post holds the signature of a
  payment. With `CreditsArePaid` each step is one of `CreditOnce` or a stutter.
- *Addresses, sessions, two-factor login.* The properties bound what overlap and
  failures may cost. The invariants bound it by what is spent *and* what requests
  under way may still spend, as cardinalities of sets whose elements move from
  one to the other (`WasteBounded`, `RefreshBounded`, `AttemptsBounded`,
  `GrantsBounded`, `TokensBounded`). For the enrolment the invariant follows each
  setup and each verification from its read to its write: one that meets the other on
  the way is in `met` before it can do harm.
- *KYC.* `KycInv` adds that a review under way saw its submission pending while it
  is counted (`DecisionsBounded`), that an approval in hand has looked at the
  documents (`ApprovalsChecked`), and that each file is in one place at most
  (`FilesSound`).
- *Market data.* `LastIsShown` speaks of every position, not only of the end: the
  last message of a feed is shown once the projection is past it, also after the
  offset went back. `NothingLost` says for a stream without failure that what is
  logged and what is being sent ends with the provider's last update.
- *Rate limiters.* `CountersKept`: a counter is kept until the next window is over
  and counts at least what its window admitted. `WindowsLimited` weighs each
  prefix of a window against what is left of the one before, as the script did
  when it admitted the last of it. `BucketPaid`: what was drawn and what is left
  flowed in by the time that the bucket carries.

All sums and cardinalities rest on `FiniteSums`: an induction over finite sets
that needs no operator as a parameter, the unfolding of `SumFunctionOnSet` that
follows from it, and what a sum does when a value changes, moves or is renamed.

To be reasoned about, some definitions have a form of their own with the same
values: `DueBatch` of `Outbox` is a recursive function, `Folded` of `Candles` a sum
over a set, the last entry of the KYC
trail is found by its place (`IsLastOn`), `MarketTypeOK` says that a position lies
in the log.

### Only model-checked

- All liveness (`HandlersEnd`, `Settles`, `DetectedIsPaid`, `EventsAreHandled`,
  `EventsArrive`, `CapturedIsCredited`, `MarketRecovers`) and all that needs
  ENABLED: beyond the prover.
- The candles of the run start behind a topic that is full already
  (`TradesPublished`), the codes and tokens with an enrolled user (`EnrolledUser`);
  the theorems start where the program does.

## 5. Findings

Each is a run that TLC finds violated; the trace is the shortest one.

1. **Two concurrent postings overspend** (`ledger_overspend`). Both read one
   balance, both pass the check that `ledger.service.js:127` introduces with "so
   users cannot spend funds they do not have", both write the same absolute
   value: two entries are journaled and one shows in the balance.
2. **A buyer's price improvement stays locked** (`trading_surplus`). The
   settlement takes the resting price, the order counts its own limit price as
   consumed, and nothing returns the difference. `src/README.md:135`: LOCKED is
   "funds reserved for withdrawals or open orders".
3. **A lost reply unlocks a transfer that was sent** (`withdrawal_lostreply`).
   The guard of `withdrawal.service.js:398-411` looks at the row, and the row
   learns of the transfer only from the reply.
4. **A transfer that fails at the provider keeps its funds locked**
   (`withdrawal_failed`). The finalizer sets FAILED and never unlocks;
   `src/README.md:145`: "Withdrawal fails: user locked moves back to user
   available".
5. **A paid deposit may say DETECTED for good** (`deposit_recovery`). A slow
   worker writes the status of its older read over CREDITED and dies; the
   recovery scan (`src/README.md:175`) always uses the job id `...-initial`,
   which BullMQ ignores as long as it keeps the job that ran under it.
6. **The event of a withdrawal may be lost** (`outbox_missed`).
   `createWithdrawalDomainEvent` inserts the outbox row after the status change has
   committed, in a statement of its own (`withdrawalDomainEvent.service.js:15`): a
   crash or a failed insert between the two loses the event. `src/README.md:287-298`
   says of the outbox pattern, without excepting withdrawals, that the row is created
   in the same transaction. The events of trades are.

A kin of finding 2 without a run of its own: a completed withdrawal leaves its
amount in LOCKED, because no posting follows COMPLETED
(`withdrawalProcessor.service.js:349`), although `src/README.md:135` says that LOCKED
is what is reserved for withdrawals or open orders. The model shows it as a
`posted` that stays `{"lock"}`.

Behaviour seen while modelling that has no run, and that no document we know of
excludes: a withdrawal that custody answered without any id is SUBMITTED and its
finalizer throws until its attempts are used up; a withdrawal that waits for approval at the custodian is polled by
request id for ever; a withdrawal whose worker dies in PROCESSING stays there,
and one whose API process dies before `Enqueue` is queued by nobody; two
finalizers may write an older status over a newer one (`Overtaken` in
`ForwardOnly`), and a failure path may write FAILED over COMPLETED; two racing
handlers may fill an order beyond its trades' sum or unlock what a match
consumed (the balances then come out of other locks of the user); a webhook event
whose worker dies before the Deposit row exists is not looked at again.

Of the services: a row whose worker dies, or whose catch block throws, stays
PUBLISHING (`Stranded`). A
trade redelivered after a partial failure is counted again in the intervals
already written, and two workers of one group lose volume, highs and lows to each
other but no count; a candle worker's group that starts without an offset skips
what was published before (`fromBeginning: false`). A late verification shows
PAYMENT_CAPTURED for a moment over CREDITED; a payment whose browser never asks is
not credited. One halted pair holds up its whole partition; a backfill may put
an older candle over a newer one until the next update; `reconnectTimer` keeps
the value of a timer that has fired. Two requests create two custody addresses
and one of them answers with an error. Two overlapping reviews both decide, the
later one wins; an upload may end after the decision, and one that is refused
leaves its file on disk. Overlapping refreshes give several successors of one
session. A setup that overlaps a verification leaves two-factor login switched on
with a secret not verified (no code is accepted then), or verifies a secret that
no code was given for (`crossed` of `TwoFactor`, and nothing else does); a counter whose request dies between INCR and EXPIRE
blocks its scope until something else removes the key. A late script sets the
bucket's time back, so that some milliseconds refill twice, or counts into a
window that is over.

## 6. How a property is known to bite

Every property of a passing run has a changed definition of the code's model
under which TLC finds it violated (`mutants` in `PROJECT.json`): a dropped
check, a unique index that is not one, a write of increments instead of values,
a comparison without its tie-break, a loop that stops early or never, a status
taken verbatim, a finalizer that is not scheduled, a claim that does not ask, a
key deleted too late or never, an error that is swallowed, a file removed before
its row is replaced.

## 7. Not modelled, and why

- Read-only services (order book, trades, summary, wallet views, charts) and
  formatting.
- Provider clients and e-mail: network I/O; their effect on money appears as the
  environment of `Withdrawal`, `Deposit`, `FiatDeposit` and `DepositAddresses`.
- Signature and shape checks of webhooks, authentication middleware, routing:
  stateless.
- Code that nothing in the repository calls or mounts at this commit:
  `preventBitGoWebhookReplay`, `checkRecentTwoFa`, and the deposit scan with its
  checkpoint (no worker, route or script starts it). They have no behaviour in
  the system to model.
- Sign-up, e-mail verification, password reset and trusted devices: each is one
  row read and written by one request, without a second actor. The reset is not
  reachable as written: the controllers call `forgotPassword` and `resetPassword`
  with positional arguments (`controllers/auth.controller.js:117`, `:128`), the
  services take an object. An account whose verification mail fails or whose link
  expires cannot ask for another one.
- How a rebalance of the candle workers' group is agreed on: joining, heartbeats and
  generations are the broker's; the model has its outcome (`Rebalance`).
- Contents: personal data, payloads, decimal rounding of `price * quantity` to 18
  places (`matchingEngine.service.js:345`), amounts of fiat deposits.
- The overview of the market and its cache, the paging of the backfill script.
- Migrations, seeds, CI: generated or run by hand.
- The database's own failures other than an aborted transaction or a lost reply;
  the failure of Redis appears in `RateLimiters` and as a failed await elsewhere.

## 8. Plan

The components with concurrent state are modelled and their safety is proved. What
is left:

1. A refinement of `Withdrawal` to its status graph as an abstract specification,
   with `ForwardOnly` as the reason why calm steps follow its edges.
2. The converse for `Trading` under overlap: which entries, trades and
   cancellations of `Exchange` a racing pair of handlers may be mistaken for.
