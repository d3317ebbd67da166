-------------------------------- MODULE Trading --------------------------------
(***************************************************************************)
(* Limit orders on one trading pair: placing an order and matching it      *)
(* (trading-service/tradingOrder.service.js, matchingEngine.service.js),   *)
(* and cancelling it, by concurrent HTTP request handlers.                 *)
(*                                                                         *)
(* Each handler alternates between reads and PostgreSQL transactions at    *)
(* READ COMMITTED.  A transaction reads the balance rows it will move      *)
(* (ledger.service.js) and commits later; both the balances and the order  *)
(* rows it writes are absolute values computed from what was read before.  *)
(* So every transaction is two steps here, and what a handler has read is  *)
(* part of its state.                                                      *)
(***************************************************************************)
EXTENDS DoubleEntry

CONSTANTS Orders,        \* order ids; each stands for one POST /trading/orders
          Req,           \* what each asks for: [user, side, price, qty, key]
          Funds,         \* AVAILABLE balances before trading
          MaxInFlight,   \* bound: handlers running at the same time
          MaxCrashes     \* bound: handlers lost to a crash of the process

ASSUME AssetsAssumption == Assets = {"BASE", "QUOTE"}
ASSUME ReqAssumption ==
    Req \in [Orders -> [user : Users, side : {"BUY", "SELL"},
                        price : Nat \ {0}, qty : Nat \ {0}, key : STRING]]
ASSUME FundsAssumption == Funds \in [Users \X Assets -> Nat]
ASSUME BoundsAssumption == MaxInFlight \in Nat \ {0} /\ MaxCrashes \in Nat

VARIABLES balance,       \* rows of WalletBalance
          order,         \* rows of TradeOrder: a function on the created ids
          trades,        \* rows of Trade
          unlocked,      \* orders with a posted `trade-order-cancel:<id>`
          place,         \* per order: its createTradeOrder handler
          cancel,        \* per order: its cancelTradeOrder handler
          crashes

vars == <<balance, order, trades, unlocked, place, cancel, crashes>>

Available(user, asset) == <<user, asset, "AVAILABLE">>
Locked(user, asset) == <<user, asset, "LOCKED">>

Opposite(o, m) == /\ Req[o].side # Req[m].side
                  /\ Req[o].user # Req[m].user

\* Prices meet: the buyer's limit is at least the seller's.
Crosses(o, m) == IF Req[o].side = "BUY" THEN Req[m].price <= Req[o].price
                                        ELSE Req[m].price >= Req[o].price

Matchable(row) == row.status \in {"OPEN", "PARTIALLY_FILLED"}
-------------------------------------------------------------------------------
\* calculateOrderLock: the asset an order reserves, and how much of it.
LockAsset(o) == IF Req[o].side = "BUY" THEN "QUOTE" ELSE "BASE"
LockOf(o, qty) == IF Req[o].side = "BUY" THEN Req[o].price * qty ELSE qty

LockPosting(o) == Transfer(Available(Req[o].user, LockAsset(o)),
                           Locked(Req[o].user, LockAsset(o)),
                           LockOf(o, Req[o].qty))

\* calculateRemainingLockedAmount: filled quantity at the order's own price.
RemainingLock(o, row) ==
    LockOf(o, Req[o].qty) - LockOf(o, row.filled) - row.released

UnlockPosting(o, amount) == Transfer(Locked(Req[o].user, LockAsset(o)),
                                     Available(Req[o].user, LockAsset(o)),
                                     amount)

\* Fault: the incoming order sets the price.
ExecutionPriceOfTaker(taker, maker) == Req[taker].price

\* getExecutionPrice: the resting order sets the price.
ExecutionPrice(taker, maker) == Req[maker].price

\* The four entries of a trade settlement.
SettlementPosting(taker, maker, qty) ==
    LET buyer == IF Req[taker].side = "BUY" THEN Req[taker].user ELSE Req[maker].user
        seller == IF Req[taker].side = "BUY" THEN Req[maker].user ELSE Req[taker].user
        quote == ExecutionPrice(taker, maker) * qty
        base == Transfer(Locked(seller, "BASE"), Available(buyer, "BASE"), qty)
        paid == Transfer(Locked(buyer, "QUOTE"), Available(seller, "QUOTE"), quote)
    IN  [a \in DOMAIN base \cup DOMAIN paid |->
            IF a \in DOMAIN base THEN base[a] ELSE paid[a]]

\* Fault: the status is not recomputed from what remains.
FilledPartially(row, qty) ==
    [row EXCEPT !.filled = @ + qty, !.remaining = @ - qty,
                !.status = "PARTIALLY_FILLED"]

\* calculateOrderFillUpdate: the row written for an order after a fill.
Filled(row, qty) ==
    [row EXCEPT !.filled = @ + qty,
                !.remaining = @ - qty,
                !.status = IF row.remaining - qty <= 0 THEN "FILLED"
                                                       ELSE "PARTIALLY_FILLED"]

\* Fault: only the price decides which resting order comes first.
BetterByPrice(o, m, n) ==
    IF Req[o].side = "BUY" THEN Req[m].price <= Req[n].price
                           ELSE Req[m].price >= Req[n].price

\* orderBy [price, createdAt] of getOppositeOpenOrders.
Better(o, m, n) ==
    \/ Req[m].price # Req[n].price
       /\ IF Req[o].side = "BUY" THEN Req[m].price < Req[n].price
                                 ELSE Req[m].price > Req[n].price
    \/ Req[m].price = Req[n].price /\ order[m].createdAt <= order[n].createdAt

\* Fault: the query does not filter on the status.
CandidatesOfAnyStatus(o) == {m \in DOMAIN order : Opposite(o, m) /\ Crosses(o, m)}

\* Orders that getOppositeOpenOrders returns for o.
Candidates(o) == {m \in DOMAIN order : /\ Opposite(o, m) /\ Crosses(o, m)
                                       /\ Matchable(order[m])}
-------------------------------------------------------------------------------
Status == {"OPEN", "PARTIALLY_FILLED", "FILLED", "CANCELLED"}
Row == [status : Status, filled : Nat, remaining : Nat, released : Nat,
        createdAt : Nat]
Trade == [taker : Orders, maker : Orders, price : Nat, qty : Nat]

TypeOK ==
    /\ IsBalances(balance)
    /\ DOMAIN order \subseteq Orders /\ order \in [DOMAIN order -> Row]
    /\ trades \subseteq Trade
    /\ unlocked \subseteq Orders
    /\ \A o \in Orders :
          /\ place[o].at \in {"new", "creating", "matching", "found", "settling", "done"}
          /\ place[o].at \in {"matching", "found", "settling"} => place[o].mine \in Row
          /\ place[o].at \in {"found", "settling"} =>
                place[o].maker \in Orders /\ place[o].theirs \in Row
          /\ cancel[o].at \in {"idle", "read", "closing"}
          /\ cancel[o].at # "idle" => cancel[o].amount \in Nat /\ cancel[o].released \in Nat
    /\ crashes \in 0..MaxCrashes

Init ==
    /\ balance = [a \in Account |->
          IF IsUserOwned(a) /\ a[3] = "AVAILABLE" THEN Funds[<<a[1], a[2]>>] ELSE 0]
    /\ order = [o \in {} |-> 0]
    /\ trades = {}
    /\ unlocked = {}
    /\ place = [o \in Orders |-> [at |-> "new"]]
    /\ cancel = [o \in Orders |-> [at |-> "idle"]]
    /\ crashes = 0

Running == {o \in Orders : place[o].at \notin {"new", "done"}}
Cancelling == {o \in Orders : cancel[o].at # "idle"}
MayStart == Cardinality(Running) + Cardinality(Cancelling) < MaxInFlight
Quiet == Running = {} /\ Cancelling = {}

KeyTaken(o) == \E m \in DOMAIN order : Req[m].key = Req[o].key

\* createdAt is the start time of the creating transaction.
Now == LET stamps == {order[m].createdAt : m \in DOMAIN order}
                     \cup {place[m].createdAt : m \in {n \in Orders : place[n].at = "creating"}}
       IN  IF stamps = {} THEN 1 ELSE Max(stamps) + 1
-------------------------------------------------------------------------------
(* createTradeOrder, up to the balance read inside its transaction.  A     *)
(* known idempotency key answers with the existing order and does nothing  *)
(* more; an insufficient balance throws and leaves no trace.               *)
SubmitOrder(o) ==
    /\ place[o].at = "new" /\ MayStart
    /\ \/ /\ KeyTaken(o)
          /\ place' = [place EXCEPT ![o] = [at |-> "done"]]
       \/ /\ ~KeyTaken(o)
          /\ LET next == NextBalances(LockPosting(o), balance)
             IN  /\ ~Overdraws(next)
                 /\ place' = [place EXCEPT ![o] =
                       [at |-> "creating", next |-> next, createdAt |-> Now]]
    /\ UNCHANGED <<balance, order, trades, unlocked, cancel, crashes>>

\* The transaction commits: the OPEN row and the lock of its funds.
InsertOrder(o) ==
    /\ place[o].at = "creating"
    /\ ~KeyTaken(o)
    /\ LET row == [status |-> "OPEN", filled |-> 0, remaining |-> Req[o].qty,
                   released |-> 0, createdAt |-> place[o].createdAt]
       IN  /\ order' = [m \in DOMAIN order \cup {o} |->
                           IF m = o THEN row ELSE order[m]]
           /\ place' = [place EXCEPT ![o] = [at |-> "matching", mine |-> row]]
    /\ balance' = Overwrite(balance, place[o].next)
    /\ UNCHANGED <<trades, unlocked, cancel, crashes>>

\* Fault: matching stops after the first trade.
FindOppositeOnce(o) ==
    /\ place[o].at = "matching"
    /\ \/ /\ Candidates(o) = {} \/ place[o].mine.filled > 0
          /\ place' = [place EXCEPT ![o] = [at |-> "done"]]
       \/ \E m \in Candidates(o) :
          /\ place[o].mine.filled = 0
          /\ \A n \in Candidates(o) : Better(o, m, n)
          /\ place' = [place EXCEPT ![o] = [at |-> "found", mine |-> place[o].mine,
                                            maker |-> m, theirs |-> order[m]]]
    /\ UNCHANGED <<balance, order, trades, unlocked, cancel, crashes>>

\* Fault: no way out of the loop when the book has nothing left to match.
FindOppositeForever(o) ==
    /\ place[o].at = "matching"
    /\ \E m \in Candidates(o) :
          /\ \A n \in Candidates(o) : Better(o, m, n)
          /\ place' = [place EXCEPT ![o] = [at |-> "found", mine |-> place[o].mine,
                                            maker |-> m, theirs |-> order[m]]]
    /\ UNCHANGED <<balance, order, trades, unlocked, cancel, crashes>>

\* One turn of the loop of processOrderMatches: query the book, take the first.
FindOpposite(o) ==
    /\ place[o].at = "matching"
    /\ \/ /\ Candidates(o) = {}
          /\ place' = [place EXCEPT ![o] = [at |-> "done"]]
       \/ \E m \in Candidates(o) :
          /\ \A n \in Candidates(o) : Better(o, m, n)
          /\ place' = [place EXCEPT ![o] = [at |-> "found", mine |-> place[o].mine,
                                            maker |-> m, theirs |-> order[m]]]
    /\ UNCHANGED <<balance, order, trades, unlocked, cancel, crashes>>

\* calculateFillQuantity, on the two rows the handler has in memory.
FillQuantity(o) == Min({place[o].mine.remaining, place[o].theirs.remaining})

\* executeSingleMatch opens its transaction and reads the balances to settle.
ReadSettlement(o) ==
    /\ place[o].at = "found"
    /\ LET next == NextBalances(SettlementPosting(o, place[o].maker, FillQuantity(o)),
                                balance)
       IN  place' = [place EXCEPT ![o] =
              IF Overdraws(next)
              THEN [at |-> "done"]                  \* 409, rolled back
              ELSE [at |-> "settling", mine |-> @.mine, maker |-> @.maker,
                    theirs |-> @.theirs, next |-> next]]
    /\ UNCHANGED <<balance, order, trades, unlocked, cancel, crashes>>

\* `trade:<incoming>:<opposite>` is unique.
PairTraded(taker, maker) == \E t \in trades : t.taker = taker /\ t.maker = maker

\* Fault: the row of the resting order is not written.
CommitTradeTakerOnly(o) ==
    /\ place[o].at = "settling"
    /\ LET m == place[o].maker
           qty == FillQuantity(o)
           row == Filled(place[o].mine, qty)
       IN  /\ ~PairTraded(o, m)
           /\ trades' = trades \cup {[taker |-> o, maker |-> m, qty |-> qty,
                                      price |-> ExecutionPrice(o, m)]}
           /\ order' = [order EXCEPT ![o] = row]
           /\ balance' = Overwrite(balance, place[o].next)
           /\ place' = [place EXCEPT ![o] =
                 IF row.status = "FILLED" THEN [at |-> "done"]
                                          ELSE [at |-> "matching", mine |-> row]]
    /\ UNCHANGED <<unlocked, cancel, crashes>>

\* The match commits: trade, settlement, and both order rows.
CommitTrade(o) ==
    /\ place[o].at = "settling"
    /\ LET m == place[o].maker
           qty == FillQuantity(o)
           row == [Filled(place[o].mine, qty) EXCEPT !.released = order[o].released]
       IN  /\ ~PairTraded(o, m)
           /\ trades' = trades \cup {[taker |-> o, maker |-> m, qty |-> qty,
                                      price |-> ExecutionPrice(o, m)]}
           /\ order' = [order EXCEPT
                 ![o] = row,
                 ![m] = [Filled(place[o].theirs, qty) EXCEPT !.released = order[m].released]]
           /\ balance' = Overwrite(balance, place[o].next)
           /\ place' = [place EXCEPT ![o] =
                 IF row.status = "FILLED" THEN [at |-> "done"]
                                          ELSE [at |-> "matching", mine |-> row]]
    /\ UNCHANGED <<unlocked, cancel, crashes>>

\* The database refuses a duplicate key; the request fails, nothing is written.
RefuseDuplicate(o) ==
    /\ \/ place[o].at = "creating" /\ KeyTaken(o)
       \/ place[o].at = "settling" /\ PairTraded(o, place[o].maker)
    /\ place' = [place EXCEPT ![o] = [at |-> "done"]]
    /\ UNCHANGED <<balance, order, trades, unlocked, cancel, crashes>>
-------------------------------------------------------------------------------
\* Fault: the amount left to unlock is not checked.
ReadForCancelUnguarded(o) ==
    /\ cancel[o].at = "idle" /\ MayStart
    /\ o \in DOMAIN order
    /\ Matchable(order[o])
    /\ cancel' = [cancel EXCEPT ![o] =
          [at |-> "read", amount |-> RemainingLock(o, order[o]),
           released |-> order[o].released]]
    /\ UNCHANGED <<balance, order, trades, unlocked, place, crashes>>

\* cancelTradeOrder reads the order and computes what is left to unlock.
ReadForCancel(o) ==
    /\ cancel[o].at = "idle" /\ MayStart
    /\ o \in DOMAIN order
    /\ Matchable(order[o])
    /\ RemainingLock(o, order[o]) > 0
    /\ cancel' = [cancel EXCEPT ![o] =
          [at |-> "read", amount |-> RemainingLock(o, order[o]),
           released |-> order[o].released]]
    /\ UNCHANGED <<balance, order, trades, unlocked, place, crashes>>

\* Its transaction looks up the ledger key, then reads the balances to move.
ReadUnlock(o) ==
    /\ cancel[o].at = "read"
    /\ LET next == IF o \in unlocked THEN [a \in {} |-> 0]
                   ELSE NextBalances(UnlockPosting(o, cancel[o].amount), balance)
       IN  cancel' = [cancel EXCEPT ![o] =
              IF Overdraws(next)
              THEN [at |-> "idle"]                  \* 409, rolled back
              ELSE [at |-> "closing", amount |-> @.amount, released |-> @.released,
                    next |-> next, replay |-> o \in unlocked]]
    /\ UNCHANGED <<balance, order, trades, unlocked, place, crashes>>

\* The cancellation commits, unless another one posted the same ledger key.
CommitCancel(o) ==
    /\ cancel[o].at = "closing"
    /\ cancel' = [cancel EXCEPT ![o] = [at |-> "idle"]]
    /\ \/ /\ o \in unlocked /\ ~cancel[o].replay
          /\ UNCHANGED <<balance, order, unlocked>>
       \/ /\ o \notin unlocked \/ cancel[o].replay
          /\ unlocked' = unlocked \cup {o}
          /\ order' = [order EXCEPT ![o].status = "CANCELLED",
                                    ![o].released = cancel[o].released + cancel[o].amount]
          /\ balance' = Overwrite(balance, cancel[o].next)
    /\ UNCHANGED <<trades, place, crashes>>

(* The process dies, or the connection is lost, under one handler.  The    *)
(* transaction it was in rolls back.  A client that repeats the request    *)
(* starts over if no order was created, and otherwise gets the order back  *)
(* unmatched.                                                              *)
Crash(o) ==
    /\ crashes < MaxCrashes /\ crashes' = crashes + 1
    /\ \/ /\ o \in Running
          /\ place' = [place EXCEPT ![o] =
                [at |-> IF o \in DOMAIN order THEN "done" ELSE "new"]]
          /\ UNCHANGED cancel
       \/ /\ o \in Cancelling
          /\ cancel' = [cancel EXCEPT ![o] = [at |-> "idle"]]
          /\ UNCHANGED place
    /\ UNCHANGED <<balance, order, trades, unlocked>>

Handling(o) == \/ InsertOrder(o) \/ FindOpposite(o) \/ ReadSettlement(o)
               \/ CommitTrade(o) \/ RefuseDuplicate(o)

CancellingStep(o) == ReadForCancel(o) \/ ReadUnlock(o) \/ CommitCancel(o)

Next == \E o \in Orders : \/ SubmitOrder(o) \/ Handling(o)
                          \/ CancellingStep(o) \/ Crash(o)

Spec == Init /\ [][Next]_vars

\* Node runs the handler of an order to its end: each step is eventually taken.
Fairness == \A o \in Orders : WF_vars(Handling(o))

FairSpec == Spec /\ Fairness
-------------------------------------------------------------------------------
(* What holds whatever runs at the same time.                              *)

(* "User-owned balances may not go negative" (ledger.service.js:145) also  *)
(* when matches and cancellations of one user overlap.                     *)
UserBalancesNonNegative == \A a \in DOMAIN balance : IsUserOwned(a) => balance[a] >= 0

(* An order row never shows more or less than its quantity, and is FILLED  *)
(* only when nothing remains, although stale rows overwrite newer ones     *)
(* (calculateOrderFillUpdate, matchingEngine.service.js:209).              *)
RowsConsistent ==
    \A o \in DOMAIN order :
        /\ order[o].filled + order[o].remaining = Req[o].qty
        /\ order[o].status = "FILLED" => order[o].remaining = 0
        /\ Matchable(order[o]) => order[o].remaining > 0
        /\ order[o].status = "OPEN" => order[o].filled = 0

(* Every trade is between two users, at the resting order's price, within  *)
(* both limits, and fills a positive quantity that each order asked for.   *)
TradeTerms ==
    \A t \in trades :
        /\ Opposite(t.taker, t.maker) /\ Crosses(t.taker, t.maker)
        /\ t.price = Req[t.maker].price
        /\ t.qty \in 1..Min({Req[t.taker].qty, Req[t.maker].qty})

(* A retried POST with one idempotency key creates one order, even when    *)
(* both requests missed it at their lookup (tradingOrder.service.js:230).  *)
OneOrderPerKey == \A o, m \in DOMAIN order : Req[o].key = Req[m].key => o = m

(* Whatever stale rows are written back, each order is consistent in       *)
(* itself, traded within its terms, and made once                          *)
(* (matchingEngine.service.js:209, tradingOrder.service.js:230).           *)
OrdersSound == RowsConsistent /\ TradeTerms /\ OneOrderPerKey

(* Matching comes to an end: no handler is forever sweeping a book that     *)
(* other handlers and cancellations keep changing (the while loop of       *)
(* processOrderMatches, matchingEngine.service.js:546).                    *)
HandlersEnd == <>[](Running = {})
-------------------------------------------------------------------------------
(* What holds while one handler runs at a time, crashes included.          *)

\* What the open orders of a user still reserve of an asset.
Outstanding(user, asset) ==
    LET open == {o \in DOMAIN order : /\ Req[o].user = user
                                      /\ LockAsset(o) = asset
                                      /\ Matchable(order[o])}
    IN  SumFunction([o \in open |-> RemainingLock(o, order[o])])

\* What a buyer saved by trades below the limit of his order.
Buyer(t) == IF Req[t.taker].side = "BUY" THEN t.taker ELSE t.maker
Saved(user) ==
    SumFunction([t \in {u \in trades : Req[Buyer(u)].user = user} |->
                    (Req[Buyer(t)].price - t.price) * t.qty])

(* LOCKED holds exactly what open orders reserve plus what buyers saved by *)
(* trading below their limit: settlement takes the lock at the trade's     *)
(* price, the order accounts for it at its own.                            *)
LockedAccounted ==
    \A user \in Users, asset \in Assets :
        balance[Locked(user, asset)] =
            Outstanding(user, asset) + (IF asset = "QUOTE" THEN Saved(user) ELSE 0)

(* The filled quantity of an order is what its trades add up to.           *)
FillsMatchTrades ==
    \A o \in DOMAIN order :
        order[o].filled = SumFunction([t \in {u \in trades : o \in {u.taker, u.maker}} |->
                                          t.qty])

(* Trading and cancelling neither create nor destroy an asset.             *)
AssetsConserved ==
    \A asset \in Assets :
        SumFunctionOnSet(balance, {a \in Account : AssetOf(a) = asset}) =
        SumFunction([u \in Users |-> Funds[<<u, asset>>]])

(* One handler at a time keeps the books exactly: what is locked, what is  *)
(* filled and what was traded add up, also where a crash left an order in  *)
(* the middle of its matches (matchingEngine.service.js:373-436).          *)
BooksAddUp == LockedAccounted /\ FillsMatchTrades /\ AssetsConserved

(* A filled or cancelled order never changes again.                        *)
ClosedIsFinal ==
    [][\A o \in DOMAIN order : ~Matchable(order[o]) => order'[o] = order[o]]_vars

\* How much a taker dislikes the price of a resting order.
Cost(taker, maker) ==
    IF Req[taker].side = "BUY" THEN Req[maker].price ELSE -Req[maker].price

(* Price-time priority (README:222): each trade takes the best-priced and, *)
(* among those, the oldest order of another user on the other side.        *)
PriceTimePriority ==
    [][\A t \in trades' \ trades : \A m \in Candidates(t.taker) :
          /\ Cost(t.taker, t.maker) <= Cost(t.taker, m)
          /\ Cost(t.taker, t.maker) = Cost(t.taker, m) =>
                order[t.maker].createdAt <= order[m].createdAt]_vars

(* As long as no handler has been lost to a crash, no two orders of        *)
(* different users that cross are left resting once all requests have been *)
(* answered; a crash leaves the rest of its order unmatched.               *)
NoCrossedBook ==
    Quiet /\ crashes = 0 =>
        \A o, m \in DOMAIN order :
            ~(/\ Matchable(order[o]) /\ Matchable(order[m])
              /\ Opposite(o, m) /\ Crosses(o, m))

\* The books without what handlers carry.
Entries == [o \in DOMAIN order |->
               [open |-> Matchable(order[o]), left |-> order[o].remaining]]
Seniority == {p \in (DOMAIN order) \X (DOMAIN order) :
                 order[p[1]].createdAt < order[p[2]].createdAt}
Purse(type) == [x \in DOMAIN Funds |-> balance[<<x[1], x[2], type>>]]
Promise == INSTANCE Exchange WITH
    book <- Entries, before <- Seniority, free <- Purse("AVAILABLE"), held <- Purse("LOCKED")

(* Seen from outside, handlers that run one at a time are an exchange of    *)
(* indivisible steps, whatever step a crash stops them at: each commit      *)
(* makes one entry, trade or cancellation whole (matchingEngine.service.js: *)
(* 468-540, tradingOrder.service.js:290-437), nothing else moves funds or   *)
(* orders, and an order that a crash left unmatched never takes again.      *)
ImplementsExchange == Promise!Spec
-------------------------------------------------------------------------------
(* What the repository states and the code does not keep:                  *)
(* "LOCKED: funds reserved for withdrawals or open orders" (README:135).   *)
LockedIsReserved ==
    \A user \in Users, asset \in Assets :
        balance[Locked(user, asset)] = Outstanding(user, asset)
===============================================================================
