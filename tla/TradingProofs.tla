----------------------------- MODULE TradingProofs -----------------------------
(***************************************************************************)
(* Proofs about Trading for any users, orders, requests, funds, number of  *)
(* concurrent handlers and number of crashes.                              *)
(***************************************************************************)
EXTENDS Trading, DoubleEntryProofs

(* What a request asks for, and what it locks.                             *)
LEMMA ReqTyped ==
  ASSUME NEW o \in Orders
  PROVE  /\ Req[o].user \in Users
         /\ Req[o].side \in {"BUY", "SELL"}
         /\ Req[o].price \in Nat \ {0} /\ Req[o].qty \in Nat \ {0}
         /\ LockAsset(o) \in Assets
BY ReqAssumption, AssetsAssumption DEF LockAsset

(* What an order locks is a number of an asset that exists.                *)
LEMMA LockOfType ==
  ASSUME NEW o \in Orders, NEW qty \in Nat
  PROVE  LockOf(o, qty) \in Nat
<1>1. Req[o].price * qty \in Nat
  BY ReqTyped
<1> QED BY <1>1 DEF LockOf

(* The accounts of a user, available and locked.                           *)
LEMMA UserAccounts ==
  ASSUME NEW user \in Users, NEW asset \in Assets
  PROVE  Available(user, asset) \in Account /\ Locked(user, asset) \in Account
BY DEF Account, UserAccount, Available, Locked

(* Values a transaction may write: integers that overdraw nobody.          *)
Writable(next) == /\ DOMAIN next \subseteq Account
                  /\ next \in [DOMAIN next -> Int]
                  /\ ~Overdraws(next)

Books == /\ IsBalances(balance) /\ DOMAIN balance = Account
         /\ UserBalancesNonNegative

(* What a posting of this program leads to may be written, if the ledger   *)
(* does not refuse it.                                                     *)
LEMMA NextIsWritable ==
  ASSUME Books, NEW posting, IsPosting(posting), ~Overdraws(NextBalances(posting, balance))
  PROVE  Writable(NextBalances(posting, balance))
<1>1. \A a \in DOMAIN posting : balance[a] \in Int /\ posting[a].amount \in Int
  BY DEF Books, IsBalances, IsPosting
<1> QED BY <1>1 DEF NextBalances, Writable, IsPosting

(* A transaction that writes balances overdrawing nobody keeps the books   *)
(* sound.                                                                  *)
LEMMA WriteKeepsBooks ==
  ASSUME Books, NEW next, Writable(next), balance' = Overwrite(balance, next)
  PROVE  Books'
<1>1. IsBalances(balance') /\ DOMAIN balance' = Account
  BY DEF Books, IsBalances, Overwrite, Writable
<1>2. \A a \in DOMAIN balance' : IsUserOwned(a) => balance'[a] >= 0
  BY <1>1 DEF Books, IsBalances, Overwrite, Writable, Overdraws, UserBalancesNonNegative
<1> QED BY <1>1, <1>2 DEF Books, UserBalancesNonNegative

(* A lock and its release are postings whatever the quantity.              *)
LEMMA LockIsPosting ==
  ASSUME NEW o \in Orders, NEW amount \in Nat
  PROVE  IsPosting(LockPosting(o)) /\ IsPosting(UnlockPosting(o, amount))
<1>1. /\ Available(Req[o].user, LockAsset(o)) \in Account
      /\ Locked(Req[o].user, LockAsset(o)) \in Account
  BY ReqTyped, UserAccounts
<1>2. LockOf(o, Req[o].qty) \in Int /\ amount \in Int
  BY ReqTyped, LockOfType
<1>3. IsPosting(LockPosting(o))
  BY <1>1, <1>2, TransferIsPosting DEF LockPosting
<1>4. IsPosting(UnlockPosting(o, amount))
  BY <1>1, <1>2, TransferIsPosting DEF UnlockPosting
<1> QED BY <1>3, <1>4

(* The settlement of a match is a posting.                                 *)
LEMMA SettlementIsPosting ==
  ASSUME NEW o \in Orders, NEW m \in Orders, NEW qty \in Nat
  PROVE  IsPosting(SettlementPosting(o, m, qty))
<1> DEFINE buyer == IF Req[o].side = "BUY" THEN Req[o].user ELSE Req[m].user
           seller == IF Req[o].side = "BUY" THEN Req[m].user ELSE Req[o].user
           quote == ExecutionPrice(o, m) * qty
           base == Transfer(Locked(seller, "BASE"), Available(buyer, "BASE"), qty)
           paid == Transfer(Locked(buyer, "QUOTE"), Available(seller, "QUOTE"), quote)
<1>1. buyer \in Users /\ seller \in Users /\ "BASE" \in Assets /\ "QUOTE" \in Assets
  BY ReqTyped, AssetsAssumption
<1>2. quote \in Int /\ qty \in Int
  BY ReqTyped DEF ExecutionPrice
<1> HIDE DEF quote, buyer, seller
<1>3. IsPosting(base) /\ IsPosting(paid)
  <2>1. /\ Locked(seller, "BASE") \in Account /\ Available(buyer, "BASE") \in Account
        /\ Locked(buyer, "QUOTE") \in Account /\ Available(seller, "QUOTE") \in Account
    BY <1>1, UserAccounts
  <2> QED BY <1>2, <2>1, TransferIsPosting
<1>4. SettlementPosting(o, m, qty) =
        [a \in DOMAIN base \cup DOMAIN paid |-> IF a \in DOMAIN base THEN base[a] ELSE paid[a]]
  BY DEF SettlementPosting, quote, buyer, seller
<1> HIDE DEF base, paid
<1> QED BY <1>3, <1>4 DEF IsPosting
-------------------------------------------------------------------------------
(* A row of an order that adds up, wherever a handler carries it.          *)
RowSound(o, row) ==
  /\ row \in Row
  /\ row.filled + row.remaining = Req[o].qty
  /\ row.status = "FILLED" => row.remaining = 0
  /\ Matchable(row) => row.remaining > 0
  /\ row.status = "OPEN" => row.filled = 0

RowsSound == /\ DOMAIN order \subseteq Orders /\ IsFiniteSet(DOMAIN order)
             /\ order \in [DOMAIN order -> Row]
             /\ \A o \in DOMAIN order : RowSound(o, order[o])
             /\ OneOrderPerKey

Traded == trades \subseteq Trade /\ TradeTerms

(* What a handler carries from its reads to its writes.                    *)
HandlerSound(o) ==
  /\ place[o].at \in {"new", "creating", "matching", "found", "settling", "done"}
  /\ place[o].at = "creating" => place[o].createdAt \in Nat
  /\ place[o].at \in {"creating", "settling"} => Writable(place[o].next)
  /\ place[o].at \in {"matching", "found", "settling"} =>
        o \in DOMAIN order /\ RowSound(o, place[o].mine) /\ Matchable(place[o].mine)
  /\ place[o].at \in {"found", "settling"} =>
        /\ place[o].maker \in DOMAIN order
        /\ RowSound(place[o].maker, place[o].theirs) /\ Matchable(place[o].theirs)
        /\ Opposite(o, place[o].maker) /\ Crosses(o, place[o].maker)

CancelSound(o) ==
  /\ cancel[o].at \in {"idle", "read", "closing"}
  /\ cancel[o].at # "idle" =>
        o \in DOMAIN order /\ cancel[o].amount \in Nat /\ cancel[o].released \in Nat
  /\ cancel[o].at = "closing" => Writable(cancel[o].next)

Creating == {o \in Orders : place[o].at = "creating"}

Handlers == /\ DOMAIN place = Orders /\ DOMAIN cancel = Orders
            /\ IsFiniteSet(Creating)
            /\ \A o \in Orders : HandlerSound(o) /\ CancelSound(o)
            /\ unlocked \subseteq Orders /\ crashes \in 0..MaxCrashes

(* The inductive invariant: what is written is sound because what is       *)
(* carried is.                                                             *)
TradingInv == Books /\ RowsSound /\ Traded /\ Handlers

(* Whether a row is sound does not depend on what a cancellation unlocked. *)
LEMMA RowReleased ==
  ASSUME NEW o \in Orders, NEW row, RowSound(o, row), NEW n \in Nat
  PROVE  /\ RowSound(o, [row EXCEPT !.released = n])
         /\ [row EXCEPT !.released = n].status = row.status
         /\ [row EXCEPT !.released = n].remaining = row.remaining
<1> DEFINE r == [row EXCEPT !.released = n]
<1>1. row = [status |-> row.status, filled |-> row.filled, remaining |-> row.remaining,
             released |-> row.released, createdAt |-> row.createdAt]
  BY DEF RowSound, Row
<1>2. r = [status |-> row.status, filled |-> row.filled, remaining |-> row.remaining,
           released |-> n, createdAt |-> row.createdAt]
  BY <1>1
<1> HIDE DEF r
<1>3. r \in Row
  BY <1>2 DEF RowSound, Row
<1> QED BY <1>2, <1>3 DEF RowSound, Matchable, r

(* Nor on the cancellation itself.                                         *)
LEMMA RowCancelled ==
  ASSUME NEW o \in Orders, NEW row, RowSound(o, row), NEW n \in Nat
  PROVE  RowSound(o, [row EXCEPT !.status = "CANCELLED", !.released = n])
<1> DEFINE r == [row EXCEPT !.status = "CANCELLED", !.released = n]
<1>1. PICK f \in Nat, rest \in Nat, rel \in Nat, at \in Nat, s \in Status :
         row = [status |-> s, filled |-> f, remaining |-> rest, released |-> rel,
                createdAt |-> at]
  BY DEF RowSound, Row
<1>2. r = [status |-> "CANCELLED", filled |-> f, remaining |-> rest, released |-> n,
           createdAt |-> at]
  <2> DEFINE closed == [row EXCEPT !.status = "CANCELLED"]
  <2>1. closed = [status |-> "CANCELLED", filled |-> f, remaining |-> rest,
                  released |-> rel, createdAt |-> at]
    BY <1>1
  <2>2. r = [closed EXCEPT !.released = n]
    BY <1>1
  <2> HIDE DEF closed, r
  <2> QED BY <2>1, <2>2
<1>3. f + rest = Req[o].qty
  BY <1>1 DEF RowSound
<1> HIDE DEF r
<1>4. RowSound(o, r)
  BY <1>2, <1>3 DEF RowSound, Row, Status, Matchable
<1> QED BY <1>4 DEF r

(* calculateOrderFillUpdate keeps a row sound.                             *)
LEMMA FillKeepsRow ==
  ASSUME NEW o \in Orders, NEW row, RowSound(o, row), Matchable(row),
         NEW qty \in Nat, 0 < qty, qty <= row.remaining
  PROVE  /\ RowSound(o, Filled(row, qty))
         /\ Filled(row, qty).status # "FILLED" => Matchable(Filled(row, qty))
<1>1. PICK f \in Nat, n \in Nat, rel \in Nat, at \in Nat, s \in Status :
         row = [status |-> s, filled |-> f, remaining |-> n, released |-> rel, createdAt |-> at]
  BY DEF RowSound, Row
<1> DEFINE st == IF n - qty <= 0 THEN "FILLED" ELSE "PARTIALLY_FILLED"
           r == [status |-> st, filled |-> f + qty, remaining |-> n - qty,
                 released |-> rel, createdAt |-> at]
<1>2. Filled(row, qty) = r
  <2>1. /\ {"filled", "remaining", "status"} \subseteq DOMAIN row
        /\ row.filled = f /\ row.remaining = n
    BY <1>1
  <2>2. Filled(row, qty) = [row EXCEPT !.filled = f + qty, !.remaining = n - qty, !.status = st]
    BY <2>1 DEF Filled
  <2> HIDE DEF st
  <2> QED BY <1>1, <2>1, <2>2
<1>3. st \in {"FILLED", "PARTIALLY_FILLED"} /\ (st = "FILLED" <=> n - qty <= 0)
  OBVIOUS
<1>4. f + qty \in Nat /\ n - qty \in Nat /\ f + n = Req[o].qty
  BY <1>1 DEF RowSound
<1> HIDE DEF st
<1>5. r \in Row
  BY <1>3, <1>4 DEF Row, Status
<1>6. (f + qty) + (n - qty) = Req[o].qty
  BY <1>4
<1> QED BY <1>2, <1>3, <1>4, <1>5, <1>6 DEF RowSound, Matchable

(* calculateFillQuantity: something, and no more than either row has left. *)
LEMMA FillFits ==
  ASSUME TradingInv, NEW o \in Orders, place[o].at \in {"found", "settling"}
  PROVE  /\ FillQuantity(o) \in Nat /\ 0 < FillQuantity(o)
         /\ FillQuantity(o) <= place[o].mine.remaining
         /\ FillQuantity(o) <= place[o].theirs.remaining
<1>1. /\ place[o].mine.remaining \in Nat /\ 0 < place[o].mine.remaining
      /\ place[o].theirs.remaining \in Nat /\ 0 < place[o].theirs.remaining
  BY DEF TradingInv, Handlers, HandlerSound, RowSound, Row
<1> QED BY <1>1, MinOfTwo DEF FillQuantity

(* The stamp of a new order is a number, later than the others'.           *)
LEMMA NowType ==
  ASSUME TradingInv
  PROVE  Now \in Nat /\ \A m \in DOMAIN order : order[m].createdAt < Now
<1> DEFINE rows == {order[m].createdAt : m \in DOMAIN order}
           news == {place[m].createdAt : m \in {n \in Orders : place[n].at = "creating"}}
<1>1. IsFiniteSet(rows) /\ IsFiniteSet(news)
  <2> DEFINE stamp == [m \in DOMAIN order |-> order[m].createdAt]
             start == [m \in Creating |-> place[m].createdAt]
  <2>1. IsFiniteSet({stamp[m] : m \in DOMAIN order})
    BY ImageIsFinite DEF TradingInv, RowsSound
  <2>2. IsFiniteSet({start[m] : m \in Creating})
    BY ImageIsFinite DEF TradingInv, Handlers
  <2>3. rows = {stamp[m] : m \in DOMAIN order} /\ news = {start[m] : m \in Creating}
    BY DEF Creating
  <2> QED BY <2>1, <2>2, <2>3
<1>2. rows \subseteq Nat
  BY DEF TradingInv, RowsSound, RowSound, Row
<1>3. news \subseteq Nat
  BY DEF TradingInv, Handlers, HandlerSound
<1>4. IsFiniteSet(rows \cup news)
  BY <1>1, FS_Union
<1>5. \A m \in DOMAIN order : order[m].createdAt \in rows
  OBVIOUS
<1> HIDE DEF rows, news
<1>6. rows \cup news # {} => /\ Max(rows \cup news) \in Nat
                             /\ \A x \in rows : x \in Nat /\ x <= Max(rows \cup news)
  <2>1. rows \cup news \subseteq Nat /\ rows \subseteq rows \cup news
    BY <1>2, <1>3
  <2> DEFINE stamps == rows \cup news
  <2> HIDE DEF stamps
  <2>2. stamps # {} => Max(stamps) \in stamps /\ \A x \in stamps : x <= Max(stamps)
    BY <1>4, <2>1, MaxOfFinite DEF stamps
  <2> QED BY <2>1, <2>2 DEF stamps
<1>7. Now = IF rows \cup news = {} THEN 1 ELSE Max(rows \cup news) + 1
  BY DEF Now, rows, news
<1>8. Now \in Nat
  BY <1>6, <1>7
<1>9. ASSUME NEW m \in DOMAIN order PROVE order[m].createdAt < Now
  <2>1. order[m].createdAt \in rows
    BY <1>5
  <2> QED BY <1>6, <1>7, <2>1
<1> QED BY <1>8, <1>9

(* A handler that moves on, when the others keep what they carry.          *)
LEMMA HandlerMoves ==
  ASSUME Handlers, NEW o \in Orders, NEW h, place' = [place EXCEPT ![o] = h],
         UNCHANGED <<cancel, unlocked>>, crashes' \in 0..MaxCrashes,
         DOMAIN order \subseteq DOMAIN order', HandlerSound(o)'
  PROVE  Handlers'
<1>1. DOMAIN place' = Orders
  BY DEF Handlers
<1>2. ASSUME NEW m \in Orders \ {o} PROVE HandlerSound(m)'
  <2>1. place'[m] = place[m] /\ HandlerSound(m)
    BY DEF Handlers
  <2> QED BY <2>1 DEF HandlerSound
<1>3. \A m \in Orders : CancelSound(m)'
  BY DEF Handlers, CancelSound
<1>4. IsFiniteSet(Creating')
  <2>1. Creating' \subseteq Creating \cup {o}
    BY DEF Handlers, Creating
  <2>2. IsFiniteSet(Creating \cup {o})
    BY FS_AddElement DEF Handlers
  <2> QED BY <2>1, <2>2, FS_Subset
<1> QED BY <1>1, <1>2, <1>3, <1>4 DEF Handlers

(* A cancellation that moves on leaves every other handler as it is.       *)
LEMMA CancelMoves ==
  ASSUME Handlers, NEW o \in Orders, NEW h, cancel' = [cancel EXCEPT ![o] = h],
         UNCHANGED place, unlocked' \subseteq Orders, crashes' \in 0..MaxCrashes,
         DOMAIN order \subseteq DOMAIN order', CancelSound(o)'
  PROVE  Handlers'
<1>1. DOMAIN cancel' = Orders
  BY DEF Handlers
<1>2. ASSUME NEW m \in Orders \ {o} PROVE CancelSound(m)'
  <2>1. cancel'[m] = cancel[m] /\ CancelSound(m)
    BY DEF Handlers
  <2> QED BY <2>1 DEF CancelSound
<1>3. \A m \in Orders : HandlerSound(m)'
  BY DEF Handlers, HandlerSound
<1>4. IsFiniteSet(Creating')
  BY DEF Handlers, Creating
<1> QED BY <1>1, <1>2, <1>3, <1>4 DEF Handlers
-------------------------------------------------------------------------------

(* A request that arrives carries nothing yet.                             *)
LEMMA SubmitSound ==
  ASSUME TradingInv, NEW o \in Orders, SubmitOrder(o)
  PROVE  TradingInv'
<1>1. UNCHANGED <<balance, order, trades, unlocked, cancel, crashes>>
  BY DEF SubmitOrder
<1>2. Books' /\ RowsSound' /\ Traded'
  BY <1>1
  DEF TradingInv, Books, UserBalancesNonNegative, RowsSound, OneOrderPerKey, Traded, TradeTerms
<1>3. Handlers /\ DOMAIN place = Orders /\ crashes \in 0..MaxCrashes
  BY DEF TradingInv, Handlers
<1>4. CASE place' = [place EXCEPT ![o] = [at |-> "done"]]
  <2>1. HandlerSound(o)'
    BY <1>3, <1>4 DEF HandlerSound
  <2>2. Handlers'
    BY <1>1, <1>3, <1>4, <2>1, HandlerMoves
  <2> QED BY <1>2, <2>2 DEF TradingInv
<1>5. CASE place' # [place EXCEPT ![o] = [at |-> "done"]]
  <2> DEFINE next == NextBalances(LockPosting(o), balance)
             h == [at |-> "creating", next |-> next, createdAt |-> Now]
  <2>1. ~Overdraws(next) /\ place' = [place EXCEPT ![o] = h]
    BY <1>5 DEF SubmitOrder
  <2>2. Writable(next)
    BY <2>1, LockIsPosting, NextIsWritable DEF TradingInv
  <2>3. HandlerSound(o)'
    <3>1. place'[o] = h
      BY <1>3, <2>1
    <3> HIDE DEF next
    <3>2. place'[o].at = "creating" /\ place'[o].next = next /\ place'[o].createdAt \in Nat
      BY <3>1, NowType
    <3> QED BY <2>2, <3>2 DEF HandlerSound
  <2> HIDE DEF h
  <2>4. Handlers'
    BY <1>1, <1>3, <2>1, <2>3, HandlerMoves
  <2> QED BY <1>2, <2>4 DEF TradingInv
<1> QED BY <1>4, <1>5

(* The transaction that creates an order and its lock keeps rows and books *)
(* sound.                                                                  *)
LEMMA InsertSound ==
  ASSUME TradingInv, NEW o \in Orders, InsertOrder(o)
  PROVE  TradingInv'
<1> DEFINE row == [status |-> "OPEN", filled |-> 0, remaining |-> Req[o].qty,
                   released |-> 0, createdAt |-> place[o].createdAt]
           h == [at |-> "matching", mine |-> row]
<1>1. /\ place[o].at = "creating" /\ ~KeyTaken(o)
      /\ order' = [m \in DOMAIN order \cup {o} |-> IF m = o THEN row ELSE order[m]]
      /\ place' = [place EXCEPT ![o] = h]
      /\ balance' = Overwrite(balance, place[o].next)
      /\ UNCHANGED <<trades, unlocked, cancel, crashes>>
  BY DEF InsertOrder
<1>2. /\ Handlers /\ DOMAIN place = Orders /\ crashes \in 0..MaxCrashes
      /\ place[o].createdAt \in Nat /\ Writable(place[o].next)
  BY <1>1 DEF TradingInv, Handlers, HandlerSound
<1>3. RowSound(o, row) /\ Matchable(row)
  BY <1>2, ReqTyped DEF RowSound, Row, Status, Matchable
<1> HIDE DEF row
<1>4. Books'
  BY <1>1, <1>2, WriteKeepsBooks DEF TradingInv
<1>5. RowsSound'
  <2>1. DOMAIN order' = DOMAIN order \cup {o} /\ IsFiniteSet(DOMAIN order')
    BY <1>1, FS_AddElement DEF TradingInv, RowsSound
  <2>2. \A m \in DOMAIN order' : RowSound(m, order'[m])
    BY <1>1, <1>3 DEF TradingInv, RowsSound
  <2>3. OneOrderPerKey'
    BY <1>1, <2>1 DEF TradingInv, RowsSound, OneOrderPerKey, KeyTaken
  <2>4. order' \in [DOMAIN order' -> Row]
    BY <1>1, <2>1, <2>2 DEF RowSound
  <2> QED BY <2>1, <2>2, <2>3, <2>4 DEF TradingInv, RowsSound
<1>6. Traded'
  BY <1>1 DEF TradingInv, Traded, TradeTerms
<1>7. HandlerSound(o)'
  <2>1. place'[o] = h /\ o \in DOMAIN order'
    BY <1>1, <1>2
  <2> QED BY <1>3, <2>1 DEF HandlerSound
<1> HIDE DEF h
<1>8. Handlers'
  BY <1>1, <1>2, <1>7, HandlerMoves
<1> QED BY <1>4, <1>5, <1>6, <1>8 DEF TradingInv

(* The scan for an opposite order carries a sound copy of the taker.       *)
LEMMA FindSound ==
  ASSUME TradingInv, NEW o \in Orders, FindOpposite(o)
  PROVE  TradingInv'
<1>1. place[o].at = "matching" /\ UNCHANGED <<balance, order, trades, unlocked, cancel, crashes>>
  BY DEF FindOpposite
<1>2. Books' /\ RowsSound' /\ Traded'
  BY <1>1
  DEF TradingInv, Books, UserBalancesNonNegative, RowsSound, OneOrderPerKey, Traded, TradeTerms
<1>3. Handlers /\ DOMAIN place = Orders /\ crashes \in 0..MaxCrashes /\ HandlerSound(o)
  BY DEF TradingInv, Handlers
<1>4. CASE place' = [place EXCEPT ![o] = [at |-> "done"]]
  <2>1. HandlerSound(o)'
    BY <1>3, <1>4 DEF HandlerSound
  <2>2. Handlers'
    BY <1>1, <1>3, <1>4, <2>1, HandlerMoves
  <2> QED BY <1>2, <2>2 DEF TradingInv
<1>5. CASE place' # [place EXCEPT ![o] = [at |-> "done"]]
  <2>1. PICK m \in Candidates(o) :
           place' = [place EXCEPT ![o] = [at |-> "found", mine |-> place[o].mine,
                                          maker |-> m, theirs |-> order[m]]]
    BY <1>5 DEF FindOpposite
  <2> DEFINE h == [at |-> "found", mine |-> place[o].mine, maker |-> m, theirs |-> order[m]]
  <2>2. /\ m \in DOMAIN order /\ RowSound(m, order[m]) /\ Matchable(order[m])
        /\ Opposite(o, m) /\ Crosses(o, m)
    BY DEF Candidates, TradingInv, RowsSound
  <2>3. HandlerSound(o)'
    <3>1. place'[o] = h /\ order' = order
      BY <1>1, <1>3, <2>1
    <3> QED BY <1>1, <1>3, <2>2, <3>1 DEF HandlerSound
  <2>4. Handlers'
    BY <1>1, <1>3, <2>1, <2>3, HandlerMoves
  <2> QED BY <1>2, <2>4 DEF TradingInv
<1> QED BY <1>4, <1>5

(* What a match reads before it writes is sound.                           *)
LEMMA ReadSound ==
  ASSUME TradingInv, NEW o \in Orders, ReadSettlement(o)
  PROVE  TradingInv'
<1> DEFINE next == NextBalances(SettlementPosting(o, place[o].maker, FillQuantity(o)), balance)
           h == [at |-> "settling", mine |-> place[o].mine, maker |-> place[o].maker,
                 theirs |-> place[o].theirs, next |-> next]
<1>1. place[o].at = "found" /\ UNCHANGED <<balance, order, trades, unlocked, cancel, crashes>>
  BY DEF ReadSettlement
<1>2. Books' /\ RowsSound' /\ Traded'
  BY <1>1
  DEF TradingInv, Books, UserBalancesNonNegative, RowsSound, OneOrderPerKey, Traded, TradeTerms
<1>3. /\ Handlers /\ DOMAIN place = Orders /\ crashes \in 0..MaxCrashes /\ HandlerSound(o)
      /\ place[o].maker \in Orders
  BY <1>1 DEF TradingInv, Handlers, HandlerSound, RowsSound
<1>4. place' = [place EXCEPT ![o] = IF Overdraws(next) THEN [at |-> "done"] ELSE h]
  BY <1>3 DEF ReadSettlement
<1>5. ~Overdraws(next) => Writable(next)
  <2>1. IsPosting(SettlementPosting(o, place[o].maker, FillQuantity(o)))
    BY <1>1, <1>3, FillFits, SettlementIsPosting
  <2> QED BY <2>1, NextIsWritable DEF TradingInv
<1> HIDE DEF next
<1>6. CASE Overdraws(next)
  <2>1. place' = [place EXCEPT ![o] = [at |-> "done"]]
    BY <1>4, <1>6
  <2>2. HandlerSound(o)'
    BY <1>3, <2>1 DEF HandlerSound
  <2>3. Handlers'
    BY <1>1, <1>3, <2>1, <2>2, HandlerMoves
  <2> QED BY <1>2, <2>3 DEF TradingInv
<1>7. CASE ~Overdraws(next)
  <2>1. place' = [place EXCEPT ![o] = h] /\ place'[o] = h
    BY <1>3, <1>4, <1>7
  <2>2. HandlerSound(o)'
    BY <1>1, <1>3, <1>5, <1>7, <2>1 DEF HandlerSound
  <2> HIDE DEF h
  <2>3. Handlers'
    BY <1>1, <1>3, <2>1, <2>2, HandlerMoves
  <2> QED BY <1>2, <2>3 DEF TradingInv
<1> QED BY <1>6, <1>7

(* The rows a match writes.                                                *)
LEMMA MatchWrites ==
  ASSUME TradingInv, NEW o \in Orders, CommitTrade(o)
  PROVE  LET m == place[o].maker
             mine == [Filled(place[o].mine, FillQuantity(o)) EXCEPT !.released = order[o].released]
             theirs == [Filled(place[o].theirs, FillQuantity(o)) EXCEPT !.released = order[m].released]
         IN  /\ o \in DOMAIN order /\ m \in DOMAIN order /\ m # o
             /\ order' = [order EXCEPT ![o] = mine, ![m] = theirs]
             /\ order'[o] = mine /\ order'[m] = theirs
             /\ \A n \in DOMAIN order \ {o, m} : order'[n] = order[n]
             /\ RowSound(o, mine) /\ RowSound(m, theirs)
             /\ mine.status # "FILLED" => Matchable(mine)
<1> DEFINE m == place[o].maker
           qty == FillQuantity(o)
           mine == [Filled(place[o].mine, qty) EXCEPT !.released = order[o].released]
           theirs == [Filled(place[o].theirs, qty) EXCEPT !.released = order[m].released]
<1>1. place[o].at = "settling" /\ order' = [order EXCEPT ![o] = mine, ![m] = theirs]
  BY DEF CommitTrade
<1>2. /\ o \in DOMAIN order /\ m \in DOMAIN order /\ m \in Orders
      /\ RowSound(o, place[o].mine) /\ Matchable(place[o].mine)
      /\ RowSound(m, place[o].theirs) /\ Matchable(place[o].theirs)
      /\ Opposite(o, m)
  BY <1>1 DEF TradingInv, Handlers, HandlerSound, RowsSound
<1>3. m # o
  BY <1>2 DEF Opposite
<1>4. /\ qty \in Nat /\ 0 < qty
      /\ qty <= place[o].mine.remaining /\ qty <= place[o].theirs.remaining
  BY <1>1, FillFits
<1>5. order[o].released \in Nat /\ order[m].released \in Nat
  BY <1>2 DEF TradingInv, RowsSound, RowSound, Row
<1> HIDE DEF qty
<1>6. /\ RowSound(o, Filled(place[o].mine, qty))
      /\ Filled(place[o].mine, qty).status # "FILLED" => Matchable(Filled(place[o].mine, qty))
      /\ RowSound(m, Filled(place[o].theirs, qty))
  BY <1>2, <1>4, FillKeepsRow
<1>7. RowSound(o, mine) /\ (mine.status # "FILLED" => Matchable(mine))
  BY <1>5, <1>6, RowReleased DEF Matchable
<1>8. RowSound(m, theirs)
  BY <1>2, <1>5, <1>6, RowReleased
<1> HIDE DEF mine, theirs
<1>9. /\ order'[o] = mine /\ order'[m] = theirs
      /\ \A n \in DOMAIN order \ {o, m} : order'[n] = order[n]
  BY <1>1, <1>2, <1>3
<1> QED BY <1>1, <1>2, <1>3, <1>7, <1>8, <1>9 DEF mine, theirs, qty

(* The transaction of a match writes sound rows, a sound trade and books   *)
(* nobody overdraws.                                                       *)
LEMMA MatchSound ==
  ASSUME TradingInv, NEW o \in Orders, CommitTrade(o)
  PROVE  TradingInv'
<1> DEFINE m == place[o].maker
           qty == FillQuantity(o)
           mine == [Filled(place[o].mine, qty) EXCEPT !.released = order[o].released]
           theirs == [Filled(place[o].theirs, qty) EXCEPT !.released = order[m].released]
           t == [taker |-> o, maker |-> m, qty |-> qty, price |-> ExecutionPrice(o, m)]
           h == [at |-> "matching", mine |-> mine]
<1>1. /\ place[o].at = "settling"
      /\ trades' = trades \cup {t}
      /\ balance' = Overwrite(balance, place[o].next)
      /\ place' = [place EXCEPT ![o] = IF mine.status = "FILLED" THEN [at |-> "done"] ELSE h]
      /\ UNCHANGED <<unlocked, cancel, crashes>>
  BY DEF CommitTrade
<1>2. /\ Handlers /\ DOMAIN place = Orders /\ crashes \in 0..MaxCrashes
      /\ Writable(place[o].next)
      /\ RowSound(o, place[o].mine) /\ RowSound(m, place[o].theirs)
      /\ Opposite(o, m) /\ Crosses(o, m)
  BY <1>1 DEF TradingInv, Handlers, HandlerSound
<1>3. /\ o \in DOMAIN order /\ m \in DOMAIN order /\ m \in Orders
      /\ order' = [order EXCEPT ![o] = mine, ![m] = theirs]
      /\ order'[o] = mine /\ order'[m] = theirs
      /\ \A n \in DOMAIN order \ {o, m} : order'[n] = order[n]
      /\ RowSound(o, mine) /\ RowSound(m, theirs)
      /\ mine.status # "FILLED" => Matchable(mine)
  BY MatchWrites DEF TradingInv, RowsSound
<1>4. /\ qty \in Nat /\ 0 < qty
      /\ qty <= place[o].mine.remaining /\ qty <= place[o].theirs.remaining
  BY <1>1, FillFits
<1> HIDE DEF qty, mine, theirs
<1>5. Books'
  BY <1>1, <1>2, WriteKeepsBooks DEF TradingInv
<1>6. RowsSound'
  <2>1. DOMAIN order' = DOMAIN order
    BY <1>3
  <2>2. \A n \in DOMAIN order' : RowSound(n, order'[n])
    BY <1>3, <2>1 DEF TradingInv, RowsSound
  <2>3. order' \in [DOMAIN order' -> Row]
    BY <1>3, <2>2 DEF RowSound
  <2>4. OneOrderPerKey'
    BY <2>1 DEF TradingInv, RowsSound, OneOrderPerKey
  <2> QED BY <2>1, <2>2, <2>3, <2>4 DEF TradingInv, RowsSound
<1>7. Traded'
  <2>1. t \in Trade
    BY <1>3, <1>4, ReqTyped DEF Trade, ExecutionPrice
  <2>2. qty \in 1..Min({Req[o].qty, Req[m].qty})
    <3>1. place[o].mine.remaining <= Req[o].qty /\ place[o].theirs.remaining <= Req[m].qty
      BY <1>2, <1>3, ReqTyped DEF RowSound, Row
    <3>2. place[o].mine.remaining \in Nat /\ place[o].theirs.remaining \in Nat
      BY <1>2 DEF RowSound, Row
    <3>3. Req[o].qty \in Int /\ Req[m].qty \in Int
      BY <1>3, ReqTyped
    <3>4. Min({Req[o].qty, Req[m].qty}) \in {Req[o].qty, Req[m].qty}
      BY <3>3, MinOfTwo
    <3> QED BY <1>4, <3>1, <3>2, <3>3, <3>4
  <2>3. \A u \in trades' : u \in trades \/ u = t
    BY <1>1
  <2>4. /\ Opposite(t.taker, t.maker) /\ Crosses(t.taker, t.maker)
        /\ t.price = Req[t.maker].price
        /\ t.qty \in 1..Min({Req[t.taker].qty, Req[t.maker].qty})
    BY <1>2, <2>2 DEF ExecutionPrice
  <2> HIDE DEF t
  <2>5. trades' \subseteq Trade
    BY <2>1, <2>3 DEF TradingInv, Traded
  <2> QED BY <2>3, <2>4, <2>5 DEF TradingInv, Traded, TradeTerms
<1>8. HandlerSound(o)'
  <2>1. place'[o] = IF mine.status = "FILLED" THEN [at |-> "done"] ELSE h
    BY <1>1, <1>2
  <2>2. o \in DOMAIN order'
    BY <1>3
  <2>3. CASE mine.status = "FILLED"
    BY <2>1, <2>3 DEF HandlerSound
  <2>4. CASE mine.status # "FILLED"
    BY <1>3, <2>1, <2>2, <2>4 DEF HandlerSound
  <2> QED BY <2>3, <2>4
<1>9. Handlers'
  <2>1. DOMAIN order \subseteq DOMAIN order'
    BY <1>3
  <2> HIDE DEF h
  <2> QED BY <1>1, <1>2, <1>8, <2>1, HandlerMoves
<1> QED BY <1>5, <1>6, <1>7, <1>9 DEF TradingInv

(* What the database refuses as a duplicate is not written.                *)
LEMMA RefusalSound ==
  ASSUME TradingInv, NEW o \in Orders, RefuseDuplicate(o)
  PROVE  TradingInv'
<1>1. /\ place' = [place EXCEPT ![o] = [at |-> "done"]]
      /\ UNCHANGED <<balance, order, trades, unlocked, cancel, crashes>>
  BY DEF RefuseDuplicate
<1>2. Books' /\ RowsSound' /\ Traded'
  BY <1>1
  DEF TradingInv, Books, UserBalancesNonNegative, RowsSound, OneOrderPerKey, Traded, TradeTerms
<1>3. Handlers /\ DOMAIN place = Orders /\ crashes \in 0..MaxCrashes
  BY DEF TradingInv, Handlers
<1>4. HandlerSound(o)'
  BY <1>1, <1>3 DEF HandlerSound
<1>5. Handlers'
  BY <1>1, <1>3, <1>4, HandlerMoves
<1> QED BY <1>2, <1>5 DEF TradingInv

(* A cancellation carries a sound copy of its order.                       *)
LEMMA ReadForCancelSound ==
  ASSUME TradingInv, NEW o \in Orders, ReadForCancel(o)
  PROVE  TradingInv'
<1> DEFINE amount == RemainingLock(o, order[o])
           h == [at |-> "read", amount |-> amount, released |-> order[o].released]
<1>1. /\ o \in DOMAIN order /\ amount > 0
      /\ cancel' = [cancel EXCEPT ![o] = h]
      /\ UNCHANGED <<balance, order, trades, unlocked, place, crashes>>
  BY DEF ReadForCancel
<1>2. Books' /\ RowsSound' /\ Traded'
  BY <1>1
  DEF TradingInv, Books, UserBalancesNonNegative, RowsSound, OneOrderPerKey, Traded, TradeTerms
<1>3. /\ Handlers /\ DOMAIN cancel = Orders /\ crashes \in 0..MaxCrashes
      /\ unlocked \subseteq Orders
  BY DEF TradingInv, Handlers
<1>4. order[o].filled \in Nat /\ order[o].released \in Nat
  BY <1>1 DEF TradingInv, RowsSound, RowSound, Row
<1>5. amount \in Nat
  <2>1. LockOf(o, Req[o].qty) \in Int /\ LockOf(o, order[o].filled) \in Int
    BY <1>4, ReqTyped, LockOfType
  <2> QED BY <1>1, <1>4, <2>1 DEF RemainingLock
<1> HIDE DEF amount
<1>6. CancelSound(o)'
  <2>1. cancel'[o] = h /\ order' = order
    BY <1>1, <1>3
  <2> QED BY <1>1, <1>4, <1>5, <2>1 DEF CancelSound
<1> HIDE DEF h
<1>7. Handlers'
  BY <1>1, <1>3, <1>6, CancelMoves
<1> QED BY <1>2, <1>7 DEF TradingInv

(* A cancellation unlocks what its copy of the order has left.             *)
LEMMA ReadUnlockSound ==
  ASSUME TradingInv, NEW o \in Orders, ReadUnlock(o)
  PROVE  TradingInv'
<1> DEFINE posting == UnlockPosting(o, cancel[o].amount)
           next == IF o \in unlocked THEN [a \in {} |-> 0] ELSE NextBalances(posting, balance)
           h == [at |-> "closing", amount |-> cancel[o].amount, released |-> cancel[o].released,
                 next |-> next, replay |-> o \in unlocked]
<1>1. cancel[o].at = "read" /\ UNCHANGED <<balance, order, trades, unlocked, place, crashes>>
  BY DEF ReadUnlock
<1>2. Books' /\ RowsSound' /\ Traded'
  BY <1>1
  DEF TradingInv, Books, UserBalancesNonNegative, RowsSound, OneOrderPerKey, Traded, TradeTerms
<1>3. /\ Handlers /\ DOMAIN cancel = Orders /\ crashes \in 0..MaxCrashes
      /\ unlocked \subseteq Orders /\ CancelSound(o)
  BY DEF TradingInv, Handlers
<1>4. cancel' = [cancel EXCEPT ![o] = IF Overdraws(next) THEN [at |-> "idle"] ELSE h]
  BY <1>3 DEF ReadUnlock
<1>5. ~Overdraws(next) => Writable(next)
  <2>1. CASE o \in unlocked
    BY <2>1 DEF Writable
  <2>2. CASE o \notin unlocked
    <3>1. IsPosting(posting)
      BY <1>1, <1>3, LockIsPosting DEF CancelSound
    <3> QED BY <2>2, <3>1, NextIsWritable DEF TradingInv
  <2> QED BY <2>1, <2>2
<1> HIDE DEF next
<1>6. CancelSound(o)'
  <2>1. CASE Overdraws(next)
    <3>1. cancel'[o] = [at |-> "idle"]
      BY <1>3, <1>4, <2>1
    <3> QED BY <3>1 DEF CancelSound
  <2>2. CASE ~Overdraws(next)
    <3>1. cancel'[o] = h /\ order' = order
      BY <1>1, <1>3, <1>4, <2>2
    <3> QED BY <1>1, <1>3, <1>5, <2>2, <3>1 DEF CancelSound
  <2> QED BY <2>1, <2>2
<1>7. Handlers'
  BY <1>1, <1>3, <1>4, <1>6, CancelMoves
<1> QED BY <1>2, <1>7 DEF TradingInv

(* The transaction of a cancellation keeps rows and books sound.           *)
LEMMA CommitCancelSound ==
  ASSUME TradingInv, NEW o \in Orders, CommitCancel(o)
  PROVE  TradingInv'
<1>1. /\ cancel[o].at = "closing" /\ cancel' = [cancel EXCEPT ![o] = [at |-> "idle"]]
      /\ UNCHANGED <<trades, place, crashes>>
  BY DEF CommitCancel
<1>2. /\ Handlers /\ DOMAIN cancel = Orders /\ crashes \in 0..MaxCrashes
      /\ unlocked \subseteq Orders
      /\ o \in DOMAIN order /\ cancel[o].amount \in Nat /\ cancel[o].released \in Nat
      /\ Writable(cancel[o].next) /\ RowSound(o, order[o])
  BY <1>1 DEF TradingInv, Handlers, CancelSound, RowsSound
<1>3. Traded'
  BY <1>1 DEF TradingInv, Traded, TradeTerms
<1>4. CancelSound(o)'
  BY <1>1, <1>2 DEF CancelSound
<1>5. CASE UNCHANGED <<balance, order, unlocked>>
  <2>1. Books' /\ RowsSound'
    BY <1>5 DEF TradingInv, Books, UserBalancesNonNegative, RowsSound, OneOrderPerKey
  <2>2. Handlers'
    BY <1>1, <1>2, <1>4, <1>5, CancelMoves
  <2> QED BY <1>3, <2>1, <2>2 DEF TradingInv
<1>6. CASE ~UNCHANGED <<balance, order, unlocked>>
  <2> DEFINE n == cancel[o].released + cancel[o].amount
             row == [order[o] EXCEPT !.status = "CANCELLED", !.released = n]
  <2>1. /\ unlocked' = unlocked \cup {o}
        /\ order' = [order EXCEPT ![o].status = "CANCELLED", ![o].released = n]
        /\ balance' = Overwrite(balance, cancel[o].next)
    BY <1>6 DEF CommitCancel
  <2>2. Books'
    BY <1>2, <2>1, WriteKeepsBooks DEF TradingInv
  <2>3. RowSound(o, row)
    <3>1. n \in Nat
      BY <1>2
    <3> HIDE DEF n
    <3> QED BY <1>2, <3>1, RowCancelled
  <2>4. /\ DOMAIN order' = DOMAIN order
        /\ \A m \in DOMAIN order : order'[m] = IF m = o THEN row ELSE order[m]
    BY <1>2, <2>1
  <2> HIDE DEF row
  <2>5. RowsSound'
    <3>1. \A m \in DOMAIN order' : RowSound(m, order'[m])
      BY <2>3, <2>4 DEF TradingInv, RowsSound
    <3>2. order' \in [DOMAIN order' -> Row]
      BY <2>1, <3>1 DEF RowSound
    <3>3. OneOrderPerKey'
      BY <2>4 DEF TradingInv, RowsSound, OneOrderPerKey
    <3> QED BY <2>4, <3>1, <3>2, <3>3 DEF TradingInv, RowsSound
  <2>6. Handlers'
    <3>1. unlocked' \subseteq Orders /\ DOMAIN order \subseteq DOMAIN order'
      BY <1>2, <2>1, <2>4
    <3> QED BY <1>1, <1>2, <1>4, <3>1, CancelMoves
  <2> QED BY <1>3, <2>2, <2>5, <2>6 DEF TradingInv
<1> QED BY <1>5, <1>6

(* A handler that dies leaves what it wrote.                               *)
LEMMA CrashSound ==
  ASSUME TradingInv, NEW o \in Orders, Crash(o)
  PROVE  TradingInv'
<1>1. UNCHANGED <<balance, order, trades, unlocked>> /\ crashes' = crashes + 1
  BY DEF Crash
<1>2. Books' /\ RowsSound' /\ Traded'
  BY <1>1
  DEF TradingInv, Books, UserBalancesNonNegative, RowsSound, OneOrderPerKey, Traded, TradeTerms
<1>3. /\ Handlers /\ DOMAIN place = Orders /\ DOMAIN cancel = Orders
      /\ crashes' \in 0..MaxCrashes /\ unlocked' \subseteq Orders
  BY <1>1, BoundsAssumption DEF TradingInv, Handlers, Crash
<1>4. CASE o \in Running /\ UNCHANGED cancel
           /\ place' = [place EXCEPT ![o] = [at |-> IF o \in DOMAIN order THEN "done" ELSE "new"]]
  <2>1. HandlerSound(o)'
    BY <1>3, <1>4 DEF HandlerSound
  <2>2. Handlers'
    BY <1>1, <1>3, <1>4, <2>1, HandlerMoves
  <2> QED BY <1>2, <2>2 DEF TradingInv
<1>5. CASE cancel' = [cancel EXCEPT ![o] = [at |-> "idle"]] /\ UNCHANGED place
  <2>1. CancelSound(o)'
    BY <1>3, <1>5 DEF CancelSound
  <2>2. Handlers'
    BY <1>1, <1>3, <1>5, <2>1, CancelMoves
  <2> QED BY <1>2, <2>2 DEF TradingInv
<1> QED BY <1>4, <1>5 DEF Crash
-------------------------------------------------------------------------------

(* What is written and what is carried is sound in every reachable state,  *)
(* however many handlers overlap.                                          *)
THEOREM TradingInvariant == Spec => []TradingInv
<1>1. Init => TradingInv
  <2> SUFFICES ASSUME Init PROVE TradingInv
    OBVIOUS
  <2>1. Books
    <3>1. \A a \in Account : IsUserOwned(a) => <<a[1], a[2]>> \in Users \X Assets
      BY OwnersAssumption DEF Account, UserAccount, SystemAccount, IsUserOwned
    <3>2. ASSUME NEW a \in Account PROVE balance[a] \in Nat
      <4>1. balance[a] = IF IsUserOwned(a) /\ a[3] = "AVAILABLE"
                         THEN Funds[<<a[1], a[2]>>] ELSE 0
        BY DEF Init
      <4>2. IsUserOwned(a) => Funds[<<a[1], a[2]>>] \in Nat
        BY <3>1, FundsAssumption
      <4> QED BY <4>1, <4>2
    <3>3. DOMAIN balance = Account /\ balance = [a \in Account |-> balance[a]]
      BY DEF Init
    <3> QED BY <3>2, <3>3 DEF Books, IsBalances, UserBalancesNonNegative
  <2>2. RowsSound
    BY FS_EmptySet DEF Init, RowsSound, OneOrderPerKey
  <2>3. Traded
    BY DEF Init, Traded, TradeTerms
  <2>4. Handlers
    <3>1. Creating = {}
      BY DEF Init, Creating
    <3> QED BY <3>1, FS_EmptySet, BoundsAssumption DEF Init, Handlers, HandlerSound, CancelSound
  <2> QED BY <2>1, <2>2, <2>3, <2>4 DEF TradingInv
<1>2. TradingInv /\ [Next]_vars => TradingInv'
  <2>1. CASE UNCHANGED vars
    BY <2>1
    DEF vars, TradingInv, Books, UserBalancesNonNegative, RowsSound, OneOrderPerKey, Traded,
        TradeTerms, Handlers, HandlerSound, CancelSound, Creating
  <2> QED
    BY <2>1, SubmitSound, InsertSound, FindSound, ReadSound, MatchSound, RefusalSound,
       ReadForCancelSound, ReadUnlockSound, CommitCancelSound, CrashSound
    DEF Next, Handling, CancellingStep
<1> QED BY <1>1, <1>2, PTL DEF Spec

(* Balance rows, order rows, trades and what the handlers carry keep their *)
(* types in every reachable state.                                         *)
THEOREM TradingTypeCorrect == Spec => []TypeOK
<1>1. TradingInv => TypeOK
  BY DEF TradingInv, TypeOK, Books, RowsSound, RowSound, Traded, Handlers, HandlerSound, CancelSound
<1> QED BY <1>1, TradingInvariant, PTL

(* "User-owned balances may not go negative" (ledger.service.js:145),      *)
(* however many orders, matches and cancellations overlap.                 *)
THEOREM TradingBalancesNonNegative == Spec => []UserBalancesNonNegative
<1>1. TradingInv => UserBalancesNonNegative
  BY DEF TradingInv, Books
<1> QED BY <1>1, TradingInvariant, PTL

(* Whatever stale rows are written back, each order is consistent in       *)
(* itself, traded within its terms, and made once per idempotency key.     *)
THEOREM TradingOrdersSound == Spec => []OrdersSound
<1>1. TradingInv => OrdersSound
  BY DEF TradingInv, OrdersSound, RowsSound, RowSound, RowsConsistent, Traded
<1> QED BY <1>1, TradingInvariant, PTL
-------------------------------------------------------------------------------
(* One handler at a time: what a handler has read is still what is         *)
(* written, so what it writes back is computed from current rows.          *)
Alone == /\ \A o, m \in Running \cup Cancelling : o = m
         /\ Running \cap Cancelling = {}

CopyFresh(o) ==
  /\ place[o].at \in {"matching", "found", "settling"} => place[o].mine = order[o]
  /\ place[o].at \in {"found", "settling"} =>
        /\ place[o].maker \in Candidates(o)
        /\ place[o].theirs = order[place[o].maker]
        /\ \A n \in Candidates(o) : Better(o, place[o].maker, n)
  /\ cancel[o].at # "idle" => Matchable(order[o])

SerialInv == Alone /\ \A o \in Orders : CopyFresh(o)

(* With one handler at a time, a request starts only when nothing runs.    *)
LEMMA StartsAlone ==
  ASSUME MaxInFlight = 1, SerialInv, MayStart
  PROVE  Running = {} /\ Cancelling = {}
<1>1. IsFiniteSet(Running) /\ IsFiniteSet(Cancelling)
  <2>1. ASSUME NEW S \in {Running, Cancelling} PROVE IsFiniteSet(S)
    <3>1. CASE S = {}
      BY <3>1, FS_EmptySet
    <3>2. CASE S # {}
      <4>1. PICK o \in S : S = {o}
        BY <3>2 DEF SerialInv, Alone
      <4> QED BY <4>1, FS_Singleton
    <3> QED BY <3>1, <3>2
  <2> QED BY <2>1
<1>2. Cardinality(Running) \in Nat /\ Cardinality(Cancelling) \in Nat
  BY <1>1, FS_CardinalityType
<1>3. Cardinality(Running) = 0 /\ Cardinality(Cancelling) = 0
  BY <1>2 DEF MayStart
<1> QED BY <1>1, <1>3, FS_EmptySet

(* The handler that takes a step is the only one that carries anything.    *)
LEMMA ActsAlone ==
  ASSUME SerialInv, NEW o \in Running \cup Cancelling
  PROVE  /\ \A m \in Orders \ {o} : m \notin Running \cup Cancelling
         /\ o \in Running => cancel[o].at = "idle"
         /\ o \in Cancelling => place[o].at \in {"new", "done"}
BY DEF SerialInv, Alone, Running, Cancelling

(* So a step keeps the copies fresh if it keeps those of its handler so.   *)
LEMMA StepsAlone ==
  ASSUME NEW o \in Orders, \A m \in Orders \ {o} : m \notin Running \cup Cancelling,
         \A m \in Orders \ {o} : place'[m] = place[m] /\ cancel'[m] = cancel[m],
         CopyFresh(o)', place'[o].at \in {"new", "done"} \/ cancel'[o].at = "idle"
  PROVE  SerialInv'
<1>1. \A m \in Orders \ {o} : m \notin Running' \cup Cancelling'
  BY DEF Running, Cancelling
<1>2. Alone'
  BY <1>1 DEF Alone, Running, Cancelling
<1>3. \A m \in Orders \ {o} : CopyFresh(m)'
  BY <1>1 DEF CopyFresh, Running, Cancelling
<1> QED BY <1>2, <1>3 DEF SerialInv

(* A step that touches only the handler of o, and ends it.                 *)
LEMMA EndsAlone ==
  ASSUME TradingInv, SerialInv, NEW o \in Running, UNCHANGED <<order, cancel>>,
         NEW at \in {"new", "done"}, place' = [place EXCEPT ![o] = [at |-> at]]
  PROVE  SerialInv'
<1>1. o \in Orders /\ DOMAIN place = Orders
  BY DEF Running, TradingInv, Handlers
<1>2. place'[o].at = at /\ \A m \in Orders \ {o} : place'[m] = place[m]
  BY <1>1
<1>3. CopyFresh(o)'
  BY <1>1, <1>2, ActsAlone DEF CopyFresh
<1> QED BY <1>1, <1>2, <1>3, ActsAlone, StepsAlone

(* A request that starts alone finds no copies.                            *)
LEMMA SubmitAlone ==
  ASSUME MaxInFlight = 1, TradingInv, SerialInv, NEW o \in Orders, SubmitOrder(o)
  PROVE  SerialInv'
<1>1. MayStart /\ UNCHANGED <<order, cancel>> /\ DOMAIN place = Orders
  BY DEF SubmitOrder, TradingInv, Handlers
<1>2. Running = {} /\ Cancelling = {}
  BY <1>1, StartsAlone
<1>3. /\ \A m \in Orders \ {o} : place'[m] = place[m]
      /\ place'[o].at \in {"done", "creating"}
  BY <1>1 DEF SubmitOrder
<1>4. CopyFresh(o)' /\ cancel'[o].at = "idle"
  BY <1>1, <1>2, <1>3 DEF CopyFresh, Cancelling
<1> QED BY <1>1, <1>2, <1>3, <1>4, StepsAlone

(* An order created alone is read back as it was created.                  *)
LEMMA InsertAlone ==
  ASSUME TradingInv, SerialInv, NEW o \in Orders, InsertOrder(o)
  PROVE  SerialInv'
<1> DEFINE row == [status |-> "OPEN", filled |-> 0, remaining |-> Req[o].qty,
                   released |-> 0, createdAt |-> place[o].createdAt]
<1>1. /\ place[o].at = "creating" /\ UNCHANGED cancel /\ DOMAIN place = Orders
      /\ order' = [m \in DOMAIN order \cup {o} |-> IF m = o THEN row ELSE order[m]]
      /\ place' = [place EXCEPT ![o] = [at |-> "matching", mine |-> row]]
  BY DEF InsertOrder, TradingInv, Handlers
<1> HIDE DEF row
<1>2. o \in Running
  BY <1>1 DEF Running
<1>3. /\ \A m \in Orders \ {o} : place'[m] = place[m]
      /\ place'[o].at = "matching" /\ place'[o].mine = row /\ order'[o] = row
  BY <1>1
<1>4. CopyFresh(o)' /\ cancel'[o].at = "idle"
  BY <1>1, <1>2, <1>3, ActsAlone DEF CopyFresh
<1> QED BY <1>1, <1>2, <1>3, <1>4, ActsAlone, StepsAlone

(* A handler alone finds its opposite among current rows.                  *)
LEMMA FindAlone ==
  ASSUME TradingInv, SerialInv, NEW o \in Orders, FindOpposite(o)
  PROVE  SerialInv'
<1>1. /\ place[o].at = "matching" /\ UNCHANGED <<order, cancel>> /\ DOMAIN place = Orders
      /\ place[o].mine = order[o]
  BY DEF FindOpposite, TradingInv, SerialInv, CopyFresh, Handlers
<1>2. o \in Running
  BY <1>1 DEF Running
<1>3. CASE place' = [place EXCEPT ![o] = [at |-> "done"]]
  BY <1>1, <1>2, <1>3, EndsAlone
<1>4. CASE place' # [place EXCEPT ![o] = [at |-> "done"]]
  <2>1. PICK m \in Candidates(o) :
           /\ \A n \in Candidates(o) : Better(o, m, n)
           /\ place' = [place EXCEPT ![o] = [at |-> "found", mine |-> place[o].mine,
                                             maker |-> m, theirs |-> order[m]]]
    BY <1>4 DEF FindOpposite
  <2>2. /\ \A k \in Orders \ {o} : place'[k] = place[k]
        /\ place'[o] = [at |-> "found", mine |-> order[o], maker |-> m, theirs |-> order[m]]
    BY <1>1, <2>1
  <2>3. Candidates(o)' = Candidates(o) /\ \A n \in Candidates(o) : Better(o, m, n)'
    BY <1>1, <2>1 DEF Candidates, Better, Opposite, Crosses
  <2>4. cancel'[o].at = "idle"
    BY <1>1, <1>2, ActsAlone
  <2>5. CopyFresh(o)'
    BY <1>1, <2>1, <2>2, <2>3, <2>4 DEF CopyFresh
  <2> QED BY <1>1, <1>2, <2>2, <2>4, <2>5, ActsAlone, StepsAlone
<1> QED BY <1>3, <1>4

(* A handler alone reads the rows as they are.                             *)
LEMMA ReadAlone ==
  ASSUME TradingInv, SerialInv, NEW o \in Orders, ReadSettlement(o)
  PROVE  SerialInv'
<1> DEFINE next == NextBalances(SettlementPosting(o, place[o].maker, FillQuantity(o)), balance)
           h == [at |-> "settling", mine |-> place[o].mine, maker |-> place[o].maker,
                 theirs |-> place[o].theirs, next |-> next]
<1>1. /\ place[o].at = "found" /\ UNCHANGED <<order, cancel>> /\ DOMAIN place = Orders
      /\ CopyFresh(o)
  BY DEF ReadSettlement, TradingInv, SerialInv, Handlers
<1>2. o \in Running
  BY <1>1 DEF Running
<1>3. place' = [place EXCEPT ![o] = IF Overdraws(next) THEN [at |-> "done"] ELSE h]
  BY <1>1 DEF ReadSettlement
<1> HIDE DEF next
<1>4. CASE Overdraws(next)
  <2>1. place' = [place EXCEPT ![o] = [at |-> "done"]]
    BY <1>3, <1>4
  <2> QED BY <1>1, <1>2, <2>1, EndsAlone
<1>5. CASE ~Overdraws(next)
  <2>1. place'[o] = h /\ \A k \in Orders \ {o} : place'[k] = place[k]
    BY <1>1, <1>3, <1>5
  <2>2. cancel'[o].at = "idle"
    BY <1>1, <1>2, ActsAlone
  <2>3. Candidates(o)' = Candidates(o)
    BY <1>1 DEF Candidates, Opposite, Crosses
  <2>4. /\ place[o].mine = order[o] /\ place[o].maker \in Candidates(o)
        /\ place[o].theirs = order[place[o].maker]
        /\ \A n \in Candidates(o) : Better(o, place[o].maker, n)
    BY <1>1 DEF CopyFresh
  <2>5. /\ place'[o].at = "settling" /\ place'[o].mine = place[o].mine
        /\ place'[o].maker = place[o].maker /\ place'[o].theirs = place[o].theirs
    BY <2>1
  <2>6. \A n \in Candidates(o) : Better(o, place[o].maker, n)'
    BY <1>1, <2>4, <2>5 DEF Better
  <2>7. CopyFresh(o)'
    BY <1>1, <2>2, <2>3, <2>4, <2>5, <2>6 DEF CopyFresh
  <2> QED BY <1>1, <1>2, <2>1, <2>2, <2>7, ActsAlone, StepsAlone
<1> QED BY <1>4, <1>5

(* A match alone writes from the rows as they are, and reads the taker     *)
(* again.                                                                  *)
LEMMA MatchAlone ==
  ASSUME TradingInv, SerialInv, NEW o \in Orders, CommitTrade(o)
  PROVE  SerialInv'
<1> DEFINE mine == [Filled(place[o].mine, FillQuantity(o)) EXCEPT !.released = order[o].released]
<1>1. /\ place[o].at = "settling" /\ UNCHANGED cancel /\ DOMAIN place = Orders
      /\ place' = [place EXCEPT ![o] = IF mine.status = "FILLED" THEN [at |-> "done"]
                                       ELSE [at |-> "matching", mine |-> mine]]
  BY DEF CommitTrade, TradingInv, Handlers
<1>2. order'[o] = mine
  BY MatchWrites
<1>3. o \in Running
  BY <1>1 DEF Running
<1> HIDE DEF mine
<1>4. /\ \A k \in Orders \ {o} : place'[k] = place[k]
      /\ place'[o] = IF mine.status = "FILLED" THEN [at |-> "done"]
                     ELSE [at |-> "matching", mine |-> mine]
  BY <1>1
<1>5. cancel'[o].at = "idle"
  BY <1>1, <1>3, ActsAlone
<1>6. CopyFresh(o)'
  BY <1>2, <1>4, <1>5 DEF CopyFresh
<1> QED BY <1>1, <1>3, <1>4, <1>5, <1>6, ActsAlone, StepsAlone

(* A refused duplicate ends its handler, the only one.                     *)
LEMMA RefusalAlone ==
  ASSUME TradingInv, SerialInv, NEW o \in Orders, RefuseDuplicate(o)
  PROVE  SerialInv'
<1>1. o \in Running /\ UNCHANGED <<order, cancel>>
      /\ place' = [place EXCEPT ![o] = [at |-> "done"]]
  BY DEF RefuseDuplicate, Running
<1> QED BY <1>1, EndsAlone

(* A cancellation reads and closes an order that is open throughout.       *)
LEMMA CancellingAlone ==
  ASSUME MaxInFlight = 1, TradingInv, SerialInv, NEW o \in Orders, CancellingStep(o)
  PROVE  SerialInv'
<1>1. DOMAIN cancel = Orders /\ UNCHANGED place
  BY DEF CancellingStep, ReadForCancel, ReadUnlock, CommitCancel, TradingInv, Handlers
<1>2. \A m \in Orders \ {o} : cancel'[m] = cancel[m]
  BY <1>1 DEF CancellingStep, ReadForCancel, ReadUnlock, CommitCancel
<1>3. /\ \A m \in Orders \ {o} : m \notin Running \cup Cancelling
      /\ place[o].at \in {"new", "done"}
  <2>1. CASE ReadForCancel(o)
    <3>1. Running = {} /\ Cancelling = {}
      BY <2>1, StartsAlone DEF ReadForCancel
    <3> QED BY <3>1 DEF Running
  <2>2. CASE ReadUnlock(o) \/ CommitCancel(o)
    <3>1. o \in Cancelling
      BY <2>2 DEF ReadUnlock, CommitCancel, Cancelling
    <3> QED BY <3>1, ActsAlone
  <2> QED BY <2>1, <2>2 DEF CancellingStep
<1>4. cancel'[o].at # "idle" => Matchable(order'[o])
  <2>1. CASE ReadForCancel(o)
    BY <2>1 DEF ReadForCancel
  <2>2. CASE ReadUnlock(o)
    <3>1. Matchable(order[o])
      BY <2>2 DEF ReadUnlock, SerialInv, CopyFresh
    <3> QED BY <2>2, <3>1 DEF ReadUnlock
  <2>3. CASE CommitCancel(o)
    BY <1>1, <2>3 DEF CommitCancel
  <2> QED BY <2>1, <2>2, <2>3 DEF CancellingStep
<1>5. CopyFresh(o)'
  BY <1>1, <1>3, <1>4 DEF CopyFresh
<1> QED BY <1>1, <1>2, <1>3, <1>5, StepsAlone

(* A handler that dies was the only one.                                   *)
LEMMA CrashAlone ==
  ASSUME TradingInv, SerialInv, NEW o \in Orders, Crash(o)
  PROVE  SerialInv'
<1>1. DOMAIN cancel = Orders /\ UNCHANGED order
  BY DEF Crash, TradingInv, Handlers
<1>2. CASE o \in Running /\ UNCHANGED cancel
           /\ place' = [place EXCEPT ![o] = [at |-> IF o \in DOMAIN order THEN "done" ELSE "new"]]
  BY <1>1, <1>2, EndsAlone
<1>3. CASE o \in Cancelling /\ UNCHANGED place
           /\ cancel' = [cancel EXCEPT ![o] = [at |-> "idle"]]
  <2>1. cancel'[o].at = "idle" /\ \A m \in Orders \ {o} : cancel'[m] = cancel[m]
    BY <1>1, <1>3
  <2>2. place'[o].at \in {"new", "done"}
    BY <1>3, ActsAlone
  <2>3. CopyFresh(o)'
    BY <2>1, <2>2 DEF CopyFresh
  <2> QED BY <1>3, <2>1, <2>2, <2>3, ActsAlone, StepsAlone
<1> QED BY <1>2, <1>3 DEF Crash
-------------------------------------------------------------------------------
(* One handler at a time never acts on a row that has changed since it was *)
(* read.                                                                   *)
THEOREM TradingSerialInvariant ==
  ASSUME MaxInFlight = 1
  PROVE  Spec => []SerialInv
<1>1. Init => SerialInv
  BY DEF Init, SerialInv, Alone, CopyFresh, Running, Cancelling
<1>2. TradingInv /\ SerialInv /\ [Next]_vars => SerialInv'
  <2>1. CASE UNCHANGED vars
    BY <2>1
    DEF vars, SerialInv, Alone, CopyFresh, Running, Cancelling, Candidates, Matchable,
        Opposite, Crosses, Better
  <2> QED
    BY <2>1, SubmitAlone, InsertAlone, FindAlone, ReadAlone, MatchAlone, RefusalAlone,
       CancellingAlone, CrashAlone
    DEF Next, Handling
<1> QED BY <1>1, <1>2, TradingInvariant, PTL DEF Spec

(* A filled or cancelled order never changes again.                        *)
THEOREM TradingClosedIsFinal ==
  ASSUME MaxInFlight = 1
  PROVE  Spec => ClosedIsFinal
<1> DEFINE Final == \A o \in DOMAIN order : ~Matchable(order[o]) => order'[o] = order[o]
<1>1. TradingInv /\ SerialInv /\ [Next]_vars => Final
  <2> SUFFICES ASSUME TradingInv, SerialInv, Next, UNCHANGED order => FALSE PROVE Final
    BY DEF vars
  <2>1. PICK o \in Orders : \/ InsertOrder(o) \/ CommitTrade(o) \/ CommitCancel(o)
    BY DEF Next, SubmitOrder, Handling, FindOpposite, ReadSettlement, RefuseDuplicate,
           CancellingStep, ReadForCancel, ReadUnlock, Crash
  <2>2. CASE InsertOrder(o)
    <3>1. o \notin DOMAIN order
      BY <2>2 DEF InsertOrder, KeyTaken
    <3> QED BY <2>2, <3>1 DEF InsertOrder
  <2>3. CASE CommitTrade(o)
    <3> DEFINE m == place[o].maker
    <3>1. Matchable(order[o]) /\ Matchable(order[m])
      BY <2>3
      DEF CommitTrade, TradingInv, Handlers, HandlerSound, SerialInv, CopyFresh, Candidates
    <3>2. \A n \in DOMAIN order \ {o, m} : order'[n] = order[n]
      BY <2>3, MatchWrites
    <3> QED BY <3>1, <3>2
  <2>4. CASE CommitCancel(o)
    <3>1. Matchable(order[o])
      BY <2>4 DEF CommitCancel, SerialInv, CopyFresh
    <3>2. \A n \in DOMAIN order \ {o} : order'[n] = order[n]
      BY <2>4 DEF CommitCancel
    <3> QED BY <3>1, <3>2
  <2> QED BY <2>1, <2>2, <2>3, <2>4
<1>2. Spec => [][Final]_vars
  BY <1>1, TradingInvariant, TradingSerialInvariant, PTL DEF Spec
<1> QED BY <1>2 DEF ClosedIsFinal

(* Price-time priority (README:222): each trade takes the best-priced and, *)
(* among those, the oldest order of another user on the other side.        *)
THEOREM TradingPriceTimePriority ==
  ASSUME MaxInFlight = 1
  PROVE  Spec => PriceTimePriority
<1> DEFINE Best == \A t \in trades' \ trades : \A m \in Candidates(t.taker) :
              /\ Cost(t.taker, t.maker) <= Cost(t.taker, m)
              /\ Cost(t.taker, t.maker) = Cost(t.taker, m) =>
                    order[t.maker].createdAt <= order[m].createdAt
<1>1. TradingInv /\ SerialInv /\ [Next]_vars => Best
  <2> SUFFICES ASSUME TradingInv, SerialInv, Next, UNCHANGED trades => FALSE PROVE Best
    BY DEF vars
  <2>1. PICK o \in Orders : CommitTrade(o)
    BY DEF Next, SubmitOrder, Handling, InsertOrder, FindOpposite, ReadSettlement,
           RefuseDuplicate, CancellingStep, ReadForCancel, ReadUnlock, CommitCancel, Crash
  <2> DEFINE m == place[o].maker
  <2>2. \A t \in trades' \ trades : t.taker = o /\ t.maker = m
    BY <2>1 DEF CommitTrade
  <2>3. m \in Candidates(o) /\ \A n \in Candidates(o) : Better(o, m, n)
    BY <2>1 DEF CommitTrade, SerialInv, CopyFresh
  <2>4. ASSUME NEW n \in Candidates(o)
        PROVE  /\ Cost(o, m) <= Cost(o, n)
               /\ Cost(o, m) = Cost(o, n) => order[m].createdAt <= order[n].createdAt
    <3>1. m \in Orders /\ n \in Orders
      BY <2>3 DEF Candidates, TradingInv, RowsSound
    <3>2. Req[m].price \in Nat /\ Req[n].price \in Nat
      BY <3>1, ReqTyped
    <3>3. Better(o, m, n)
      BY <2>3
    <3> HIDE DEF m
    <3> QED BY <3>2, <3>3 DEF Better, Cost
  <2> QED BY <2>2, <2>4
<1>2. Spec => [][Best]_vars
  BY <1>1, TradingInvariant, TradingSerialInvariant, PTL DEF Spec
<1> QED BY <1>2 DEF PriceTimePriority
-------------------------------------------------------------------------------
(* The books.  Sums are taken over every order and every trade, with zeros *)
(* for those that do not count, so that a step changes a value and not the *)
(* set that is summed over.                                                *)
AccountsIn(asset) == {a \in Account : AssetOf(a) = asset}

ReservedBy(rows, user, asset) ==
  [o \in DOMAIN rows |->
      IF Req[o].user = user /\ LockAsset(o) = asset /\ Matchable(rows[o])
      THEN RemainingLock(o, rows[o]) ELSE 0]

SavedIn(deals, user) ==
  [t \in deals |-> IF Req[Buyer(t)].user = user
                   THEN (Req[Buyer(t)].price - t.price) * t.qty ELSE 0]

FilledIn(deals, o) == [t \in deals |-> IF o \in {t.taker, t.maker} THEN t.qty ELSE 0]

LockedSums ==
  \A user \in Users, asset \in Assets :
     balance[Locked(user, asset)] =
        SumFunctionOnSet(ReservedBy(order, user, asset), DOMAIN order)
          + (IF asset = "QUOTE" THEN SumFunctionOnSet(SavedIn(trades, user), trades) ELSE 0)

FillSums ==
  \A o \in DOMAIN order :
     order[o].filled = SumFunctionOnSet(FilledIn(trades, o), trades)

(* With finitely many users each asset is held in finitely many accounts.  *)
LEMMA AccountsAreFinite ==
  ASSUME IsFiniteSet(Users), NEW asset \in Assets
  PROVE  IsFiniteSet(AccountsIn(asset))
<1> DEFINE free == [u \in Users |-> Available(u, asset)]
           held == [u \in Users |-> Locked(u, asset)]
           system == <<"SYSTEM", asset, "CUSTODY">>
<1>1. IsFiniteSet({free[u] : u \in Users}) /\ IsFiniteSet({held[u] : u \in Users})
  BY ImageIsFinite
<1>2. IsFiniteSet({free[u] : u \in Users} \cup {held[u] : u \in Users})
  BY <1>1, FS_Union
<1>3. IsFiniteSet(({free[u] : u \in Users} \cup {held[u] : u \in Users}) \cup {system})
  BY <1>2, FS_AddElement
<1>4. AccountsIn(asset) \subseteq
        ({free[u] : u \in Users} \cup {held[u] : u \in Users}) \cup {system}
  <2> SUFFICES ASSUME NEW a \in AccountsIn(asset)
               PROVE  a = system \/ \E u \in Users : a = free[u] \/ a = held[u]
    OBVIOUS
  <2>1. CASE a \in SystemAccount
    BY <2>1 DEF AccountsIn, SystemAccount, AssetOf
  <2>2. CASE a \in UserAccount
    <3>1. PICK u \in Users, b \in Assets, type \in {"AVAILABLE", "LOCKED"} : a = <<u, b, type>>
      BY <2>2 DEF UserAccount
    <3>2. b = asset
      BY <3>1 DEF AccountsIn, AssetOf
    <3> QED BY <3>1, <3>2 DEF Available, Locked
  <2> QED BY <2>1, <2>2 DEF AccountsIn, Account
<1> QED BY <1>3, <1>4, FS_Subset

(* What a handler writes from current balances adds its posting to them.   *)
LEMMA WriteAdds ==
  ASSUME Books, NEW posting, IsPosting(posting),
         balance' = Overwrite(balance, NextBalances(posting, balance))
  PROVE  \A a \in Account :
            balance'[a] = IF a \in DOMAIN posting THEN balance[a] + posting[a].amount
                                                  ELSE balance[a]
BY DEF Books, Overwrite, NextBalances

(* A transfer takes from one account what it gives to the other.          *)
LEMMA TransferMoves ==
  ASSUME Books, NEW from \in Account, NEW to \in Account, from # to, NEW amount \in Int,
         balance' = Overwrite(balance, NextBalances(Transfer(from, to, amount), balance))
  PROVE  /\ balance'[from] = balance[from] - amount
         /\ balance'[to] = balance[to] + amount
         /\ \A a \in Account \ {from, to} : balance'[a] = balance[a]
<1>1. IsPosting(Transfer(from, to, amount)) /\ DOMAIN Transfer(from, to, amount) = {from, to}
  BY TransferIsPosting
<1>2. /\ Transfer(from, to, amount)[from].amount = -amount
      /\ Transfer(from, to, amount)[to].amount = amount
  BY DEF Transfer
<1>3. balance[from] \in Int
  BY DEF Books, IsBalances
<1>4. /\ balance'[from] = balance[from] + (-amount)
      /\ balance'[to] = balance[to] + amount
      /\ \A a \in Account \ {from, to} : balance'[a] = balance[a]
  BY <1>1, <1>2, WriteAdds
<1> QED BY <1>3, <1>4

(* Moving an amount between two accounts of an asset conserves the asset.  *)
LEMMA MoveConserves ==
  ASSUME IsFiniteSet(Users), Books, Books', NEW asset \in Assets,
         NEW from \in AccountsIn(asset), NEW to \in AccountsIn(asset), from # to,
         NEW amount \in Int,
         balance'[from] = balance[from] - amount, balance'[to] = balance[to] + amount,
         \A a \in AccountsIn(asset) \ {from, to} : balance'[a] = balance[a]
  PROVE  SumFunctionOnSet(balance', AccountsIn(asset)) =
            SumFunctionOnSet(balance, AccountsIn(asset))
<1>1. IsFiniteSet(AccountsIn(asset))
  BY AccountsAreFinite
<1>2. \A a \in AccountsIn(asset) : balance[a] \in Int /\ balance'[a] \in Int
  BY DEF Books, IsBalances, AccountsIn
<1>3. balance'[from] + balance'[to] = balance[from] + balance[to]
  BY <1>2
<1> QED BY <1>1, <1>2, <1>3, SumMoves

(* Accounts that do not move conserve their asset.                         *)
LEMMA RestConserves ==
  ASSUME IsFiniteSet(Users), NEW asset \in Assets,
         \A a \in AccountsIn(asset) : balance'[a] = balance[a]
  PROVE  SumFunctionOnSet(balance', AccountsIn(asset)) =
            SumFunctionOnSet(balance, AccountsIn(asset))
BY AccountsAreFinite, SumOfEqual

(* A transfer within an asset conserves every asset.                       *)
LEMMA TransferConserves ==
  ASSUME IsFiniteSet(Users), Books, Books',
         NEW from \in Account, NEW to \in Account, from # to,
         AssetOf(from) \in Assets, AssetOf(to) = AssetOf(from), NEW amount \in Int,
         balance' = Overwrite(balance, NextBalances(Transfer(from, to, amount), balance)),
         NEW asset \in Assets
  PROVE  SumFunctionOnSet(balance', AccountsIn(asset)) =
            SumFunctionOnSet(balance, AccountsIn(asset))
<1>1. /\ balance'[from] = balance[from] - amount
      /\ balance'[to] = balance[to] + amount
      /\ \A a \in Account \ {from, to} : balance'[a] = balance[a]
  BY TransferMoves
<1>2. CASE asset = AssetOf(from)
  <2>1. from \in AccountsIn(asset) /\ to \in AccountsIn(asset)
    BY <1>2 DEF AccountsIn
  <2>2. \A a \in AccountsIn(asset) \ {from, to} : balance'[a] = balance[a]
    BY <1>1 DEF AccountsIn
  <2> QED BY <1>1, <2>1, <2>2, MoveConserves
<1>3. CASE asset # AssetOf(from)
  <2>1. \A a \in AccountsIn(asset) : balance'[a] = balance[a]
    BY <1>1, <1>3 DEF AccountsIn
  <2> QED BY <2>1, RestConserves
<1> QED BY <1>2, <1>3

(* What is left locked for a row is a number, and covers what the row may  *)
(* still trade at its own price.                                           *)
LEMMA RemainingType ==
  ASSUME NEW o \in Orders, NEW row, RowSound(o, row)
  PROVE  RemainingLock(o, row) \in Int
<1>1. row.filled \in Nat /\ row.released \in Nat
  BY DEF RowSound, Row
<1>2. LockOf(o, Req[o].qty) \in Int /\ LockOf(o, row.filled) \in Int
  BY <1>1, ReqTyped, LockOfType
<1> QED BY <1>1, <1>2 DEF RemainingLock

(* Locks of quantities add up.                                             *)
LEMMA LockAdds ==
  ASSUME NEW o \in Orders, NEW a \in Nat, NEW b \in Nat
  PROVE  LockOf(o, a + b) = LockOf(o, a) + LockOf(o, b)
<1>1. Req[o].price \in Nat
  BY ReqTyped
<1>2. Req[o].price * (a + b) = Req[o].price * a + Req[o].price * b
  BY <1>1
<1> QED BY <1>2 DEF LockOf

(* Until it is cancelled, an order has left of its lock what its remaining *)
(* quantity needs.                                                         *)
LEMMA RemainingCovers ==
  ASSUME NEW o \in Orders, NEW row, RowSound(o, row), row.released = 0
  PROVE  RemainingLock(o, row) = LockOf(o, row.remaining)
<1>1. /\ row.filled \in Nat /\ row.remaining \in Nat
      /\ Req[o].qty = row.filled + row.remaining
  BY DEF RowSound, Row
<1>2. LockOf(o, Req[o].qty) = LockOf(o, row.filled) + LockOf(o, row.remaining)
  BY <1>1, LockAdds
<1>3. LockOf(o, row.filled) \in Int /\ LockOf(o, row.remaining) \in Int
  BY <1>1, LockOfType
<1> QED BY <1>2, <1>3 DEF RemainingLock

(* No quantity needs no lock.                                              *)
LEMMA LockOfNothing ==
  ASSUME NEW o \in Orders
  PROVE  LockOf(o, 0) = 0
<1>1. Req[o].price * 0 = 0
  BY ReqTyped
<1> QED BY <1>1 DEF LockOf

Rows(rows) == /\ DOMAIN rows \subseteq Orders /\ IsFiniteSet(DOMAIN rows)
              /\ \A o \in DOMAIN rows : RowSound(o, rows[o])

(* What an order reserves is a number.                                     *)
LEMMA ReservedType ==
  ASSUME NEW rows, Rows(rows), NEW user, NEW asset
  PROVE  \A o \in DOMAIN rows : ReservedBy(rows, user, asset)[o] \in Int
BY RemainingType DEF Rows, ReservedBy

Deals(deals) == /\ IsFiniteSet(deals) /\ deals \subseteq Trade
                /\ \A t \in deals : Opposite(t.taker, t.maker) /\ Crosses(t.taker, t.maker)
                                    /\ t.price = Req[t.maker].price

(* A buyer trades at his own limit or below it.                            *)
LEMMA SavedType ==
  ASSUME NEW t \in Trade, Opposite(t.taker, t.maker), Crosses(t.taker, t.maker),
         t.price = Req[t.maker].price
  PROVE  (Req[Buyer(t)].price - t.price) * t.qty \in Nat
<1>1. t.taker \in Orders /\ t.maker \in Orders /\ t.qty \in Nat
  BY DEF Trade
<1>2. /\ Req[t.taker].price \in Nat /\ Req[t.maker].price \in Nat
      /\ Req[t.taker].side \in {"BUY", "SELL"} /\ Req[t.maker].side \in {"BUY", "SELL"}
  BY <1>1, ReqTyped
<1>3. Req[Buyer(t)].price - t.price \in Nat
  BY <1>2 DEF Buyer, Opposite, Crosses
<1> QED BY <1>1, <1>3

(* What a buyer saved in a trade is a number.                              *)
LEMMA SavedSumsType ==
  ASSUME NEW deals, Deals(deals), NEW user
  PROVE  \A t \in deals : SavedIn(deals, user)[t] \in Nat
BY SavedType DEF Deals, SavedIn

(* What a trade filled of an order is a number, too.                       *)
LEMMA FilledType ==
  ASSUME NEW deals, Deals(deals), NEW o
  PROVE  \A t \in deals : FilledIn(deals, o)[t] \in Nat
BY DEF Deals, FilledIn, Trade

(* The sums over all orders and all trades are the sums the books state.   *)
LEMMA OutstandingIsSum ==
  ASSUME Rows(order), NEW user, NEW asset
  PROVE  Outstanding(user, asset) =
            SumFunctionOnSet(ReservedBy(order, user, asset), DOMAIN order)
<1> DEFINE open == {o \in DOMAIN order : /\ Req[o].user = user
                                         /\ LockAsset(o) = asset
                                         /\ Matchable(order[o])}
           f == [o \in open |-> RemainingLock(o, order[o])]
           g == [o \in DOMAIN order |-> IF o \in open THEN f[o] ELSE 0]
<1>1. Outstanding(user, asset) = SumFunctionOnSet(f, open)
  BY DEF Outstanding, SumFunction
<1>2. \A o \in open : f[o] \in Int
  BY RemainingType DEF Rows
<1>3. open \in SUBSET DOMAIN order /\ IsFiniteSet(DOMAIN order)
  BY DEF Rows
<1>4. g = ReservedBy(order, user, asset)
  BY DEF ReservedBy
<1> HIDE DEF open, f
<1>5. SumFunctionOnSet(f, open) = SumFunctionOnSet(g, DOMAIN order)
  BY <1>2, <1>3, SumOfPart
<1> QED BY <1>1, <1>4, <1>5

(* The savings the books state are the sum over all trades.                *)
LEMMA SavedIsSum ==
  ASSUME Deals(trades), NEW user
  PROVE  Saved(user) = SumFunctionOnSet(SavedIn(trades, user), trades)
<1> DEFINE his == {u \in trades : Req[Buyer(u)].user = user}
           f == [t \in his |-> (Req[Buyer(t)].price - t.price) * t.qty]
           g == [t \in trades |-> IF t \in his THEN f[t] ELSE 0]
<1>1. Saved(user) = SumFunctionOnSet(f, his)
  BY DEF Saved, SumFunction
<1>2. \A t \in his : f[t] \in Int
  BY SavedType DEF Deals
<1>3. his \in SUBSET trades /\ IsFiniteSet(trades)
  BY DEF Deals
<1>4. g = SavedIn(trades, user)
  BY DEF SavedIn
<1> HIDE DEF his, f
<1>5. SumFunctionOnSet(f, his) = SumFunctionOnSet(g, trades)
  BY <1>2, <1>3, SumOfPart
<1> QED BY <1>1, <1>4, <1>5

(* The filled quantity the books state is the sum over all trades.         *)
LEMMA FilledIsSum ==
  ASSUME Deals(trades), NEW o
  PROVE  SumFunction([t \in {u \in trades : o \in {u.taker, u.maker}} |-> t.qty]) =
            SumFunctionOnSet(FilledIn(trades, o), trades)
<1> DEFINE its == {u \in trades : o \in {u.taker, u.maker}}
           f == [t \in its |-> t.qty]
           g == [t \in trades |-> IF t \in its THEN f[t] ELSE 0]
<1>1. SumFunction(f) = SumFunctionOnSet(f, its)
  BY DEF SumFunction
<1>2. \A t \in its : f[t] \in Int
  BY DEF Deals, Trade
<1>3. its \in SUBSET trades /\ IsFiniteSet(trades)
  BY DEF Deals
<1>4. g = FilledIn(trades, o)
  BY DEF FilledIn
<1>5. SumFunction([t \in {u \in trades : o \in {u.taker, u.maker}} |-> t.qty]) = SumFunction(f)
  OBVIOUS
<1> HIDE DEF its, f
<1>6. SumFunctionOnSet(f, its) = SumFunctionOnSet(g, trades)
  BY <1>2, <1>3, SumOfPart
<1> QED BY <1>1, <1>4, <1>5, <1>6
-------------------------------------------------------------------------------
(* What a handler has read of the books is still what they say.            *)
ReadsCurrent(o) ==
  /\ place[o].at = "creating" => place[o].next = NextBalances(LockPosting(o), balance)
  /\ place[o].at = "settling" =>
        place[o].next =
           NextBalances(SettlementPosting(o, place[o].maker, FillQuantity(o)), balance)
  /\ cancel[o].at # "idle" => /\ cancel[o].amount = RemainingLock(o, order[o])
                              /\ cancel[o].released = 0
  /\ cancel[o].at = "closing" =>
        /\ ~cancel[o].replay
        /\ cancel[o].next = NextBalances(UnlockPosting(o, cancel[o].amount), balance)

(* An order is unlocked once, when it closes; a trade fills one of its two *)
(* orders, so that the pair never meets again.                             *)
ClosedSound ==
  /\ IsFiniteSet(trades)
  /\ \A o \in DOMAIN order : Matchable(order[o]) => order[o].released = 0
  /\ \A o \in unlocked : o \in DOMAIN order /\ ~Matchable(order[o])
  /\ \A t \in trades : /\ t.taker \in DOMAIN order /\ t.maker \in DOMAIN order
                       /\ ~Matchable(order[t.taker]) \/ ~Matchable(order[t.maker])

(* Two resting orders that cross are about to be matched by one of them.   *)
Sweeping(o) == place[o].at \in {"matching", "found", "settling"}
SweepsEnd ==
  crashes = 0 =>
     \A o, m \in DOMAIN order :
        Matchable(order[o]) /\ Matchable(order[m]) /\ Opposite(o, m) /\ Crosses(o, m)
           => Sweeping(o) \/ Sweeping(m)

RowsKept == ClosedSound /\ LockedSums /\ FillSums /\ AssetsConserved

BooksInv == (\A o \in Orders : ReadsCurrent(o)) /\ RowsKept /\ SweepsEnd

(* The rows and the trades of a sound state are what the sums are taken    *)
(* over.                                                                   *)
LEMMA RowsAndDeals ==
  ASSUME TradingInv, ClosedSound
  PROVE  Rows(order) /\ Deals(trades)
BY DEF TradingInv, RowsSound, Rows, Traded, TradeTerms, Deals, ClosedSound

(* A step that writes no row keeps the rows as they are.                   *)
LEMMA ReadingKeepsRows ==
  ASSUME RowsKept, UNCHANGED <<balance, order, trades, unlocked>>
  PROVE  RowsKept'
BY DEF RowsKept, ClosedSound, LockedSums, FillSums, AssetsConserved

(* As long as no row is written, every pair that crosses stays in the      *)
(* sweep it was in.                                                        *)
LEMMA SweepsStay ==
  ASSUME SweepsEnd, UNCHANGED <<order, crashes>>,
         \A o \in DOMAIN order : Sweeping(o) => Sweeping(o)'
  PROVE  SweepsEnd'
BY DEF SweepsEnd

(* A step of the only handler that runs keeps what is read current if it   *)
(* keeps what that handler has read so.                                    *)
LEMMA ReadsStayCurrent ==
  ASSUME NEW o \in Orders, \A m \in Orders \ {o} : m \notin Running \cup Cancelling,
         \A m \in Orders \ {o} : place'[m] = place[m] /\ cancel'[m] = cancel[m],
         ReadsCurrent(o)'
  PROVE  \A m \in Orders : ReadsCurrent(m)'
<1> SUFFICES ASSUME NEW m \in Orders \ {o} PROVE ReadsCurrent(m)'
  OBVIOUS
<1>1. place'[m].at \in {"new", "done"} /\ cancel'[m].at = "idle"
  BY DEF Running, Cancelling
<1> QED BY <1>1 DEF ReadsCurrent

(* What an order reserves before and after a fill differs by the lock of   *)
(* the filled quantity at the order's own price.                           *)
LEMMA FillReleases ==
  ASSUME NEW o \in Orders, NEW row, RowSound(o, row), Matchable(row), row.released = 0,
         NEW qty \in Nat, 0 < qty, qty <= row.remaining
  PROVE  LET new == [Filled(row, qty) EXCEPT !.released = row.released]
         IN  /\ (IF Matchable(new) THEN RemainingLock(o, new) ELSE 0) =
                   RemainingLock(o, row) - LockOf(o, qty)
             /\ new.filled = row.filled + qty
             /\ new.released = 0
             /\ Matchable(new) <=> qty # row.remaining
<1> DEFINE new == [Filled(row, qty) EXCEPT !.released = row.released]
<1>1. PICK f \in Nat, n \in Nat, rel \in Nat, at \in Nat, s \in Status :
         row = [status |-> s, filled |-> f, remaining |-> n, released |-> rel, createdAt |-> at]
  BY DEF RowSound, Row
<1> DEFINE st == IF n - qty <= 0 THEN "FILLED" ELSE "PARTIALLY_FILLED"
           r == [status |-> st, filled |-> f + qty, remaining |-> n - qty,
                 released |-> rel, createdAt |-> at]
<1>2. new = r
  <2>1. /\ {"filled", "remaining", "status"} \subseteq DOMAIN row
        /\ row.filled = f /\ row.remaining = n
    BY <1>1
  <2>2. row.released = rel
    BY <1>1
  <2>3. Filled(row, qty) = [row EXCEPT !.filled = f + qty, !.remaining = n - qty, !.status = st]
    BY <2>1 DEF Filled
  <2> HIDE DEF st
  <2>4. Filled(row, qty) = r
    BY <1>1, <2>1, <2>3
  <2>5. [r EXCEPT !.released = rel] = r
    OBVIOUS
  <2> HIDE DEF r
  <2> QED BY <2>2, <2>4, <2>5
<1> HIDE DEF new
<1>3. /\ row.filled = f /\ row.remaining = n /\ qty <= n /\ rel = 0
      /\ new.filled = f + qty /\ new.remaining = n - qty /\ new.released = 0 /\ new.status = st
  BY <1>1, <1>2
<1>4. Matchable(new) <=> qty # n
  BY <1>3 DEF Matchable
<1>5. RemainingLock(o, row) = LockOf(o, n)
  BY <1>3, RemainingCovers
<1>6. RowSound(o, new)
  <2>1. RowSound(o, Filled(row, qty)) /\ row.released \in Nat
    BY <1>1, FillKeepsRow
  <2> QED BY <2>1, RowReleased DEF new
<1> HIDE DEF st
<1>7. RemainingLock(o, new) = LockOf(o, n - qty)
  BY <1>3, <1>6, RemainingCovers
<1>8. LockOf(o, n) = LockOf(o, n - qty) + LockOf(o, qty)
  <2>1. n - qty \in Nat /\ n = (n - qty) + qty
    BY <1>3
  <2>2. LockOf(o, (n - qty) + qty) = LockOf(o, n - qty) + LockOf(o, qty)
    BY <2>1, LockAdds
  <2> QED BY <2>1, <2>2
<1>9. LockOf(o, n - qty) \in Int /\ LockOf(o, qty) \in Int
  BY <1>3, LockOfType
<1>10. ~Matchable(new) => LockOf(o, n - qty) = 0
  <2>1. qty = n => n - qty = 0
    OBVIOUS
  <2> QED BY <1>4, <2>1, LockOfNothing
<1>11. (IF Matchable(new) THEN RemainingLock(o, new) ELSE 0) = LockOf(o, n - qty)
  BY <1>7, <1>10
<1>12. LockOf(o, n - qty) = RemainingLock(o, row) - LockOf(o, qty)
  BY <1>5, <1>8, <1>9
<1> QED BY <1>3, <1>4, <1>11, <1>12 DEF new

(* The order that buys and the order that sells, of two that meet.         *)
BuyOrder(o, m) == IF Req[o].side = "BUY" THEN o ELSE m
SellOrder(o, m) == IF Req[o].side = "BUY" THEN m ELSE o

(* They are distinct, and trade at a price the buyer accepts.             *)
LEMMA TwoSides ==
  ASSUME NEW o \in Orders, NEW m \in Orders, Opposite(o, m), Crosses(o, m)
  PROVE  LET b == BuyOrder(o, m)
             s == SellOrder(o, m)
         IN  /\ b \in Orders /\ s \in Orders /\ {o, m} = {b, s} /\ b # s /\ o # m
             /\ Req[b].user \in Users /\ Req[s].user \in Users /\ Req[b].user # Req[s].user
             /\ LockAsset(b) = "QUOTE" /\ LockAsset(s) = "BASE"
             /\ \A q : LockOf(b, q) = Req[b].price * q /\ LockOf(s, q) = q
             /\ ExecutionPrice(o, m) <= Req[b].price
             /\ ExecutionPrice(o, m) \in Nat
<1>1. Req[o].side \in {"BUY", "SELL"} /\ Req[m].side \in {"BUY", "SELL"}
  BY ReqTyped
<1>2. /\ Req[o].price \in Nat /\ Req[m].price \in Nat
      /\ Req[o].user \in Users /\ Req[m].user \in Users
  BY ReqTyped
<1>3. Req[o].side # Req[m].side /\ Req[o].user # Req[m].user
  BY DEF Opposite
<1>4. CASE Req[o].side = "BUY"
  <2>1. Req[m].side = "SELL"
    BY <1>1, <1>3, <1>4
  <2> QED BY <1>2, <1>3, <1>4, <2>1
          DEF BuyOrder, SellOrder, LockAsset, LockOf, ExecutionPrice, Crosses
<1>5. CASE Req[o].side = "SELL"
  <2>1. Req[m].side = "BUY"
    BY <1>1, <1>3, <1>5
  <2> QED BY <1>2, <1>3, <1>5, <2>1
          DEF BuyOrder, SellOrder, LockAsset, LockOf, ExecutionPrice, Crosses
<1> QED BY <1>1, <1>4, <1>5

SettlementAccounts(o, m) ==
  {Locked(Req[SellOrder(o, m)].user, "BASE"), Available(Req[BuyOrder(o, m)].user, "BASE"),
   Locked(Req[BuyOrder(o, m)].user, "QUOTE"), Available(Req[SellOrder(o, m)].user, "QUOTE")}

(* What a settlement moves: the quantity from the seller's lock to the     *)
(* buyer, its price from the buyer's lock to the seller.                   *)
LEMMA SettlementEntries ==
  ASSUME NEW o \in Orders, NEW m \in Orders, Opposite(o, m), Crosses(o, m), NEW qty \in Nat
  PROVE  /\ DOMAIN SettlementPosting(o, m, qty) = SettlementAccounts(o, m)
         /\ SettlementPosting(o, m, qty)[Locked(Req[SellOrder(o, m)].user, "BASE")].amount = -qty
         /\ SettlementPosting(o, m, qty)[Available(Req[BuyOrder(o, m)].user, "BASE")].amount = qty
         /\ SettlementPosting(o, m, qty)[Locked(Req[BuyOrder(o, m)].user, "QUOTE")].amount =
               -(ExecutionPrice(o, m) * qty)
         /\ SettlementPosting(o, m, qty)[Available(Req[SellOrder(o, m)].user, "QUOTE")].amount =
               ExecutionPrice(o, m) * qty
<1> DEFINE buyer == Req[BuyOrder(o, m)].user
           seller == Req[SellOrder(o, m)].user
           quote == ExecutionPrice(o, m) * qty
           base == Transfer(Locked(seller, "BASE"), Available(buyer, "BASE"), qty)
           paid == Transfer(Locked(buyer, "QUOTE"), Available(seller, "QUOTE"), quote)
<1>1. SettlementPosting(o, m, qty) =
        [a \in DOMAIN base \cup DOMAIN paid |-> IF a \in DOMAIN base THEN base[a] ELSE paid[a]]
  BY DEF SettlementPosting, BuyOrder, SellOrder
<1>2. /\ DOMAIN base = {Locked(seller, "BASE"), Available(buyer, "BASE")}
      /\ DOMAIN paid = {Locked(buyer, "QUOTE"), Available(seller, "QUOTE")}
  BY DEF Transfer
<1>3. /\ base[Locked(seller, "BASE")].amount = -qty
      /\ base[Available(buyer, "BASE")].amount = qty
  BY DEF Transfer, Locked, Available
<1>4. /\ paid[Locked(buyer, "QUOTE")].amount = -quote
      /\ paid[Available(seller, "QUOTE")].amount = quote
  BY DEF Transfer, Locked, Available
<1>5. /\ Locked(buyer, "QUOTE") \notin DOMAIN base
      /\ Available(seller, "QUOTE") \notin DOMAIN base
  BY <1>2 DEF Locked, Available
<1> HIDE DEF base, paid
<1>6. DOMAIN SettlementPosting(o, m, qty) = DOMAIN base \cup DOMAIN paid
  BY <1>1
<1>7. DOMAIN base \cup DOMAIN paid = SettlementAccounts(o, m)
  BY <1>2 DEF SettlementAccounts
<1> QED BY <1>1, <1>2, <1>3, <1>4, <1>5, <1>6, <1>7

(* A new order reserves what its creation locks.                           *)
LEMMA InsertKeepsRows ==
  ASSUME IsFiniteSet(Users), TradingInv, BooksInv, NEW o \in Orders, InsertOrder(o)
  PROVE  RowsKept'
<1> DEFINE row == [status |-> "OPEN", filled |-> 0, remaining |-> Req[o].qty,
                   released |-> 0, createdAt |-> place[o].createdAt]
           D == DOMAIN order
           from == Available(Req[o].user, LockAsset(o))
           to == Locked(Req[o].user, LockAsset(o))
           amount == LockOf(o, Req[o].qty)
<1>1. /\ o \notin D
      /\ order' = [m \in D \cup {o} |-> IF m = o THEN row ELSE order[m]]
      /\ balance' = Overwrite(balance, NextBalances(Transfer(from, to, amount), balance))
      /\ UNCHANGED <<trades, unlocked>>
  BY DEF InsertOrder, KeyTaken, BooksInv, ReadsCurrent, LockPosting
<1>2. TradingInv' /\ Books /\ Books' /\ RowsKept
  BY InsertSound DEF TradingInv, BooksInv
<1>3. /\ row.released = 0 /\ Matchable(row) /\ RemainingLock(o, row) = amount
      /\ amount \in Nat /\ row.filled = 0
  <2>1. amount \in Nat /\ LockOf(o, 0) = 0
    BY ReqTyped, LockOfType, LockOfNothing
  <2>2. row.released = 0 /\ row.filled = 0
    OBVIOUS
  <2> HIDE DEF amount
  <2> QED BY <2>1, <2>2 DEF RemainingLock, Matchable, amount
<1>4. /\ from \in Account /\ to \in Account /\ from # to
      /\ AssetOf(from) = LockAsset(o) /\ AssetOf(to) = LockAsset(o) /\ LockAsset(o) \in Assets
  BY ReqTyped, UserAccounts DEF Available, Locked, AssetOf
<1>5. /\ balance'[to] = balance[to] + amount
      /\ \A a \in Account \ {from, to} : balance'[a] = balance[a]
  BY <1>1, <1>2, <1>3, <1>4, TransferMoves
<1>6. DOMAIN order' = D \cup {o} /\ order'[o] = row /\ \A m \in D : order'[m] = order[m]
  BY <1>1
<1>7. Rows(order) /\ Deals(trades) /\ Rows(order')
  BY <1>2, RowsAndDeals DEF RowsKept, TradingInv, RowsSound, Rows
<1> HIDE DEF row, amount
<1>8. ClosedSound'
  BY <1>1, <1>2, <1>3, <1>6 DEF RowsKept, ClosedSound
<1>9. LockedSums'
  <2> SUFFICES ASSUME NEW user \in Users, NEW asset \in Assets
               PROVE  balance'[Locked(user, asset)] =
                        SumFunctionOnSet(ReservedBy(order', user, asset), D \cup {o})
                        + (IF asset = "QUOTE"
                           THEN SumFunctionOnSet(SavedIn(trades, user), trades) ELSE 0)
    BY <1>1, <1>6 DEF LockedSums
  <2> DEFINE f == ReservedBy(order, user, asset)
             g == ReservedBy(order', user, asset)
             its == user = Req[o].user /\ asset = LockAsset(o)
             saved == IF asset = "QUOTE"
                      THEN SumFunctionOnSet(SavedIn(trades, user), trades) ELSE 0
  <2>1. \A m \in D : f[m] \in Int /\ g[m] = f[m]
    <3>1. \A m \in D : f[m] \in Int
      BY <1>7, ReservedType
    <3>2. \A m \in D : g[m] = f[m]
      BY <1>6 DEF ReservedBy
    <3> QED BY <3>1, <3>2
  <2>2. g[o] = IF its THEN amount ELSE 0
    BY <1>3, <1>6 DEF ReservedBy
  <2>3. IsFiniteSet(D) /\ SumFunctionOnSet(f, D) \in Int
    BY <1>7, <2>1, SumType DEF Rows
  <2>4. balance'[Locked(user, asset)] =
          balance[Locked(user, asset)] + (IF its THEN amount ELSE 0)
    <3>1. CASE its
      BY <1>5, <3>1
    <3>2. CASE ~its
      <4>1. Locked(user, asset) \in Account \ {from, to}
        BY <3>2, UserAccounts DEF Locked, Available
      <4>2. balance[Locked(user, asset)] \in Int
        BY <1>2, <4>1 DEF Books, IsBalances
      <4> QED BY <1>5, <3>2, <4>1, <4>2
    <3> QED BY <3>1, <3>2
  <2>5. balance[Locked(user, asset)] = SumFunctionOnSet(f, D) + saved
    BY <1>2 DEF RowsKept, LockedSums
  <2>6. saved \in Int
    <3>1. IsFiniteSet(trades) /\ \A t \in trades : SavedIn(trades, user)[t] \in Int
      BY <1>7, SavedSumsType DEF Deals
    <3> QED BY <3>1, SumType
  <2> HIDE DEF f, g, its, saved
  <2>7. SumFunctionOnSet(g, D \cup {o}) = SumFunctionOnSet(f, D) + (IF its THEN amount ELSE 0)
    <3>1. \A m \in D : g[m] \in Int
      BY <2>1
    <3>2. SumFunctionOnSet(g, D) = SumFunctionOnSet(f, D)
      BY <2>1, <2>3, SumOfEqual
    <3>3. g[o] \in Int
      BY <1>3, <2>2
    <3>4. SumFunctionOnSet(g, D \cup {o}) = SumFunctionOnSet(g, D) + g[o]
      BY <1>1, <2>3, <3>1, <3>3, SumAdds
    <3> QED BY <2>2, <3>2, <3>4
  <2>8. balance'[Locked(user, asset)] = SumFunctionOnSet(g, D \cup {o}) + saved
    <3>1. (IF its THEN amount ELSE 0) \in Int
      BY <1>3
    <3> QED BY <2>3, <2>4, <2>5, <2>6, <2>7, <3>1
  <2> QED BY <2>8 DEF g, saved
<1>10. FillSums'
  <2> SUFFICES ASSUME NEW m \in D \cup {o}
               PROVE  order'[m].filled = SumFunctionOnSet(FilledIn(trades, m), trades)
    BY <1>1, <1>6 DEF FillSums
  <2>1. CASE m \in D
    BY <1>2, <1>6, <2>1 DEF RowsKept, FillSums
  <2>2. CASE m = o
    <3>1. \A t \in trades : FilledIn(trades, o)[t] = 0
      BY <1>1, <1>2 DEF RowsKept, ClosedSound, FilledIn
    <3>2. SumFunctionOnSet(FilledIn(trades, o), trades) = 0
      BY <1>7, <3>1, SumOfZeros DEF Deals
    <3> QED BY <1>3, <1>6, <2>2, <3>2
  <2> QED BY <2>1, <2>2
<1>11. AssetsConserved'
  <2>1. \A asset \in Assets : SumFunctionOnSet(balance', AccountsIn(asset)) =
                                 SumFunctionOnSet(balance, AccountsIn(asset))
    <3> HIDE DEF from, to
    <3> QED BY <1>1, <1>2, <1>3, <1>4, TransferConserves
  <2> QED BY <1>2, <2>1 DEF RowsKept, AssetsConserved, AccountsIn
<1> QED BY <1>8, <1>9, <1>10, <1>11 DEF RowsKept

(* A cancellation unlocks what the order still reserves.                   *)
LEMMA CancelKeepsRows ==
  ASSUME IsFiniteSet(Users), TradingInv, SerialInv, BooksInv, NEW o \in Orders, CommitCancel(o)
  PROVE  /\ RowsKept'
         /\ DOMAIN order' = DOMAIN order
         /\ \A m \in DOMAIN order : Matchable(order'[m]) => Matchable(order[m])
<1> DEFINE D == DOMAIN order
           amount == cancel[o].amount
           row == [order[o] EXCEPT !.status = "CANCELLED", !.released = amount]
           from == Locked(Req[o].user, LockAsset(o))
           to == Available(Req[o].user, LockAsset(o))
<1>1. /\ cancel[o].at = "closing" /\ o \in D /\ amount \in Nat
      /\ ~cancel[o].replay /\ cancel[o].released = 0
      /\ amount = RemainingLock(o, order[o]) /\ Matchable(order[o])
      /\ cancel[o].next = NextBalances(Transfer(from, to, amount), balance)
  BY DEF CommitCancel, TradingInv, Handlers, CancelSound, SerialInv, CopyFresh, BooksInv,
         ReadsCurrent, UnlockPosting
<1>2. o \notin unlocked
  BY <1>1 DEF BooksInv, RowsKept, ClosedSound
<1>3. /\ unlocked' = unlocked \cup {o} /\ UNCHANGED trades
      /\ order' = [order EXCEPT ![o].status = "CANCELLED", ![o].released = 0 + amount]
      /\ balance' = Overwrite(balance, NextBalances(Transfer(from, to, amount), balance))
  BY <1>1, <1>2 DEF CommitCancel
<1>4. /\ DOMAIN order' = D /\ order'[o] = row
      /\ \A m \in D \ {o} : order'[m] = order[m]
  <2>1. 0 + amount = amount
    BY <1>1
  <2> HIDE DEF amount
  <2> QED BY <1>1, <1>3, <2>1
<1>5. ~Matchable(row) /\ row.filled = order[o].filled
  <2>1. RowSound(o, order[o])
    BY <1>1 DEF TradingInv, RowsSound
  <2>2. {"status", "filled", "released"} \subseteq DOMAIN order[o]
    BY <2>1 DEF RowSound, Row
  <2> HIDE DEF amount
  <2>3. row.status = "CANCELLED" /\ row.filled = order[o].filled
    BY <2>2
  <2> QED BY <2>3 DEF Matchable
<1>6. TradingInv' /\ Books /\ Books' /\ RowsKept
  BY CommitCancelSound DEF TradingInv, BooksInv
<1>7. /\ from \in Account /\ to \in Account /\ from # to
      /\ AssetOf(from) = LockAsset(o) /\ AssetOf(to) = LockAsset(o) /\ LockAsset(o) \in Assets
  BY ReqTyped, UserAccounts DEF Available, Locked, AssetOf
<1> HIDE DEF row, amount
<1>8. /\ balance'[from] = balance[from] - amount
      /\ \A a \in Account \ {from, to} : balance'[a] = balance[a]
  BY <1>1, <1>3, <1>6, <1>7, TransferMoves
<1>9. Rows(order) /\ Deals(trades)
  BY <1>6, RowsAndDeals DEF RowsKept
<1>10. \A m \in D : Matchable(order'[m]) => Matchable(order[m]) /\ order'[m] = order[m]
  BY <1>4, <1>5
<1>11. ClosedSound'
  <2>1. ~Matchable(order'[o])
    BY <1>4, <1>5
  <2> QED BY <1>1, <1>3, <1>4, <1>6, <1>10, <2>1 DEF RowsKept, ClosedSound
<1>12. LockedSums'
  <2> SUFFICES ASSUME NEW user \in Users, NEW asset \in Assets
               PROVE  balance'[Locked(user, asset)] =
                        SumFunctionOnSet(ReservedBy(order', user, asset), D)
                        + (IF asset = "QUOTE"
                           THEN SumFunctionOnSet(SavedIn(trades, user), trades) ELSE 0)
    <3>1. trades' = trades /\ DOMAIN order' = D
      BY <1>3, <1>4
    <3> QED BY <3>1 DEF LockedSums
  <2> DEFINE f == ReservedBy(order, user, asset)
             g == ReservedBy(order', user, asset)
             its == user = Req[o].user /\ asset = LockAsset(o)
             saved == IF asset = "QUOTE"
                      THEN SumFunctionOnSet(SavedIn(trades, user), trades) ELSE 0
  <2>1. /\ g[o] = 0 /\ f[o] = IF its THEN amount ELSE 0
        /\ \A m \in D \ {o} : g[m] = f[m]
    BY <1>1, <1>4, <1>5 DEF ReservedBy
  <2>2. \A m \in D : f[m] \in Int
    BY <1>9, ReservedType
  <2>3. \A m \in D : f[m] \in Int /\ g[m] \in Int
    BY <2>1, <2>2
  <2>4. IsFiniteSet(D) /\ SumFunctionOnSet(f, D) \in Int
    BY <1>9, <2>2, SumType DEF Rows
  <2>5. balance'[Locked(user, asset)] =
          balance[Locked(user, asset)] - (IF its THEN amount ELSE 0)
    <3>1. CASE its
      BY <1>8, <3>1
    <3>2. CASE ~its
      <4>1. Locked(user, asset) \in Account \ {from, to}
        BY <3>2, UserAccounts DEF Locked, Available
      <4>2. balance[Locked(user, asset)] \in Int
        BY <1>6, <4>1 DEF Books, IsBalances
      <4> QED BY <1>8, <3>2, <4>1, <4>2
    <3> QED BY <3>1, <3>2
  <2>6. balance[Locked(user, asset)] = SumFunctionOnSet(f, D) + saved
    BY <1>6 DEF RowsKept, LockedSums
  <2>7. saved \in Int
    <3>1. IsFiniteSet(trades) /\ \A t \in trades : SavedIn(trades, user)[t] \in Int
      BY <1>9, SavedSumsType DEF Deals
    <3> QED BY <3>1, SumType
  <2> HIDE DEF f, g, its, saved
  <2>8. SumFunctionOnSet(g, D) = SumFunctionOnSet(f, D) + g[o] - f[o]
    <3>1. g[o] \in Int /\ f[o] \in Int /\ \A m \in D \ {o} : g[m] = f[m]
      BY <1>1, <2>1, <2>3
    <3> HIDE DEF D
    <3> QED BY <1>1, <2>3, <2>4, <3>1, SumUpdates
  <2>9. (IF its THEN amount ELSE 0) \in Int
    BY <1>1
  <2>10. balance'[Locked(user, asset)] = SumFunctionOnSet(g, D) + saved
    BY <2>1, <2>4, <2>5, <2>6, <2>7, <2>8, <2>9
  <2> QED BY <2>10 DEF g, saved
<1>13. FillSums'
  BY <1>3, <1>4, <1>5, <1>6 DEF RowsKept, FillSums
<1>14. AssetsConserved'
  <2>1. \A asset \in Assets : SumFunctionOnSet(balance', AccountsIn(asset)) =
                                 SumFunctionOnSet(balance, AccountsIn(asset))
    <3> HIDE DEF from, to
    <3> QED BY <1>1, <1>3, <1>6, <1>7, TransferConserves
  <2> QED BY <1>6, <2>1 DEF RowsKept, AssetsConserved, AccountsIn
<1> QED BY <1>4, <1>10, <1>11, <1>12, <1>13, <1>14 DEF RowsKept

(* What a match is about to trade, when nothing else runs.                 *)
LEMMA Meets ==
  ASSUME TradingInv, SerialInv, BooksInv, NEW o \in Orders, place[o].at \in {"found", "settling"}
  PROVE  LET m == place[o].maker
             qty == FillQuantity(o)
         IN  /\ o \in DOMAIN order /\ m \in DOMAIN order /\ m \in Orders
             /\ Opposite(o, m) /\ Crosses(o, m)
             /\ place[o].mine = order[o] /\ place[o].theirs = order[m]
             /\ \A k \in {o, m} : /\ Matchable(order[k]) /\ RowSound(k, order[k])
                                  /\ order[k].released = 0 /\ qty <= order[k].remaining
             /\ qty \in Nat /\ 0 < qty
             /\ qty = order[o].remaining \/ qty = order[m].remaining
<1> DEFINE m == place[o].maker
           qty == FillQuantity(o)
<1>1. /\ o \in DOMAIN order /\ m \in Candidates(o)
      /\ place[o].mine = order[o] /\ place[o].theirs = order[m]
      /\ Matchable(order[o])
  BY DEF TradingInv, Handlers, HandlerSound, SerialInv, CopyFresh
<1>2. m \in DOMAIN order /\ Opposite(o, m) /\ Crosses(o, m) /\ Matchable(order[m])
  BY <1>1 DEF Candidates
<1>3. m \in Orders /\ RowSound(o, order[o]) /\ RowSound(m, order[m])
  BY <1>1, <1>2 DEF TradingInv, RowsSound
<1>4. order[o].released = 0 /\ order[m].released = 0
  BY <1>1, <1>2 DEF BooksInv, RowsKept, ClosedSound
<1>5. qty \in Nat /\ 0 < qty /\ qty <= order[o].remaining /\ qty <= order[m].remaining
  BY <1>1, FillFits
<1>6. qty = order[o].remaining \/ qty = order[m].remaining
  <2>1. order[o].remaining \in Int /\ order[m].remaining \in Int
    BY <1>3 DEF RowSound, Row
  <2> QED BY <1>1, <2>1, MinOfTwo DEF FillQuantity
<1> QED BY <1>1, <1>2, <1>3, <1>4, <1>5, <1>6

(* A match takes from each lock what it settles; what the buyer's order    *)
(* accounted for beyond that is what he saved.                             *)
LEMMA MatchKeepsRows ==
  ASSUME IsFiniteSet(Users), TradingInv, SerialInv, BooksInv, NEW o \in Orders, CommitTrade(o)
  PROVE  /\ RowsKept'
         /\ DOMAIN order' = DOMAIN order
         /\ \A k \in DOMAIN order : Matchable(order'[k]) => Matchable(order[k])
<1> DEFINE D == DOMAIN order
           m == place[o].maker
           qty == FillQuantity(o)
           price == ExecutionPrice(o, m)
           posting == SettlementPosting(o, m, qty)
           t == [taker |-> o, maker |-> m, qty |-> qty, price |-> price]
           b == BuyOrder(o, m)
           s == SellOrder(o, m)
           New(k) == [Filled(order[k], qty) EXCEPT !.released = order[k].released]
<1>1. /\ place[o].at = "settling" /\ ~PairTraded(o, m)
      /\ trades' = trades \cup {t}
      /\ balance' = Overwrite(balance, NextBalances(posting, balance))
      /\ UNCHANGED unlocked
  BY DEF CommitTrade, BooksInv, ReadsCurrent
<1>2. /\ o \in D /\ m \in D /\ m \in Orders
      /\ Opposite(o, m) /\ Crosses(o, m)
      /\ place[o].mine = order[o] /\ place[o].theirs = order[m]
      /\ \A k \in {o, m} : /\ Matchable(order[k]) /\ RowSound(k, order[k])
                           /\ order[k].released = 0 /\ qty <= order[k].remaining
      /\ qty \in Nat /\ 0 < qty
      /\ qty = order[o].remaining \/ qty = order[m].remaining
  BY <1>1, Meets
<1>3. TradingInv' /\ Books /\ Books' /\ RowsKept
  BY MatchSound DEF TradingInv, BooksInv
<1>4. Rows(order) /\ Deals(trades)
  BY <1>3, RowsAndDeals DEF RowsKept
<1>5. /\ DOMAIN order' = D /\ order'[o] = New(o) /\ order'[m] = New(m)
      /\ \A k \in D \ {o, m} : order'[k] = order[k]
  BY <1>2, MatchWrites
<1>6. \A k \in {o, m} :
         /\ (IF Matchable(New(k)) THEN RemainingLock(k, New(k)) ELSE 0) =
               RemainingLock(k, order[k]) - LockOf(k, qty)
         /\ New(k).filled = order[k].filled + qty
         /\ New(k).released = 0
         /\ Matchable(New(k)) <=> qty # order[k].remaining
  BY <1>2, FillReleases
<1>7. /\ b \in Orders /\ s \in Orders /\ {o, m} = {b, s} /\ b # s /\ o # m
      /\ Req[b].user \in Users /\ Req[s].user \in Users /\ Req[b].user # Req[s].user
      /\ LockAsset(b) = "QUOTE" /\ LockAsset(s) = "BASE"
      /\ LockOf(b, qty) = Req[b].price * qty /\ LockOf(s, qty) = qty
      /\ price <= Req[b].price /\ price \in Nat
  BY <1>2, TwoSides
<1>8. /\ IsPosting(posting)
      /\ DOMAIN posting = {Locked(Req[s].user, "BASE"), Available(Req[b].user, "BASE"),
                           Locked(Req[b].user, "QUOTE"), Available(Req[s].user, "QUOTE")}
      /\ posting[Locked(Req[s].user, "BASE")].amount = -qty
      /\ posting[Available(Req[b].user, "BASE")].amount = qty
      /\ posting[Locked(Req[b].user, "QUOTE")].amount = -(price * qty)
      /\ posting[Available(Req[s].user, "QUOTE")].amount = price * qty
  <2>1. IsPosting(posting)
    BY <1>2, SettlementIsPosting
  <2> HIDE DEF qty, m
  <2>2. /\ o \in Orders /\ m \in Orders /\ Opposite(o, m) /\ Crosses(o, m) /\ qty \in Nat
    BY <1>2
  <2>3. price * qty \in Int
    BY <1>7, <2>2
  <2>4. DOMAIN posting = {Locked(Req[s].user, "BASE"), Available(Req[b].user, "BASE"),
                           Locked(Req[b].user, "QUOTE"), Available(Req[s].user, "QUOTE")}
    <3>1. DOMAIN posting = SettlementAccounts(o, m)
      BY <2>2, SettlementEntries
    <3> HIDE DEF posting
    <3> QED BY <3>1 DEF SettlementAccounts
  <2>5. posting[Locked(Req[s].user, "BASE")].amount = -qty
    BY <2>2, SettlementEntries
  <2>6. posting[Available(Req[b].user, "BASE")].amount = qty
    BY <2>2, SettlementEntries
  <2>7. posting[Locked(Req[b].user, "QUOTE")].amount = -(price * qty)
    BY <2>2, <2>3, SettlementEntries
  <2>8. posting[Available(Req[s].user, "QUOTE")].amount = price * qty
    BY <2>2, <2>3, SettlementEntries
  <2> QED BY <2>1, <2>4, <2>5, <2>6, <2>7, <2>8
<1>9. Buyer(t) = b /\ t.price = price /\ t.qty = qty /\ t.taker = o /\ t.maker = m
  BY DEF Buyer, BuyOrder
<1>10. t \notin trades
  BY <1>1 DEF PairTraded
<1> HIDE DEF qty, price, posting, b, s, t, New, m
<1>11. \A k \in D : Matchable(order'[k]) => Matchable(order[k])
  BY <1>2, <1>5
<1>12. ClosedSound'
  <2>1. IsFiniteSet(trades')
    BY <1>1, <1>4, FS_AddElement DEF Deals
  <2>2. \A k \in D : Matchable(order'[k]) => order'[k].released = 0
    BY <1>3, <1>5, <1>6 DEF RowsKept, ClosedSound
  <2>3. \A k \in unlocked : k \in D /\ ~Matchable(order'[k])
    BY <1>3, <1>11 DEF RowsKept, ClosedSound
  <2>4. \A u \in trades : /\ u.taker \in D /\ u.maker \in D
                          /\ ~Matchable(order'[u.taker]) \/ ~Matchable(order'[u.maker])
    BY <1>3, <1>11 DEF RowsKept, ClosedSound
  <2>5. ~Matchable(order'[o]) \/ ~Matchable(order'[m])
    BY <1>2, <1>5, <1>6
  <2> QED BY <1>1, <1>2, <1>5, <1>9, <2>1, <2>2, <2>3, <2>4, <2>5 DEF ClosedSound
<1>13. FillSums'
  <2> SUFFICES ASSUME NEW k \in D
               PROVE  order'[k].filled = SumFunctionOnSet(FilledIn(trades', k), trades')
    BY <1>5 DEF FillSums
  <2> DEFINE f == FilledIn(trades, k)
             g == FilledIn(trades', k)
             more == IF k \in {o, m} THEN qty ELSE 0
  <2>1. g[t] = more /\ \A u \in trades : g[u] = f[u]
    BY <1>1, <1>9 DEF FilledIn
  <2>2. \A u \in trades : f[u] \in Int /\ g[u] \in Int
    BY <1>4, <2>1, FilledType
  <2>3. IsFiniteSet(trades) /\ SumFunctionOnSet(f, trades) \in Int
    BY <1>4, <2>2, SumType DEF Deals
  <2>4. order[k].filled = SumFunctionOnSet(f, trades) /\ order[k].filled \in Int
    BY <1>3, <1>4 DEF RowsKept, FillSums, Rows, RowSound, Row
  <2>5. order'[k].filled = order[k].filled + more
    <3>1. CASE k \in {o, m}
      BY <1>5, <1>6, <3>1
    <3>2. CASE k \notin {o, m}
      BY <1>5, <2>4, <3>2
    <3> QED BY <3>1, <3>2
  <2>6. more \in Int
    BY <1>2
  <2> HIDE DEF f, g, more
  <2>7. SumFunctionOnSet(g, trades) = SumFunctionOnSet(f, trades)
    <3>1. IsFiniteSet(trades) /\ \A u \in trades : f[u] \in Int /\ g[u] = f[u]
      BY <2>1, <2>2, <2>3
    <3> QED BY <3>1, SumOfEqual
  <2>8. SumFunctionOnSet(g, trades \cup {t}) = SumFunctionOnSet(g, trades) + g[t]
    BY <1>10, <2>1, <2>2, <2>3, <2>6, SumAdds
  <2>9. order'[k].filled = SumFunctionOnSet(g, trades')
    BY <1>1, <2>1, <2>4, <2>5, <2>7, <2>8
  <2> QED BY <2>9 DEF g
<1>14. \A a \in Account :
          balance'[a] = IF a \in DOMAIN posting THEN balance[a] + posting[a].amount
                                                ELSE balance[a]
  BY <1>1, <1>3, <1>8, WriteAdds
<1>15. /\ "BASE" \in Assets /\ "QUOTE" \in Assets
       /\ \A u \in {Req[b].user, Req[s].user}, asset \in {"BASE", "QUOTE"} :
             /\ Available(u, asset) \in Account /\ AssetOf(Available(u, asset)) = asset
             /\ Locked(u, asset) \in Account /\ AssetOf(Locked(u, asset)) = asset
             /\ balance[Available(u, asset)] \in Int /\ balance[Locked(u, asset)] \in Int
  <2>1. "BASE" \in Assets /\ "QUOTE" \in Assets
    BY AssetsAssumption
  <2>2. \A u \in Users, asset \in Assets :
           Available(u, asset) \in Account /\ Locked(u, asset) \in Account
    BY UserAccounts
  <2>3. \A a \in Account : balance[a] \in Int
    BY <1>3 DEF Books, IsBalances
  <2> QED BY <1>7, <2>1, <2>2, <2>3 DEF Available, Locked, AssetOf
<1>16. AssetsConserved'
  <2> SUFFICES ASSUME NEW asset \in Assets
               PROVE  SumFunctionOnSet(balance', AccountsIn(asset)) =
                         SumFunctionOnSet(balance, AccountsIn(asset))
    BY <1>3 DEF RowsKept, AssetsConserved, AccountsIn
  <2>1. ASSUME NEW from \in AccountsIn(asset), NEW to \in AccountsIn(asset), from # to,
               NEW n \in Int, from \in DOMAIN posting, to \in DOMAIN posting,
               posting[from].amount = -n, posting[to].amount = n,
               \A a \in AccountsIn(asset) \ {from, to} : a \notin DOMAIN posting
        PROVE  SumFunctionOnSet(balance', AccountsIn(asset)) =
                  SumFunctionOnSet(balance, AccountsIn(asset))
    <3>1. balance[from] \in Int
      BY <1>3 DEF Books, IsBalances, AccountsIn
    <3>2. balance'[from] = balance[from] - n /\ balance'[to] = balance[to] + n
      <4>1. balance'[from] = balance[from] + (-n) /\ balance'[to] = balance[to] + n
        BY <1>14, <2>1 DEF AccountsIn
      <4> QED BY <3>1, <4>1
    <3>3. \A a \in AccountsIn(asset) \ {from, to} : balance'[a] = balance[a]
      BY <1>14, <2>1 DEF AccountsIn
    <3> QED BY <1>3, <2>1, <3>2, <3>3, MoveConserves
  <2>2. CASE asset = "BASE"
    <3> DEFINE from == Locked(Req[s].user, "BASE")
               to == Available(Req[b].user, "BASE")
    <3>1. from \in AccountsIn(asset) /\ to \in AccountsIn(asset) /\ from # to
      BY <1>15, <2>2 DEF AccountsIn, Locked, Available
    <3>2. \A a \in AccountsIn(asset) \ {from, to} : a \notin DOMAIN posting
      BY <1>8, <1>15, <2>2 DEF AccountsIn
    <3>3. /\ from \in DOMAIN posting /\ to \in DOMAIN posting
          /\ posting[from].amount = -qty /\ posting[to].amount = qty /\ qty \in Int
      BY <1>2, <1>8
    <3> HIDE DEF from, to
    <3> QED BY <2>1, <3>1, <3>2, <3>3
  <2>3. CASE asset = "QUOTE"
    <3> DEFINE from == Locked(Req[b].user, "QUOTE")
               to == Available(Req[s].user, "QUOTE")
               n == price * qty
    <3>1. from \in AccountsIn(asset) /\ to \in AccountsIn(asset) /\ from # to
      BY <1>15, <2>3 DEF AccountsIn, Locked, Available
    <3>2. \A a \in AccountsIn(asset) \ {from, to} : a \notin DOMAIN posting
      BY <1>8, <1>15, <2>3 DEF AccountsIn
    <3>3. /\ from \in DOMAIN posting /\ to \in DOMAIN posting
          /\ posting[from].amount = -n /\ posting[to].amount = n /\ n \in Int
      BY <1>2, <1>7, <1>8
    <3> HIDE DEF from, to, n
    <3> QED BY <2>1, <3>1, <3>2, <3>3
  <2> QED BY <2>2, <2>3, AssetsAssumption
<1>17. LockedSums'
  <2> SUFFICES ASSUME NEW user \in Users, NEW asset \in Assets
               PROVE  balance'[Locked(user, asset)] =
                        SumFunctionOnSet(ReservedBy(order', user, asset), D)
                        + (IF asset = "QUOTE"
                           THEN SumFunctionOnSet(SavedIn(trades', user), trades') ELSE 0)
    BY <1>5 DEF LockedSums
  <2> DEFINE f == ReservedBy(order, user, asset)
             g == ReservedBy(order', user, asset)
             before == SumFunctionOnSet(SavedIn(trades, user), trades)
             after == SumFunctionOnSet(SavedIn(trades', user), trades')
             surplus == (Req[b].price - price) * qty
  <2>1. \A k \in D : f[k] \in Int
    BY <1>4, ReservedType
  <2>2. /\ \A k \in D : g[k] \in Int
        /\ \A k \in D \ {b, s} : g[k] = f[k]
        /\ g[b] = f[b] - (IF Req[b].user = user /\ asset = "QUOTE"
                          THEN Req[b].price * qty ELSE 0)
        /\ g[s] = f[s] - (IF Req[s].user = user /\ asset = "BASE" THEN qty ELSE 0)
    <3>1. \A k \in {b, s} :
             g[k] = f[k] - (IF Req[k].user = user /\ LockAsset(k) = asset
                            THEN LockOf(k, qty) ELSE 0)
      <4> SUFFICES ASSUME NEW k \in {o, m}
                   PROVE  g[k] = f[k] - (IF Req[k].user = user /\ LockAsset(k) = asset
                                         THEN LockOf(k, qty) ELSE 0)
        BY <1>7
      <4>1. order'[k] = New(k) /\ k \in D /\ DOMAIN order' = D
        BY <1>2, <1>5
      <4>2. CASE Req[k].user = user /\ LockAsset(k) = asset
        <5>1. g[k] = IF Matchable(New(k)) THEN RemainingLock(k, New(k)) ELSE 0
          BY <4>1, <4>2 DEF ReservedBy
        <5>2. f[k] = RemainingLock(k, order[k])
          BY <1>2, <4>1, <4>2 DEF ReservedBy
        <5> QED BY <1>6, <4>2, <5>1, <5>2
      <4>3. CASE ~(Req[k].user = user /\ LockAsset(k) = asset)
        BY <4>1, <4>3 DEF ReservedBy
      <4> QED BY <4>2, <4>3
    <3>2. /\ g[b] = f[b] - (IF Req[b].user = user /\ asset = "QUOTE"
                            THEN Req[b].price * qty ELSE 0)
          /\ g[s] = f[s] - (IF Req[s].user = user /\ asset = "BASE" THEN qty ELSE 0)
      BY <1>7, <3>1
    <3>3. \A k \in D \ {b, s} : g[k] = f[k]
      BY <1>5, <1>7 DEF ReservedBy
    <3>4. Req[b].price * qty \in Int /\ qty \in Int
      BY <1>2, <1>7, ReqTyped
    <3>5. b \in D /\ s \in D
      BY <1>2, <1>7
    <3>6. \A k \in D : g[k] \in Int
      <4>1. g[b] \in Int /\ g[s] \in Int
        BY <2>1, <3>2, <3>4, <3>5
      <4> QED BY <2>1, <3>3, <4>1
    <3> QED BY <3>2, <3>3, <3>6
  <2>3. b \in D /\ s \in D /\ IsFiniteSet(D) /\ SumFunctionOnSet(f, D) \in Int
    BY <1>2, <1>4, <1>7, <2>1, SumType DEF Rows
  <2>4. before \in Int
    <3>1. IsFiniteSet(trades) /\ \A u \in trades : SavedIn(trades, user)[u] \in Int
      BY <1>4, SavedSumsType DEF Deals
    <3> QED BY <3>1, SumType
  <2>5. surplus \in Int
    BY <1>2, <1>7, ReqTyped
  <2>6. after = before + (IF Req[b].user = user THEN surplus ELSE 0)
    <3> DEFINE v == SavedIn(trades, user)
               w == SavedIn(trades', user)
    <3>1. /\ w[t] = IF Req[b].user = user THEN surplus ELSE 0
          /\ \A u \in trades : w[u] = v[u]
      BY <1>1, <1>9 DEF SavedIn
    <3>2. IsFiniteSet(trades) /\ \A u \in trades : w[u] \in Int
      BY <1>4, <3>1, SavedSumsType DEF Deals
    <3> HIDE DEF v, w, surplus
    <3>3. SumFunctionOnSet(w, trades) = SumFunctionOnSet(v, trades)
      BY <3>1, <3>2, SumOfEqual
    <3>4. w[t] \in Int
      BY <2>5, <3>1
    <3>5. SumFunctionOnSet(w, trades \cup {t}) = SumFunctionOnSet(w, trades) + w[t]
      BY <1>10, <3>2, <3>4, SumAdds
    <3> QED BY <1>1, <3>1, <3>3, <3>5 DEF v, w
  <2>7. SumFunctionOnSet(g, D) = SumFunctionOnSet(f, D) + (g[b] - f[b]) + (g[s] - f[s])
    <3>1. \A k \in D : f[k] \in Int /\ g[k] \in Int
      BY <2>1, <2>2
    <3>2. \A k \in D \ {b, s} : g[k] = f[k]
      BY <2>2
    <3>3. f[b] \in Int /\ f[s] \in Int /\ g[b] \in Int /\ g[s] \in Int /\ b # s
      BY <1>7, <2>3, <3>1
    <3> HIDE DEF f, g, D
    <3> QED BY <2>3, <3>1, <3>2, <3>3, SumUpdatesTwo
  <2>8. balance[Locked(user, asset)] =
           SumFunctionOnSet(f, D) + (IF asset = "QUOTE" THEN before ELSE 0)
    BY <1>3 DEF RowsKept, LockedSums
  <2>9. /\ f[b] \in Int /\ f[s] \in Int /\ qty \in Int /\ price * qty \in Int
        /\ Req[b].price * qty \in Int
        /\ surplus = Req[b].price * qty - price * qty
    <3>1. Req[b].price \in Int /\ price \in Int /\ qty \in Int
      BY <1>2, <1>7, ReqTyped
    <3>2. (Req[b].price - price) * qty = Req[b].price * qty - price * qty
      BY <3>1
    <3> QED BY <2>1, <2>3, <3>1, <3>2
  <2>10. Locked(user, asset) \in Account
    BY UserAccounts
  <2> HIDE DEF f, g, before, after, surplus
  <2>11. CASE user = Req[b].user /\ asset = "QUOTE"
    <3>1. balance'[Locked(user, asset)] = balance[Locked(user, asset)] + (-(price * qty))
      BY <1>8, <1>14, <2>10, <2>11
    <3>2. /\ g[b] = f[b] - Req[b].price * qty /\ g[s] = f[s] - 0
          /\ after = before + surplus
          /\ balance[Locked(user, asset)] = SumFunctionOnSet(f, D) + before
      BY <1>7, <2>2, <2>6, <2>8, <2>11
    <3>3. balance'[Locked(user, asset)] = SumFunctionOnSet(g, D) + after
      BY <2>3, <2>4, <2>5, <2>7, <2>9, <3>1, <3>2
    <3> QED BY <2>11, <3>3 DEF g, after
  <2>12. CASE user = Req[s].user /\ asset = "BASE"
    <3>1. balance'[Locked(user, asset)] = balance[Locked(user, asset)] + (-qty)
      BY <1>8, <1>14, <2>10, <2>12
    <3>2. /\ g[b] = f[b] - 0 /\ g[s] = f[s] - qty
          /\ balance[Locked(user, asset)] = SumFunctionOnSet(f, D) + 0
      BY <1>7, <2>2, <2>8, <2>12
    <3>3. balance'[Locked(user, asset)] = SumFunctionOnSet(g, D) + 0
      BY <2>3, <2>7, <2>9, <3>1, <3>2
    <3> QED BY <2>12, <3>3 DEF g
  <2>13. CASE ~(user = Req[b].user /\ asset = "QUOTE") /\ ~(user = Req[s].user /\ asset = "BASE")
    <3>1. Locked(user, asset) \notin DOMAIN posting
      BY <1>8, <2>13 DEF Locked, Available
    <3>2. balance'[Locked(user, asset)] = balance[Locked(user, asset)]
      BY <1>14, <2>10, <3>1
    <3>3. g[b] = f[b] - 0 /\ g[s] = f[s] - 0
      BY <2>2, <2>13
    <3>4. SumFunctionOnSet(g, D) = SumFunctionOnSet(f, D)
      BY <2>3, <2>7, <2>9, <3>3
    <3>5. asset = "QUOTE" => after = before
      BY <2>4, <2>6, <2>13
    <3>6. balance'[Locked(user, asset)] =
             SumFunctionOnSet(g, D) + (IF asset = "QUOTE" THEN after ELSE 0)
      BY <2>8, <3>2, <3>4, <3>5
    <3> QED BY <3>6 DEF g, after
  <2> QED BY <2>11, <2>12, <2>13
<1> QED BY <1>5, <1>11, <1>12, <1>13, <1>16, <1>17 DEF RowsKept
-------------------------------------------------------------------------------
(* No order reserves less than nothing, so each reserve is in the lock.    *)
LEMMA ReservesCovered ==
  ASSUME TradingInv, RowsKept, NEW user \in Users, NEW asset \in Assets, NEW o \in DOMAIN order,
         Req[o].user = user, LockAsset(o) = asset, Matchable(order[o])
  PROVE  /\ balance[Locked(user, asset)] \in Int
         /\ LockOf(o, order[o].remaining) <= balance[Locked(user, asset)]
<1> DEFINE f == ReservedBy(order, user, asset)
           saved == SumFunctionOnSet(SavedIn(trades, user), trades)
<1>1. Rows(order) /\ Deals(trades)
  BY RowsAndDeals DEF RowsKept
<1>2. \A k \in DOMAIN order : Matchable(order[k]) =>
         /\ RemainingLock(k, order[k]) = LockOf(k, order[k].remaining)
         /\ RemainingLock(k, order[k]) \in Nat
  <2> SUFFICES ASSUME NEW k \in DOMAIN order, Matchable(order[k])
               PROVE  /\ RemainingLock(k, order[k]) = LockOf(k, order[k].remaining)
                      /\ RemainingLock(k, order[k]) \in Nat
    OBVIOUS
  <2>1. k \in Orders /\ RowSound(k, order[k]) /\ order[k].released = 0
    BY <1>1 DEF Rows, RowsKept, ClosedSound
  <2>2. order[k].remaining \in Nat
    BY <2>1 DEF RowSound, Row
  <2> QED BY <2>1, <2>2, RemainingCovers, LockOfType
<1>3. \A k \in DOMAIN order : f[k] \in Nat
  BY <1>2 DEF ReservedBy
<1>4. f[o] = LockOf(o, order[o].remaining)
  BY <1>2 DEF ReservedBy
<1>5. saved \in Nat
  <2>1. IsFiniteSet(trades) /\ \A t \in trades : SavedIn(trades, user)[t] \in Nat
    BY <1>1, SavedSumsType DEF Deals
  <2> QED BY <2>1, SumAtLeast
<1>6. balance[Locked(user, asset)] =
        SumFunctionOnSet(f, DOMAIN order) + (IF asset = "QUOTE" THEN saved ELSE 0)
  BY DEF RowsKept, LockedSums
<1> HIDE DEF f, saved
<1>7. SumFunctionOnSet(f, DOMAIN order) \in Nat /\ f[o] <= SumFunctionOnSet(f, DOMAIN order)
  BY <1>1, <1>3, SumAtLeast DEF Rows
<1>8. f[o] \in Nat
  BY <1>3
<1> QED BY <1>4, <1>5, <1>6, <1>7, <1>8

(* So the ledger never refuses a settlement.                               *)
LEMMA SettlementPasses ==
  ASSUME TradingInv, SerialInv, BooksInv, NEW o \in Orders, place[o].at = "found"
  PROVE  ~Overdraws(NextBalances(SettlementPosting(o, place[o].maker, FillQuantity(o)), balance))
<1> DEFINE m == place[o].maker
           qty == FillQuantity(o)
           b == BuyOrder(o, m)
           s == SellOrder(o, m)
           price == ExecutionPrice(o, m)
           posting == SettlementPosting(o, m, qty)
<1>1. /\ o \in DOMAIN order /\ m \in DOMAIN order /\ m \in Orders
      /\ Opposite(o, m) /\ Crosses(o, m)
      /\ \A k \in {o, m} : /\ Matchable(order[k]) /\ RowSound(k, order[k])
                           /\ qty <= order[k].remaining
      /\ qty \in Nat
  BY Meets
<1>2. /\ b \in Orders /\ s \in Orders /\ {o, m} = {b, s}
      /\ Req[b].user \in Users /\ Req[s].user \in Users
      /\ LockAsset(b) = "QUOTE" /\ LockAsset(s) = "BASE"
      /\ \A q : LockOf(b, q) = Req[b].price * q /\ LockOf(s, q) = q
      /\ price <= Req[b].price /\ price \in Nat
  BY <1>1, TwoSides
<1> HIDE DEF qty, m
<1>3. /\ DOMAIN posting = SettlementAccounts(o, m)
      /\ posting[Locked(Req[s].user, "BASE")].amount = -qty
      /\ posting[Available(Req[b].user, "BASE")].amount = qty
      /\ posting[Locked(Req[b].user, "QUOTE")].amount = -(price * qty)
      /\ posting[Available(Req[s].user, "QUOTE")].amount = price * qty
  <2>1. price * qty \in Int
    BY <1>1, <1>2
  <2>2. DOMAIN posting = SettlementAccounts(o, m)
    BY <1>1, SettlementEntries
  <2>3. /\ posting[Locked(Req[s].user, "BASE")].amount = -qty
        /\ posting[Available(Req[b].user, "BASE")].amount = qty
    BY <1>1, SettlementEntries
  <2>4. posting[Locked(Req[b].user, "QUOTE")].amount = -(price * qty)
    BY <1>1, <2>1, SettlementEntries
  <2>5. posting[Available(Req[s].user, "QUOTE")].amount = price * qty
    BY <1>1, <2>1, SettlementEntries
  <2> QED BY <2>2, <2>3, <2>4, <2>5
<1> HIDE DEF posting, price
<1>4. b \in DOMAIN order /\ s \in DOMAIN order /\ RowsKept
  BY <1>1, <1>2 DEF BooksInv
<1>5. /\ order[b].remaining \in Nat /\ qty <= order[b].remaining /\ Matchable(order[b])
      /\ order[s].remaining \in Nat /\ qty <= order[s].remaining /\ Matchable(order[s])
  BY <1>1, <1>2 DEF RowSound, Row
<1>6. "BASE" \in Assets /\ "QUOTE" \in Assets
  BY AssetsAssumption
<1>7. /\ balance[Locked(Req[s].user, "BASE")] \in Int
      /\ qty <= balance[Locked(Req[s].user, "BASE")]
  <2>1. /\ balance[Locked(Req[s].user, "BASE")] \in Int
        /\ LockOf(s, order[s].remaining) <= balance[Locked(Req[s].user, "BASE")]
    BY <1>2, <1>4, <1>5, <1>6, ReservesCovered
  <2>2. LockOf(s, order[s].remaining) = order[s].remaining
    BY <1>2
  <2> HIDE DEF s
  <2> QED BY <1>1, <1>5, <2>1, <2>2
<1>8. /\ balance[Locked(Req[b].user, "QUOTE")] \in Int
      /\ price * qty <= balance[Locked(Req[b].user, "QUOTE")]
  <2>1. /\ balance[Locked(Req[b].user, "QUOTE")] \in Int
        /\ LockOf(b, order[b].remaining) <= balance[Locked(Req[b].user, "QUOTE")]
    BY <1>2, <1>4, <1>5, <1>6, ReservesCovered
  <2>2. LockOf(b, order[b].remaining) = Req[b].price * order[b].remaining
    BY <1>2
  <2>3. Req[b].price \in Nat
    BY <1>2, ReqTyped
  <2> DEFINE p == Req[b].price
             n == order[b].remaining
  <2>4. p \in Nat /\ n \in Nat /\ price \in Nat /\ qty \in Nat /\ price <= p /\ qty <= n
    BY <1>1, <1>2, <1>5, <2>3
  <2> HIDE DEF p, n
  <2>5. price * qty <= p * qty
    <3>1. p = price + (p - price) /\ p - price \in Nat
      BY <2>4
    <3>2. p * qty = price * qty + (p - price) * qty
      BY <2>4
    <3>3. (p - price) * qty \in Nat /\ price * qty \in Nat
      BY <2>4, <3>1
    <3> QED BY <3>2, <3>3
  <2>6. p * qty <= p * n
    <3>1. n - qty \in Nat
      BY <2>4
    <3>2. p * n = p * qty + p * (n - qty)
      BY <2>4
    <3>3. p * (n - qty) \in Nat /\ p * qty \in Nat
      BY <2>4, <3>1
    <3> QED BY <3>2, <3>3
  <2>7. price * qty \in Int /\ p * qty \in Int /\ p * n \in Int
    BY <2>4
  <2>8. p * n <= balance[Locked(Req[b].user, "QUOTE")]
    BY <2>1, <2>2 DEF p, n
  <2> HIDE DEF b
  <2> QED BY <2>1, <2>5, <2>6, <2>7, <2>8
<1>9. /\ balance[Available(Req[b].user, "BASE")] \in Nat
      /\ balance[Available(Req[s].user, "QUOTE")] \in Nat
  <2>1. /\ Available(Req[b].user, "BASE") \in Account
        /\ Available(Req[s].user, "QUOTE") \in Account
    BY <1>2, <1>6, UserAccounts
  <2>2. /\ IsUserOwned(Available(Req[b].user, "BASE"))
        /\ IsUserOwned(Available(Req[s].user, "QUOTE"))
    BY <1>2 DEF Available, IsUserOwned
  <2> QED BY <2>1, <2>2 DEF TradingInv, Books, IsBalances, UserBalancesNonNegative
<1>10. price * qty \in Nat
  BY <1>1, <1>2
<1>11. \A a \in SettlementAccounts(o, m) : balance[a] + posting[a].amount >= 0
  <2>1. balance[Locked(Req[s].user, "BASE")] + (-qty) >= 0
    BY <1>1, <1>7
  <2>2. balance[Available(Req[b].user, "BASE")] + qty >= 0
    BY <1>1, <1>9
  <2>3. balance[Locked(Req[b].user, "QUOTE")] + (-(price * qty)) >= 0
    BY <1>8, <1>10
  <2>4. balance[Available(Req[s].user, "QUOTE")] + price * qty >= 0
    BY <1>9, <1>10
  <2> QED BY <1>3, <2>1, <2>2, <2>3, <2>4 DEF SettlementAccounts
<1>12. \A a \in SettlementAccounts(o, m) : balance[a] + posting[a].amount \in Int
  BY <1>1, <1>3, <1>7, <1>8, <1>9, <1>10 DEF SettlementAccounts
<1>13. ~Overdraws(NextBalances(posting, balance))
  <2>1. \A a \in DOMAIN posting : ~(balance[a] + posting[a].amount < 0)
    BY <1>3, <1>11, <1>12
  <2> QED BY <2>1 DEF Overdraws, NextBalances
<1> QED BY <1>13 DEF posting, m, qty
-------------------------------------------------------------------------------

(* A handler that has read nothing of the books has nothing stale.         *)
LEMMA NothingRead ==
  ASSUME NEW o \in Orders, place'[o].at \notin {"creating", "settling"}, cancel'[o].at = "idle"
  PROVE  ReadsCurrent(o)'
BY DEF ReadsCurrent

(* Each step in turn: what it reads is current, what it writes keeps the   *)
(* books, and a pair that crosses stays in somebody's sweep.               *)
LEMMA SubmitBooks ==
  ASSUME MaxInFlight = 1, TradingInv, SerialInv, BooksInv, NEW o \in Orders, SubmitOrder(o)
  PROVE  BooksInv'
<1>1. /\ MayStart /\ DOMAIN place = Orders /\ place[o].at = "new"
      /\ UNCHANGED <<balance, order, trades, unlocked, cancel, crashes>>
  BY DEF SubmitOrder, TradingInv, Handlers
<1>2. Running = {} /\ Cancelling = {}
  BY <1>1, StartsAlone
<1>3. RowsKept'
  BY <1>1, ReadingKeepsRows DEF BooksInv
<1>4. \A m \in Orders \ {o} : place'[m] = place[m] /\ m \notin Running \cup Cancelling
  BY <1>1, <1>2 DEF SubmitOrder
<1>5. ReadsCurrent(o)'
  <2>1. cancel'[o].at = "idle"
    BY <1>1, <1>2 DEF Cancelling
  <2>2. CASE place' = [place EXCEPT ![o] = [at |-> "done"]]
    BY <1>1, <2>1, <2>2, NothingRead
  <2>3. CASE place' # [place EXCEPT ![o] = [at |-> "done"]]
    <3> DEFINE next == NextBalances(LockPosting(o), balance)
    <3>1. place' = [place EXCEPT ![o] = [at |-> "creating", next |-> next, createdAt |-> Now]]
      BY <2>3 DEF SubmitOrder
    <3> HIDE DEF next
    <3>2. place'[o].at = "creating" /\ place'[o].next = next
      BY <1>1, <3>1
    <3>3. next = NextBalances(LockPosting(o), balance')
      BY <1>1 DEF next
    <3> QED BY <2>1, <3>2, <3>3 DEF ReadsCurrent
  <2> QED BY <2>2, <2>3
<1>6. \A m \in Orders : ReadsCurrent(m)'
  BY <1>1, <1>4, <1>5, ReadsStayCurrent
<1>7. SweepsEnd'
  <2>1. DOMAIN order \subseteq Orders
    BY DEF TradingInv, RowsSound
  <2>2. \A m \in DOMAIN order : Sweeping(m) => Sweeping(m)'
    BY <1>1, <1>4, <2>1 DEF Sweeping
  <2> QED BY <1>1, <2>2, SweepsStay DEF BooksInv
<1> QED BY <1>3, <1>6, <1>7 DEF BooksInv

(* An order that is created locks what it reserves.                        *)
LEMMA InsertBooks ==
  ASSUME IsFiniteSet(Users), TradingInv, SerialInv, BooksInv, NEW o \in Orders, InsertOrder(o)
  PROVE  BooksInv'
<1> DEFINE row == [status |-> "OPEN", filled |-> 0, remaining |-> Req[o].qty,
                   released |-> 0, createdAt |-> place[o].createdAt]
<1>1. /\ place[o].at = "creating" /\ DOMAIN place = Orders /\ UNCHANGED <<cancel, crashes>>
      /\ order' = [m \in DOMAIN order \cup {o} |-> IF m = o THEN row ELSE order[m]]
      /\ place' = [place EXCEPT ![o] = [at |-> "matching", mine |-> row]]
  BY DEF InsertOrder, TradingInv, Handlers
<1> HIDE DEF row
<1>2. o \in Running
  BY <1>1 DEF Running
<1>3. /\ \A m \in Orders \ {o} : place'[m] = place[m] /\ cancel'[m] = cancel[m]
      /\ place'[o].at = "matching" /\ cancel'[o].at = "idle"
  BY <1>1, <1>2, ActsAlone
<1>4. \A m \in Orders : ReadsCurrent(m)'
  <2>1. ReadsCurrent(o)'
    BY <1>3, NothingRead
  <2> QED BY <1>2, <1>3, <2>1, ActsAlone, ReadsStayCurrent
<1>5. SweepsEnd'
  <2>1. Sweeping(o)' /\ DOMAIN order \subseteq Orders
    BY <1>3 DEF Sweeping, TradingInv, RowsSound
  <2>2. \A m \in DOMAIN order : m # o => Sweeping(m)' = Sweeping(m) /\ order'[m] = order[m]
    BY <1>1, <1>3, <2>1 DEF Sweeping
  <2> QED BY <1>1, <2>1, <2>2 DEF BooksInv, SweepsEnd
<1> QED BY <1>4, <1>5, InsertKeepsRows DEF BooksInv

(* A scan that finds nobody has met all that cross its order.              *)
LEMMA FindBooks ==
  ASSUME TradingInv, SerialInv, BooksInv, NEW o \in Orders, FindOpposite(o)
  PROVE  BooksInv'
<1>1. /\ place[o].at = "matching" /\ DOMAIN place = Orders
      /\ UNCHANGED <<balance, order, trades, unlocked, cancel, crashes>>
  BY DEF FindOpposite, TradingInv, Handlers
<1>2. o \in Running
  BY <1>1 DEF Running
<1>3. /\ \A m \in Orders \ {o} : place'[m] = place[m] /\ cancel'[m] = cancel[m]
      /\ cancel'[o].at = "idle"
  BY <1>1, <1>2, ActsAlone DEF FindOpposite
<1>4. \/ place'[o].at = "done" /\ Candidates(o) = {}
      \/ place'[o].at = "found"
  BY <1>1 DEF FindOpposite
<1>5. \A m \in Orders : ReadsCurrent(m)'
  <2>1. ReadsCurrent(o)'
    BY <1>3, <1>4, NothingRead
  <2> QED BY <1>2, <1>3, <2>1, ActsAlone, ReadsStayCurrent
<1>6. RowsKept'
  BY <1>1, ReadingKeepsRows DEF BooksInv
<1>7. DOMAIN order \subseteq Orders
  BY DEF TradingInv, RowsSound
<1>8. SweepsEnd'
  <2>1. CASE place'[o].at = "found"
    <3>1. \A m \in DOMAIN order : Sweeping(m) => Sweeping(m)'
      BY <1>3, <1>7, <2>1 DEF Sweeping
    <3> QED BY <1>1, <3>1, SweepsStay DEF BooksInv
  <2>2. CASE Candidates(o) = {}
    <3> SUFFICES ASSUME crashes = 0, NEW k \in DOMAIN order, NEW n \in DOMAIN order,
                        Matchable(order[k]), Matchable(order[n]), Opposite(k, n), Crosses(k, n)
                 PROVE  Sweeping(k)' \/ Sweeping(n)'
      BY <1>1 DEF SweepsEnd, Matchable, Opposite, Crosses
    <3>1. Sweeping(k) \/ Sweeping(n)
      BY DEF BooksInv, SweepsEnd
    <3>2. k # o
      BY <2>2 DEF Candidates
    <3>3. n # o
      <4>1. Opposite(n, k) /\ Crosses(n, k)
        <5>1. /\ Req[k].side \in {"BUY", "SELL"} /\ Req[n].side \in {"BUY", "SELL"}
              /\ Req[k].price \in Nat /\ Req[n].price \in Nat
          BY <1>7, ReqTyped
        <5> QED BY <5>1 DEF Opposite, Crosses
      <4> QED BY <2>2, <4>1 DEF Candidates
    <3> QED BY <1>3, <1>7, <3>1, <3>2, <3>3 DEF Sweeping
  <2> QED BY <1>4, <2>1, <2>2
<1> QED BY <1>5, <1>6, <1>8 DEF BooksInv

(* The balances a match reads are those it will write over.                *)
LEMMA ReadBooks ==
  ASSUME TradingInv, SerialInv, BooksInv, NEW o \in Orders, ReadSettlement(o)
  PROVE  BooksInv'
<1> DEFINE next == NextBalances(SettlementPosting(o, place[o].maker, FillQuantity(o)), balance)
           h == [at |-> "settling", mine |-> place[o].mine, maker |-> place[o].maker,
                 theirs |-> place[o].theirs, next |-> next]
<1>1. /\ place[o].at = "found" /\ DOMAIN place = Orders
      /\ UNCHANGED <<balance, order, trades, unlocked, cancel, crashes>>
  BY DEF ReadSettlement, TradingInv, Handlers
<1>2. o \in Running
  BY <1>1 DEF Running
<1>3. place' = [place EXCEPT ![o] = h]
  <2>1. ~Overdraws(next)
    BY <1>1, SettlementPasses
  <2>2. place' = [place EXCEPT ![o] = IF Overdraws(next) THEN [at |-> "done"] ELSE h]
    BY <1>1 DEF ReadSettlement
  <2> HIDE DEF next
  <2> QED BY <2>1, <2>2
<1> HIDE DEF next
<1>4. /\ \A m \in Orders \ {o} : place'[m] = place[m] /\ cancel'[m] = cancel[m]
      /\ cancel'[o].at = "idle" /\ place'[o] = h
  BY <1>1, <1>2, <1>3, ActsAlone
<1>5. /\ place'[o].at = "settling" /\ place'[o].mine = place[o].mine
      /\ place'[o].maker = place[o].maker /\ place'[o].theirs = place[o].theirs
      /\ place'[o].next = next
  BY <1>4
<1> HIDE DEF h
<1>6. ReadsCurrent(o)'
  <2>1. FillQuantity(o)' = FillQuantity(o)
    BY <1>5 DEF FillQuantity
  <2>2. place'[o].next = NextBalances(SettlementPosting(o, place'[o].maker, FillQuantity(o)'),
                                      balance')
    BY <1>1, <1>5, <2>1 DEF next
  <2> QED BY <1>4, <1>5, <2>2 DEF ReadsCurrent
<1>7. \A m \in Orders : ReadsCurrent(m)'
  BY <1>2, <1>4, <1>6, ActsAlone, ReadsStayCurrent
<1>8. RowsKept'
  BY <1>1, ReadingKeepsRows DEF BooksInv
<1>9. SweepsEnd'
  <2>1. DOMAIN order \subseteq Orders
    BY DEF TradingInv, RowsSound
  <2>2. \A m \in DOMAIN order : Sweeping(m) => Sweeping(m)'
    BY <1>4, <1>5, <2>1 DEF Sweeping
  <2> QED BY <1>1, <2>2, SweepsStay DEF BooksInv
<1> QED BY <1>7, <1>8, <1>9 DEF BooksInv

(* A match moves between the locks what it fills, and its pair never meets *)
(* again.                                                                  *)
LEMMA MatchBooks ==
  ASSUME IsFiniteSet(Users), TradingInv, SerialInv, BooksInv, NEW o \in Orders, CommitTrade(o)
  PROVE  BooksInv'
<1> DEFINE mine == [Filled(place[o].mine, FillQuantity(o)) EXCEPT !.released = order[o].released]
<1>1. /\ place[o].at = "settling" /\ UNCHANGED <<cancel, crashes>> /\ DOMAIN place = Orders
      /\ place' = [place EXCEPT ![o] = IF mine.status = "FILLED" THEN [at |-> "done"]
                                       ELSE [at |-> "matching", mine |-> mine]]
  BY DEF CommitTrade, TradingInv, Handlers
<1>2. order'[o] = mine
  BY MatchWrites
<1>3. o \in Running
  BY <1>1 DEF Running
<1> HIDE DEF mine
<1>4. /\ \A k \in Orders \ {o} : place'[k] = place[k] /\ cancel'[k] = cancel[k]
      /\ cancel'[o].at = "idle"
      /\ \/ place'[o].at = "matching"
         \/ place'[o].at = "done" /\ mine.status = "FILLED"
  BY <1>1, <1>3, ActsAlone
<1>5. \A k \in Orders : ReadsCurrent(k)'
  <2>1. ReadsCurrent(o)'
    BY <1>4, NothingRead
  <2> QED BY <1>3, <1>4, <2>1, ActsAlone, ReadsStayCurrent
<1>6. /\ RowsKept' /\ DOMAIN order' = DOMAIN order
      /\ \A k \in DOMAIN order : Matchable(order'[k]) => Matchable(order[k])
  BY MatchKeepsRows
<1>7. SweepsEnd'
  <2>1. DOMAIN order \subseteq Orders
    BY DEF TradingInv, RowsSound
  <2>2. \A k \in DOMAIN order : Sweeping(k) /\ Matchable(order'[k]) => Sweeping(k)'
    BY <1>2, <1>4, <2>1 DEF Sweeping, Matchable
  <2>3. \A k, n : /\ Opposite(k, n)' = Opposite(k, n)
                  /\ Crosses(k, n)' = Crosses(k, n)
    BY DEF Opposite, Crosses
  <2> QED BY <1>1, <1>6, <2>2, <2>3 DEF BooksInv, SweepsEnd
<1> QED BY <1>5, <1>6, <1>7 DEF BooksInv

(* The database has no duplicate to refuse: keys are taken one at a time,  *)
(* and a pair that traded is not matched again.                            *)
LEMMA RefusalBooks ==
  ASSUME TradingInv, SerialInv, BooksInv, NEW o \in Orders, RefuseDuplicate(o)
  PROVE  BooksInv'
<1>1. /\ DOMAIN place = Orders /\ place' = [place EXCEPT ![o] = [at |-> "done"]]
      /\ UNCHANGED <<balance, order, trades, unlocked, cancel, crashes>>
  BY DEF RefuseDuplicate, TradingInv, Handlers
<1>2. place[o].at = "creating"
  <2> SUFFICES ASSUME place[o].at = "settling", PairTraded(o, place[o].maker) PROVE FALSE
    BY DEF RefuseDuplicate
  <2>1. Matchable(order[o]) /\ Matchable(order[place[o].maker])
    BY Meets
  <2> QED BY <2>1 DEF PairTraded, BooksInv, RowsKept, ClosedSound
<1>3. o \in Running
  BY <1>2 DEF Running
<1>4. /\ \A m \in Orders \ {o} : place'[m] = place[m] /\ cancel'[m] = cancel[m]
      /\ cancel'[o].at = "idle" /\ place'[o].at = "done"
  BY <1>1, <1>3, ActsAlone
<1>5. \A m \in Orders : ReadsCurrent(m)'
  <2>1. ReadsCurrent(o)'
    BY <1>4, NothingRead
  <2> QED BY <1>3, <1>4, <2>1, ActsAlone, ReadsStayCurrent
<1>6. RowsKept'
  BY <1>1, ReadingKeepsRows DEF BooksInv
<1>7. SweepsEnd'
  <2>1. DOMAIN order \subseteq Orders
    BY DEF TradingInv, RowsSound
  <2>2. \A m \in DOMAIN order : Sweeping(m) => Sweeping(m)'
    BY <1>2, <1>4, <2>1 DEF Sweeping
  <2> QED BY <1>1, <2>2, SweepsStay DEF BooksInv
<1> QED BY <1>5, <1>6, <1>7 DEF BooksInv

(* A cancellation reads a row that nobody else changes.                    *)
LEMMA ReadForCancelBooks ==
  ASSUME MaxInFlight = 1, TradingInv, SerialInv, BooksInv, NEW o \in Orders, ReadForCancel(o)
  PROVE  BooksInv'
<1> DEFINE amount == RemainingLock(o, order[o])
           h == [at |-> "read", amount |-> amount, released |-> order[o].released]
<1>1. /\ MayStart /\ DOMAIN cancel = Orders /\ o \in DOMAIN order /\ Matchable(order[o])
      /\ cancel' = [cancel EXCEPT ![o] = h]
      /\ UNCHANGED <<balance, order, trades, unlocked, place, crashes>>
  BY DEF ReadForCancel, TradingInv, Handlers
<1>2. Running = {} /\ Cancelling = {}
  BY <1>1, StartsAlone
<1>3. order[o].released = 0
  BY <1>1 DEF BooksInv, RowsKept, ClosedSound
<1> HIDE DEF amount
<1>4. /\ cancel'[o].at = "read" /\ cancel'[o].amount = amount /\ cancel'[o].released = 0
      /\ \A m \in Orders \ {o} : cancel'[m] = cancel[m] /\ m \notin Running \cup Cancelling
      /\ place'[o].at \in {"new", "done"}
  BY <1>1, <1>2, <1>3 DEF Running
<1>5. ReadsCurrent(o)'
  BY <1>1, <1>4 DEF ReadsCurrent, amount
<1>6. \A m \in Orders : ReadsCurrent(m)'
  BY <1>1, <1>4, <1>5, ReadsStayCurrent
<1>7. RowsKept'
  BY <1>1, ReadingKeepsRows DEF BooksInv
<1>8. SweepsEnd'
  BY <1>1, SweepsStay DEF BooksInv, Sweeping
<1> QED BY <1>6, <1>7, <1>8 DEF BooksInv

(* A cancellation reads the balances it will write over.                   *)
LEMMA ReadUnlockBooks ==
  ASSUME TradingInv, SerialInv, BooksInv, NEW o \in Orders, ReadUnlock(o)
  PROVE  BooksInv'
<1> DEFINE posting == UnlockPosting(o, cancel[o].amount)
           next == IF o \in unlocked THEN [a \in {} |-> 0] ELSE NextBalances(posting, balance)
           h == [at |-> "closing", amount |-> cancel[o].amount, released |-> cancel[o].released,
                 next |-> next, replay |-> o \in unlocked]
<1>1. /\ cancel[o].at = "read" /\ DOMAIN cancel = Orders /\ o \in DOMAIN order
      /\ UNCHANGED <<balance, order, trades, unlocked, place, crashes>>
  BY DEF ReadUnlock, TradingInv, Handlers, CancelSound
<1>2. o \notin unlocked
  BY <1>1 DEF SerialInv, CopyFresh, BooksInv, RowsKept, ClosedSound
<1>3. cancel' = [cancel EXCEPT ![o] = IF Overdraws(next) THEN [at |-> "idle"] ELSE h]
  BY <1>1 DEF ReadUnlock
<1> HIDE DEF next, posting
<1>4. o \in Cancelling
  BY <1>1 DEF Cancelling
<1>5. /\ \A m \in Orders \ {o} : cancel'[m] = cancel[m]
      /\ place'[o].at \in {"new", "done"}
      /\ cancel'[o] = [at |-> "idle"] \/ cancel'[o] = h
  BY <1>1, <1>3, <1>4, ActsAlone
<1>6. ReadsCurrent(o)'
  <2>1. CASE cancel'[o] = [at |-> "idle"]
    BY <1>5, <2>1, NothingRead
  <2>2. CASE cancel'[o] = h
    <3>1. cancel[o].amount = RemainingLock(o, order[o]) /\ cancel[o].released = 0
      BY <1>1 DEF BooksInv, ReadsCurrent
    <3>2. /\ cancel'[o].at = "closing" /\ cancel'[o].amount = cancel[o].amount
          /\ cancel'[o].released = cancel[o].released /\ cancel'[o].next = next
      BY <2>2
    <3>3. ~cancel'[o].replay
      <4>1. cancel'[o].replay = (o \in unlocked)
        BY <2>2
      <4> QED BY <1>2, <4>1
    <3>4. next = NextBalances(UnlockPosting(o, cancel'[o].amount), balance')
      BY <1>1, <1>2, <3>2 DEF next, posting
    <3> QED BY <1>1, <1>5, <3>1, <3>2, <3>3, <3>4 DEF ReadsCurrent
  <2> QED BY <1>5, <2>1, <2>2
<1>7. \A m \in Orders : ReadsCurrent(m)'
  BY <1>1, <1>4, <1>5, <1>6, ActsAlone, ReadsStayCurrent
<1>8. RowsKept'
  BY <1>1, ReadingKeepsRows DEF BooksInv
<1>9. SweepsEnd'
  BY <1>1, SweepsStay DEF BooksInv, Sweeping
<1> QED BY <1>7, <1>8, <1>9 DEF BooksInv

(* A cancellation gives back what its order still reserved.                *)
LEMMA CommitCancelBooks ==
  ASSUME IsFiniteSet(Users), TradingInv, SerialInv, BooksInv, NEW o \in Orders, CommitCancel(o)
  PROVE  BooksInv'
<1>1. /\ cancel[o].at = "closing" /\ DOMAIN cancel = Orders
      /\ cancel' = [cancel EXCEPT ![o] = [at |-> "idle"]]
      /\ UNCHANGED <<place, crashes>>
  BY DEF CommitCancel, TradingInv, Handlers
<1>2. o \in Cancelling
  BY <1>1 DEF Cancelling
<1>3. /\ \A m \in Orders \ {o} : cancel'[m] = cancel[m]
      /\ place'[o].at \in {"new", "done"} /\ cancel'[o].at = "idle"
  BY <1>1, <1>2, ActsAlone
<1>4. \A m \in Orders : ReadsCurrent(m)'
  <2>1. ReadsCurrent(o)'
    BY <1>3, NothingRead
  <2> QED BY <1>1, <1>2, <1>3, <2>1, ActsAlone, ReadsStayCurrent
<1>5. /\ RowsKept' /\ DOMAIN order' = DOMAIN order
      /\ \A k \in DOMAIN order : Matchable(order'[k]) => Matchable(order[k])
  BY CancelKeepsRows
<1>6. SweepsEnd'
  BY <1>1, <1>5 DEF BooksInv, SweepsEnd, Sweeping, Opposite, Crosses
<1> QED BY <1>4, <1>5, <1>6 DEF BooksInv

(* A crash leaves rows and balances as they are, and ends the promise      *)
(* about sweeps.                                                           *)
LEMMA CrashBooks ==
  ASSUME TradingInv, SerialInv, BooksInv, NEW o \in Orders, Crash(o)
  PROVE  BooksInv'
<1>1. /\ DOMAIN cancel = Orders /\ DOMAIN place = Orders
      /\ crashes \in Nat /\ crashes' = crashes + 1
      /\ UNCHANGED <<balance, order, trades, unlocked>>
  BY BoundsAssumption DEF Crash, TradingInv, Handlers
<1>2. RowsKept'
  BY <1>1, ReadingKeepsRows DEF BooksInv
<1>3. SweepsEnd'
  <2>1. crashes' # 0
    BY <1>1
  <2> QED BY <2>1 DEF SweepsEnd
<1>4. /\ o \in Running \cup Cancelling
      /\ \A m \in Orders \ {o} : place'[m] = place[m] /\ cancel'[m] = cancel[m]
      /\ place'[o].at \in {"new", "done"} /\ cancel'[o].at = "idle"
  <2>1. CASE /\ o \in Running /\ UNCHANGED cancel
             /\ place' = [place EXCEPT ![o] =
                            [at |-> IF o \in DOMAIN order THEN "done" ELSE "new"]]
    <3>1. cancel[o].at = "idle"
      BY <2>1, ActsAlone
    <3> QED BY <1>1, <2>1, <3>1
  <2>2. CASE /\ o \in Cancelling /\ UNCHANGED place
             /\ cancel' = [cancel EXCEPT ![o] = [at |-> "idle"]]
    <3>1. place[o].at \in {"new", "done"}
      BY <2>2, ActsAlone
    <3> QED BY <1>1, <2>2, <3>1
  <2> QED BY <2>1, <2>2 DEF Crash
<1>5. \A m \in Orders : ReadsCurrent(m)'
  <2>1. ReadsCurrent(o)'
    BY <1>4, NothingRead
  <2> QED BY <1>4, <2>1, ActsAlone, ReadsStayCurrent
<1> QED BY <1>2, <1>3, <1>5 DEF BooksInv

(* Before any order the books are the funds.                               *)
LEMMA BooksOpen ==
  ASSUME IsFiniteSet(Users), Init
  PROVE  BooksInv
<1>1. /\ DOMAIN order = {} /\ trades = {} /\ unlocked = {}
      /\ \A o \in Orders : place[o].at = "new" /\ cancel[o].at = "idle"
      /\ balance = [a \in Account |->
            IF IsUserOwned(a) /\ a[3] = "AVAILABLE" THEN Funds[<<a[1], a[2]>>] ELSE 0]
  BY DEF Init
<1>2. \A o \in Orders : ReadsCurrent(o)
  BY <1>1 DEF ReadsCurrent
<1>3. ClosedSound /\ FillSums /\ SweepsEnd
  BY <1>1, FS_EmptySet DEF ClosedSound, FillSums, SweepsEnd
<1>4. LockedSums
  <2> SUFFICES ASSUME NEW user \in Users, NEW asset \in Assets
               PROVE  balance[Locked(user, asset)] =
                         SumFunctionOnSet(ReservedBy(order, user, asset), {})
                           + (IF asset = "QUOTE"
                              THEN SumFunctionOnSet(SavedIn(trades, user), {}) ELSE 0)
    BY <1>1 DEF LockedSums
  <2>1. balance[Locked(user, asset)] = 0
    BY <1>1, UserAccounts DEF Locked
  <2> QED BY <2>1, SumOfNothing
<1>5. AssetsConserved
  <2> SUFFICES ASSUME NEW asset \in Assets
               PROVE  SumFunctionOnSet(balance, AccountsIn(asset)) =
                         SumFunction([u \in Users |-> Funds[<<u, asset>>]])
    BY DEF AssetsConserved, AccountsIn
  <2> DEFINE free == [u \in Users |-> Available(u, asset)]
             mine == {free[u] : u \in Users}
             funds == [u \in Users |-> Funds[<<u, asset>>]]
             f == [a \in AccountsIn(asset) |-> IF a \in mine THEN balance[a] ELSE 0]
  <2>1. IsFiniteSet(AccountsIn(asset)) /\ mine \in SUBSET AccountsIn(asset)
    <3>1. \A u \in Users : Available(u, asset) \in AccountsIn(asset)
      BY UserAccounts DEF AccountsIn, Available, AssetOf
    <3> QED BY <3>1, AccountsAreFinite
  <2>2. \A u \in Users : balance[free[u]] = funds[u] /\ funds[u] \in Int
    <3>1. \A u \in Users : Available(u, asset) \in Account
      BY UserAccounts
    <3>2. \A u \in Users : balance[Available(u, asset)] = Funds[<<u, asset>>]
      BY <1>1, <3>1 DEF Available, IsUserOwned
    <3> QED BY <3>2, FundsAssumption
  <2>3. \A a \in AccountsIn(asset) : a \notin mine => balance[a] = 0
    <3> SUFFICES ASSUME NEW a \in AccountsIn(asset), a \notin mine,
                        IsUserOwned(a), a[3] = "AVAILABLE"
                 PROVE  FALSE
      BY <1>1 DEF AccountsIn
    <3>1. a \notin SystemAccount
      BY OwnersAssumption DEF IsUserOwned, SystemAccount
    <3>2. PICK u \in Users, b \in Assets, type \in {"AVAILABLE", "LOCKED"} : a = <<u, b, type>>
      BY <3>1 DEF AccountsIn, Account, UserAccount
    <3>3. b = asset /\ type = "AVAILABLE"
      BY <3>2 DEF AccountsIn, AssetOf
    <3>4. a = free[u]
      BY <3>2, <3>3 DEF Available
    <3> QED BY <3>4
  <2>4. \A a \in AccountsIn(asset) : balance[a] = f[a]
    BY <2>3
  <2>5. \A a \in mine : balance[a] \in Int
    BY <2>2
  <2>6. SumFunction(funds) = SumFunctionOnSet(funds, Users)
    BY DEF SumFunction
  <2>7. free = [u \in Users |-> free[u]] /\ \A u, v \in Users : free[u] = free[v] => u = v
    BY DEF Available
  <2> HIDE DEF funds, free
  <2>8. SumFunctionOnSet(balance, mine) = SumFunctionOnSet(funds, Users)
    BY <2>2, <2>7, SumRenamed
  <2> HIDE DEF mine
  <2>9. SumFunctionOnSet(balance, mine) = SumFunctionOnSet(f, AccountsIn(asset))
    BY <2>1, <2>5, SumOfPart
  <2> HIDE DEF f
  <2>10. SumFunctionOnSet(balance, AccountsIn(asset)) = SumFunctionOnSet(f, AccountsIn(asset))
    BY <2>1, <2>4, SumOfEqual
  <2> QED BY <2>6, <2>8, <2>9, <2>10 DEF funds
<1> QED BY <1>2, <1>3, <1>4, <1>5 DEF BooksInv, RowsKept
-------------------------------------------------------------------------------
(* One handler at a time computes every write from current books.          *)
THEOREM TradingBooksInvariant ==
  ASSUME MaxInFlight = 1, IsFiniteSet(Users)
  PROVE  Spec => []BooksInv
<1>1. Init => BooksInv
  BY BooksOpen
<1>2. TradingInv /\ SerialInv /\ BooksInv /\ [Next]_vars => BooksInv'
  <2>1. CASE UNCHANGED vars
    <3>1. UNCHANGED <<balance, order, trades, unlocked, place, cancel, crashes>>
      BY <2>1 DEF vars
    <3>2. BooksInv => (\A o \in Orders : ReadsCurrent(o)') /\ RowsKept' /\ SweepsEnd'
      <4>1. BooksInv => \A o \in Orders : ReadsCurrent(o)'
        BY <3>1 DEF BooksInv, ReadsCurrent, FillQuantity
      <4>2. BooksInv => RowsKept'
        BY <3>1, ReadingKeepsRows DEF BooksInv
      <4>3. BooksInv => SweepsEnd'
        BY <3>1, SweepsStay DEF BooksInv, Sweeping
      <4> QED BY <4>1, <4>2, <4>3
    <3> QED BY <3>2 DEF BooksInv
  <2> QED
    BY <2>1, SubmitBooks, InsertBooks, FindBooks, ReadBooks, MatchBooks, RefusalBooks,
       ReadForCancelBooks, ReadUnlockBooks, CommitCancelBooks, CrashBooks
    DEF Next, Handling, CancellingStep
<1> QED BY <1>1, <1>2, TradingInvariant, TradingSerialInvariant, PTL DEF Spec

(* One handler at a time keeps the books exactly: what is locked, what is  *)
(* filled and what was traded add up, also where a crash left an order in  *)
(* the middle of its matches (matchingEngine.service.js:373-436).          *)
THEOREM TradingBooksAddUp ==
  ASSUME MaxInFlight = 1, IsFiniteSet(Users)
  PROVE  Spec => []BooksAddUp
<1>1. TradingInv /\ BooksInv => BooksAddUp
  <2> SUFFICES ASSUME TradingInv, BooksInv PROVE BooksAddUp
    OBVIOUS
  <2>1. Rows(order) /\ Deals(trades) /\ RowsKept
    BY RowsAndDeals DEF BooksInv, RowsKept
  <2>2. LockedAccounted
    BY <2>1, OutstandingIsSum, SavedIsSum DEF RowsKept, LockedSums, LockedAccounted
  <2>3. FillsMatchTrades
    BY <2>1, FilledIsSum DEF RowsKept, FillSums, FillsMatchTrades
  <2> QED BY <2>1, <2>2, <2>3 DEF RowsKept, BooksAddUp
<1> QED BY <1>1, TradingInvariant, TradingBooksInvariant, PTL

(* As long as no handler has been lost to a crash, no two orders of        *)
(* different users that cross are left resting once all requests have been *)
(* answered (the loop of matchingEngine.service.js:546).                   *)
THEOREM TradingNoCrossedBook ==
  ASSUME MaxInFlight = 1, IsFiniteSet(Users)
  PROVE  Spec => []NoCrossedBook
<1>1. TradingInv /\ BooksInv => NoCrossedBook
  BY DEF TradingInv, RowsSound, BooksInv, SweepsEnd, Sweeping, NoCrossedBook, Quiet, Running
<1> QED BY <1>1, TradingInvariant, TradingBooksInvariant, PTL
-------------------------------------------------------------------------------
(***************************************************************************)
(* Trading implements Exchange: seen without what handlers carry, handlers *)
(* that run one at a time are an exchange of indivisible steps, for any    *)
(* users, any orders and any number of crashes.  Beyond the invariants     *)
(* above this needs that stamps tell orders apart and that the order being *)
(* matched has the latest, so that nobody ever trades out of turn.         *)
(***************************************************************************)
(* Orders are as old as they entered, and the one that is being matched    *)
(* entered last.                                                           *)
AgesInv ==
  /\ \A m, n \in DOMAIN order : order[m].createdAt = order[n].createdAt => m = n
  /\ \A o \in Orders : place[o].at = "creating" =>
        \A m \in DOMAIN order : order[m].createdAt < place[o].createdAt
  /\ \A o \in Orders : Sweeping(o) =>
        \A m \in DOMAIN order : order[m].createdAt <= order[o].createdAt

(* Only a request that arrives takes a stamp, and only a new row shows one. *)
LEMMA AgesKept ==
  ASSUME AgesInv, DOMAIN order' = DOMAIN order,
         \A m \in DOMAIN order : order'[m].createdAt = order[m].createdAt,
         \A o \in Orders : place'[o].at = "creating" => place'[o] = place[o],
         \A o \in Orders : Sweeping(o)' => Sweeping(o) /\ o \in DOMAIN order
  PROVE  AgesInv'
BY DEF AgesInv

(* A fill does not change the age of a row.                                *)
LEMMA FillKeepsAge ==
  ASSUME NEW row \in Row, NEW qty, NEW n
  PROVE  [Filled(row, qty) EXCEPT !.released = n].createdAt = row.createdAt
<1>1. \A k \in {"filled", "remaining", "status", "released", "createdAt"} : k \in DOMAIN row
  BY DEF Row
<1>2. Filled(row, qty).createdAt = row.createdAt /\ "createdAt" \in DOMAIN Filled(row, qty)
  BY <1>1 DEF Filled
<1> QED BY <1>2

(* Nor does a cancellation, which leaves what remains.                     *)
LEMMA CancelKeepsAge ==
  ASSUME NEW row \in Row, NEW r
  PROVE  LET new == [row EXCEPT !.status = "CANCELLED", !.released = r]
         IN  new.remaining = row.remaining /\ new.createdAt = row.createdAt /\ ~Matchable(new)
<1> DEFINE closed == [row EXCEPT !.status = "CANCELLED"]
           new == [closed EXCEPT !.released = r]
<1>1. {"status", "remaining", "released", "createdAt"} \subseteq DOMAIN row
  BY DEF Row
<1>2. /\ closed.status = "CANCELLED" /\ DOMAIN closed = DOMAIN row
      /\ closed.remaining = row.remaining /\ closed.createdAt = row.createdAt
  BY <1>1
<1> HIDE DEF closed
<1>3. /\ new.status = "CANCELLED"
      /\ new.remaining = closed.remaining /\ new.createdAt = closed.createdAt
  BY <1>1, <1>2
<1> QED BY <1>2, <1>3 DEF Matchable, closed

(* A step that writes no row and gives nobody a stamp.                     *)
LEMMA ReadingKeepsAges ==
  ASSUME AgesInv, UNCHANGED order, \A o \in Orders : Sweeping(o)' => Sweeping(o),
         \A o \in Orders : place'[o].at = "creating" => place'[o] = place[o]
  PROVE  AgesInv'
BY DEF AgesInv

(* A request takes a later stamp than all orders have.                     *)
LEMMA SubmitAges ==
  ASSUME MaxInFlight = 1, TradingInv, SerialInv, AgesInv, NEW o \in Orders, SubmitOrder(o)
  PROVE  AgesInv'
<1>1. /\ MayStart /\ UNCHANGED order /\ DOMAIN place = Orders /\ DOMAIN order \subseteq Orders
  BY DEF SubmitOrder, TradingInv, Handlers, RowsSound
<1>2. Running = {} 
  BY <1>1, StartsAlone
<1>3. \A m \in Orders \ {o} : place'[m] = place[m] /\ place[m].at \in {"new", "done"}
  BY <1>1, <1>2 DEF SubmitOrder, Running
<1>4. /\ place'[o].at \in {"done", "creating"}
      /\ place'[o].at = "creating" => place'[o].createdAt = Now
  BY <1>1 DEF SubmitOrder
<1>5. \A m \in Orders : ~Sweeping(m)'
  BY <1>3, <1>4 DEF Sweeping
<1>6. \A m \in DOMAIN order : order[m].createdAt < Now
  BY NowType
<1> QED BY <1>1, <1>3, <1>4, <1>5, <1>6 DEF AgesInv

(* The order that enters is the latest.                                    *)
LEMMA InsertAges ==
  ASSUME TradingInv, SerialInv, AgesInv, NEW o \in Orders, InsertOrder(o)
  PROVE  AgesInv'
<1> DEFINE row == [status |-> "OPEN", filled |-> 0, remaining |-> Req[o].qty,
                   released |-> 0, createdAt |-> place[o].createdAt]
<1>1. /\ place[o].at = "creating" /\ DOMAIN place = Orders /\ o \notin DOMAIN order
      /\ order' = [m \in DOMAIN order \cup {o} |-> IF m = o THEN row ELSE order[m]]
      /\ place' = [place EXCEPT ![o] = [at |-> "matching", mine |-> row]]
      /\ place[o].createdAt \in Nat
  BY DEF InsertOrder, TradingInv, Handlers, HandlerSound, KeyTaken
<1>2. row.createdAt = place[o].createdAt
  OBVIOUS
<1> HIDE DEF row
<1>3. /\ DOMAIN order' = DOMAIN order \cup {o} /\ order'[o] = row
      /\ \A m \in DOMAIN order : order'[m] = order[m]
  BY <1>1
<1>4. /\ place'[o].at = "matching"
      /\ \A m \in Orders \ {o} : place'[m] = place[m] /\ place[m].at \in {"new", "done"}
  BY <1>1, ActsAlone DEF Running
<1>5. \A m \in DOMAIN order : order[m].createdAt < row.createdAt /\ order[m].createdAt \in Nat
  BY <1>1, <1>2 DEF AgesInv, TradingInv, RowsSound, Row
<1>6. \A m, n \in DOMAIN order' : order'[m].createdAt = order'[n].createdAt => m = n
  BY <1>1, <1>2, <1>3, <1>5 DEF AgesInv
<1>7. \A m \in Orders : place'[m].at # "creating" /\ (Sweeping(m)' => m = o)
  BY <1>4 DEF Sweeping
<1>8. \A m \in DOMAIN order' : order'[m].createdAt <= order'[o].createdAt
  BY <1>1, <1>2, <1>3, <1>5
<1> QED BY <1>6, <1>7, <1>8 DEF AgesInv

(* A trade writes two rows and leaves their stamps.                        *)
LEMMA MatchAges ==
  ASSUME TradingInv, SerialInv, AgesInv, NEW o \in Orders, CommitTrade(o)
  PROVE  AgesInv'
<1> DEFINE m == place[o].maker
<1>1. /\ place[o].at = "settling" /\ DOMAIN place = Orders
      /\ place[o].mine = order[o] /\ place[o].theirs = order[m]
  BY DEF CommitTrade, TradingInv, Handlers, SerialInv, CopyFresh
<1> HIDE DEF m
<1>2. /\ o \in DOMAIN order /\ m \in DOMAIN order /\ order[o] \in Row /\ order[m] \in Row
      /\ DOMAIN order' = DOMAIN order
      /\ order'[o] = [Filled(order[o], FillQuantity(o)) EXCEPT !.released = order[o].released]
      /\ order'[m] = [Filled(order[m], FillQuantity(o)) EXCEPT !.released = order[m].released]
      /\ \A n \in DOMAIN order \ {o, m} : order'[n] = order[n]
  BY <1>1, MatchWrites DEF TradingInv, RowsSound, m
<1>3. \A n \in DOMAIN order : order'[n].createdAt = order[n].createdAt
  <2>1. /\ order'[o].createdAt = order[o].createdAt
        /\ order'[m].createdAt = order[m].createdAt
    BY <1>2, FillKeepsAge
  <2> QED BY <1>2, <2>1
<1>4. /\ place'[o].at \in {"done", "matching"}
      /\ \A n \in Orders \ {o} : place'[n] = place[n]
  BY <1>1 DEF CommitTrade
<1>5. /\ \A n \in Orders : place'[n].at = "creating" => place'[n] = place[n]
      /\ \A n \in Orders : Sweeping(n)' => Sweeping(n) /\ n \in DOMAIN order
  BY <1>1, <1>4 DEF Sweeping, TradingInv, Handlers, HandlerSound
<1> QED BY <1>2, <1>3, <1>5, AgesKept

(* So does a cancellation.                                                 *)
LEMMA CommitCancelAges ==
  ASSUME TradingInv, AgesInv, NEW o \in Orders, CommitCancel(o)
  PROVE  AgesInv'
<1>1. o \in DOMAIN order /\ UNCHANGED place /\ order \in [DOMAIN order -> Row]
  BY DEF CommitCancel, TradingInv, Handlers, CancelSound, RowsSound
<1>2. \A row \in Row : \A s, r : [row EXCEPT !.status = s, !.released = r].createdAt = row.createdAt
  BY DEF Row
<1>3. CASE UNCHANGED order
  BY <1>1, <1>3, ReadingKeepsAges DEF Sweeping
<1>4. CASE order' = [order EXCEPT ![o].status = "CANCELLED",
                                  ![o].released = cancel[o].released + cancel[o].amount]
  <2>1. /\ DOMAIN order' = DOMAIN order
        /\ \A m \in DOMAIN order : order'[m].createdAt = order[m].createdAt
    BY <1>1, <1>2, <1>4
  <2>2. \A m \in Orders : Sweeping(m)' => Sweeping(m) /\ m \in DOMAIN order
    BY <1>1 DEF Sweeping, TradingInv, Handlers, HandlerSound
  <2> QED BY <1>1, <2>1, <2>2, AgesKept
<1> QED BY <1>3, <1>4 DEF CommitCancel

(* A handler that moves on without a stamp.                                *)
LEMMA MovingKeepsAges ==
  ASSUME AgesInv, UNCHANGED order, DOMAIN place = Orders, NEW o \in Orders, NEW h,
         place' = [place EXCEPT ![o] = h], h.at # "creating",
         h.at \in {"matching", "found", "settling"} => Sweeping(o)
  PROVE  AgesInv'
<1>1. place'[o] = h /\ \A m \in Orders \ {o} : place'[m] = place[m]
  OBVIOUS
<1> QED BY <1>1, ReadingKeepsAges DEF Sweeping

(* Looking at the book leaves the stamps,                                  *)
LEMMA FindAges ==
  ASSUME TradingInv, AgesInv, NEW o \in Orders, FindOpposite(o)
  PROVE  AgesInv'
<1> DEFINE h(m) == [at |-> "found", mine |-> place[o].mine, maker |-> m, theirs |-> order[m]]
<1>1. \/ place' = [place EXCEPT ![o] = [at |-> "done"]]
      \/ \E m \in Candidates(o) : place' = [place EXCEPT ![o] = h(m)]
  BY DEF FindOpposite
<1>2. DOMAIN place = Orders /\ UNCHANGED order /\ Sweeping(o)
  BY DEF FindOpposite, Sweeping, TradingInv, Handlers
<1>3. [at |-> "done"].at = "done" /\ \A m : h(m).at = "found"
  OBVIOUS
<1> HIDE DEF h
<1> QED BY <1>1, <1>2, <1>3, MovingKeepsAges

(* as does reading the balances,                                           *)
LEMMA ReadAges ==
  ASSUME TradingInv, AgesInv, NEW o \in Orders, ReadSettlement(o)
  PROVE  AgesInv'
<1> DEFINE next == NextBalances(SettlementPosting(o, place[o].maker, FillQuantity(o)), balance)
           h == [at |-> "settling", mine |-> place[o].mine, maker |-> place[o].maker,
                 theirs |-> place[o].theirs, next |-> next]
<1>1. DOMAIN place = Orders /\ UNCHANGED order /\ Sweeping(o)
  BY DEF ReadSettlement, Sweeping, TradingInv, Handlers
<1>2. place' = [place EXCEPT ![o] = IF Overdraws(next) THEN [at |-> "done"] ELSE h]
  BY <1>1 DEF ReadSettlement
<1> HIDE DEF next
<1>3. [at |-> "done"].at = "done" /\ h.at = "settling"
  OBVIOUS
<1> DEFINE g == IF Overdraws(next) THEN [at |-> "done"] ELSE h
<1>4. g.at \in {"done", "settling"}
  BY <1>3
<1> HIDE DEF h, g
<1> QED BY <1>1, <1>2, <1>4, MovingKeepsAges DEF g

(* being refused or lost, and the reads of a cancellation.                 *)
LEMMA EndingKeepsAges ==
  ASSUME TradingInv, AgesInv, NEW o \in Orders,
         RefuseDuplicate(o) \/ ReadForCancel(o) \/ ReadUnlock(o) \/ Crash(o)
  PROVE  AgesInv'
<1>1. DOMAIN place = Orders /\ UNCHANGED order
  BY DEF TradingInv, Handlers, RefuseDuplicate, ReadForCancel, ReadUnlock, Crash
<1>2. CASE UNCHANGED place
  BY <1>1, <1>2, ReadingKeepsAges DEF Sweeping
<1>3. CASE \E at \in {"new", "done"} : place' = [place EXCEPT ![o] = [at |-> at]]
  <2>1. PICK at \in {"new", "done"} : place' = [place EXCEPT ![o] = [at |-> at]]
    BY <1>3
  <2>2. [at |-> at].at = at
    OBVIOUS
  <2> QED BY <1>1, <2>1, <2>2, MovingKeepsAges
<1> QED BY <1>2, <1>3 DEF RefuseDuplicate, ReadForCancel, ReadUnlock, Crash

(* Stamps tell orders apart, and the order that is being matched has the   *)
(* latest (createdAt, tradingOrder.service.js:290).                        *)
THEOREM TradingAgesInvariant ==
  ASSUME MaxInFlight = 1
  PROVE  Spec => []AgesInv
<1>1. Init => AgesInv
  BY DEF Init, AgesInv, Sweeping
<1>2. TradingInv /\ SerialInv /\ AgesInv /\ [Next]_vars => AgesInv'
  <2>1. CASE UNCHANGED vars
    BY <2>1 DEF vars, AgesInv, Sweeping
  <2> QED
    BY <2>1, SubmitAges, InsertAges, MatchAges, CommitCancelAges, FindAges, ReadAges,
       EndingKeepsAges
    DEF Next, Handling, CancellingStep
<1> QED BY <1>1, <1>2, TradingInvariant, TradingSerialInvariant, PTL DEF Spec

(* Exchange and Trading state one set of rules: what an order pays from,   *)
(* what it needs, which orders it may trade with.                          *)
LEMMA SameTerms ==
  ASSUME TradingInv, NEW o \in Orders
  PROVE  /\ Promise!Source(o) = <<Req[o].user, LockAsset(o)>>
         /\ \A qty : Promise!Worth(o, qty) = LockOf(o, qty)
         /\ DOMAIN Entries = DOMAIN order
         /\ Promise!Matches(o) = Candidates(o)
<1>1. DOMAIN Entries = DOMAIN order /\ \A m \in DOMAIN order : Entries[m].open = Matchable(order[m])
  BY DEF Entries
<1>2. ASSUME NEW m \in DOMAIN order
      PROVE  /\ Promise!Buys(m) # Promise!Buys(o) <=> Req[o].side # Req[m].side
             /\ ~Promise!Improves(o, Req[o].price, Req[m].price) <=> Crosses(o, m)
  <2>1. m \in Orders
    BY DEF TradingInv, RowsSound
  <2>2. /\ Req[o].side \in {"BUY", "SELL"} /\ Req[m].side \in {"BUY", "SELL"}
        /\ Req[o].price \in Nat /\ Req[m].price \in Nat
    BY <2>1, ReqTyped
  <2> QED BY <2>2 DEF Promise!Buys, Promise!Improves, Crosses
<1>3. Promise!Matches(o) = Candidates(o)
  BY <1>1, <1>2 DEF Promise!Matches, Candidates, Opposite
<1>4. /\ Promise!Source(o) = <<Req[o].user, LockAsset(o)>>
      /\ \A qty : Promise!Worth(o, qty) = LockOf(o, qty)
  BY DEF Promise!Source, Promise!Worth, Promise!Buys, LockAsset, LockOf
<1> QED BY <1>1, <1>3, <1>4

(* Purses hold numbers.                                                    *)
LEMMA PursesTyped ==
  ASSUME Books, NEW type \in {"AVAILABLE", "LOCKED"}
  PROVE  /\ DOMAIN Purse(type) = Users \X Assets
         /\ Purse(type) = [x \in Users \X Assets |-> Purse(type)[x]]
         /\ \A x \in Users \X Assets : /\ <<x[1], x[2], type>> \in Account
                                       /\ Purse(type)[x] = balance[<<x[1], x[2], type>>]
                                       /\ Purse(type)[x] \in Int
<1>1. DOMAIN Funds = Users \X Assets
  BY FundsAssumption
<1>2. \A x \in Users \X Assets : <<x[1], x[2], type>> \in Account
  BY DEF Account, UserAccount
<1> QED BY <1>1, <1>2 DEF Purse, Books, IsBalances

(* A purse changes by one write.                                           *)
LEMMA PurseMoves ==
  ASSUME Books, Books', NEW type \in {"AVAILABLE", "LOCKED"},
         NEW u \in Users, NEW a \in Assets, NEW n \in Int,
         balance'[<<u, a, type>>] = n,
         \A x \in (Users \X Assets) \ {<<u, a>>} :
            balance'[<<x[1], x[2], type>>] = balance[<<x[1], x[2], type>>]
  PROVE  Purse(type)' = [Purse(type) EXCEPT ![<<u, a>>] = n]
<1> DEFINE X == Users \X Assets
           x == <<u, a>>
           P == Purse(type)
           Q == [z \in X |-> balance'[<<z[1], z[2], type>>]]
<1>1. /\ DOMAIN P = X /\ P = [z \in X |-> P[z]]
      /\ \A z \in X : P[z] = balance[<<z[1], z[2], type>>]
  BY PursesTyped
<1>2. Purse(type)' = Q
  BY FundsAssumption DEF Purse
<1>3. x \in X /\ <<x[1], x[2], type>> = <<u, a, type>>
  OBVIOUS
<1> HIDE DEF X, x, P
<1>4. Q[x] = n
  BY <1>3
<1>5. \A z \in X \ {x} : Q[z] = P[z]
  <2>1. \A z \in X \ {x} : balance'[<<z[1], z[2], type>>] = balance[<<z[1], z[2], type>>]
    BY DEF X, x
  <2> QED BY <1>1, <2>1
<1>6. DOMAIN Q = X /\ Q = [z \in X |-> Q[z]]
  OBVIOUS
<1> HIDE DEF Q
<1>7. Q = [P EXCEPT ![x] = n]
  BY <1>1, <1>3, <1>4, <1>5, <1>6
<1> QED BY <1>2, <1>7 DEF P, x

(* A transfer between the two accounts of a purse.                         *)
LEMMA TransferInPurse ==
  ASSUME Books, Books', NEW user \in Users, NEW asset \in Assets, NEW amount \in Int,
         NEW from \in {"AVAILABLE", "LOCKED"}, NEW to \in {"AVAILABLE", "LOCKED"}, from # to,
         balance' = Overwrite(balance, NextBalances(
                       Transfer(<<user, asset, from>>, <<user, asset, to>>, amount), balance))
  PROVE  /\ Purse(from)' = [Purse(from) EXCEPT ![<<user, asset>>] = @ - amount]
         /\ Purse(to)' = [Purse(to) EXCEPT ![<<user, asset>>] = @ + amount]
<1>1. /\ <<user, asset, from>> \in Account /\ <<user, asset, to>> \in Account
      /\ <<user, asset, from>> # <<user, asset, to>>
  BY DEF Account, UserAccount
<1>2. /\ balance'[<<user, asset, from>>] = balance[<<user, asset, from>>] - amount
      /\ balance'[<<user, asset, to>>] = balance[<<user, asset, to>>] + amount
      /\ \A a \in Account \ {<<user, asset, from>>, <<user, asset, to>>} :
            balance'[a] = balance[a]
  BY <1>1, TransferMoves
<1>3. ASSUME NEW type \in {"AVAILABLE", "LOCKED"}, NEW x \in (Users \X Assets) \ {<<user, asset>>}
      PROVE  balance'[<<x[1], x[2], type>>] = balance[<<x[1], x[2], type>>]
  <2>1. <<x[1], x[2], type>> \in Account
    BY PursesTyped
  <2>2. <<x[1], x[2], type>> \notin {<<user, asset, from>>, <<user, asset, to>>}
    OBVIOUS
  <2> QED BY <1>2, <2>1, <2>2
<1>4. ASSUME NEW type \in {"AVAILABLE", "LOCKED"}
      PROVE  Purse(type)[<<user, asset>>] = balance[<<user, asset, type>>]
  <2> DEFINE x == <<user, asset>>
  <2>1. x \in Users \X Assets /\ <<x[1], x[2], type>> = <<user, asset, type>>
    OBVIOUS
  <2> HIDE DEF x
  <2>2. Purse(type)[x] = balance[<<user, asset, type>>]
    BY <2>1, PursesTyped
  <2> QED BY <2>2 DEF x
<1>5. ASSUME NEW type \in {"AVAILABLE", "LOCKED"}, NEW n \in Int,
             balance'[<<user, asset, type>>] = n
      PROVE  Purse(type)' = [Purse(type) EXCEPT ![<<user, asset>>] = n]
  BY <1>3, <1>5, PurseMoves
<1>6. balance[<<user, asset, from>>] \in Int /\ balance[<<user, asset, to>>] \in Int
  BY <1>1 DEF Books, IsBalances
<1>7. Purse(from)' = [Purse(from) EXCEPT ![<<user, asset>>] = @ - amount]
  <2>1. Purse(from)' = [Purse(from) EXCEPT ![<<user, asset>>] =
                           balance[<<user, asset, from>>] - amount]
    BY <1>2, <1>5, <1>6
  <2> QED BY <1>4, <2>1
<1>8. Purse(to)' = [Purse(to) EXCEPT ![<<user, asset>>] = @ + amount]
  <2>1. Purse(to)' = [Purse(to) EXCEPT ![<<user, asset>>] =
                         balance[<<user, asset, to>>] + amount]
    BY <1>2, <1>5, <1>6
  <2> QED BY <1>4, <2>1
<1> QED BY <1>7, <1>8

(* An order enters the book when its row and its lock are committed.       *)
LEMMA InsertEnters ==
  ASSUME TradingInv, SerialInv, BooksInv, AgesInv, NEW o \in Orders, InsertOrder(o)
  PROVE  Promise!Enter(o)
<1> DEFINE row == [status |-> "OPEN", filled |-> 0, remaining |-> Req[o].qty,
                   released |-> 0, createdAt |-> place[o].createdAt]
           D == DOMAIN order
           x == <<Req[o].user, LockAsset(o)>>
           from == Available(Req[o].user, LockAsset(o))
           to == Locked(Req[o].user, LockAsset(o))
           amount == LockOf(o, Req[o].qty)
<1>1. /\ place[o].at = "creating" /\ UNCHANGED trades
      /\ \A m \in D : Req[m].key # Req[o].key
      /\ order' = [m \in D \cup {o} |-> IF m = o THEN row ELSE order[m]]
      /\ place[o].next = NextBalances(Transfer(from, to, amount), balance)
      /\ balance' = Overwrite(balance, NextBalances(Transfer(from, to, amount), balance))
  BY DEF InsertOrder, KeyTaken, BooksInv, ReadsCurrent, LockPosting
<1>2. o \notin D
  BY <1>1
<1>3. TradingInv' /\ Books /\ Books'
  BY InsertSound DEF TradingInv
<1>4. /\ Req[o].user \in Users /\ LockAsset(o) \in Assets /\ amount \in Nat
      /\ from \in Account /\ to \in Account /\ from # to /\ IsUserOwned(from)
  BY ReqTyped, LockOfType, UserAccounts DEF Available, Locked, IsUserOwned
<1>5. amount <= balance[from]
  <2>1. ~Overdraws(NextBalances(Transfer(from, to, amount), balance))
    BY <1>1 DEF TradingInv, Handlers, HandlerSound, Writable
  <2>2. /\ DOMAIN Transfer(from, to, amount) = {from, to}
        /\ Transfer(from, to, amount)[from].amount = -amount
    BY DEF Transfer
  <2>3. balance[from] \in Int
    BY <1>3, <1>4 DEF Books, IsBalances
  <2> HIDE DEF amount, from, to
  <2>4. ~(balance[from] + (-amount) < 0)
    BY <1>4, <2>1, <2>2 DEF Overdraws, NextBalances
  <2> QED BY <1>4, <2>3, <2>4
<1>6. /\ Purse("AVAILABLE")' = [Purse("AVAILABLE") EXCEPT ![x] = @ - amount]
      /\ Purse("LOCKED")' = [Purse("LOCKED") EXCEPT ![x] = @ + amount]
  BY <1>1, <1>3, <1>4, TransferInPurse DEF Available, Locked
<1>7. Purse("AVAILABLE")[x] = balance[from]
  BY <1>3, <1>4, PursesTyped DEF Available
<1>8. /\ row.remaining = Req[o].qty /\ Matchable(row) /\ row.createdAt = place[o].createdAt
  BY DEF Matchable
<1> HIDE DEF row, amount
<1>9. DOMAIN order' = D \cup {o} /\ order'[o] = row /\ \A m \in D : order'[m] = order[m]
  BY <1>1
<1>10. Entries' = [m \in D \cup {o} |->
          IF m = o THEN [open |-> TRUE, left |-> Req[o].qty] ELSE Entries[m]]
  BY <1>2, <1>8, <1>9 DEF Entries
<1>11. Seniority' = Seniority \cup (D \X {o})
  <2>1. \A m \in D : order[m].createdAt < row.createdAt /\ order[m].createdAt \in Nat
    BY <1>1, <1>8 DEF AgesInv, TradingInv, RowsSound, Row
  <2>2. row.createdAt \in Nat
    BY <1>1, <1>8 DEF TradingInv, Handlers, HandlerSound
  <2>3. ASSUME NEW m \in D \cup {o}, NEW n \in D \cup {o}
        PROVE  order'[m].createdAt < order'[n].createdAt <=>
                  \/ m \in D /\ n \in D /\ order[m].createdAt < order[n].createdAt
                  \/ m \in D /\ n = o
    BY <1>2, <1>9, <2>1, <2>2
  <2>4. Seniority' = {p \in (D \cup {o}) \X (D \cup {o}) :
                         order'[p[1]].createdAt < order'[p[2]].createdAt}
    BY <1>9 DEF Seniority
  <2>5. ASSUME NEW p
        PROVE  p \in Seniority' <=> p \in Seniority \/ p \in D \X {o}
    BY <1>2, <2>3, <2>4 DEF Seniority
  <2> QED BY <2>5
<1>12. /\ Promise!Source(o) = x /\ Promise!Worth(o, Req[o].qty) = amount /\ DOMAIN Entries = D
  BY SameTerms DEF amount
<1> HIDE DEF x
<1> QED BY <1>1, <1>5, <1>6, <1>7, <1>10, <1>11, <1>12 DEF Promise!Enter

(* An order is taken out when its row is closed and its lock returned.     *)
LEMMA CancelTakesOut ==
  ASSUME TradingInv, SerialInv, BooksInv, NEW o \in Orders, CommitCancel(o)
  PROVE  o \in DOMAIN Entries /\ Promise!TakeOut(o)
<1> DEFINE D == DOMAIN order
           amount == cancel[o].amount
           x == <<Req[o].user, LockAsset(o)>>
           from == Locked(Req[o].user, LockAsset(o))
           to == Available(Req[o].user, LockAsset(o))
<1>1. /\ cancel[o].at = "closing" /\ o \in D /\ amount \in Nat /\ ~cancel[o].replay
      /\ amount = RemainingLock(o, order[o]) /\ Matchable(order[o])
      /\ cancel[o].next = NextBalances(Transfer(from, to, amount), balance)
  BY DEF CommitCancel, TradingInv, Handlers, CancelSound, SerialInv, CopyFresh, BooksInv,
         ReadsCurrent, UnlockPosting
<1>2. o \notin unlocked /\ order[o].released = 0 /\ RowSound(o, order[o])
  BY <1>1 DEF BooksInv, RowsKept, ClosedSound, TradingInv, RowsSound
<1>3. /\ UNCHANGED trades
      /\ order' = [order EXCEPT ![o].status = "CANCELLED",
                                ![o].released = cancel[o].released + amount]
      /\ balance' = Overwrite(balance, NextBalances(Transfer(from, to, amount), balance))
  BY <1>1, <1>2 DEF CommitCancel
<1>4. amount = LockOf(o, order[o].remaining)
  BY <1>1, <1>2, RemainingCovers
<1>5. Books /\ Books'
  BY CommitCancelSound DEF TradingInv
<1>6. /\ Req[o].user \in Users /\ LockAsset(o) \in Assets
  BY ReqTyped
<1>7. /\ Purse("LOCKED")' = [Purse("LOCKED") EXCEPT ![x] = @ - amount]
      /\ Purse("AVAILABLE")' = [Purse("AVAILABLE") EXCEPT ![x] = @ + amount]
  BY <1>1, <1>3, <1>5, <1>6, TransferInPurse DEF Available, Locked
<1> DEFINE released == cancel[o].released + amount
<1>8. /\ DOMAIN order' = D /\ \A m \in D \ {o} : order'[m] = order[m]
      /\ order'[o] = [order[o] EXCEPT !.status = "CANCELLED", !.released = released]
  <2>1. order' = [order EXCEPT ![o].status = "CANCELLED", ![o].released = released]
    BY <1>3
  <2> HIDE DEF released, amount
  <2> QED BY <1>1, <2>1
<1>9. /\ order'[o].remaining = order[o].remaining
      /\ order'[o].createdAt = order[o].createdAt
      /\ ~Matchable(order'[o])
  <2>1. order[o] \in Row
    BY <1>1 DEF TradingInv, RowsSound
  <2> DEFINE new == [order[o] EXCEPT !.status = "CANCELLED", !.released = released]
  <2> HIDE DEF released, amount, D
  <2>2. /\ new.remaining = order[o].remaining /\ new.createdAt = order[o].createdAt
        /\ ~Matchable(new)
    BY <2>1, CancelKeepsAge
  <2>3. order'[o] = new
    BY <1>8
  <2> HIDE DEF new
  <2> QED BY <2>2, <2>3
<1> HIDE DEF amount, released
<1>10. /\ DOMAIN Entries = D /\ Promise!Source(o) = x
       /\ Promise!Worth(o, Entries[o].left) = amount
       /\ Entries[o] = [open |-> TRUE, left |-> order[o].remaining]
  <2>1. DOMAIN Entries = D /\ Entries[o] = [open |-> TRUE, left |-> order[o].remaining]
    BY <1>1 DEF Entries
  <2> QED BY <1>4, <2>1, SameTerms
<1>11. Entries' = [Entries EXCEPT ![o] = [open |-> FALSE, left |-> Entries[o].left]]
  <2>1. Entries' = [m \in D |-> IF m = o THEN [open |-> FALSE, left |-> order[o].remaining]
                                ELSE Entries[m]]
    <3>1. Entries' = [m \in D |-> [open |-> Matchable(order'[m]),
                                   left |-> order'[m].remaining]]
      BY <1>8 DEF Entries
    <3>2. \A m \in D \ {o} : Entries[m] = [open |-> Matchable(order'[m]),
                                           left |-> order'[m].remaining]
      BY <1>8 DEF Entries
    <3>3. [open |-> Matchable(order'[o]), left |-> order'[o].remaining] =
             [open |-> FALSE, left |-> order[o].remaining]
      <4>1. Matchable(order'[o]) = FALSE
        BY <1>9 DEF Matchable
      <4> QED BY <1>9, <4>1
    <3> DEFINE now(m) == [open |-> Matchable(order'[m]), left |-> order'[m].remaining]
               closed == [open |-> FALSE, left |-> order[o].remaining]
    <3>4. \A m \in D : now(m) = IF m = o THEN closed ELSE Entries[m]
      BY <3>2, <3>3
    <3>5. Entries' = [m \in D |-> now(m)]
      BY <3>1
    <3> HIDE DEF now, closed
    <3>6. Entries' = [m \in D |-> IF m = o THEN closed ELSE Entries[m]]
      BY <3>4, <3>5
    <3> QED BY <3>6 DEF closed
  <2>2. Entries = [m \in D |-> Entries[m]]
    BY DEF Entries
  <2>3. o \in D /\ Entries[o] = [open |-> TRUE, left |-> order[o].remaining]
    BY <1>1, <1>10
  <2> DEFINE closed == [open |-> FALSE, left |-> order[o].remaining]
  <2>4. closed = [open |-> FALSE, left |-> Entries[o].left]
    BY <2>3
  <2> HIDE DEF closed, D
  <2>5. Entries' = [m \in D |-> IF m = o THEN closed ELSE Entries[m]]
    BY <2>1 DEF closed
  <2> QED BY <2>2, <2>3, <2>4, <2>5
<1>12. Seniority' = Seniority
  <2>1. \A m \in D : order'[m].createdAt = order[m].createdAt
    BY <1>8, <1>9
  <2> QED BY <1>8, <2>1 DEF Seniority
<1> HIDE DEF x
<1> QED BY <1>1, <1>3, <1>7, <1>10, <1>11, <1>12 DEF Promise!TakeOut

(* Two purses of one kind change by one write.                             *)
LEMMA PursesMove ==
  ASSUME Books, Books', NEW type \in {"AVAILABLE", "LOCKED"},
         NEW u \in Users, NEW v \in Users, NEW a \in Assets, NEW b \in Assets,
         <<u, a>> # <<v, b>>, NEW d \in Int, NEW e \in Int,
         balance'[<<u, a, type>>] = balance[<<u, a, type>>] + d,
         balance'[<<v, b, type>>] = balance[<<v, b, type>>] + e,
         \A x \in (Users \X Assets) \ {<<u, a>>, <<v, b>>} :
            balance'[<<x[1], x[2], type>>] = balance[<<x[1], x[2], type>>]
  PROVE  Purse(type)' = [Purse(type) EXCEPT ![<<u, a>>] = @ + d, ![<<v, b>>] = @ + e]
<1> DEFINE X == Users \X Assets
           x == <<u, a>>
           y == <<v, b>>
           P == Purse(type)
           Q == [z \in X |-> balance'[<<z[1], z[2], type>>]]
<1>1. /\ DOMAIN P = X /\ P = [z \in X |-> P[z]]
      /\ \A z \in X : P[z] = balance[<<z[1], z[2], type>>] /\ P[z] \in Int
  BY PursesTyped
<1>2. Purse(type)' = Q
  BY FundsAssumption DEF Purse
<1>3. x \in X /\ y \in X /\ x # y
  OBVIOUS
<1>4. <<x[1], x[2], type>> = <<u, a, type>> /\ <<y[1], y[2], type>> = <<v, b, type>>
  OBVIOUS
<1> HIDE DEF X, x, y, P
<1>5. Q[x] = P[x] + d /\ Q[y] = P[y] + e
  BY <1>1, <1>3, <1>4
<1>6. \A z \in X \ {x, y} : Q[z] = P[z]
  <2>1. \A z \in X \ {x, y} : balance'[<<z[1], z[2], type>>] = balance[<<z[1], z[2], type>>]
    BY DEF X, x, y
  <2> QED BY <1>1, <2>1
<1>7. DOMAIN Q = X /\ Q = [z \in X |-> Q[z]]
  OBVIOUS
<1> HIDE DEF Q
<1>8. Q = [P EXCEPT ![x] = @ + d, ![y] = @ + e]
  BY <1>1, <1>3, <1>5, <1>6, <1>7
<1> QED BY <1>2, <1>8 DEF P, x, y

(* What a settlement does to the purses of its two users.                  *)
LEMMA SettlementInPurses ==
  ASSUME Books, Books', NEW o \in Orders, NEW m \in Orders, Opposite(o, m), Crosses(o, m),
         NEW qty \in Nat,
         balance' = Overwrite(balance, NextBalances(SettlementPosting(o, m, qty), balance))
  PROVE  LET buyer == Req[BuyOrder(o, m)].user
             seller == Req[SellOrder(o, m)].user
             quote == ExecutionPrice(o, m) * qty
         IN  /\ Purse("LOCKED")' = [Purse("LOCKED") EXCEPT ![<<seller, "BASE">>] = @ + (-qty),
                                                           ![<<buyer, "QUOTE">>] = @ + (-quote)]
             /\ Purse("AVAILABLE")' = [Purse("AVAILABLE") EXCEPT
                                          ![<<buyer, "BASE">>] = @ + qty,
                                          ![<<seller, "QUOTE">>] = @ + quote]
<1> DEFINE buyer == Req[BuyOrder(o, m)].user
           seller == Req[SellOrder(o, m)].user
           quote == ExecutionPrice(o, m) * qty
           posting == SettlementPosting(o, m, qty)
<1>1. /\ buyer \in Users /\ seller \in Users /\ buyer # seller
      /\ ExecutionPrice(o, m) \in Nat
  BY TwoSides
<1>2. quote \in Int /\ -quote \in Int /\ -qty \in Int /\ qty \in Int
  BY <1>1
<1>3. /\ IsPosting(posting) /\ DOMAIN posting = SettlementAccounts(o, m)
      /\ posting[<<seller, "BASE", "LOCKED">>].amount = -qty
      /\ posting[<<buyer, "BASE", "AVAILABLE">>].amount = qty
      /\ posting[<<buyer, "QUOTE", "LOCKED">>].amount = -quote
      /\ posting[<<seller, "QUOTE", "AVAILABLE">>].amount = quote
  BY SettlementIsPosting, SettlementEntries DEF Locked, Available
<1> HIDE DEF posting, quote
<1>4. \A a \in Account : balance'[a] = IF a \in SettlementAccounts(o, m)
                                       THEN balance[a] + posting[a].amount ELSE balance[a]
  BY <1>3, WriteAdds DEF posting
<1>5. SettlementAccounts(o, m) =
        {<<seller, "BASE", "LOCKED">>, <<buyer, "BASE", "AVAILABLE">>,
         <<buyer, "QUOTE", "LOCKED">>, <<seller, "QUOTE", "AVAILABLE">>}
  BY DEF SettlementAccounts, Locked, Available
<1> HIDE DEF buyer, seller
<1>6. "BASE" \in Assets /\ "QUOTE" \in Assets
  BY AssetsAssumption
<1>7. \A x \in Users \X Assets, type \in {"AVAILABLE", "LOCKED"} :
         <<x[1], x[2], type>> \in Account
  BY PursesTyped
<1>8. \A u \in Users, a \in Assets, type \in {"AVAILABLE", "LOCKED"} : <<u, a, type>> \in Account
  BY DEF Account, UserAccount
<1>9. /\ balance'[<<seller, "BASE", "LOCKED">>] = balance[<<seller, "BASE", "LOCKED">>] + (-qty)
      /\ balance'[<<buyer, "BASE", "AVAILABLE">>] = balance[<<buyer, "BASE", "AVAILABLE">>] + qty
      /\ balance'[<<buyer, "QUOTE", "LOCKED">>] = balance[<<buyer, "QUOTE", "LOCKED">>] + (-quote)
      /\ balance'[<<seller, "QUOTE", "AVAILABLE">>] =
            balance[<<seller, "QUOTE", "AVAILABLE">>] + quote
  <2>1. /\ <<seller, "BASE", "LOCKED">> \in Account /\ <<buyer, "BASE", "AVAILABLE">> \in Account
        /\ <<buyer, "QUOTE", "LOCKED">> \in Account
        /\ <<seller, "QUOTE", "AVAILABLE">> \in Account
    BY <1>1, <1>6, <1>8
  <2>2. \A a \in SettlementAccounts(o, m) : a \in Account =>
           balance'[a] = balance[a] + posting[a].amount
    BY <1>4
  <2>3. /\ <<seller, "BASE", "LOCKED">> \in SettlementAccounts(o, m)
        /\ <<buyer, "BASE", "AVAILABLE">> \in SettlementAccounts(o, m)
        /\ <<buyer, "QUOTE", "LOCKED">> \in SettlementAccounts(o, m)
        /\ <<seller, "QUOTE", "AVAILABLE">> \in SettlementAccounts(o, m)
    BY <1>5
  <2> QED BY <1>3, <2>1, <2>2, <2>3
<1>10. \A x \in (Users \X Assets) \ {<<seller, "BASE">>, <<buyer, "QUOTE">>} :
          balance'[<<x[1], x[2], "LOCKED">>] = balance[<<x[1], x[2], "LOCKED">>]
  <2> SUFFICES ASSUME NEW x \in (Users \X Assets) \ {<<seller, "BASE">>, <<buyer, "QUOTE">>}
               PROVE  balance'[<<x[1], x[2], "LOCKED">>] = balance[<<x[1], x[2], "LOCKED">>]
    OBVIOUS
  <2>1. <<x[1], x[2], "LOCKED">> \notin SettlementAccounts(o, m)
    BY <1>5
  <2> QED BY <1>4, <1>7, <2>1
<1>11. \A x \in (Users \X Assets) \ {<<buyer, "BASE">>, <<seller, "QUOTE">>} :
          balance'[<<x[1], x[2], "AVAILABLE">>] = balance[<<x[1], x[2], "AVAILABLE">>]
  <2> SUFFICES ASSUME NEW x \in (Users \X Assets) \ {<<buyer, "BASE">>, <<seller, "QUOTE">>}
               PROVE  balance'[<<x[1], x[2], "AVAILABLE">>] = balance[<<x[1], x[2], "AVAILABLE">>]
    OBVIOUS
  <2>1. <<x[1], x[2], "AVAILABLE">> \notin SettlementAccounts(o, m)
    BY <1>5
  <2> QED BY <1>4, <1>7, <2>1
<1>12. Purse("LOCKED")' = [Purse("LOCKED") EXCEPT ![<<seller, "BASE">>] = @ + (-qty),
                                                  ![<<buyer, "QUOTE">>] = @ + (-quote)]
  <2>1. <<seller, "BASE">> # <<buyer, "QUOTE">>
    OBVIOUS
  <2> QED BY <1>1, <1>2, <1>6, <1>9, <1>10, <2>1, PursesMove
<1>13. Purse("AVAILABLE")' = [Purse("AVAILABLE") EXCEPT ![<<buyer, "BASE">>] = @ + qty,
                                                        ![<<seller, "QUOTE">>] = @ + quote]
  <2>1. <<buyer, "BASE">> # <<seller, "QUOTE">>
    OBVIOUS
  <2> QED BY <1>1, <1>2, <1>6, <1>9, <1>11, <2>1, PursesMove
<1> QED BY <1>12, <1>13 DEF buyer, seller, quote

(* Rows that a trade writes, as entries of the book.                       *)
LEMMA MatchInBook ==
  ASSUME TradingInv, SerialInv, BooksInv, NEW o \in Orders, CommitTrade(o)
  PROVE  LET m == place[o].maker
             qty == FillQuantity(o)
             left(k) == Entries[k].left
         IN  /\ o # m /\ o \in DOMAIN Entries /\ m \in DOMAIN Entries /\ Entries[o].open
             /\ qty = IF left(o) < left(m) THEN left(o) ELSE left(m)
             /\ Entries' = [Entries EXCEPT
                   ![o] = [open |-> left(o) # qty, left |-> left(o) - qty],
                   ![m] = [open |-> left(m) # qty, left |-> left(m) - qty]]
             /\ UNCHANGED Seniority
<1> DEFINE D == DOMAIN order
           m == place[o].maker
           qty == FillQuantity(o)
           New(k) == [Filled(order[k], qty) EXCEPT !.released = order[k].released]
           closed(k) == [open |-> Entries[k].left # qty, left |-> Entries[k].left - qty]
<1>1. place[o].at = "settling"
  BY DEF CommitTrade
<1>2. /\ o \in D /\ m \in D /\ m # o /\ m \in Orders
      /\ place[o].mine = order[o] /\ place[o].theirs = order[m]
      /\ \A k \in {o, m} : /\ Matchable(order[k]) /\ RowSound(k, order[k])
                           /\ order[k].released = 0 /\ qty <= order[k].remaining
      /\ qty \in Nat /\ 0 < qty
      /\ qty = order[o].remaining \/ qty = order[m].remaining
  BY <1>1, Meets, MatchWrites
<1>3. /\ DOMAIN order' = D /\ order'[o] = New(o) /\ order'[m] = New(m)
      /\ \A k \in D \ {o, m} : order'[k] = order[k]
      /\ RowSound(o, New(o)) /\ RowSound(m, New(m))
  BY <1>2, MatchWrites
<1>4. ASSUME NEW k \in {o, m}
      PROVE  /\ New(k).remaining = order[k].remaining - qty
             /\ Matchable(New(k)) = (order[k].remaining # qty)
             /\ New(k).createdAt = order[k].createdAt
             /\ order[k].remaining \in Nat
  <2>1. /\ New(k).filled = order[k].filled + qty
        /\ Matchable(New(k)) <=> qty # order[k].remaining
    BY <1>2, FillReleases
  <2>2. order[k] \in Row
    BY <1>2 DEF RowSound
  <2>3. New(k).createdAt = order[k].createdAt
    BY <2>2, FillKeepsAge
  <2> HIDE DEF New, qty, m
  <2>4. /\ New(k).filled + New(k).remaining = Req[k].qty
        /\ order[k].filled + order[k].remaining = Req[k].qty
        /\ New(k).remaining \in Nat /\ order[k].remaining \in Nat /\ order[k].filled \in Nat
    BY <1>2, <1>3 DEF RowSound, Row
  <2>5. New(k).remaining = order[k].remaining - qty
    BY <1>2, <2>1, <2>4
  <2>6. Matchable(New(k)) = (order[k].remaining # qty)
    BY <2>1 DEF Matchable
  <2> QED BY <2>3, <2>4, <2>5, <2>6
<1> HIDE DEF New, qty, m
<1>5. /\ DOMAIN Entries = D
      /\ \A k \in D : Entries[k] = [open |-> Matchable(order[k]), left |-> order[k].remaining]
      /\ \A k \in D : Entries[k].left = order[k].remaining
      /\ Entries[o].open
  BY <1>2 DEF Entries
<1>6. qty = IF Entries[o].left < Entries[m].left THEN Entries[o].left ELSE Entries[m].left
  <2>1. Entries[o].left = order[o].remaining /\ Entries[m].left = order[m].remaining
    BY <1>2, <1>5
  <2>2. order[o].remaining \in Nat /\ order[m].remaining \in Nat
    BY <1>4
  <2> QED BY <1>2, <2>1, <2>2
<1>7. ASSUME NEW k \in {o, m}
      PROVE  [open |-> Matchable(order'[k]), left |-> order'[k].remaining] = closed(k)
  <2>1. order'[k] = New(k) /\ Entries[k].left = order[k].remaining
    BY <1>2, <1>3, <1>5
  <2>2. /\ Matchable(New(k)) = (order[k].remaining # qty)
        /\ New(k).remaining = order[k].remaining - qty
    BY <1>4
  <2> QED BY <2>1, <2>2
<1>8. ASSUME NEW k \in D \ {o, m}
      PROVE  [open |-> Matchable(order'[k]), left |-> order'[k].remaining] = Entries[k]
  BY <1>3, <1>5
<1>9. Entries' = [k \in D |-> [open |-> Matchable(order'[k]), left |-> order'[k].remaining]]
  BY <1>3 DEF Entries
<1>10. Entries' = [Entries EXCEPT ![o] = closed(o), ![m] = closed(m)]
  <2> DEFINE now(k) == [open |-> Matchable(order'[k]), left |-> order'[k].remaining]
             E == Entries
  <2>1. Entries' = [k \in D |-> now(k)]
    BY <1>9
  <2>2. now(o) = closed(o) /\ now(m) = closed(m) /\ \A k \in D \ {o, m} : now(k) = E[k]
    BY <1>7, <1>8
  <2>3. E = [k \in D |-> E[k]] /\ DOMAIN E = D
    BY DEF Entries
  <2> HIDE DEF now, closed, E, D
  <2>4. Entries' = [E EXCEPT ![o] = closed(o), ![m] = closed(m)]
    BY <1>2, <2>1, <2>2, <2>3
  <2> QED BY <2>4 DEF E
<1>11. UNCHANGED Seniority
  <2>1. \A k \in D : order'[k].createdAt = order[k].createdAt
    BY <1>3, <1>4
  <2> QED BY <1>3, <2>1 DEF Seniority
<1> QED BY <1>2, <1>5, <1>6, <1>10, <1>11 DEF m, qty, closed

(* A match commits as one trade of the newest order with the best other.   *)
LEMMA MatchTrades ==
  ASSUME TradingInv, SerialInv, BooksInv, AgesInv, NEW o \in Orders, CommitTrade(o)
  PROVE  /\ o \in DOMAIN Entries /\ place[o].maker \in DOMAIN Entries
         /\ Promise!Trade(o, place[o].maker)
<1> DEFINE D == DOMAIN order
           m == place[o].maker
           qty == FillQuantity(o)
           buyer == Req[BuyOrder(o, m)].user
           seller == Req[SellOrder(o, m)].user
           quote == ExecutionPrice(o, m) * qty
           left(k) == Entries[k].left
<1>1. /\ place[o].at = "settling"
      /\ trades' = trades \cup {[taker |-> o, maker |-> m, qty |-> qty,
                                 price |-> Req[m].price]}
      /\ balance' = Overwrite(balance, NextBalances(SettlementPosting(o, m, qty), balance))
  BY DEF CommitTrade, BooksInv, ReadsCurrent, ExecutionPrice
<1>2. /\ o \in D /\ m \in D /\ m \in Orders /\ Opposite(o, m) /\ Crosses(o, m) /\ qty \in Nat
  BY <1>1, Meets
<1>3. /\ o # m /\ o \in DOMAIN Entries /\ m \in DOMAIN Entries /\ Entries[o].open
      /\ qty = IF left(o) < left(m) THEN left(o) ELSE left(m)
      /\ Entries' = [Entries EXCEPT ![o] = [open |-> left(o) # qty, left |-> left(o) - qty],
                                    ![m] = [open |-> left(m) # qty, left |-> left(m) - qty]]
      /\ UNCHANGED Seniority
  BY MatchInBook
<1>4. Books /\ Books'
  BY MatchSound DEF TradingInv
<1> HIDE DEF m, qty, left
<1>5. /\ Purse("LOCKED")' = [Purse("LOCKED") EXCEPT ![<<seller, "BASE">>] = @ + (-qty),
                                                    ![<<buyer, "QUOTE">>] = @ + (-quote)]
      /\ Purse("AVAILABLE")' = [Purse("AVAILABLE") EXCEPT ![<<buyer, "BASE">>] = @ + qty,
                                                          ![<<seller, "QUOTE">>] = @ + quote]
  BY <1>1, <1>2, <1>4, SettlementInPurses
<1>6. /\ quote = Req[m].price * qty /\ quote \in Nat
      /\ buyer \in Users /\ seller \in Users /\ buyer # seller
      /\ buyer = Req[IF Promise!Buys(o) THEN o ELSE m].user
      /\ seller = Req[IF Promise!Buys(o) THEN m ELSE o].user
  <2>1. Req[m].price \in Nat
    BY <1>2, ReqTyped
  <2> QED BY <1>2, <2>1, TwoSides DEF ExecutionPrice, BuyOrder, SellOrder, Promise!Buys
<1>7. m \in Promise!Matches(o) /\ Promise!Matches(o) = Candidates(o)
  BY <1>1, SameTerms DEF SerialInv, CopyFresh, m
<1>8. Promise!Best(o, m)
  <2>1. ASSUME NEW n \in Candidates(o) \ {m}
        PROVE  \/ Promise!Improves(o, Req[m].price, Req[n].price)
               \/ Req[m].price = Req[n].price /\ <<m, n>> \in Seniority
    <3>1. n \in D /\ n \in Orders /\ Better(o, m, n)
      BY <1>1 DEF Candidates, SerialInv, CopyFresh, m, TradingInv, RowsSound
    <3>2. order[m].createdAt # order[n].createdAt
      BY <1>2, <3>1 DEF AgesInv
    <3>3. order[m].createdAt \in Nat /\ order[n].createdAt \in Nat
      BY <1>2, <3>1 DEF TradingInv, RowsSound, Row
    <3>4. order[m].createdAt <= order[n].createdAt => <<m, n>> \in Seniority
      BY <1>2, <3>1, <3>2, <3>3 DEF Seniority
    <3> QED BY <3>1, <3>4 DEF Better, Promise!Improves, Promise!Buys
  <2> QED BY <1>7, <2>1 DEF Promise!Best
<1>9. Promise!Newest(o)
  <2>1. ASSUME NEW n \in D \ {o}
        PROVE  <<n, o>> \in Seniority
    <3>1. order[n].createdAt <= order[o].createdAt
      BY <1>1 DEF AgesInv, Sweeping
    <3>2. order[n].createdAt # order[o].createdAt
      BY <1>2 DEF AgesInv
    <3>3. order[n].createdAt \in Nat /\ order[o].createdAt \in Nat
      BY <1>2 DEF TradingInv, RowsSound, Row
    <3> QED BY <1>2, <3>1, <3>2, <3>3 DEF Seniority
  <2>2. DOMAIN Entries = D
    BY DEF Entries
  <2> QED BY <2>1, <2>2 DEF Promise!Newest
<1>10. /\ Purse("LOCKED")' = [Purse("LOCKED") EXCEPT ![<<seller, "BASE">>] = @ - qty,
                                                     ![<<buyer, "QUOTE">>] = @ - quote]
  <2> DEFINE P == Purse("LOCKED")
             x == <<seller, "BASE">>
             y == <<buyer, "QUOTE">>
  <2>1. x \in Users \X Assets /\ y \in Users \X Assets /\ x # y
    BY <1>6, AssetsAssumption
  <2>2. P[x] \in Int /\ P[y] \in Int
    BY <1>4, <2>1, PursesTyped
  <2>3. P' = [P EXCEPT ![x] = @ + (-qty), ![y] = @ + (-quote)]
    BY <1>5
  <2> HIDE DEF P, x, y, quote
  <2>4. P[x] + (-qty) = P[x] - qty /\ P[y] + (-quote) = P[y] - quote
    BY <1>2, <1>6, <2>2
  <2>5. [P EXCEPT ![x] = @ + (-qty), ![y] = @ + (-quote)] =
           [P EXCEPT ![x] = @ - qty, ![y] = @ - quote]
    BY <2>1, <2>4
  <2>6. P' = [P EXCEPT ![x] = @ - qty, ![y] = @ - quote]
    BY <2>3, <2>5
  <2> QED BY <2>6 DEF P, x, y
<1> HIDE DEF buyer, seller, quote
<1> QED BY <1>1, <1>3, <1>5, <1>6, <1>7, <1>8, <1>9, <1>10 DEF Promise!Trade, m, left

(* Handlers that run one at a time, and are lost to crashes at any step,   *)
(* implement the exchange (matchingEngine.service.js:468-540,              *)
(* tradingOrder.service.js:290-437).                                       *)
THEOREM TradingImplementsExchange ==
  ASSUME MaxInFlight = 1, IsFiniteSet(Users)
  PROVE  Spec => ImplementsExchange
<1>1. Init => Promise!Init
  <2> SUFFICES ASSUME Init PROVE Promise!Init
    OBVIOUS
  <2>1. order = [o \in {} |-> 0] /\ trades = {}
    BY DEF Init
  <2>2. Entries = [o \in {} |-> 0] /\ Seniority = {}
    <3>1. DOMAIN order = {}
      BY <2>1
    <3> QED BY <3>1 DEF Entries, Seniority
  <2>3. \A x \in Users \X Assets :
           /\ balance[<<x[1], x[2], "AVAILABLE">>] = Funds[x]
           /\ balance[<<x[1], x[2], "LOCKED">>] = 0
    <3> SUFFICES ASSUME NEW u \in Users, NEW a \in Assets
                 PROVE  /\ balance[<<u, a, "AVAILABLE">>] = Funds[<<u, a>>]
                        /\ balance[<<u, a, "LOCKED">>] = 0
      OBVIOUS
    <3>1. \A type \in {"AVAILABLE", "LOCKED"} :
             <<u, a, type>> \in Account /\ IsUserOwned(<<u, a, type>>)
      BY UserAccounts, OwnersAssumption DEF Account, UserAccount, IsUserOwned
    <3> QED BY <3>1 DEF Init
  <2>4. DOMAIN Funds = Users \X Assets /\ Funds = [x \in Users \X Assets |-> Funds[x]]
    BY FundsAssumption
  <2>5. Purse("AVAILABLE") = Funds
    BY <2>3, <2>4 DEF Purse
  <2>6. Purse("LOCKED") = [x \in DOMAIN Funds |-> 0]
    BY <2>3, <2>4 DEF Purse
  <2> QED BY <2>1, <2>2, <2>5, <2>6 DEF Promise!Init
<1>2. TradingInv /\ SerialInv /\ BooksInv /\ AgesInv /\ [Next]_vars => [Promise!Next]_(Promise!vars)
  <2> SUFFICES ASSUME TradingInv, SerialInv, BooksInv, AgesInv, [Next]_vars
               PROVE  [Promise!Next]_(Promise!vars)
    OBVIOUS
  <2>1. CASE UNCHANGED <<balance, order, trades>>
    BY <2>1 DEF Promise!vars, Entries, Seniority, Purse
  <2>2. ASSUME NEW o \in Orders, InsertOrder(o)
        PROVE  Promise!Next
    BY <2>2, InsertEnters DEF Promise!Next
  <2>3. ASSUME NEW o \in Orders, CommitTrade(o)
        PROVE  Promise!Next
    BY <2>3, MatchTrades DEF Promise!Next
  <2>4. ASSUME NEW o \in Orders, CommitCancel(o)
        PROVE  Promise!Next
    BY <2>4, CancelTakesOut DEF Promise!Next
  <2>5. CASE UNCHANGED vars
    BY <2>1, <2>5 DEF vars
  <2>6. CASE Next
    <3>1. PICK o \in Orders : SubmitOrder(o) \/ Handling(o) \/ CancellingStep(o) \/ Crash(o)
      BY <2>6 DEF Next
    <3>2. CASE \/ SubmitOrder(o) \/ FindOpposite(o) \/ ReadSettlement(o) \/ RefuseDuplicate(o)
               \/ ReadForCancel(o) \/ ReadUnlock(o) \/ Crash(o)
      <4>1. UNCHANGED <<balance, order, trades>>
        BY <3>2 DEF SubmitOrder, FindOpposite, ReadSettlement, RefuseDuplicate, ReadForCancel,
                    ReadUnlock, Crash
      <4> QED BY <2>1, <4>1
    <3> QED BY <2>2, <2>3, <2>4, <3>1, <3>2 DEF Handling, CancellingStep
  <2> QED BY <2>5, <2>6
<1> QED BY <1>1, <1>2, TradingInvariant, TradingSerialInvariant, TradingBooksInvariant,
           TradingAgesInvariant, PTL
        DEF Spec, ImplementsExchange, Promise!Spec
===============================================================================
