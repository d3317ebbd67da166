------------------------------- MODULE Exchange -------------------------------
(***************************************************************************)
(* What the exchange promises to those who trade on it: a book of limit    *)
(* orders in which an order enters, a trade is made and an order is taken  *)
(* out in one indivisible step each, and nothing else happens to orders    *)
(* and funds.  Trading.tla, whose handlers read and write in separate      *)
(* steps, is compared with this module.                                    *)
(***************************************************************************)
EXTENDS Integers

CONSTANTS Orders,        \* order ids
          Req,           \* what each asks for: [user, side, price, qty, key]
          Funds          \* what each user owns of each asset at first

VARIABLES book,          \* orders that entered: [open, left]
          before,        \* which of them entered before which
          trades,        \* trades made
          free, held     \* of each user and asset: at his disposal, reserved

vars == <<book, before, trades, free, held>>

Buys(o) == Req[o].side = "BUY"

\* Where an order pays from, and what it needs there for a quantity.
Source(o) == <<Req[o].user, IF Buys(o) THEN "QUOTE" ELSE "BASE">>
Worth(o, qty) == IF Buys(o) THEN Req[o].price * qty ELSE qty

Improves(taker, price, other) == IF Buys(taker) THEN price < other ELSE price > other

\* The open orders that an order may trade with.
Matches(taker) ==
    {m \in DOMAIN book : /\ book[m].open
                         /\ Buys(m) # Buys(taker) /\ Req[m].user # Req[taker].user
                         /\ ~Improves(taker, Req[taker].price, Req[m].price)}

\* The best price comes first, and the order that has waited longest.
Best(taker, maker) ==
    \A m \in Matches(taker) \ {maker} :
       \/ Improves(taker, Req[maker].price, Req[m].price)
       \/ Req[maker].price = Req[m].price /\ <<maker, m>> \in before

Newest(o) == \A m \in DOMAIN book \ {o} : <<m, o>> \in before

Init == /\ book = [o \in {} |-> 0] /\ before = {} /\ trades = {}
        /\ free = Funds /\ held = [x \in DOMAIN Funds |-> 0]
-------------------------------------------------------------------------------
\* An order enters if its user can pay for it, and once per key.
Enter(o) ==
    /\ \A m \in DOMAIN book : Req[m].key # Req[o].key
    /\ Worth(o, Req[o].qty) <= free[Source(o)]
    /\ book' = [m \in DOMAIN book \cup {o} |->
                   IF m = o THEN [open |-> TRUE, left |-> Req[o].qty] ELSE book[m]]
    /\ before' = before \cup ((DOMAIN book) \X {o})
    /\ free' = [free EXCEPT ![Source(o)] = @ - Worth(o, Req[o].qty)]
    /\ held' = [held EXCEPT ![Source(o)] = @ + Worth(o, Req[o].qty)]
    /\ UNCHANGED trades

\* The newest order trades with the best of the others, at that one's price,
\* for as much as both have left.  What a buyer pays less than his limit is
\* not given back: it stays held.
Trade(taker, maker) ==
    LET mine == book[taker].left
        theirs == book[maker].left
        qty == IF mine < theirs THEN mine ELSE theirs
        price == Req[maker].price
        buyer == Req[IF Buys(taker) THEN taker ELSE maker].user
        seller == Req[IF Buys(taker) THEN maker ELSE taker].user
    IN  /\ book[taker].open /\ Newest(taker)
        /\ maker \in Matches(taker) /\ Best(taker, maker)
        /\ trades' = trades \cup {[taker |-> taker, maker |-> maker, qty |-> qty,
                                   price |-> price]}
        /\ book' = [book EXCEPT ![taker] = [open |-> mine # qty, left |-> mine - qty],
                                ![maker] = [open |-> theirs # qty, left |-> theirs - qty]]
        /\ held' = [held EXCEPT ![<<seller, "BASE">>] = @ - qty,
                                ![<<buyer, "QUOTE">>] = @ - price * qty]
        /\ free' = [free EXCEPT ![<<buyer, "BASE">>] = @ + qty,
                                ![<<seller, "QUOTE">>] = @ + price * qty]
        /\ UNCHANGED before

\* An open order is taken out and what it still needs returned.
TakeOut(o) ==
    /\ book[o].open
    /\ book' = [book EXCEPT ![o] = [open |-> FALSE, left |-> @.left]]
    /\ held' = [held EXCEPT ![Source(o)] = @ - Worth(o, book[o].left)]
    /\ free' = [free EXCEPT ![Source(o)] = @ + Worth(o, book[o].left)]
    /\ UNCHANGED <<before, trades>>

Next == \/ \E o \in Orders : Enter(o)
        \/ \E taker, maker \in DOMAIN book : Trade(taker, maker)
        \/ \E o \in DOMAIN book : TakeOut(o)

Spec == Init /\ [][Next]_vars
===============================================================================
