------------------------------- MODULE MCTrading -------------------------------
(***************************************************************************)
(* Instances of Trading for TLC.                                           *)
(***************************************************************************)
EXTENDS Trading, TLC

MCUsers == {"alice", "bob", "carol"}
MCAssets == {"BASE", "QUOTE"}
Endow(base, quote) ==
    [x \in MCUsers \X MCAssets |-> IF x[2] = "BASE" THEN base ELSE quote]
SerialFunds == Endow(2, 5)     \* both buy orders of bob fit
RacingFunds == Endow(2, 4)

Sell(user, price, qty, key) ==
    [user |-> user, side |-> "SELL", price |-> price, qty |-> qty, key |-> key]
Buy(user, price, qty, key) ==
    [user |-> user, side |-> "BUY", price |-> price, qty |-> qty, key |-> key]

\* Two sellers at one price, a dearer one, a buyer who sweeps several of
\* them, and a buyer at the low price.
SerialReq == "s1" :> Sell("alice", 1, 1, "k1") @@ "s2" :> Sell("carol", 1, 1, "k2")
             @@ "s3" :> Sell("alice", 2, 1, "k3") @@ "b1" :> Buy("bob", 2, 2, "k4")
             @@ "b2" :> Buy("bob", 1, 1, "k5")
SerialOrders == DOMAIN SerialReq

\* A resting sell order, two buyers who compete for it, and a duplicate POST.
RacingReq == "s1" :> Sell("alice", 1, 2, "k1") @@ "b1" :> Buy("bob", 2, 1, "k2")
             @@ "b2" :> Buy("carol", 1, 2, "k3") @@ "b3" :> Buy("bob", 2, 1, "k2")
RacingOrders == DOMAIN RacingReq
===============================================================================
