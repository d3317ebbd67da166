------------------------------- MODULE MCLedger -------------------------------
(***************************************************************************)
(* Instances of Ledger for TLC.  The requests are those the services make: *)
(* deposit credits (custody to available), order or withdrawal locks, and  *)
(* two cancellations of one order that computed different amounts under    *)
(* the same key; and two malformed ones that must be refused.              *)
(***************************************************************************)
EXTENDS Ledger, TLC

CONSTANTS p1, p2

MCUsers == {"alice"}
MCAssets == {"BTC", "ETH"}

Avail(x) == <<"alice", x, "AVAILABLE">>
Lock(x) == <<"alice", x, "LOCKED">>
Cust(x) == <<"SYSTEM", x, "CUSTODY">>

Deposit(id, x, n) == [key |-> <<"deposit", id>>,
                      posting |-> Transfer(Cust(x), Avail(x), n)]
LockFor(id, x, n) == [key |-> <<"lock", id>>,
                      posting |-> Transfer(Avail(x), Lock(x), n)]
Unlock(id, x, n) == [key |-> <<"unlock", id>>,
                     posting |-> Transfer(Lock(x), Avail(x), n)]
\* Pays one asset with another: total zero, but not asset by asset.
CrossAsset == [key |-> <<"cross", 1>>,
               posting |-> [a \in {Avail("BTC"), Cust("ETH")} |->
                               [asset |-> AssetOf(a),
                                amount |-> IF a = Avail("BTC") THEN -1 ELSE 1]]]
\* Entries that call a BTC account an ETH account.
WrongAsset == [key |-> <<"wrong", 1>>,
               posting |-> [a \in {Avail("BTC"), Lock("ETH")} |->
                               [asset |-> "ETH",
                                amount |-> IF a = Lock("ETH") THEN 1 ELSE -1]]]

OnBTC == {Deposit(1, "BTC", 2), LockFor(1, "BTC", 2), LockFor(2, "BTC", 1),
          Unlock(1, "BTC", 1), Unlock(1, "BTC", 2)}
SharedRequests == OnBTC \cup {CrossAsset, WrongAsset}
SharedMine == p1 :> SharedRequests @@ p2 :> SharedRequests

Symmetric == Permutations({p1, p2})
===============================================================================
