----------------------------- MODULE DoubleEntry -----------------------------
(***************************************************************************)
(* The bookkeeping rules of postLedgerTransaction                          *)
(* (wallet-ledger-service/ledger.service.js) as operators without state:   *)
(* which postings are accepted, what balances a posting leads to, and when *)
(* a user account would be overdrawn.  Every module whose component moves  *)
(* money extends this one.                                                 *)
(*                                                                         *)
(* A posting is the `entries` array of one call: a function from the       *)
(* accounts it touches to [asset, amount].  It is a function because every *)
(* caller names an account at most once.                                   *)
(***************************************************************************)
EXTENDS Integers, FiniteSets, FiniteSetsExt

CONSTANTS Users, Assets

ASSUME OwnersAssumption == "SYSTEM" \notin Users

\* Rows of WalletAccount: <<owner, asset, type>>.
UserAccount == Users \X Assets \X {"AVAILABLE", "LOCKED"}
SystemAccount == {"SYSTEM"} \X Assets \X {"CUSTODY"}
Account == UserAccount \cup SystemAccount

AssetOf(account) == account[2]
IsUserOwned(account) == account[1] \in Users

IsPosting(posting) ==
    /\ DOMAIN posting \subseteq Account
    /\ posting \in [DOMAIN posting -> [asset : Assets, amount : Int]]

\* Rows of WalletBalance, one per account that exists.
IsBalances(balance) ==
    /\ DOMAIN balance \subseteq Account
    /\ balance \in [DOMAIN balance -> Int]

\* "A ledger transaction requires at least two entries", none of amount zero.
WellFormed(posting) ==
    /\ \E a, b \in DOMAIN posting : a # b
    /\ \A a \in DOMAIN posting : posting[a].amount # 0

\* Net amount a posting puts on one asset.
AssetTotal(posting, asset) ==
    SumFunctionOnSet([a \in DOMAIN posting |-> posting[a].amount],
                     {a \in DOMAIN posting : posting[a].asset = asset})

\* Fault: one total over all assets, so that one asset can pay for another.
BalancedInTotal(posting) ==
    SumFunction([a \in DOMAIN posting |-> posting[a].amount]) = 0

\* The double-entry rule, one asset at a time.
Balanced(posting) == \A asset \in Assets : AssetTotal(posting, asset) = 0

\* Every entry names an account that exists and is held in the entry's asset.
PointsAtAccounts(posting, balance) ==
    \A a \in DOMAIN posting :
        a \in DOMAIN balance /\ AssetOf(a) = posting[a].asset

\* The balances simulated before anything is written.
NextBalances(posting, balance) ==
    [a \in DOMAIN posting |-> balance[a] + posting[a].amount]

\* Fault: only the account the money is taken from first is checked.
OverdrawsAvailable(next) ==
    \E a \in DOMAIN next : IsUserOwned(a) /\ a[3] = "AVAILABLE" /\ next[a] < 0

\* A USER account would go below zero; SYSTEM accounts may.
Overdraws(next) == \E a \in DOMAIN next : IsUserOwned(a) /\ next[a] < 0

\* The balance rows after each touched row is set to its simulated value.
Overwrite(balance, next) ==
    [a \in DOMAIN balance |-> IF a \in DOMAIN next THEN next[a] ELSE balance[a]]

\* The posting that moves an amount between two accounts of one asset.
Transfer(from, to, amount) ==
    [a \in {from, to} |->
        [asset |-> AssetOf(a), amount |-> IF a = from THEN -amount ELSE amount]]
==============================================================================
