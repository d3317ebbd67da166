------------------------------ MODULE Accounting ------------------------------
(***************************************************************************)
(* What the ledger promises to its callers: a book of accounts in which a  *)
(* request is posted in one indivisible step, at most once per key, and    *)
(* moves every account it names by exactly the amount of its entry.        *)
(* Ledger.tla, which reads and writes in separate steps, is compared with  *)
(* this module.                                                            *)
(***************************************************************************)
EXTENDS DoubleEntry, Sequences

CONSTANT Requests          \* the calls that may be made: [key, posting]

VARIABLES balance,         \* rows of WalletBalance, one per existing account
          history          \* posted LedgerTransactions with their entries

vars == <<balance, history>>

Init == /\ balance = [a \in {} |-> 0]
        /\ history = << >>

Open(a) == /\ balance' = [b \in DOMAIN balance \cup {a} |->
                             IF b \in DOMAIN balance THEN balance[b] ELSE 0]
           /\ UNCHANGED history

Posted(key) == \E i \in 1..Len(history) : history[i].key = key

Post(r) ==
    /\ WellFormed(r.posting) /\ Balanced(r.posting)
    /\ ~Posted(r.key)
    /\ PointsAtAccounts(r.posting, balance)
    /\ ~Overdraws(NextBalances(r.posting, balance))
    /\ balance' = Overwrite(balance, NextBalances(r.posting, balance))
    /\ history' = Append(history, r)

Next == \/ \E a \in Account : Open(a)
        \/ \E r \in Requests : Post(r)

Spec == Init /\ [][Next]_vars
===============================================================================
