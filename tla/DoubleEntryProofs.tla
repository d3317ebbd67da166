--------------------------- MODULE DoubleEntryProofs ---------------------------
(***************************************************************************)
(* Lemmas about the operators that Ledger and Trading are built from:      *)
(* simulated balances, overwritten rows, transfers.                        *)
(***************************************************************************)
EXTENDS DoubleEntry, FiniteSums

(* A posting that points at existing accounts simulates integer balances,  *)
(* one per entry (the loop of ledger.service.js:130-143).                  *)
LEMMA NextBalancesType ==
  ASSUME NEW posting, NEW b, IsPosting(posting), IsBalances(b),
         PointsAtAccounts(posting, b)
  PROVE  NextBalances(posting, b) \in [DOMAIN posting -> Int]
<1>1. \A a \in DOMAIN posting : a \in DOMAIN b
  BY DEF PointsAtAccounts
<1>2. \A a \in DOMAIN posting : posting[a].amount \in Int
  BY DEF IsPosting
<1>3. \A a \in DOMAIN posting : b[a] \in Int
  BY <1>1 DEF IsBalances
<1> QED BY <1>2, <1>3 DEF NextBalances

(* Setting some rows to integers keeps the book a book over the same       *)
(* accounts.                                                               *)
LEMMA OverwriteType ==
  ASSUME NEW b, IsBalances(b), NEW S, NEW next \in [S -> Int]
  PROVE  IsBalances(Overwrite(b, next)) /\ DOMAIN Overwrite(b, next) = DOMAIN b
BY DEF IsBalances, Overwrite

(* Moving an amount between two accounts is a posting.                     *)
LEMMA TransferIsPosting ==
  ASSUME NEW from \in Account, NEW to \in Account, NEW amount \in Int
  PROVE  /\ IsPosting(Transfer(from, to, amount))
         /\ DOMAIN Transfer(from, to, amount) = {from, to}
<1>1. \A a \in Account : AssetOf(a) \in Assets
  BY DEF Account, UserAccount, SystemAccount, AssetOf
<1> QED BY <1>1 DEF IsPosting, Transfer
================================================================================
