----------------------------- MODULE MCWithdrawal -----------------------------
(***************************************************************************)
(* Instances of Withdrawal for TLC.  Withdrawals share nothing but the     *)
(* runners, so one of them is enough.                                      *)
(***************************************************************************)
EXTENDS Withdrawal, TLC

CONSTANTS k1, k2, w1
===============================================================================
