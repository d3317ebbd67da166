------------------------------- MODULE MCDeposit -------------------------------
(***************************************************************************)
(* Instances of Deposit for TLC.  One event is enough for three runners on *)
(* the one row: its processing job, a finalizer, and the recovery scan.    *)
(***************************************************************************)
EXTENDS Deposit, TLC

CONSTANTS e1, k1, k2
===============================================================================
