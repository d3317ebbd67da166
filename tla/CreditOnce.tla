------------------------------ MODULE CreditOnce ------------------------------
(***************************************************************************)
(* What every way of paying in promises to a customer: a payment that has  *)
(* been received is credited, never before it is received and never twice. *)
(***************************************************************************)
EXTENDS Naturals

CONSTANT Payments

VARIABLES received,          \* payments the outside world has made
          credits            \* ledger postings to the customer, per payment

Init == received = {} /\ credits = [p \in Payments |-> 0]

Arrive(p) == /\ received' = received \cup {p}
             /\ UNCHANGED credits

Credit(p) == /\ p \in received /\ credits[p] = 0
             /\ credits' = [credits EXCEPT ![p] = 1]
             /\ UNCHANGED received

Next == \E p \in Payments : Arrive(p) \/ Credit(p)

Spec == Init /\ [][Next]_<<received, credits>>
===============================================================================
