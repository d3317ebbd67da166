------------------------------ MODULE FiatDeposit ------------------------------
(***************************************************************************)
(* Fiat deposits (payment-service/paymentDeposit.service.js): an order is  *)
(* created at the payment provider and then stored, the customer pays at   *)
(* the provider, and the browser asks the server to verify and credit the  *)
(* payment.  The provider never calls back: if the browser does not ask,   *)
(* nobody does; it may also ask several times at once.                     *)
(*                                                                         *)
(* Every await is a step and may throw before or after it took effect.     *)
(* The posting is one step and is made once per idempotency key, as        *)
(* Ledger.tla establishes.  Amounts, currencies and the checks of the      *)
(* signature and of the owner, which reject a request before it changes    *)
(* anything, are left out.                                                 *)
(***************************************************************************)
EXTENDS Naturals, FiniteSets

CONSTANTS FiatDeposits,
          FiatHandlers,      \* requests the server handles at once
          MaxFiatFaults      \* bound: crashes and awaits that throw

ASSUME FiatAssumption == MaxFiatFaults \in Nat

VARIABLES order,             \* at the provider: none, created, paid
          fiatRow,           \* FiatDeposit.status
          fiatCredits,       \* postings under fiat-deposit-credit:<id>
          handler,           \* per request: where it is and its deposit
          fiatFaults

fiatVars == <<order, fiatRow, fiatCredits, handler, fiatFaults>>

FreeHandler == [pc |-> "free"]

FiatTypeOK ==
    /\ order \in [FiatDeposits -> {"none", "created", "paid"}]
    /\ fiatRow \in [FiatDeposits -> {"NONE", "CREATED", "PAYMENT_CAPTURED", "CREDITED"}]
    /\ fiatCredits \in [FiatDeposits -> Nat]
    /\ handler \in [FiatHandlers ->
           {FreeHandler} \cup [pc : {"insert", "find", "capture", "reload", "post", "close"},
                               d : FiatDeposits]]
    /\ fiatFaults \in 0..MaxFiatFaults

FiatInit ==
    /\ order = [d \in FiatDeposits |-> "none"]
    /\ fiatRow = [d \in FiatDeposits |-> "NONE"]
    /\ fiatCredits = [d \in FiatDeposits |-> 0]
    /\ handler = [h \in FiatHandlers |-> FreeHandler]
    /\ fiatFaults = 0
-------------------------------------------------------------------------------
At(h, pc, d) == handler[h] = [pc |-> pc, d |-> d]
GoesTo(h, pc, d) == handler' = [handler EXCEPT ![h] = [pc |-> pc, d |-> d]]
Returns(h) == handler' = [handler EXCEPT ![h] = FreeHandler]

SetRow(d, status) == fiatRow' = [fiatRow EXCEPT ![d] = status]

\* createFiatDepositOrder: createRazorpayOrder ...
CreateOrder(h, d) ==
    /\ handler[h] = FreeHandler /\ order[d] = "none"
    /\ order' = [order EXCEPT ![d] = "created"]
    /\ GoesTo(h, "insert", d)
    /\ UNCHANGED <<fiatRow, fiatCredits, fiatFaults>>

\* ... then the row, then the answer that lets the browser open the checkout.
InsertRow(h, d) ==
    /\ At(h, "insert", d)
    /\ SetRow(d, "CREATED")
    /\ Returns(h)
    /\ UNCHANGED <<order, fiatCredits, fiatFaults>>

\* The customer pays; the provider captures the payment by itself.
Pay(d) ==
    /\ order[d] = "created" /\ fiatRow[d] = "CREATED"
    /\ order' = [order EXCEPT ![d] = "paid"]
    /\ UNCHANGED <<fiatRow, fiatCredits, handler, fiatFaults>>

\* The provider signs an order's id with its payment's id.
SignatureProves(d) == order[d] = "paid"

\* Fault: an unpaid order may be verified.
VerifyUnpaid(h, d) ==
    /\ handler[h] = FreeHandler /\ fiatRow[d] # "NONE"
    /\ GoesTo(h, "find", d)
    /\ UNCHANGED <<order, fiatRow, fiatCredits, fiatFaults>>

\* verifyAndCreditFiatDeposit
Verify(h, d) ==
    /\ handler[h] = FreeHandler /\ SignatureProves(d)
    /\ GoesTo(h, "find", d)
    /\ UNCHANGED <<order, fiatRow, fiatCredits, fiatFaults>>

FindRow(h, d) ==
    /\ At(h, "find", d)
    /\ \/ fiatRow[d] = "CREDITED" /\ Returns(h)
       \/ fiatRow[d] \notin {"CREDITED", "NONE"} /\ GoesTo(h, "capture", d)
    /\ UNCHANGED <<order, fiatRow, fiatCredits, fiatFaults>>

\* The update does not ask what the status has become since it was read.
Capture(h, d) ==
    /\ At(h, "capture", d)
    /\ SetRow(d, "PAYMENT_CAPTURED")
    /\ GoesTo(h, "reload", d)
    /\ UNCHANGED <<order, fiatCredits, fiatFaults>>

\* Fault: the request ends once the payment is stored.
ReloadNothing(h, d) ==
    /\ At(h, "reload", d)
    /\ Returns(h)
    /\ UNCHANGED <<order, fiatRow, fiatCredits, fiatFaults>>

\* creditCapturedFiatDeposit: the row is read again.
Reload(h, d) ==
    /\ At(h, "reload", d)
    /\ \/ fiatRow[d] = "CREDITED" /\ Returns(h)
       \/ fiatRow[d] = "PAYMENT_CAPTURED" /\ GoesTo(h, "post", d)
    /\ UNCHANGED <<order, fiatRow, fiatCredits, fiatFaults>>

\* A key that is already in the ledger is answered with what was posted.
PostOnce(d) == fiatCredits' = [fiatCredits EXCEPT ![d] = IF @ = 0 THEN 1 ELSE @]

Post(h, d) ==
    /\ At(h, "post", d)
    /\ PostOnce(d)
    /\ GoesTo(h, "close", d)
    /\ UNCHANGED <<order, fiatRow, fiatFaults>>

Close(h, d) ==
    /\ At(h, "close", d)
    /\ SetRow(d, "CREDITED")
    /\ Returns(h)
    /\ UNCHANGED <<order, fiatCredits, fiatFaults>>

\* The await in hand throws, with or without its effect, and ends the request.
HandlerFails(h, d) ==
    /\ handler[h] # FreeHandler /\ handler[h].d = d
    /\ fiatFaults < MaxFiatFaults /\ fiatFaults' = fiatFaults + 1
    /\ Returns(h)
    /\ \/ UNCHANGED <<fiatRow, fiatCredits>>
       \/ At(h, "insert", d) /\ SetRow(d, "CREATED") /\ UNCHANGED fiatCredits
       \/ At(h, "capture", d) /\ SetRow(d, "PAYMENT_CAPTURED") /\ UNCHANGED fiatCredits
       \/ At(h, "post", d) /\ PostOnce(d) /\ UNCHANGED fiatRow
       \/ At(h, "close", d) /\ SetRow(d, "CREDITED") /\ UNCHANGED fiatCredits
    /\ UNCHANGED order

HandlerStep(h) ==
    \E d \in FiatDeposits : \/ InsertRow(h, d) \/ FindRow(h, d) \/ Capture(h, d)
                            \/ Reload(h, d) \/ Post(h, d) \/ Close(h, d)

FiatNext ==
    \/ \E h \in FiatHandlers : HandlerStep(h)
    \/ \E h \in FiatHandlers, d \in FiatDeposits :
          CreateOrder(h, d) \/ Verify(h, d) \/ HandlerFails(h, d)
    \/ \E d \in FiatDeposits : Pay(d)

FiatSpec == FiatInit /\ [][FiatNext]_fiatVars

\* The event loop resumes a handler whose await has returned.
FiatFairness == \A h \in FiatHandlers : WF_fiatVars(HandlerStep(h))
-------------------------------------------------------------------------------
Busy(d) == \E h \in FiatHandlers : handler[h] # FreeHandler /\ handler[h].d = d

Credit == INSTANCE CreditOnce
    WITH Payments <- FiatDeposits,
         received <- {d \in FiatDeposits : order[d] = "paid"},
         credits <- fiatCredits

\* However the requests of one payment overlap, are repeated or fail, the
\* customer is credited for a payment made, and once.
FiatImplementsCreditOnce == Credit!Spec

\* A captured payment is posted and its row says CREDITED, whatever late
\* requests do to the row, unless its last request failed; then the row still
\* says PAYMENT_CAPTURED, so that another request can complete it.
CapturedIsCredited ==
    \A d \in FiatDeposits :
       fiatRow[d] = "PAYMENT_CAPTURED" ~>
          \/ fiatRow[d] = "CREDITED" /\ fiatCredits[d] = 1
          \/ fiatRow[d] = "PAYMENT_CAPTURED" /\ fiatFaults > 0 /\ ~Busy(d)
===============================================================================
