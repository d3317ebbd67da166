----------------------------- MODULE ServicesProofs -----------------------------
(***************************************************************************)
(* Proofs about the services around the ledger, each for any requests that *)
(* the server handles at once and any number of failures: fiat deposits,   *)
(* deposit addresses, sessions, two-factor authentication, identity        *)
(* checks, market data, rate limiters.  They share no state; a part below  *)
(* names its module, and the last one puts them together.                  *)
(***************************************************************************)
EXTENDS Services, OutboxProofs
-------------------------------------------------------------------------------
(* FiatDeposit.                                                            *)


\* A request that verifies or credits d holds the provider's signature, and
\* one that is about to close d has posted.
RequestsHoldProof ==
    \A h \in FiatHandlers, d \in FiatDeposits :
       /\ \A pc \in {"find", "capture", "reload", "post", "close"} :
             At(h, pc, d) => order[d] = "paid"
       /\ At(h, "close", d) => fiatCredits[d] = 1

\* The ledger's view of a deposit, and the row's claim about it.
CreditsArePaid ==
    \A d \in FiatDeposits : /\ fiatCredits[d] \in {0, 1}
                            /\ fiatCredits[d] = 1 => order[d] = "paid"
                            /\ fiatRow[d] = "CREDITED" => fiatCredits[d] = 1

FiatInv == FiatTypeOK /\ RequestsHoldProof /\ CreditsArePaid

(* The orders, rows, postings and requests of fiat deposits keep their     *)
(* types in every reachable state.                                         *)
THEOREM FiatTypeCorrect == FiatSpec => []FiatTypeOK
<1> USE FiatAssumption
<1>1. FiatInit => FiatTypeOK
  BY DEF FiatInit, FiatTypeOK
<1>2. FiatTypeOK /\ [FiatNext]_fiatVars => FiatTypeOK'
  <2> SUFFICES ASSUME FiatTypeOK, [FiatNext]_fiatVars PROVE FiatTypeOK'
    OBVIOUS
  <2> USE DEF FiatTypeOK, GoesTo, Returns, SetRow
  <2>1. ASSUME NEW h \in FiatHandlers, NEW d \in FiatDeposits,
               CreateOrder(h, d) \/ Verify(h, d)
        PROVE  FiatTypeOK'
    BY <2>1 DEF CreateOrder, Verify
  <2>2. ASSUME NEW h \in FiatHandlers, NEW d \in FiatDeposits,
               InsertRow(h, d) \/ FindRow(h, d) \/ Capture(h, d) \/ Reload(h, d)
        PROVE  FiatTypeOK'
    BY <2>2 DEF InsertRow, FindRow, Capture, Reload
  <2>3. ASSUME NEW h \in FiatHandlers, NEW d \in FiatDeposits,
               Post(h, d) \/ Close(h, d)
        PROVE  FiatTypeOK'
    BY <2>3 DEF Post, Close, PostOnce
  <2>4. ASSUME NEW h \in FiatHandlers, NEW d \in FiatDeposits, HandlerFails(h, d)
        PROVE  FiatTypeOK'
    <3>1. fiatRow' \in [FiatDeposits -> {"NONE", "CREATED", "PAYMENT_CAPTURED", "CREDITED"}]
      BY <2>4 DEF HandlerFails
    <3>2. fiatCredits' \in [FiatDeposits -> Nat]
      BY <2>4 DEF HandlerFails, PostOnce
    <3> QED BY <2>4, <3>1, <3>2 DEF HandlerFails
  <2>5. ASSUME NEW d \in FiatDeposits, Pay(d) PROVE FiatTypeOK'
    BY <2>5 DEF Pay
  <2>6. CASE UNCHANGED fiatVars
    BY <2>6 DEF fiatVars
  <2> QED BY <2>1, <2>2, <2>3, <2>4, <2>5, <2>6 DEF FiatNext, HandlerStep
<1> QED BY <1>1, <1>2, PTL DEF FiatSpec

(* A request of d, or its failure, changes nothing of the other deposits   *)
(* and of the other requests.                                              *)
LEMMA FiatStepsAreLocal ==
  ASSUME FiatTypeOK,
         NEW h \in FiatHandlers, NEW d \in FiatDeposits,
         \/ CreateOrder(h, d) \/ Verify(h, d) \/ HandlerFails(h, d)
         \/ InsertRow(h, d) \/ FindRow(h, d) \/ Capture(h, d)
         \/ Reload(h, d) \/ Post(h, d) \/ Close(h, d)
  PROVE  /\ \A g \in FiatHandlers \ {h} : handler'[g] = handler[g]
         /\ \A c \in FiatDeposits \ {d} : /\ order'[c] = order[c]
                                          /\ fiatRow'[c] = fiatRow[c]
                                          /\ fiatCredits'[c] = fiatCredits[c]
<1> USE DEF FiatTypeOK, GoesTo, Returns, SetRow, PostOnce
<1>1. CASE CreateOrder(h, d) \/ Verify(h, d)
  BY <1>1 DEF CreateOrder, Verify
<1>2. CASE InsertRow(h, d) \/ FindRow(h, d) \/ Capture(h, d)
  BY <1>2 DEF InsertRow, FindRow, Capture
<1>3. CASE Reload(h, d) \/ Post(h, d) \/ Close(h, d)
  BY <1>3 DEF Reload, Post, Close
<1>4. CASE HandlerFails(h, d)
  BY <1>4 DEF HandlerFails
<1> QED BY <1>1, <1>2, <1>3, <1>4

(* The strengthened invariant: only a paid order has requests that credit  *)
(* it, and only a posted deposit is closed.                                *)
THEOREM FiatInvariant == FiatSpec => []FiatInv
<1>1. FiatInit => FiatInv
  BY FiatAssumption
  DEF FiatInit, FiatInv, FiatTypeOK, RequestsHoldProof, CreditsArePaid, At, FreeHandler
<1>2. FiatInv /\ FiatTypeOK' /\ [FiatNext]_fiatVars => FiatInv'
  <2> SUFFICES ASSUME FiatInv, FiatTypeOK', [FiatNext]_fiatVars
               PROVE  RequestsHoldProof' /\ CreditsArePaid'
    BY DEF FiatInv
  <2> USE DEF FiatInv, FiatTypeOK, RequestsHoldProof, CreditsArePaid,
              At, GoesTo, Returns, SetRow, FreeHandler
  <2>1. ASSUME NEW h \in FiatHandlers, NEW d \in FiatDeposits,
               CreateOrder(h, d) \/ Verify(h, d)
        PROVE  RequestsHoldProof' /\ CreditsArePaid'
    BY <2>1, FiatStepsAreLocal DEF CreateOrder, Verify, SignatureProves
  <2>2. ASSUME NEW h \in FiatHandlers, NEW d \in FiatDeposits,
               InsertRow(h, d) \/ FindRow(h, d)
        PROVE  RequestsHoldProof' /\ CreditsArePaid'
    BY <2>2, FiatStepsAreLocal DEF InsertRow, FindRow
  <2>3. ASSUME NEW h \in FiatHandlers, NEW d \in FiatDeposits,
               Capture(h, d) \/ Reload(h, d)
        PROVE  RequestsHoldProof' /\ CreditsArePaid'
    BY <2>3, FiatStepsAreLocal DEF Capture, Reload
  <2>4. ASSUME NEW h \in FiatHandlers, NEW d \in FiatDeposits,
               Post(h, d) \/ Close(h, d)
        PROVE  RequestsHoldProof' /\ CreditsArePaid'
    BY <2>4, FiatStepsAreLocal DEF Post, Close, PostOnce
  <2>5. ASSUME NEW h \in FiatHandlers, NEW d \in FiatDeposits, HandlerFails(h, d)
        PROVE  RequestsHoldProof' /\ CreditsArePaid'
    BY <2>5, FiatStepsAreLocal DEF HandlerFails, PostOnce
  <2>6. ASSUME NEW d \in FiatDeposits, Pay(d)
        PROVE  RequestsHoldProof' /\ CreditsArePaid'
    BY <2>6 DEF Pay
  <2>7. CASE UNCHANGED fiatVars
    BY <2>7 DEF fiatVars
  <2> QED BY <2>1, <2>2, <2>3, <2>4, <2>5, <2>6, <2>7 DEF FiatNext, HandlerStep
<1> QED BY <1>1, <1>2, FiatTypeCorrect, PTL DEF FiatSpec

(* A row that says CREDITED has been posted, and what has been posted was  *)
(* paid (paymentDeposit.service.js:94-286), however many requests verify   *)
(* the payment at once and whichever of them fail.                         *)
THEOREM FiatCreditsArePaid == FiatSpec => []CreditsArePaid
<1>1. FiatInv => CreditsArePaid
  BY DEF FiatInv
<1> QED BY <1>1, FiatInvariant, PTL

(* The requests of fiat deposits do nothing to the ledger but credit a     *)
(* payment made, once: Pay is the arrival, the posting is the credit, and  *)
(* every other step is invisible.                                          *)
THEOREM FiatRefinesCreditOnce == FiatSpec => FiatImplementsCreditOnce
<1> DEFINE received == {d \in FiatDeposits : order[d] = "paid"}
<1>1. FiatInit => Credit!Init
  BY DEF FiatInit, Credit!Init
<1>2. FiatInv /\ FiatInv' /\ [FiatNext]_fiatVars
      => [Credit!Next]_<<received, fiatCredits>>
  <2> SUFFICES ASSUME FiatInv, FiatInv', [FiatNext]_fiatVars
               PROVE  Credit!Next \/ UNCHANGED <<received, fiatCredits>>
    OBVIOUS
  <2>1. ASSUME NEW d \in FiatDeposits, Pay(d) PROVE Credit!Next
    <3>1. received' = received \cup {d} /\ UNCHANGED fiatCredits
      BY <2>1 DEF Pay, FiatInv, FiatTypeOK
    <3> QED BY <3>1 DEF Credit!Next, Credit!Arrive
  <2>2. ASSUME NEW h \in FiatHandlers, NEW d \in FiatDeposits,
               At(h, "post", d), PostOnce(d), UNCHANGED order
        PROVE  Credit!Next \/ UNCHANGED <<received, fiatCredits>>
    <3>1. order[d] = "paid" /\ fiatCredits[d] \in {0, 1}
      BY <2>2 DEF FiatInv, RequestsHoldProof, CreditsArePaid
    <3>2. CASE fiatCredits[d] = 0
      <4>1. d \in received /\ fiatCredits' = [fiatCredits EXCEPT ![d] = 1]
        BY <2>2, <3>1, <3>2 DEF PostOnce
      <4> QED BY <2>2, <3>2, <4>1 DEF Credit!Next, Credit!Credit
    <3>3. CASE fiatCredits[d] = 1
      BY <2>2, <3>3 DEF PostOnce, FiatInv, FiatTypeOK
    <3> QED BY <3>1, <3>2, <3>3
  <2>3. ASSUME NEW h \in FiatHandlers, NEW d \in FiatDeposits,
               CreateOrder(h, d)
        PROVE  UNCHANGED <<received, fiatCredits>>
    BY <2>3 DEF CreateOrder, FiatInv, FiatTypeOK
  <2>4. ASSUME NEW h \in FiatHandlers, NEW d \in FiatDeposits,
               HandlerFails(h, d)
        PROVE  Credit!Next \/ UNCHANGED <<received, fiatCredits>>
    BY <2>2, <2>4 DEF HandlerFails
  <2>5. ASSUME NEW h \in FiatHandlers, NEW d \in FiatDeposits, Post(h, d)
        PROVE  Credit!Next \/ UNCHANGED <<received, fiatCredits>>
    BY <2>2, <2>5 DEF Post
  <2>6. ASSUME NEW h \in FiatHandlers, NEW d \in FiatDeposits,
               \/ InsertRow(h, d) \/ FindRow(h, d) \/ Capture(h, d)
               \/ Reload(h, d) \/ Close(h, d) \/ Verify(h, d)
        PROVE  UNCHANGED <<received, fiatCredits>>
    BY <2>6 DEF InsertRow, FindRow, Capture, Reload, Close, Verify
  <2>7. CASE UNCHANGED fiatVars
    BY <2>7 DEF fiatVars
  <2> QED BY <2>1, <2>3, <2>4, <2>5, <2>6, <2>7 DEF FiatNext, HandlerStep
<1> QED BY <1>1, <1>2, FiatInvariant, PTL
        DEF FiatSpec, FiatImplementsCreditOnce, Credit!Spec
-------------------------------------------------------------------------------
(* DepositAddresses.                                                       *)

\* The requests that have found no row and are about to make an address.
Racing == {h \in AddressHandlers : addressRequest[h].pc \in {"create", "store"}}

\* An address in hand exists, and an idle request has none.
HandsSound ==
    \A h \in AddressHandlers :
       /\ addressRequest[h].pc = "idle" => addressRequest[h] = AddressIdle
       /\ addressRequest[h].pc = "store" <=> addressRequest[h].address # NoAddress

\* Until there is a row only failures waste addresses; from then on every
\* request that still races can waste one, but not the one that made the row.
WasteBounded ==
    /\ IsFiniteSet(Orphans)
    /\ IF depositAddress = NoAddress
       THEN Cardinality(Orphans) <= addressFaults
       ELSE Cardinality(Orphans) + Cardinality(Racing)
               <= Cardinality(AddressHandlers) - 1 + addressFaults

AddressInv == AddressTypeOK /\ HandsSound /\ AnsweredIsStored /\ WasteBounded

(* The requests are finitely many, and so are the addresses they waste.    *)
LEMMA RacersCount ==
  ASSUME AddressInv
  PROVE  /\ Cardinality(AddressHandlers) \in Nat /\ Cardinality(AddressHandlers) > 0
         /\ IsFiniteSet(Racing) /\ Cardinality(Racing) \in Nat
         /\ IsFiniteSet(Orphans) /\ Cardinality(Orphans) \in Nat
         /\ addressFaults \in Nat
<1>1. Cardinality(AddressHandlers) \in Nat /\ Cardinality(AddressHandlers) > 0
  <2>1. Cardinality(AddressHandlers) \in Nat
    BY AddressAssumption, FS_CardinalityType
  <2>2. Cardinality(AddressHandlers) # 0
    BY AddressAssumption, FS_EmptySet
  <2> QED BY <2>1, <2>2
<1>2. IsFiniteSet(Racing)
  BY AddressAssumption, FS_Subset DEF Racing
<1>3. IsFiniteSet(Orphans) /\ addressFaults \in Nat
  BY AddressAssumption DEF AddressInv, WasteBounded, AddressTypeOK
<1> QED BY <1>1, <1>2, <1>3, FS_CardinalityType

(* A request's step is one step of one request, and leaves the others'     *)
(* addresses in their hands.                                               *)
LEMMA AddressMoves ==
  ASSUME AddressInv, NEW h \in AddressHandlers, NEW pc \in {"idle", "create", "store"},
         NEW a, receiveAddresses' \in 0..MaxAddresses, receiveAddresses' >= receiveAddresses,
         a \in 0..receiveAddresses', pc = "store" <=> a # NoAddress,
         addressRequest' = [addressRequest EXCEPT ![h] = [pc |-> pc, address |-> a]]
  PROVE  /\ addressRequest' \in [AddressHandlers ->
               [pc : {"idle", "create", "store"}, address : 0..receiveAddresses']]
         /\ HandsSound'
         /\ addressRequest'[h] = [pc |-> pc, address |-> a]
         /\ \A g \in AddressHandlers \ {h} : addressRequest'[g] = addressRequest[g]
<1> USE DEF AddressInv, AddressTypeOK
<1>1. receiveAddresses \in Nat /\ receiveAddresses' \in Nat
  BY AddressAssumption
<1>2. \A n \in 0..receiveAddresses : n \in 0..receiveAddresses'
  BY <1>1
<1>3. /\ addressRequest'[h] = [pc |-> pc, address |-> a]
      /\ \A g \in AddressHandlers \ {h} : addressRequest'[g] = addressRequest[g]
  OBVIOUS
<1>4. \A g \in AddressHandlers :
         addressRequest[g] \in [pc : {"idle", "create", "store"}, address : 0..receiveAddresses']
  BY <1>2
<1>5. addressRequest' \in [AddressHandlers ->
         [pc : {"idle", "create", "store"}, address : 0..receiveAddresses']]
  BY <1>4
<1>6. pc = "idle" => [pc |-> pc, address |-> a] = AddressIdle
  BY DEF AddressIdle
<1>7. HandsSound'
  <2>1. HandsSound /\ AddressIdle' = AddressIdle /\ NoAddress' = NoAddress
    BY DEF AddressIdle, NoAddress
  <2> QED BY <1>3, <1>6, <2>1 DEF HandsSound
<1> QED BY <1>3, <1>5, <1>7

(* A user is told an address, or starts to race for one.                   *)
LEMMA FindKeeps ==
  ASSUME AddressInv, NEW h \in AddressHandlers, FindAddress(h)
  PROVE  AddressInv'
<1> USE AddressAssumption
<1>1. addressRequest[h] = AddressIdle
      /\ UNCHANGED <<receiveAddresses, depositAddress, addressFaults>>
  BY DEF FindAddress
<1>2. CASE depositAddress # NoAddress
  <2>1. answered' = answered \cup {depositAddress} /\ UNCHANGED addressRequest
    BY <1>2 DEF FindAddress
  <2>2. depositAddress \in 1..receiveAddresses
    BY <1>2 DEF AddressInv, AddressTypeOK, NoAddress
  <2>3. AddressTypeOK' /\ HandsSound' /\ AnsweredIsStored'
    BY <1>1, <2>1, <2>2
    DEF AddressInv, AddressTypeOK, HandsSound, AnsweredIsStored, AddressIdle, NoAddress
  <2>4. Orphans' = Orphans /\ Racing' = Racing
    BY <1>1, <2>1 DEF Orphans, Racing
  <2>5. WasteBounded'
    BY <1>1, <2>4 DEF AddressInv, WasteBounded, NoAddress
  <2> QED BY <2>3, <2>5 DEF AddressInv
<1>3. CASE depositAddress = NoAddress
  <2>1. addressRequest' = [addressRequest EXCEPT ![h] = [pc |-> "create", address |-> NoAddress]]
        /\ UNCHANGED answered
    BY <1>3 DEF FindAddress, Proceed
  <2>2. receiveAddresses' \in 0..MaxAddresses /\ receiveAddresses' >= receiveAddresses
        /\ NoAddress \in 0..receiveAddresses'
    BY <1>1 DEF AddressInv, AddressTypeOK, NoAddress
  <2>3. /\ addressRequest' \in [AddressHandlers ->
              [pc : {"idle", "create", "store"}, address : 0..receiveAddresses']]
        /\ HandsSound'
        /\ addressRequest'[h] = [pc |-> "create", address |-> NoAddress]
        /\ \A g \in AddressHandlers \ {h} : addressRequest'[g] = addressRequest[g]
    BY <2>1, <2>2, AddressMoves
  <2>4. AddressTypeOK' /\ AnsweredIsStored'
    BY <1>1, <2>1, <2>3 DEF AddressInv, AddressTypeOK, AnsweredIsStored
  <2>5. \A g \in AddressHandlers : addressRequest'[g].address = addressRequest[g].address
    BY <1>1, <2>3 DEF AddressIdle
  <2>6. Orphans' = Orphans
    BY <1>1, <2>5 DEF Orphans
  <2>7. WasteBounded'
    BY <1>1, <1>3, <2>6 DEF AddressInv, WasteBounded, NoAddress
  <2> QED BY <2>3, <2>4, <2>7 DEF AddressInv
<1> QED BY <1>2, <1>3

(* A new address is in its request's hand.                                 *)
LEMMA CreateKeeps ==
  ASSUME AddressInv, NEW h \in AddressHandlers, CreateReceiveAddress(h)
  PROVE  AddressInv'
<1> USE AddressAssumption
<1> DEFINE new == receiveAddresses + 1
<1>1. /\ addressRequest[h].pc = "create" /\ receiveAddresses < MaxAddresses
      /\ receiveAddresses' = new
      /\ addressRequest' = [addressRequest EXCEPT ![h] = [pc |-> "store", address |-> new]]
      /\ UNCHANGED <<depositAddress, answered, addressFaults>>
  BY DEF CreateReceiveAddress, NewAddress, Proceed
<1>2. receiveAddresses \in Nat /\ receiveAddresses' \in 0..MaxAddresses
      /\ receiveAddresses' >= receiveAddresses
      /\ new \in 0..receiveAddresses' /\ new # NoAddress
  BY <1>1 DEF AddressInv, AddressTypeOK, NoAddress
<1>3. PICK a : a = new
  OBVIOUS
<1> HIDE DEF new
<1>4. /\ addressRequest' \in [AddressHandlers ->
              [pc : {"idle", "create", "store"}, address : 0..receiveAddresses']]
      /\ HandsSound'
      /\ addressRequest'[h] = [pc |-> "store", address |-> a]
      /\ \A g \in AddressHandlers \ {h} : addressRequest'[g] = addressRequest[g]
  BY <1>1, <1>2, <1>3, AddressMoves
<1>5. AddressTypeOK' /\ AnsweredIsStored'
  <2>1. \A n \in 0..receiveAddresses : n \in 0..receiveAddresses'
    BY <1>2
  <2>2. \A n \in 1..receiveAddresses : n \in 1..receiveAddresses'
    BY <1>2
  <2> QED BY <1>1, <1>2, <1>4, <2>1, <2>2 DEF AddressInv, AddressTypeOK, AnsweredIsStored
<1>6. Racing' = Racing
  BY <1>1, <1>4 DEF Racing
<1>7. Orphans' \subseteq Orphans
  <2>1. SUFFICES ASSUME NEW x \in Orphans' PROVE x \in Orphans
    OBVIOUS
  <2>2. /\ x \in 1..receiveAddresses' /\ x # depositAddress /\ x # a
        /\ \A g \in AddressHandlers \ {h} : addressRequest[g].address # x
    BY <1>1, <1>4, <2>1 DEF Orphans
  <2>3. x \in 1..receiveAddresses
    BY <1>1, <1>2, <1>3, <2>2 DEF new
  <2>4. addressRequest[h].address = NoAddress /\ x # NoAddress
    BY <1>1, <2>2 DEF AddressInv, HandsSound, NoAddress
  <2> QED BY <2>2, <2>3, <2>4 DEF Orphans
<1>8. IsFiniteSet(Orphans') /\ Cardinality(Orphans') \in Nat
      /\ Cardinality(Orphans') <= Cardinality(Orphans)
  BY <1>7, RacersCount, Shrinks
<1>9. WasteBounded'
  BY <1>1, <1>6, <1>8, RacersCount DEF AddressInv, WasteBounded, NoAddress
<1> QED BY <1>4, <1>5, <1>9 DEF AddressInv

(* A request leaves: the address in its hand becomes the row's, or waste.  *)
LEMMA LeaveKeeps ==
  ASSUME AddressInv, NEW h \in AddressHandlers, addressRequest[h] # AddressIdle,
         Finish(h),
         receiveAddresses' \in 0..MaxAddresses,
         receiveAddresses' \in {receiveAddresses, receiveAddresses + 1},
         addressFaults' \in 0..MaxAddressFaults,
         \/ /\ depositAddress = NoAddress /\ depositAddress' = addressRequest[h].address
            /\ addressRequest[h].pc = "store" /\ receiveAddresses' = receiveAddresses
            /\ answered' \in {answered, answered \cup {depositAddress'}}
            /\ addressFaults' >= addressFaults
         \/ /\ UNCHANGED <<depositAddress, answered>>
            /\ \/ addressFaults' = addressFaults + 1
                  /\ (addressRequest[h].pc = "store" => receiveAddresses' = receiveAddresses)
               \/ /\ addressFaults' = addressFaults /\ receiveAddresses' = receiveAddresses
                  /\ depositAddress # NoAddress
  PROVE  AddressInv'
<1> USE AddressAssumption
<1>1. addressRequest' = [addressRequest EXCEPT ![h] = [pc |-> "idle", address |-> NoAddress]]
  BY DEF Finish, AddressIdle
<1>2. receiveAddresses \in Nat /\ receiveAddresses' \in Nat
      /\ receiveAddresses' >= receiveAddresses /\ NoAddress \in 0..receiveAddresses'
  BY DEF AddressInv, AddressTypeOK, NoAddress
<1>3. /\ addressRequest' \in [AddressHandlers ->
              [pc : {"idle", "create", "store"}, address : 0..receiveAddresses']]
      /\ HandsSound'
      /\ addressRequest'[h] = [pc |-> "idle", address |-> NoAddress]
      /\ \A g \in AddressHandlers \ {h} : addressRequest'[g] = addressRequest[g]
  BY <1>1, <1>2, AddressMoves
<1>4. /\ addressRequest[h].pc \in {"create", "store"} /\ h \in Racing
      /\ addressRequest[h].address \in 0..receiveAddresses
      /\ addressRequest[h].pc = "store" <=> addressRequest[h].address # NoAddress
  BY DEF AddressInv, AddressTypeOK, HandsSound, Racing
<1>5. AddressTypeOK' /\ AnsweredIsStored'
  <2>1. (\A n \in 0..receiveAddresses : n \in 0..receiveAddresses')
        /\ \A n \in 1..receiveAddresses : n \in 1..receiveAddresses'
    BY <1>2
  <2>2. depositAddress' \in 0..receiveAddresses'
    BY <1>4, <2>1 DEF AddressInv, AddressTypeOK
  <2>3. addressRequest[h].pc = "store" => addressRequest[h].address \in 1..receiveAddresses'
    BY <1>4, <2>1 DEF NoAddress
  <2>4. answered' \subseteq 1..receiveAddresses'
    <3>1. answered \subseteq 1..receiveAddresses'
      BY <2>1 DEF AddressInv, AddressTypeOK
    <3>2. answered' # answered => /\ answered' = answered \cup {depositAddress'}
                                  /\ depositAddress' \in 1..receiveAddresses'
      BY <2>3
    <3> QED BY <3>1, <3>2
  <2>5. AnsweredIsStored'
    <3>1. depositAddress = NoAddress => answered = {}
      BY DEF AddressInv, AddressTypeOK, AnsweredIsStored, NoAddress
    <3> QED BY <3>1 DEF AddressInv, AnsweredIsStored
  <2> QED BY <1>3, <2>2, <2>4, <2>5 DEF AddressTypeOK
<1>6. Racing' = Racing \ {h}
  BY <1>3 DEF Racing
<1>7. PICK waste : waste = IF addressRequest[h].pc = "store" THEN addressRequest[h].address
                           ELSE receiveAddresses + 1
  OBVIOUS
<1>8. Orphans' \subseteq Orphans \cup {waste}
  <2>1. SUFFICES ASSUME NEW x \in Orphans', x # waste PROVE x \in Orphans
    OBVIOUS
  <2>2. /\ x \in 1..receiveAddresses' /\ x # depositAddress'
        /\ \A g \in AddressHandlers \ {h} : addressRequest[g].address # x
    BY <1>3, <2>1 DEF Orphans
  <2>3. x # NoAddress /\ x \in Nat
    BY <1>2, <2>2 DEF NoAddress
  <2>4. x # depositAddress
    BY <2>2, <2>3
  <2>5. x \in 1..receiveAddresses
    <3>1. CASE receiveAddresses' = receiveAddresses
      BY <2>2, <3>1
    <3>2. CASE receiveAddresses' = receiveAddresses + 1 /\ addressRequest[h].pc # "store"
      BY <1>2, <1>7, <2>1, <2>2, <3>2
    <3> QED BY <1>2, <3>1, <3>2
  <2>6. x # addressRequest[h].address
    BY <1>4, <1>7, <2>1, <2>3
  <2> QED BY <2>2, <2>4, <2>5, <2>6 DEF Orphans
<1>9. Cardinality(Orphans) \in Nat /\ Cardinality(Racing) \in Nat
      /\ IsFiniteSet(Orphans) /\ IsFiniteSet(Racing) /\ addressFaults \in Nat
      /\ Cardinality(AddressHandlers) \in Nat /\ Cardinality(AddressHandlers) > 0
  BY RacersCount
<1>10. IsFiniteSet(Orphans') /\ Cardinality(Orphans') \in Nat
       /\ Cardinality(Orphans') <= Cardinality(Orphans) + 1
  <2>1. PICK n \in Nat : n = Cardinality(Orphans)
    BY <1>9
  <2>2. Cardinality(Orphans) <= n
    BY <2>1
  <2>3. IsFiniteSet(Orphans') /\ Cardinality(Orphans') \in Nat /\ Cardinality(Orphans') <= n + 1
    BY <1>8, <1>9, <2>2, GrowsByOne
  <2> QED BY <2>1, <2>3
<1>11. Cardinality(Racing') \in Nat /\ Cardinality(Racing') = Cardinality(Racing) - 1
       /\ Cardinality(Racing') <= Cardinality(AddressHandlers) - 1
  <2>1. Cardinality(Racing \ {h}) = Cardinality(Racing) - 1
    BY <1>4, <1>9, FS_RemoveElement
  <2>2. Cardinality(Racing \ {h}) \in Nat
        /\ Cardinality(Racing \ {h}) <= Cardinality(AddressHandlers) - 1
    BY ProperPart DEF Racing
  <2> QED BY <1>6, <2>1, <2>2
<1>12. CASE /\ depositAddress = NoAddress /\ depositAddress' = addressRequest[h].address
            /\ addressRequest[h].pc = "store" /\ addressFaults' >= addressFaults
  <2>1. waste = depositAddress' /\ waste \notin Orphans'
    BY <1>7, <1>12 DEF Orphans
  <2>2. Orphans' \subseteq Orphans
    BY <1>8, <2>1
  <2>3. Cardinality(Orphans') <= Cardinality(Orphans)
    BY <1>9, <2>2, Shrinks
  <2>4. Cardinality(Orphans) <= addressFaults /\ depositAddress' # NoAddress
    BY <1>4, <1>12 DEF AddressInv, WasteBounded
  <2>5. addressFaults' \in Nat
    OBVIOUS
  <2>6. Cardinality(Orphans') + Cardinality(Racing')
           <= Cardinality(AddressHandlers) - 1 + addressFaults'
    BY <1>9, <1>10, <1>11, <1>12, <2>3, <2>4, <2>5
  <2>7. WasteBounded'
    BY <1>10, <2>4, <2>6 DEF WasteBounded, NoAddress
  <2> QED BY <1>3, <1>5, <2>7 DEF AddressInv
<1>13. CASE /\ UNCHANGED depositAddress
            /\ \/ addressFaults' = addressFaults + 1
               \/ addressFaults' = addressFaults /\ depositAddress # NoAddress
  <2>1. CASE depositAddress = NoAddress
    <3>1. Cardinality(Orphans) <= addressFaults /\ addressFaults' = addressFaults + 1
      BY <1>13, <2>1 DEF AddressInv, WasteBounded
    <3>2. Cardinality(Orphans') <= addressFaults'
      BY <1>9, <1>10, <3>1
    <3>3. WasteBounded'
      BY <1>10, <1>13, <2>1, <3>2 DEF WasteBounded, NoAddress
    <3> QED BY <1>3, <1>5, <3>3 DEF AddressInv
  <2>2. CASE depositAddress # NoAddress
    <3>1. Cardinality(Orphans) + Cardinality(Racing)
             <= Cardinality(AddressHandlers) - 1 + addressFaults
      BY <2>2 DEF AddressInv, WasteBounded
    <3>2. addressFaults' \in Nat /\ addressFaults' >= addressFaults
      BY <1>9, <1>13
    <3>3. Cardinality(Orphans') + Cardinality(Racing')
             <= Cardinality(AddressHandlers) - 1 + addressFaults'
      BY <1>9, <1>10, <1>11, <3>1, <3>2
    <3>4. WasteBounded'
      BY <1>10, <1>13, <2>2, <3>3 DEF WasteBounded, NoAddress
    <3> QED BY <1>3, <1>5, <3>4 DEF AddressInv
  <2> QED BY <2>1, <2>2
<1> QED BY <1>12, <1>13

(* At the start there is no address, no row and nobody at work.            *)
LEMMA AddressStarts == AddressInit => AddressInv
<1> SUFFICES ASSUME AddressInit PROVE AddressInv
  OBVIOUS
<1> USE AddressAssumption DEF AddressInit, AddressIdle, NoAddress
<1>1. AddressTypeOK /\ HandsSound /\ AnsweredIsStored
  BY DEF AddressTypeOK, HandsSound, AnsweredIsStored
<1>2. Orphans = {}
  BY DEF Orphans
<1>3. WasteBounded
  BY <1>2, FS_EmptySet DEF WasteBounded
<1> QED BY <1>1, <1>3 DEF AddressInv

(* Every step of the requests keeps the invariant.                         *)
LEMMA AddressSteps == AddressInv /\ [AddressNext]_addressVars => AddressInv'
<1> SUFFICES ASSUME AddressInv, [AddressNext]_addressVars PROVE AddressInv'
  OBVIOUS
<1> USE AddressAssumption
<1>1. receiveAddresses \in 0..MaxAddresses /\ addressFaults \in 0..MaxAddressFaults
  BY DEF AddressInv, AddressTypeOK
<1>2. ASSUME NEW h \in AddressHandlers, StoreAddress(h) PROVE AddressInv'
  <2>1. /\ addressRequest[h].pc = "store" /\ Finish(h)
        /\ UNCHANGED <<receiveAddresses, addressFaults>>
        /\ IF depositAddress = NoAddress
           THEN /\ depositAddress' = addressRequest[h].address
                /\ answered' = answered \cup {addressRequest[h].address}
           ELSE UNCHANGED <<depositAddress, answered>>
    BY <1>2 DEF StoreAddress
  <2>2. addressRequest[h] # AddressIdle
    BY <2>1 DEF AddressIdle
  <2>3. addressFaults' >= addressFaults
    BY <1>1, <2>1
  <2> QED BY <1>1, <2>1, <2>2, <2>3, LeaveKeeps
<1>3. ASSUME NEW h \in AddressHandlers, AddressFails(h) PROVE AddressInv'
  <2>1. /\ addressRequest[h] # AddressIdle /\ Finish(h) /\ UNCHANGED answered
        /\ addressFaults < MaxAddressFaults /\ addressFaults' = addressFaults + 1
        /\ \/ UNCHANGED <<receiveAddresses, depositAddress>>
           \/ /\ addressRequest[h].pc = "create" /\ UNCHANGED depositAddress
              /\ receiveAddresses < MaxAddresses /\ receiveAddresses' = receiveAddresses + 1
           \/ /\ addressRequest[h].pc = "store" /\ depositAddress = NoAddress
              /\ depositAddress' = addressRequest[h].address
              /\ UNCHANGED receiveAddresses
    BY <1>3 DEF AddressFails, NewAddress
  <2>2. addressFaults' \in 0..MaxAddressFaults /\ addressFaults' >= addressFaults
    BY <1>1, <2>1
  <2>3. receiveAddresses' \in 0..MaxAddresses
        /\ receiveAddresses' \in {receiveAddresses, receiveAddresses + 1}
    BY <1>1, <2>1
  <2> QED BY <2>1, <2>2, <2>3, LeaveKeeps
<1>4. CASE UNCHANGED addressVars
  <2>1. UNCHANGED <<receiveAddresses, depositAddress, answered, addressRequest, addressFaults>>
    BY <1>4 DEF addressVars
  <2>2. AddressTypeOK' /\ HandsSound' /\ AnsweredIsStored'
    BY <2>1 DEF AddressInv, AddressTypeOK, HandsSound, AnsweredIsStored, AddressIdle, NoAddress
  <2>3. Orphans' = Orphans /\ Racing' = Racing
    BY <2>1 DEF Orphans, Racing
  <2>4. WasteBounded'
    BY <2>1, <2>3 DEF AddressInv, WasteBounded, NoAddress
  <2> QED BY <2>2, <2>4 DEF AddressInv
<1> QED BY <1>2, <1>3, <1>4, FindKeeps, CreateKeeps DEF AddressNext

(* The invariant of the deposit addresses.                                 *)
THEOREM AddressInvariant == AddressSpec => []AddressInv
<1> QED BY AddressStarts, AddressSteps, PTL DEF AddressSpec

(* Whoever was told an address was told the one that is stored, and fewer  *)
(* addresses than overlapping requests and failures belong to nobody       *)
(* (depositAddress.service.js, getOrCreateDepositAddress).                 *)
THEOREM AddressesAreAccounted == AddressSpec => []AddressesAccounted
<1>1. AddressInv => AddressesAccounted
  <2> SUFFICES ASSUME AddressInv PROVE OrphansByOverlap
    BY DEF AddressInv, AddressesAccounted
  <2>1. Cardinality(Orphans) <= addressFaults
        \/ Cardinality(Orphans) + Cardinality(Racing)
               <= Cardinality(AddressHandlers) - 1 + addressFaults
    BY DEF AddressInv, WasteBounded
  <2> QED BY <2>1, RacersCount DEF OrphansByOverlap
<1> QED BY <1>1, AddressInvariant, PTL
-------------------------------------------------------------------------------
(* Sessions.                                                               *)

SessionPcs == {"none", "revoke", "revokeAccess", "sign", "signRefresh", "logout",
               "logoutAccess"}

\* What a request knows of its sessions: the old one was handed out, the new
\* one was not yet, and what it has deleted stays deleted.
RequestSound(h) ==
    LET r == sessionRequest[h] IN
    /\ r.old \in {NoSession} \cup issued
    /\ r.new # NoSession <=> r.pc = "signRefresh"
    /\ r.new # NoSession => r.new \in Drawn \ issued
    /\ r.pc = "none" => r = NoRequest
    /\ r.pc \in {"sign", "signRefresh"} => r.old \notin accessKeys

\* Every request makes a session of its own.
NewSessionsDiffer ==
    \A g, h \in SessionHandlers :
       sessionRequest[g].new # NoSession /\ sessionRequest[g].new = sessionRequest[h].new
       => g = h

\* Only a session that was handed out can be refreshed or was.
KeysSound ==
    /\ refreshKeys \subseteq issued
    /\ \A n \in Drawn : origin[n] \in {NoSession} \cup issued

\* The requests that may still draw a successor of s.
Refreshing(s) == {h \in SessionHandlers : /\ sessionRequest[h].old = s
                                          /\ sessionRequest[h].pc \in {"revoke", "revokeAccess", "sign"}}

\* While the refresh key of s is there, nobody has got beyond its deletion.
RefreshBounded(s) ==
    /\ IsFiniteSet(Successors(s)) /\ IsFiniteSet(Refreshing(s))
    /\ Cardinality(Successors(s)) + Cardinality(Refreshing(s)) <= Cardinality(SessionHandlers)
    /\ s \in refreshKeys => /\ Successors(s) = {}
                            /\ \A h \in Refreshing(s) : sessionRequest[h].pc = "revoke"

\* The sessions that can still be used, but not be refreshed, and nobody
\* is about to end them.
Outliving == {s \in accessKeys \ refreshKeys : ~UnderWay(s)}

SessionInv ==
    /\ SessionTypeOK
    /\ \A h \in SessionHandlers : RequestSound(h)
    /\ NewSessionsDiffer /\ KeysSound
    /\ \A s \in SessionIds : RefreshBounded(s)
    /\ IsFiniteSet(Outliving) /\ Cardinality(Outliving) <= sessionFaults

(* Sessions are numbered in the order in which they are drawn.             *)
LEMMA DrawnSessions ==
  ASSUME SessionTypeOK
  PROVE  /\ origin \in Seq({NoSession} \cup SessionIds)
         /\ Len(origin) \in 0..MaxSessions /\ Drawn = 1..Len(origin)
         /\ Drawn \subseteq SessionIds /\ NoSession \notin Drawn
<1>1. PICK n \in 0..MaxSessions : origin \in [1..n -> {NoSession} \cup SessionIds]
  BY DEF SessionTypeOK
<1>2. n \in Nat /\ Drawn = 1..n
  BY <1>1, SessionAssumption DEF Drawn
<1>3. origin \in Seq({NoSession} \cup SessionIds)
  BY <1>1, <1>2
<1>4. Len(origin) = n
  BY <1>1, <1>2
<1> QED BY <1>1, <1>2, <1>3, <1>4, SessionAssumption DEF SessionIds, NoSession

(* A request moves, the others do not.                                     *)
LEMMA SessionMoves ==
  ASSUME SessionTypeOK, NEW h \in SessionHandlers, NEW pc \in SessionPcs, NEW old, NEW new,
         sessionRequest' = [sessionRequest EXCEPT ![h] = [pc |-> pc, old |-> old, new |-> new]]
  PROVE  /\ sessionRequest'[h] = [pc |-> pc, old |-> old, new |-> new]
         /\ \A g \in SessionHandlers \ {h} : sessionRequest'[g] = sessionRequest[g]
         /\ old \in {NoSession} \cup Drawn /\ new \in {NoSession} \cup Drawn =>
              sessionRequest' \in [SessionHandlers ->
                 [pc : SessionPcs, old : {NoSession} \cup Drawn, new : {NoSession} \cup Drawn]]
BY DEF SessionTypeOK, SessionPcs

(* A step of one request that draws and hands out nothing and only deletes *)
(* keys.                                                                   *)
LEMMA RequestKeeps ==
  ASSUME SessionInv, NEW h \in SessionHandlers, NEW pc \in SessionPcs,
         NEW old \in {NoSession} \cup issued,
         sessionRequest' = [sessionRequest EXCEPT ![h] =
                              [pc |-> pc, old |-> old, new |-> NoSession]],
         UNCHANGED <<origin, issued>>,
         accessKeys' \subseteq accessKeys, refreshKeys' \subseteq refreshKeys,
         pc # "signRefresh",
         pc = "none" => old = NoSession,
         pc = "sign" => old \notin accessKeys',
         pc \in {"revokeAccess", "sign"} /\ old # NoSession => h \in Refreshing(old)
                                                           /\ old \notin refreshKeys',
         pc = "revoke" => old \in refreshKeys,
         sessionFaults' \in 0..MaxSessionFaults, NEW x,
         Outliving' \subseteq Outliving \cup {x},
         \/ sessionFaults' = sessionFaults + 1
         \/ sessionFaults' = sessionFaults /\ Outliving' \subseteq Outliving
  PROVE  SessionInv'
<1> USE SessionAssumption
<1>1. /\ SessionTypeOK /\ NoSession' = NoSession /\ NoRequest' = NoRequest /\ Drawn' = Drawn
      /\ issued \subseteq Drawn /\ NoSession \notin Drawn /\ Drawn \subseteq SessionIds
  BY DrawnSessions DEF SessionInv, SessionTypeOK, NoSession, NoRequest, Drawn
<1>2. /\ sessionRequest'[h] = [pc |-> pc, old |-> old, new |-> NoSession]
      /\ \A g \in SessionHandlers \ {h} : sessionRequest'[g] = sessionRequest[g]
      /\ sessionRequest' \in [SessionHandlers ->
            [pc : SessionPcs, old : {NoSession} \cup Drawn, new : {NoSession} \cup Drawn]]
  BY <1>1, SessionMoves
<1>3. SessionTypeOK'
  BY <1>1, <1>2 DEF SessionTypeOK, SessionPcs
<1>4. ASSUME NEW g \in SessionHandlers PROVE RequestSound(g)'
  <2>1. CASE g = h
    BY <1>1, <1>2, <2>1 DEF RequestSound, NoRequest, NoSession
  <2>2. CASE g # h
    BY <1>1, <1>2, <2>2 DEF SessionInv, RequestSound
  <2> QED BY <2>1, <2>2
<1>5. NewSessionsDiffer'
  BY <1>1, <1>2 DEF SessionInv, NewSessionsDiffer
<1>6. KeysSound'
  BY <1>1 DEF SessionInv, KeysSound
<1>7. ASSUME NEW s \in SessionIds PROVE RefreshBounded(s)'
  <2>1. Successors(s)' = Successors(s)
    BY <1>1 DEF Successors, Drawn
  <2>2. RefreshBounded(s) /\ s # NoSession
    BY DEF SessionInv, SessionIds, NoSession
  <2>3. \A g \in Refreshing(s)' : g # h => g \in Refreshing(s)
    BY <1>2 DEF Refreshing
  <2>4. h \in Refreshing(s)' => /\ old = s /\ pc \in {"revoke", "revokeAccess", "sign"}
                                /\ sessionRequest'[h].pc = pc
    BY <1>2 DEF Refreshing
  <2>5. Cardinality(SessionHandlers) \in Nat
    BY FS_CardinalityType
  <2>6. CASE Refreshing(s)' \subseteq Refreshing(s)
    <3>1. /\ IsFiniteSet(Refreshing(s)')
          /\ Cardinality(Successors(s)) + Cardinality(Refreshing(s)')
                 <= Cardinality(SessionHandlers)
      BY <2>2, <2>5, <2>6, BothShrink DEF RefreshBounded
    <3>2. ASSUME s \in refreshKeys', NEW g \in Refreshing(s)'
          PROVE  sessionRequest'[g].pc = "revoke"
      <4>1. CASE g # h
        BY <1>2, <2>2, <2>3, <3>2, <4>1 DEF RefreshBounded, Refreshing
      <4>2. CASE g = h
        BY <2>2, <2>4, <3>2, <4>2
      <4> QED BY <4>1, <4>2
    <3> QED BY <2>1, <2>2, <3>1, <3>2 DEF RefreshBounded
  <2>7. CASE h \in Refreshing(s)' /\ h \notin Refreshing(s)
    <3>1. pc = "revoke" /\ s \in refreshKeys
      BY <2>2, <2>4, <2>7
    <3>2. Successors(s) = {} /\ \A g \in Refreshing(s) : sessionRequest[g].pc = "revoke"
      BY <2>2, <3>1 DEF RefreshBounded
    <3>3. /\ Refreshing(s)' \subseteq SessionHandlers
          /\ \A g \in Refreshing(s)' : sessionRequest'[g].pc = "revoke"
      BY <1>2, <2>3, <2>4, <3>1, <3>2 DEF Refreshing
    <3>4. /\ IsFiniteSet(Refreshing(s)') /\ Cardinality(Refreshing(s)') \in Nat
          /\ Cardinality(Refreshing(s)') <= Cardinality(SessionHandlers)
      BY <3>3, FS_Subset, FS_CardinalityType
    <3>5. IsFiniteSet({}) /\ Cardinality({}) = 0
      BY FS_EmptySet
    <3>6. Cardinality(Successors(s)) + Cardinality(Refreshing(s)')
             <= Cardinality(SessionHandlers)
      BY <2>5, <3>2, <3>4, <3>5
    <3> QED BY <2>1, <3>2, <3>3, <3>4, <3>5, <3>6 DEF RefreshBounded
  <2> QED BY <2>3, <2>6, <2>7
<1>8. IsFiniteSet(Outliving') /\ Cardinality(Outliving') <= sessionFaults'
  <2>1. sessionFaults \in Nat /\ IsFiniteSet(Outliving)
        /\ Cardinality(Outliving) <= sessionFaults
    BY DEF SessionInv, SessionTypeOK
  <2>2. CASE sessionFaults' = sessionFaults + 1
    BY <2>1, <2>2, GrowsByOne
  <2>3. CASE sessionFaults' = sessionFaults /\ Outliving' \subseteq Outliving
    BY <2>1, <2>3, Shrinks
  <2> QED BY <2>2, <2>3
<1> QED BY <1>3, <1>4, <1>5, <1>6, <1>7, <1>8 DEF SessionInv

(* What a request in hand says of itself, and of its old session.          *)
LEMMA RequestInHand ==
  ASSUME SessionInv, NEW h \in SessionHandlers
  PROVE  LET r == sessionRequest[h] IN
         /\ r = [pc |-> r.pc, old |-> r.old, new |-> r.new]
         /\ r.pc \in SessionPcs
         /\ r.old \in {NoSession} \cup issued /\ r.new \in {NoSession} \cup Drawn
         /\ r.pc # "signRefresh" => r.new = NoSession
         /\ r.pc \in {"revoke", "revokeAccess", "sign"} => h \in Refreshing(r.old)
         /\ r.old # NoSession /\ r.pc \in {"revokeAccess", "sign"} => r.old \notin refreshKeys
<1>1. /\ sessionRequest[h] = [pc |-> sessionRequest[h].pc, old |-> sessionRequest[h].old,
                              new |-> sessionRequest[h].new]
      /\ sessionRequest[h].pc \in SessionPcs /\ sessionRequest[h].new \in {NoSession} \cup Drawn
  BY DEF SessionInv, SessionTypeOK, SessionPcs
<1>2. RequestSound(h)
  BY DEF SessionInv
<1>3. sessionRequest[h].pc \in {"revoke", "revokeAccess", "sign"}
        => h \in Refreshing(sessionRequest[h].old)
  BY DEF Refreshing
<1>4. issued \subseteq SessionIds
  BY DrawnSessions DEF SessionInv, SessionTypeOK
<1>5. ASSUME sessionRequest[h].old # NoSession, sessionRequest[h].pc \in {"revokeAccess", "sign"}
      PROVE  sessionRequest[h].old \notin refreshKeys
  <2>1. RefreshBounded(sessionRequest[h].old)
    BY <1>2, <1>4, <1>5 DEF RequestSound, SessionInv
  <2> QED BY <1>3, <1>5, <2>1 DEF RefreshBounded
<1> QED BY <1>1, <1>2, <1>3, <1>5 DEF RequestSound

(* A request that waits for its next command keeps its sessions.           *)
LEMMA RequestAwaits ==
  ASSUME SessionInv, NEW h \in SessionHandlers, NEW pc, Await(h, pc)
  PROVE  sessionRequest' = [sessionRequest EXCEPT ![h] =
                              [pc |-> pc, old |-> sessionRequest[h].old,
                               new |-> sessionRequest[h].new]]
<1>1. PICK r : r = sessionRequest[h]
  OBVIOUS
<1>2. r = [pc |-> r.pc, old |-> r.old, new |-> r.new]
  BY <1>1, RequestInHand
<1>3. [r EXCEPT !.pc = pc] = [pc |-> pc, old |-> r.old, new |-> r.new]
  BY <1>2
<1>4. sessionRequest' = [sessionRequest EXCEPT ![h] = [r EXCEPT !.pc = pc]]
  BY <1>1 DEF Await
<1> QED BY <1>1, <1>3, <1>4

(* A request that begins: a login, a refresh or a logout.                  *)
LEMMA RequestBegins ==
  ASSUME SessionInv, NEW h \in SessionHandlers, NEW s \in issued,
         CreateAuthSession(h) \/ RefreshAuthSession(h, s) \/ RevokeAuthSession(h, s)
  PROVE  SessionInv'
<1>1. /\ sessionRequest[h] = NoRequest /\ UNCHANGED <<accessKeys, refreshKeys, origin, issued>>
      /\ sessionFaults' = sessionFaults /\ sessionFaults \in 0..MaxSessionFaults
      /\ NoSession \notin Drawn /\ issued \subseteq Drawn /\ accessKeys \subseteq Drawn
  BY DrawnSessions DEF CreateAuthSession, RefreshAuthSession, RevokeAuthSession, Start,
     SessionInv, SessionTypeOK
<1>2. PICK pc \in SessionPcs, old \in {NoSession} \cup issued :
         /\ sessionRequest' = [sessionRequest EXCEPT ![h] =
                                 [pc |-> pc, old |-> old, new |-> NoSession]]
         /\ \/ pc = "sign" /\ old = NoSession
            \/ pc = "revoke" /\ old \in refreshKeys
            \/ pc = "logout"
  BY DEF CreateAuthSession, RefreshAuthSession, RevokeAuthSession, Start, Request, SessionPcs
<1>3. Outliving' \subseteq Outliving
  <2>1. \A g \in SessionHandlers \ {h} : sessionRequest'[g] = sessionRequest[g]
    BY <1>2, SessionMoves DEF SessionInv
  <2>2. \A t \in accessKeys : UnderWay(t) => UnderWay(t)'
    BY <1>1, <2>1 DEF UnderWay, NoRequest
  <2> QED BY <1>1, <2>2 DEF Outliving
<1>4. pc # "signRefresh" /\ pc # "none" /\ pc # "revokeAccess"
      /\ (pc = "sign" => old = NoSession /\ old \notin accessKeys)
      /\ (pc = "revoke" => old \in refreshKeys)
  BY <1>1, <1>2
<1> HIDE DEF NoSession, Outliving, Refreshing, SessionPcs
<1> QED BY <1>1, <1>2, <1>3, <1>4, RequestKeeps

(* A request that deletes a key of its old session.                        *)
LEMMA RequestRevokes ==
  ASSUME SessionInv, NEW h \in SessionHandlers,
         \/ RevokeRefreshToken(h) \/ RevokeToken(h)
         \/ LogoutRefresh(h) \/ LogoutAccess(h)
  PROVE  SessionInv'
<1>1. PICK r : r = sessionRequest[h]
  OBVIOUS
<1>2. /\ r = [pc |-> r.pc, old |-> r.old, new |-> NoSession]
      /\ r.old \in {NoSession} \cup issued /\ r.pc \in SessionPcs
      /\ r.pc \in {"revoke", "revokeAccess"} => h \in Refreshing(r.old)
      /\ r.old # NoSession /\ r.pc = "revokeAccess" => r.old \notin refreshKeys
      /\ r.pc \in {"revoke", "revokeAccess", "logout", "logoutAccess"}
  BY <1>1, RequestInHand
     DEF RevokeRefreshToken, RevokeToken, LogoutRefresh, LogoutAccess, IsAt
<1>3. /\ UNCHANGED <<origin, issued>>
      /\ sessionFaults' = sessionFaults /\ sessionFaults \in 0..MaxSessionFaults
      /\ accessKeys' \subseteq accessKeys /\ refreshKeys' \subseteq refreshKeys
      /\ refreshKeys \ {r.old} \subseteq refreshKeys'
      /\ NoSession \notin accessKeys /\ NoSession \notin Drawn
  BY <1>1, DrawnSessions DEF RevokeRefreshToken, RevokeToken, LogoutRefresh, LogoutAccess,
     SessionInv, SessionTypeOK
<1>4. PICK pc \in SessionPcs, old \in {NoSession} \cup issued :
         /\ sessionRequest' = [sessionRequest EXCEPT ![h] =
                                 [pc |-> pc, old |-> old, new |-> NoSession]]
         /\ \/ pc = "revokeAccess" /\ old = r.old /\ old \notin refreshKeys' /\ r.pc = "revoke"
            \/ /\ pc = "sign" /\ old = r.old /\ old \notin accessKeys'
               /\ refreshKeys' = refreshKeys /\ r.pc = "revokeAccess"
            \/ pc = "logoutAccess" /\ old = r.old
            \/ pc = "none" /\ old = NoSession /\ r.old \notin accessKeys'
  <2>1. CASE RevokeRefreshToken(h)
    <3>1. sessionRequest' = [sessionRequest EXCEPT ![h] =
                               [pc |-> "revokeAccess", old |-> r.old, new |-> NoSession]]
      BY <1>1, <1>2, <2>1, RequestAwaits DEF RevokeRefreshToken, IsAt
    <3> QED BY <1>1, <1>2, <2>1, <3>1 DEF RevokeRefreshToken, SessionPcs, IsAt
  <2>2. CASE RevokeToken(h)
    <3>1. sessionRequest' = [sessionRequest EXCEPT ![h] =
                               [pc |-> "sign", old |-> r.old, new |-> NoSession]]
      BY <1>1, <1>2, <2>2, RequestAwaits DEF RevokeToken, IsAt
    <3> QED BY <1>1, <1>2, <2>2, <3>1 DEF RevokeToken, SessionPcs, IsAt
  <2>3. CASE LogoutRefresh(h)
    <3>1. sessionRequest' = [sessionRequest EXCEPT ![h] =
                               [pc |-> "logoutAccess", old |-> r.old, new |-> NoSession]]
      BY <1>1, <1>2, <2>3, RequestAwaits DEF LogoutRefresh, IsAt
    <3> QED BY <1>1, <1>2, <3>1 DEF SessionPcs
  <2>4. CASE LogoutAccess(h)
    BY <1>1, <1>2, <2>4 DEF LogoutAccess, Done, NoRequest, SessionPcs
  <2> QED BY <2>1, <2>2, <2>3, <2>4
<1>5. Outliving' \subseteq Outliving
  <2>0. DOMAIN sessionRequest = SessionHandlers
    BY DEF SessionInv, SessionTypeOK
  <2>1. /\ sessionRequest'[h] = [pc |-> pc, old |-> old, new |-> NoSession]
        /\ \A g \in SessionHandlers \ {h} : sessionRequest'[g] = sessionRequest[g]
    BY <1>4, <2>0
  <2>2. \A t \in accessKeys' : UnderWay(t) => UnderWay(t)'
    BY <1>1, <1>2, <1>3, <1>4, <2>1 DEF UnderWay
  <2>3. \A t \in accessKeys' : t = r.old => UnderWay(t)'
    BY <1>4, <2>1 DEF UnderWay
  <2> QED BY <1>3, <2>2, <2>3 DEF Outliving
<1>6. /\ pc # "signRefresh" /\ pc # "revoke" /\ (pc = "none" => old = NoSession)
      /\ (pc = "sign" => old \notin accessKeys')
      /\ (pc \in {"revokeAccess", "sign"} /\ old # NoSession => h \in Refreshing(old)
                                                           /\ old \notin refreshKeys')
  BY <1>2, <1>4
<1> QED BY <1>3, <1>4, <1>5, <1>6, RequestKeeps

(* A request that dies leaves at most one session that cannot be refreshed. *)
LEMMA RequestDies ==
  ASSUME SessionInv, NEW h \in SessionHandlers, SessionFails(h)
  PROVE  SessionInv'
<1>1. PICK r : r = sessionRequest[h]
  OBVIOUS
<1>2. /\ r.pc # "signRefresh" => r.new = NoSession
      /\ r.pc = "signRefresh" => r.old \notin accessKeys
  BY <1>1, RequestInHand DEF SessionInv, RequestSound
<1>3. /\ UNCHANGED <<accessKeys, refreshKeys, origin, issued>>
      /\ sessionFaults' = sessionFaults + 1 /\ sessionFaults' \in 0..MaxSessionFaults
      /\ NoSession \notin accessKeys
      /\ sessionRequest' = [sessionRequest EXCEPT ![h] =
                              [pc |-> "none", old |-> NoSession, new |-> NoSession]]
  <2>1. sessionFaults \in 0..MaxSessionFaults /\ MaxSessionFaults \in Nat
        /\ accessKeys \subseteq Drawn /\ NoSession \notin Drawn
    BY DrawnSessions, SessionAssumption DEF SessionInv, SessionTypeOK
  <2> QED BY <2>1 DEF SessionFails, Done, NoRequest
<1>4. PICK x : x = IF r.pc = "signRefresh" THEN r.new ELSE r.old
  OBVIOUS
<1>5. Outliving' \subseteq Outliving \cup {x}
  <2>1. \A g \in SessionHandlers \ {h} : sessionRequest'[g] = sessionRequest[g]
    BY <1>3 DEF SessionInv, SessionTypeOK
  <2>2. \A t \in accessKeys : UnderWay(t) => UnderWay(t)' \/ t = x
    BY <1>1, <1>2, <1>3, <1>4, <2>1 DEF UnderWay
  <2> QED BY <1>3, <2>2 DEF Outliving
<1>6. "none" \in SessionPcs
  BY DEF SessionPcs
<1> QED BY <1>3, <1>5, <1>6, RequestKeeps

(* A session is drawn: one of the requests that could still refresh its    *)
(* old session has done so.                                                *)
LEMMA SessionIsDrawn ==
  ASSUME SessionInv, NEW h \in SessionHandlers, SignAccessToken(h)
  PROVE  SessionInv'
<1>1. PICK old, new : old = sessionRequest[h].old /\ new = Len(origin) + 1
  OBVIOUS
<1>2. /\ origin \in Seq({NoSession} \cup SessionIds) /\ Len(origin) \in Nat
      /\ Len(origin) < MaxSessions /\ Drawn = 1..Len(origin)
      /\ Drawn \subseteq SessionIds /\ NoSession \notin Drawn
      /\ accessKeys \subseteq Drawn /\ refreshKeys \subseteq Drawn /\ issued \subseteq Drawn
  BY DrawnSessions DEF SignAccessToken, SessionInv, SessionTypeOK
<1>3. /\ sessionRequest[h].pc = "sign" /\ old \in {NoSession} \cup issued
      /\ sessionRequest[h].new = NoSession /\ h \in Refreshing(old)
      /\ old # NoSession => old \notin refreshKeys
      /\ old \notin accessKeys
  BY <1>1, RequestInHand DEF SignAccessToken, IsAt, SessionInv, RequestSound
<1>4. /\ origin' \in Seq({NoSession} \cup SessionIds) /\ Len(origin') = new
      /\ origin'[new] = old /\ \A n \in Drawn : origin'[n] = origin[n]
      /\ Drawn' = Drawn \cup {new} /\ new \in SessionIds /\ new \notin Drawn
      /\ new # NoSession /\ new \in 0..MaxSessions
      /\ origin' \in [1..new -> {NoSession} \cup SessionIds]
  <2>1. old \in {NoSession} \cup SessionIds /\ origin' = Append(origin, old)
    BY <1>1, <1>2, <1>3 DEF SignAccessToken
  <2>2. /\ origin' \in Seq({NoSession} \cup SessionIds) /\ Len(origin') = new
        /\ origin'[new] = old /\ \A n \in 1..Len(origin) : origin'[n] = origin[n]
    BY <1>1, <1>2, <2>1
  <2>3. DOMAIN origin' = 1..new /\ origin' \in [1..new -> {NoSession} \cup SessionIds]
    BY <2>2
  <2>4. Drawn' = Drawn \cup {new}
    BY <1>1, <1>2, <2>3 DEF Drawn
  <2>5. new \in SessionIds /\ new \notin Drawn /\ new # NoSession /\ new \in 0..MaxSessions
    BY <1>1, <1>2, SessionAssumption DEF SessionIds, NoSession
  <2> QED BY <1>2, <2>2, <2>3, <2>4, <2>5
<1>5. /\ accessKeys' = accessKeys \cup {new} /\ UNCHANGED <<refreshKeys, issued, sessionFaults>>
      /\ sessionRequest' = [sessionRequest EXCEPT ![h] =
                              [pc |-> "signRefresh", old |-> old, new |-> new]]
  <2>1. PICK r : r = sessionRequest[h]
    OBVIOUS
  <2>2. r = [pc |-> r.pc, old |-> r.old, new |-> r.new]
    BY <2>1, RequestInHand
  <2>3. [r EXCEPT !.pc = "signRefresh", !.new = new] = [pc |-> "signRefresh", old |-> old, new |-> new]
    <3>1. r.old = old /\ DOMAIN r = {"pc", "old", "new"}
      BY <1>1, <2>1, <2>2
    <3>2. [r EXCEPT !.pc = "signRefresh"] = [pc |-> "signRefresh", old |-> old, new |-> r.new]
      BY <2>2, <3>1
    <3>3. [r EXCEPT !.pc = "signRefresh", !.new = new]
            = [[r EXCEPT !.pc = "signRefresh"] EXCEPT !.new = new]
      OBVIOUS
    <3>4. [[pc |-> "signRefresh", old |-> old, new |-> r.new] EXCEPT !.new = new]
            = [pc |-> "signRefresh", old |-> old, new |-> new]
      OBVIOUS
    <3> QED BY ONLY <3>2, <3>3, <3>4
  <2>4. sessionRequest' = [sessionRequest EXCEPT ![h] = [r EXCEPT !.pc = "signRefresh", !.new = new]]
    BY <1>1, <2>1 DEF SignAccessToken
  <2> QED BY <1>1, <2>3, <2>4 DEF SignAccessToken
<1>6. /\ sessionRequest'[h] = [pc |-> "signRefresh", old |-> old, new |-> new]
      /\ \A g \in SessionHandlers \ {h} : sessionRequest'[g] = sessionRequest[g]
  BY <1>5 DEF SessionInv, SessionTypeOK
<1>7. SessionTypeOK'
  <2>1. sessionRequest \in [SessionHandlers ->
           [pc : SessionPcs, old : {NoSession} \cup Drawn', new : {NoSession} \cup Drawn']]
    BY <1>4 DEF SessionInv, SessionTypeOK, SessionPcs
  <2>2. [pc |-> "signRefresh", old |-> old, new |-> new]
           \in [pc : SessionPcs, old : {NoSession} \cup Drawn', new : {NoSession} \cup Drawn']
    BY <1>2, <1>3, <1>4 DEF SessionPcs
  <2>3. sessionRequest' \in [SessionHandlers ->
           [pc : SessionPcs, old : {NoSession} \cup Drawn', new : {NoSession} \cup Drawn']]
    BY <1>5, <2>1, <2>2
  <2>4. sessionFaults' \in 0..MaxSessionFaults
    BY <1>5 DEF SessionInv, SessionTypeOK
  <2> QED BY <1>2, <1>4, <1>5, <2>3, <2>4 DEF SessionTypeOK, SessionPcs, NoSession, SessionIds
<1>8. ASSUME NEW g \in SessionHandlers PROVE RequestSound(g)'
  <2>1. CASE g = h
    BY <1>2, <1>3, <1>4, <1>5, <1>6, <2>1 DEF RequestSound, NoRequest, NoSession
  <2>2. CASE g # h
    BY <1>2, <1>4, <1>5, <1>6, <2>2 DEF SessionInv, RequestSound, NoRequest, NoSession
  <2> QED BY <2>1, <2>2
<1>9. NewSessionsDiffer'
  BY <1>4, <1>6 DEF SessionInv, NewSessionsDiffer, RequestSound, NoSession
<1>10. KeysSound'
  BY <1>3, <1>4, <1>5 DEF SessionInv, KeysSound, NoSession
<1>11. ASSUME NEW s \in SessionIds PROVE RefreshBounded(s)'
  <2>1. RefreshBounded(s) /\ s # NoSession
    BY DEF SessionInv, SessionIds, NoSession
  <2>2. Successors(s)' \subseteq Successors(s) \cup {new}
        /\ (s # old => Successors(s)' = Successors(s))
    BY <1>4 DEF Successors
  <2>3. Refreshing(s)' \subseteq Refreshing(s) \ {h}
    BY <1>6 DEF Refreshing
  <2>4. Cardinality(SessionHandlers) \in Int
    BY SessionAssumption, FS_CardinalityType
  <2>5. /\ IsFiniteSet(Successors(s)') /\ IsFiniteSet(Refreshing(s)')
        /\ Cardinality(Successors(s)') + Cardinality(Refreshing(s)')
               <= Cardinality(SessionHandlers)
    <3>1. IsFiniteSet(Successors(s)) /\ IsFiniteSet(Refreshing(s))
          /\ Cardinality(Successors(s)) + Cardinality(Refreshing(s)) <= Cardinality(SessionHandlers)
      BY <2>1 DEF RefreshBounded
    <3>2. CASE s = old
      <4>1. h \in Refreshing(s)
        BY <1>3, <3>2
      <4>2. PICK c \in Nat : c = Cardinality(Successors(s))
        BY <3>1, FS_CardinalityType
      <4>3. Cardinality(Successors(s)) <= c
        BY <4>2
      <4>4. /\ IsFiniteSet(Successors(s)') /\ Cardinality(Successors(s)') \in Nat
            /\ Cardinality(Successors(s)') <= c + 1
        BY <2>2, <3>1, <4>3, GrowsByOne
      <4>5. /\ IsFiniteSet(Refreshing(s)') /\ Cardinality(Refreshing(s)') \in Nat
            /\ Cardinality(Refreshing(s)) \in Nat
            /\ Cardinality(Refreshing(s)') <= Cardinality(Refreshing(s)) - 1
        BY <2>3, <3>1, <4>1, ProperPart
      <4> QED BY <2>4, <3>1, <4>2, <4>4, <4>5
    <3>3. CASE s # old
      <4>1. Successors(s)' \subseteq Successors(s) /\ Refreshing(s)' \subseteq Refreshing(s)
        BY <2>2, <2>3, <3>3
      <4> QED BY <2>4, <3>1, <4>1, BothShrink
    <3> QED BY <3>2, <3>3
  <2>6. ASSUME s \in refreshKeys'
        PROVE  Successors(s)' = {} /\ \A g \in Refreshing(s)' : sessionRequest'[g].pc = "revoke"
    <3>1. s \in refreshKeys /\ s # old
      BY <1>3, <1>5, <2>1, <2>6
    <3> QED BY <1>6, <2>1, <2>2, <2>3, <3>1 DEF RefreshBounded, Refreshing
  <2> QED BY <2>5, <2>6 DEF RefreshBounded
<1>12. IsFiniteSet(Outliving') /\ Cardinality(Outliving') <= sessionFaults'
  <2>1. \A t \in accessKeys : UnderWay(t) => UnderWay(t)'
    BY <1>1, <1>2, <1>3, <1>6 DEF UnderWay
  <2>2. UnderWay(new)'
    BY <1>6 DEF UnderWay
  <2>3. Outliving' \subseteq Outliving
    BY <1>5, <2>1, <2>2 DEF Outliving
  <2>4. sessionFaults \in Nat /\ IsFiniteSet(Outliving) /\ Cardinality(Outliving) <= sessionFaults
    BY DEF SessionInv, SessionTypeOK
  <2> QED BY <1>5, <2>3, <2>4, Shrinks
<1> QED BY <1>7, <1>8, <1>9, <1>10, <1>11, <1>12 DEF SessionInv

(* A session is handed out: nobody has heard of it before.                 *)
LEMMA SessionIsIssued ==
  ASSUME SessionInv, NEW h \in SessionHandlers, SignRefreshToken(h)
  PROVE  SessionInv'
<1>1. PICK new : new = sessionRequest[h].new
  OBVIOUS
<1>2. /\ sessionRequest[h].pc = "signRefresh" /\ new # NoSession
      /\ new \in Drawn /\ new \notin issued
      /\ sessionRequest[h].old \notin accessKeys
  BY <1>1, RequestInHand DEF SignRefreshToken, IsAt, SessionInv, RequestSound
<1>3. /\ refreshKeys' = refreshKeys \cup {new} /\ issued' = issued \cup {new}
      /\ UNCHANGED <<accessKeys, origin, sessionFaults>> /\ Drawn' = Drawn
      /\ sessionRequest' = [sessionRequest EXCEPT ![h] = NoRequest]
      /\ NoSession \notin Drawn /\ NoRequest' = NoRequest /\ NoSession' = NoSession
  BY <1>1, DrawnSessions
     DEF SignRefreshToken, Done, SessionInv, SessionTypeOK, Drawn, NoRequest, NoSession
<1>4. /\ sessionRequest'[h] = NoRequest
      /\ \A g \in SessionHandlers \ {h} : sessionRequest'[g] = sessionRequest[g]
  BY <1>3 DEF SessionInv, SessionTypeOK
<1>5. SessionTypeOK'
  <2>1. NoRequest \in [pc : SessionPcs, old : {NoSession} \cup Drawn, new : {NoSession} \cup Drawn]
    BY DEF NoRequest, SessionPcs
  <2> QED BY <1>2, <1>3, <2>1 DEF SessionInv, SessionTypeOK, SessionPcs
<1>6. ASSUME NEW g \in SessionHandlers PROVE RequestSound(g)'
  <2>1. CASE g = h
    BY <1>3, <1>4, <2>1 DEF RequestSound, NoRequest
  <2>2. CASE g # h
    <3>1. sessionRequest[g].new # NoSession => sessionRequest[g].new # new
      BY <1>1, <1>2, <2>2 DEF SessionInv, NewSessionsDiffer
    <3> QED BY <1>3, <1>4, <2>2, <3>1 DEF SessionInv, RequestSound
  <2> QED BY <2>1, <2>2
<1>7. NewSessionsDiffer'
  BY <1>3, <1>4 DEF SessionInv, NewSessionsDiffer, NoRequest
<1>8. KeysSound'
  BY <1>3 DEF SessionInv, KeysSound
<1>9. ASSUME NEW s \in SessionIds PROVE RefreshBounded(s)'
  <2>1. RefreshBounded(s) /\ s # NoSession
    BY DEF SessionInv, SessionIds, NoSession
  <2>2. Successors(s)' = Successors(s)
    BY <1>3 DEF Successors
  <2>3. Refreshing(s)' = Refreshing(s)
    BY <1>2, <1>4 DEF Refreshing, NoRequest
  <2>4. \A g \in Refreshing(s) : sessionRequest'[g] = sessionRequest[g]
    BY <1>2, <1>4 DEF Refreshing
  <2>5. CASE s # new
    BY <1>3, <2>1, <2>2, <2>3, <2>4, <2>5 DEF RefreshBounded
  <2>6. CASE s = new
    <3>1. Successors(s) = {}
      BY <1>2, <2>1, <2>6 DEF Successors, SessionInv, KeysSound
    <3>2. Refreshing(s) = {}
      BY <1>2, <2>1, <2>6 DEF Refreshing, SessionInv, RequestSound
    <3> QED BY <2>1, <2>2, <2>3, <3>1, <3>2 DEF RefreshBounded
  <2> QED BY <2>5, <2>6
<1>10. IsFiniteSet(Outliving') /\ Cardinality(Outliving') <= sessionFaults'
  <2>1. \A t \in accessKeys \ refreshKeys' : UnderWay(t) => UnderWay(t)'
    BY <1>1, <1>2, <1>3, <1>4 DEF UnderWay
  <2>2. Outliving' \subseteq Outliving
    BY <1>3, <2>1 DEF Outliving
  <2>3. sessionFaults \in Nat /\ IsFiniteSet(Outliving) /\ Cardinality(Outliving) <= sessionFaults
    BY DEF SessionInv, SessionTypeOK
  <2> QED BY <1>3, <2>2, <2>3, Shrinks
<1> QED BY <1>5, <1>6, <1>7, <1>8, <1>9, <1>10 DEF SessionInv

(* Keys expire: the access key of a session first.                         *)
LEMMA SessionExpires ==
  ASSUME SessionInv, NEW s, ExpireKey(s)
  PROVE  SessionInv'
<1>1. /\ UNCHANGED <<origin, issued, sessionRequest, sessionFaults>> /\ Drawn' = Drawn
      /\ accessKeys' \subseteq accessKeys /\ refreshKeys' \subseteq refreshKeys
      /\ NoRequest' = NoRequest /\ NoSession' = NoSession
  BY DEF ExpireKey, Drawn, NoRequest, NoSession
<1>2. SessionTypeOK' /\ NewSessionsDiffer' /\ KeysSound'
  BY <1>1 DEF SessionInv, SessionTypeOK, NewSessionsDiffer, KeysSound
<1>3. \A g \in SessionHandlers : RequestSound(g)'
  BY <1>1 DEF SessionInv, RequestSound
<1>4. \A t \in SessionIds : RefreshBounded(t)'
  BY <1>1 DEF SessionInv, RefreshBounded, Successors, Refreshing
<1>5. Outliving' \subseteq Outliving
  BY <1>1 DEF ExpireKey, Outliving, UnderWay
<1>6. sessionFaults \in Nat /\ IsFiniteSet(Outliving) /\ Cardinality(Outliving) <= sessionFaults
  BY DEF SessionInv, SessionTypeOK
<1>7. IsFiniteSet(Outliving') /\ Cardinality(Outliving') <= sessionFaults'
  BY <1>1, <1>5, <1>6, Shrinks
<1> QED BY <1>2, <1>3, <1>4, <1>7 DEF SessionInv

(* Sessions are typed, every request knows of its sessions what it read or *)
(* deleted, and the sessions drawn from one session and the requests that  *)
(* may still draw one from it are never more than the requests at once     *)
(* (session.service.js).                                                   *)
THEOREM SessionInvariant == SessionSpec => []SessionInv
<1>1. SessionInit => SessionInv
  <2> SUFFICES ASSUME SessionInit PROVE SessionInv
    OBVIOUS
  <2>1. Drawn = {} /\ NoSession \notin SessionIds /\ MaxSessions \in Nat /\ MaxSessionFaults \in Nat
    BY SessionAssumption DEF SessionInit, Drawn, NoSession, SessionIds
  <2>2. \A h \in SessionHandlers : sessionRequest[h] = NoRequest
    BY DEF SessionInit
  <2>3. SessionTypeOK
    <3>1. << >> \in [1..0 -> {NoSession} \cup SessionIds]
      OBVIOUS
    <3> QED BY <2>1, <3>1 DEF SessionInit, SessionTypeOK, NoRequest
  <2>4. NewSessionsDiffer /\ KeysSound /\ \A h \in SessionHandlers : RequestSound(h)
    BY <2>1, <2>2 DEF SessionInit, NewSessionsDiffer, KeysSound, RequestSound, NoRequest
  <2>5. Outliving = {} /\ IsFiniteSet({}) /\ Cardinality({}) = 0 /\ sessionFaults = 0
    BY FS_EmptySet DEF SessionInit, Outliving
  <2>6. ASSUME NEW s \in SessionIds PROVE RefreshBounded(s)
    <3>1. Successors(s) = {} /\ Refreshing(s) = {} /\ s \notin refreshKeys
      BY <2>1, <2>2 DEF Successors, Refreshing, NoRequest, SessionInit
    <3>2. Cardinality(SessionHandlers) \in Nat
      BY SessionAssumption, FS_CardinalityType
    <3> QED BY <2>5, <3>1, <3>2 DEF RefreshBounded
  <2> QED BY <2>3, <2>4, <2>5, <2>6 DEF SessionInv
<1>2. SessionInv /\ [SessionNext]_sessionVars => SessionInv'
  <2> SUFFICES ASSUME SessionInv, [SessionNext]_sessionVars PROVE SessionInv'
    OBVIOUS
  <2>1. ASSUME NEW h \in SessionHandlers, CreateAuthSession(h) PROVE SessionInv'
    <3>1. /\ sessionRequest[h] = NoRequest
          /\ UNCHANGED <<accessKeys, refreshKeys, origin, issued, sessionFaults>>
          /\ sessionFaults \in 0..MaxSessionFaults /\ NoSession \notin accessKeys
          /\ sessionRequest' = [sessionRequest EXCEPT ![h] =
                                  [pc |-> "sign", old |-> NoSession, new |-> NoSession]]
      BY <2>1, DrawnSessions DEF CreateAuthSession, Start, Request, SessionInv, SessionTypeOK
    <3>2. \A g \in SessionHandlers \ {h} : sessionRequest'[g] = sessionRequest[g]
      BY <3>1 DEF SessionInv, SessionTypeOK
    <3>3. Outliving' \subseteq Outliving
      <4>1. \A t \in accessKeys : UnderWay(t) => UnderWay(t)'
        BY <3>1, <3>2 DEF UnderWay, NoRequest
      <4> QED BY <3>1, <4>1 DEF Outliving
    <3>4. "sign" \in SessionPcs
      BY DEF SessionPcs
    <3> QED BY <3>1, <3>3, <3>4, RequestKeeps
  <2>2. ASSUME NEW h \in SessionHandlers, NEW s \in issued,
               RefreshAuthSession(h, s) \/ RevokeAuthSession(h, s)
        PROVE  SessionInv'
    BY <2>2, RequestBegins
  <2>3. ASSUME NEW h \in SessionHandlers,
               \/ RevokeRefreshToken(h) \/ RevokeToken(h)
               \/ LogoutRefresh(h) \/ LogoutAccess(h)
        PROVE  SessionInv'
    BY <2>3, RequestRevokes
  <2>4. ASSUME NEW h \in SessionHandlers,
               SignAccessToken(h) \/ SignRefreshToken(h) \/ SessionFails(h)
        PROVE  SessionInv'
    BY <2>4, SessionIsDrawn, SessionIsIssued, RequestDies
  <2>5. ASSUME NEW s, ExpireKey(s) PROVE SessionInv'
    BY <2>5, SessionExpires
  <2>6. CASE UNCHANGED sessionVars
    <3>1. UNCHANGED <<accessKeys, refreshKeys, origin, issued, sessionRequest, sessionFaults>>
          /\ Drawn' = Drawn
      BY <2>6 DEF sessionVars, Drawn
    <3>2. /\ SessionTypeOK' /\ NewSessionsDiffer' /\ KeysSound' /\ Outliving' = Outliving
          /\ \A h \in SessionHandlers : RequestSound(h)'
      BY <3>1 DEF SessionInv, SessionTypeOK, NewSessionsDiffer, KeysSound, Outliving, UnderWay,
         RequestSound
    <3>3. \A t \in SessionIds : RefreshBounded(t)'
      BY <3>1 DEF SessionInv, RefreshBounded, Successors, Refreshing
    <3> QED BY <3>1, <3>2, <3>3 DEF SessionInv
  <2> QED BY <2>1, <2>2, <2>3, <2>4, <2>5, <2>6 DEF SessionNext
<1> QED BY <1>1, <1>2, PTL DEF SessionSpec

(* A refresh token buys at most one new session per request the server     *)
(* handles at once, and sessions that can be used but not refreshed are no *)
(* more than the requests that failed (session.service.js).                *)
THEOREM SessionsAreAccounted == SessionSpec => []SessionsAccounted
<1>1. SessionInv => SessionsAccounted
  <2> SUFFICES ASSUME SessionInv PROVE SessionsAccounted
    OBVIOUS
  <2>1. AccessOutlivesByFaults
    BY DEF SessionInv, Outliving, AccessOutlivesByFaults
  <2>2. ASSUME NEW s \in Drawn PROVE Cardinality(Successors(s)) <= Cardinality(SessionHandlers)
    <3>1. s \in SessionIds
      BY DrawnSessions DEF SessionInv
    <3>2. RefreshBounded(s)
      BY <3>1 DEF SessionInv
    <3>3. /\ Cardinality(Successors(s)) \in Nat /\ Cardinality(Refreshing(s)) \in Nat
          /\ Cardinality(SessionHandlers) \in Nat
      BY <3>2, SessionAssumption, FS_CardinalityType DEF RefreshBounded
    <3> QED BY <3>2, <3>3 DEF RefreshBounded
  <2> QED BY <2>1, <2>2 DEF SessionsAccounted, RefreshesOverlap
<1> QED BY <1>1, SessionInvariant, PTL

(* A session that was logged out, refreshed or has expired, and that no    *)
(* refresh in hand has read, never comes back and has no further           *)
(* successor (session.service.js, refreshAuthSession).                     *)
THEOREM SessionEndedStays == SessionSpec => EndedStaysEnded
<1>1. ASSUME SessionInv, [SessionNext]_sessionVars, NEW s \in Drawn, Ended(s)
      PROVE  /\ Ended(s)'
             /\ {n \in DOMAIN origin' : origin'[n] = s} = Successors(s)
  <2>1. /\ s \in issued /\ s \notin refreshKeys /\ s # NoSession
        /\ \A h \in SessionHandlers : sessionRequest[h].old = s =>
               sessionRequest[h].pc \in {"logout", "logoutAccess"}
    BY <1>1, DrawnSessions DEF Ended, IsAt, SessionInv
  <2>2. /\ \A h \in SessionHandlers : RequestSound(h)
        /\ DOMAIN sessionRequest = SessionHandlers
    BY <1>1 DEF SessionInv, SessionTypeOK
  <2>3. ASSUME UNCHANGED origin PROVE {n \in DOMAIN origin' : origin'[n] = s} = Successors(s)
    BY <2>3 DEF Successors, Drawn
  <2>4. ASSUME s \in issued', s \notin refreshKeys', NEW h \in SessionHandlers,
               \A g \in SessionHandlers \ {h} : sessionRequest'[g] = sessionRequest[g],
               sessionRequest'[h].old = s =>
                  sessionRequest'[h].pc \in {"logout", "logoutAccess"}
        PROVE  Ended(s)'
    BY <2>1, <2>4 DEF Ended, IsAt
  <2>5. ASSUME NEW h \in SessionHandlers,
               \/ CreateAuthSession(h) \/ SessionFails(h) \/ LogoutAccess(h)
               \/ \E t \in issued : RefreshAuthSession(h, t) \/ RevokeAuthSession(h, t)
        PROVE  /\ Ended(s)' /\ UNCHANGED origin
    <3>1. /\ UNCHANGED <<refreshKeys, origin, issued>>
          /\ \A g \in SessionHandlers \ {h} : sessionRequest'[g] = sessionRequest[g]
      BY <2>2, <2>5 DEF CreateAuthSession, SessionFails, LogoutAccess, RefreshAuthSession,
         RevokeAuthSession, Start, Done
    <3>2. sessionRequest'[h].old = s => sessionRequest'[h].pc \in {"logout", "logoutAccess"}
      BY <2>1, <2>2, <2>5 DEF CreateAuthSession, SessionFails, LogoutAccess, RefreshAuthSession,
         RevokeAuthSession, Start, Done, Request, NoRequest
    <3> QED BY <2>1, <2>4, <3>1, <3>2
  <2>6. ASSUME NEW h \in SessionHandlers,
               RevokeRefreshToken(h) \/ RevokeToken(h) \/ LogoutRefresh(h)
        PROVE  /\ Ended(s)' /\ UNCHANGED origin
    <3>1. /\ UNCHANGED <<origin, issued>> /\ refreshKeys' \subseteq refreshKeys
          /\ \A g \in SessionHandlers \ {h} : sessionRequest'[g] = sessionRequest[g]
      BY <2>2, <2>6 DEF RevokeRefreshToken, RevokeToken, LogoutRefresh, Await
    <3>2. PICK pc \in SessionPcs :
             /\ Await(h, pc) /\ (sessionRequest[h].pc = "logout" <=> pc = "logoutAccess")
             /\ sessionRequest[h].pc \in {"revoke", "revokeAccess", "logout"}
      BY <2>6 DEF RevokeRefreshToken, RevokeToken, LogoutRefresh, IsAt, SessionPcs
    <3>3. sessionRequest'[h] = [pc |-> pc, old |-> sessionRequest[h].old,
                                new |-> sessionRequest[h].new]
      BY <1>1, <2>2, <3>2, RequestAwaits
    <3>4. sessionRequest'[h].old = s => sessionRequest'[h].pc \in {"logout", "logoutAccess"}
      BY <2>1, <3>2, <3>3
    <3> QED BY <2>1, <2>4, <3>1, <3>4
  <2>7. ASSUME NEW h \in SessionHandlers, SignAccessToken(h)
        PROVE  Ended(s)' /\ {n \in DOMAIN origin' : origin'[n] = s} = Successors(s)
    <3>1. /\ UNCHANGED <<refreshKeys, issued>> /\ sessionRequest[h].pc = "sign"
          /\ \A g \in SessionHandlers \ {h} : sessionRequest'[g] = sessionRequest[g]
          /\ origin' = Append(origin, sessionRequest[h].old)
      BY <2>2, <2>7 DEF SignAccessToken, IsAt
    <3>2. sessionRequest[h].old # s
      BY <2>1, <3>1
    <3>3. sessionRequest'[h].old = sessionRequest[h].old
      BY <1>1, <2>2, <2>7, RequestInHand DEF SignAccessToken
    <3>4. Ended(s)'
      BY <2>1, <2>4, <3>1, <3>2, <3>3
    <3>5. origin \in Seq({NoSession} \cup SessionIds) /\ Drawn = 1..Len(origin)
          /\ sessionRequest[h].old \in {NoSession} \cup SessionIds
      BY <1>1, <2>2, DrawnSessions DEF SessionInv, SessionTypeOK
    <3>6. /\ DOMAIN origin' = 1..(Len(origin) + 1) /\ Len(origin) \in Nat
          /\ origin'[Len(origin) + 1] = sessionRequest[h].old
          /\ \A n \in 1..Len(origin) : origin'[n] = origin[n]
      BY <3>1, <3>5
    <3> QED BY <3>2, <3>4, <3>5, <3>6 DEF Successors
  <2>8. ASSUME NEW h \in SessionHandlers, SignRefreshToken(h)
        PROVE  Ended(s)' /\ UNCHANGED origin
    <3>1. /\ refreshKeys' = refreshKeys \cup {sessionRequest[h].new}
          /\ sessionRequest[h].new \notin issued /\ s \in issued'
          /\ \A g \in SessionHandlers \ {h} : sessionRequest'[g] = sessionRequest[g]
          /\ sessionRequest'[h] = NoRequest /\ UNCHANGED origin
      BY <2>1, <2>2, <2>8 DEF SignRefreshToken, Done, IsAt, RequestSound
    <3> QED BY <2>1, <2>4, <3>1 DEF NoRequest
  <2>9. ASSUME UNCHANGED <<origin, issued, sessionRequest>>, refreshKeys' \subseteq refreshKeys
        PROVE  Ended(s)' /\ UNCHANGED origin
    BY <2>1, <2>9 DEF Ended, IsAt
  <2>10. ASSUME NEW t, ExpireKey(t) PROVE Ended(s)' /\ UNCHANGED origin
    BY <2>9, <2>10 DEF ExpireKey
  <2>11. CASE UNCHANGED sessionVars
    BY <2>3, <2>9, <2>11 DEF sessionVars
  <2> QED BY <1>1, <2>3, <2>5, <2>6, <2>7, <2>8, <2>10, <2>11 DEF SessionNext
<1>2. SessionInv /\ [SessionNext]_sessionVars =>
        [\A s \in Drawn : Ended(s) =>
            /\ Ended(s)'
            /\ {n \in DOMAIN origin' : origin'[n] = s} = Successors(s)]_sessionVars
  BY <1>1
<1> QED BY <1>2, SessionInvariant, PTL DEF SessionSpec, EndedStaysEnded
-------------------------------------------------------------------------------
(* Two-factor authentication.                                              *)

TwoFaPcs == {"idle", "upsert", "enable", "delete", "create", "attempts", "otp",
             "incr", "expire", "clear", "use", "grant"}
TokenStates == {"live", "expired", "used", "deleted"}

\* The requests that may still count a failure of scope k ...
Counting(k) == {h \in TwoFaHandlers : twoFa[h].scope = k /\ twoFa[h].pc \in {"otp", "incr"}}

\* ... that may still be granted a session for token t ...
Granting(t) == {h \in TwoFaHandlers : /\ twoFa[h].scope = t
                                      /\ twoFa[h].pc \in {"attempts", "otp", "clear", "use", "grant"}}

\* ... and that will store a token.
Creating == {h \in TwoFaHandlers : twoFa[h].pc = "create"}

LiveTokens == {t \in DOMAIN tokens : tokens[t] = "live"}

\* The counters that nobody will give an expiry.
Bare == {k \in Scopes : /\ attempts[k].count > 0 /\ ~attempts[k].expires
                        /\ \A h \in TwoFaHandlers : twoFa[h] # [pc |-> "expire", scope |-> k]}

AttemptsBounded(k) ==
    attempts[k].count + Cardinality(Counting(k))
       <= MAX_TWO_FA_ATTEMPTS - 1 + together[k]

\* A token that can be answered has bought nothing yet, and nobody knows a
\* token that is still to come.
GrantsBounded(t) ==
    /\ granted[t] + Cardinality(Granting(t)) <= together[t]
    /\ t \in LiveTokens => granted[t] = 0 /\ \A h \in Granting(t) : twoFa[h].pc # "grant"
    /\ t \notin DOMAIN tokens => granted[t] = 0 /\ \A h \in TwoFaHandlers : twoFa[h].scope # t

TokensBounded ==
    /\ IsFiniteSet(LiveTokens)
    /\ Cardinality(LiveTokens) + Cardinality(Creating) <= logins

CountersBounded == IsFiniteSet(Bare) /\ Cardinality(Bare) <= twoFaFaults

\* The requests at work are among those that the history counted.
HistoryCounts ==
    /\ \A k \in Scopes : Cardinality(Trying(k)) <= together[k]
    /\ Cardinality(LoggingIn) <= logins

\* A setup that is still to store its secret has met every verification there
\* was; who is about to enable two-factor login has a code for the secret, or
\* the secret came in between.
EnrolmentBounded ==
    /\ VerifiedIsEnabled /\ EnrolmentOverlaps
    /\ \A h \in TwoFaHandlers :
          /\ twoFa[h].pc = "upsert"
             /\ (isTwoFaEnabled \/ \E g \in TwoFaHandlers : twoFa[g].pc = "enable")
             => h \in met
          /\ twoFa[h].pc = "enable" => twoFaSecret.version \in proven \cup crossed

\* The types without those of the history.
TwoFaRowsOK ==
    /\ isTwoFaEnabled \in BOOLEAN
    /\ twoFaSecret \in [version : 0..MaxSecrets, isVerified : BOOLEAN]
    /\ tokens \in Seq(TokenStates) /\ Len(tokens) <= MaxTwoFaTokens
    /\ attempts \in [Scopes -> [count : Nat, expires : BOOLEAN]]
    /\ granted \in [1..MaxTwoFaTokens -> Nat]
    /\ twoFa \in [TwoFaHandlers -> [pc : TwoFaPcs, scope : Scopes]]
    /\ twoFaFaults \in 0..MaxTwoFaFaults

TwoFaInv ==
    /\ TwoFaTypeOK /\ EnrolmentBounded /\ HistoryCounts
    /\ \A k \in Scopes : AttemptsBounded(k)
    /\ \A t \in 1..MaxTwoFaTokens : GrantsBounded(t)
    /\ TokensBounded /\ CountersBounded

(* A request moves, the others do not.                                     *)
LEMMA TwoFaTurns ==
  ASSUME TwoFaTypeOK, NEW h \in TwoFaHandlers, NEW pc, NEW k, Turn(h, pc, k)
  PROVE  /\ twoFa'[h] = [pc |-> pc, scope |-> k]
         /\ twoFa'[h].pc = pc /\ twoFa'[h].scope = k
         /\ \A g \in TwoFaHandlers : g # h => twoFa'[g] = twoFa[g]
         /\ pc \in TwoFaPcs /\ k \in Scopes =>
               twoFa' \in [TwoFaHandlers -> [pc : TwoFaPcs, scope : Scopes]]
BY DEF Turn, TwoFaTypeOK, TwoFaPcs

(* To leave is to turn to the idle state.                                  *)
LEMMA TwoFaLeaves ==
  ASSUME NEW h, Leave(h)
  PROVE  Turn(h, "idle", Recent)
BY DEF Leave, Turn, TwoFaIdle

(* What a step makes of the counter of its scope.                          *)
LEMMA CounterChanges ==
  ASSUME TwoFaTypeOK, NEW h, NEW k \in Scopes
  PROVE  /\ IncrAttempts(h, k) => \E e \in BOOLEAN :
               attempts' = [attempts EXCEPT ![k] = [count |-> attempts[k].count + 1, expires |-> e]]
               /\ e = attempts[k].expires
         /\ ExpireAttempts(h, k) => \E e \in BOOLEAN :
               attempts' = [attempts EXCEPT ![k] = [count |-> attempts[k].count, expires |-> e]]
               /\ e = (attempts[k].count > 0)
         /\ ClearTwoFaAttempts(h, k) =>
               attempts' = [attempts EXCEPT ![k] = [count |-> 0, expires |-> FALSE]]
         /\ \/ IncrAttempts(h, k) \/ ExpireAttempts(h, k) \/ ClearTwoFaAttempts(h, k)
            => \E a \in [count : Nat, expires : BOOLEAN] : attempts' = [attempts EXCEPT ![k] = a]
<1>1. PICK a \in [count : Nat, expires : BOOLEAN] : a = attempts[k]
  BY DEF TwoFaTypeOK
<1>2. /\ a = [count |-> a.count, expires |-> a.expires] /\ a.count \in Nat /\ a.expires \in BOOLEAN
      /\ a.count + 1 \in Nat /\ (a.count > 0) \in BOOLEAN
  OBVIOUS
<1>3. [a EXCEPT !.count = a.count + 1] = [count |-> a.count + 1, expires |-> a.expires]
  BY <1>2
<1>4. [a EXCEPT !.expires = a.count > 0] = [count |-> a.count, expires |-> a.count > 0]
  BY <1>2
<1>5. IncrAttempts(h, k) => attempts' = [attempts EXCEPT ![k] = [a EXCEPT !.count = a.count + 1]]
  BY <1>1 DEF IncrAttempts
<1>6. ExpireAttempts(h, k) => attempts' = [attempts EXCEPT ![k] = [a EXCEPT !.expires = a.count > 0]]
  BY <1>1 DEF ExpireAttempts
<1>7. ClearTwoFaAttempts(h, k) =>
         attempts' = [attempts EXCEPT ![k] = [count |-> 0, expires |-> FALSE]]
  BY DEF ClearTwoFaAttempts, NoAttempts
<1>8. IncrAttempts(h, k) => attempts' = [attempts EXCEPT ![k] =
                                           [count |-> a.count + 1, expires |-> a.expires]]
  BY <1>3, <1>5
<1>9. ExpireAttempts(h, k) => attempts' = [attempts EXCEPT ![k] =
                                             [count |-> a.count, expires |-> a.count > 0]]
  BY <1>4, <1>6
<1>10. /\ [count |-> a.count + 1, expires |-> a.expires] \in [count : Nat, expires : BOOLEAN]
       /\ [count |-> a.count, expires |-> a.count > 0] \in [count : Nat, expires : BOOLEAN]
       /\ [count |-> 0, expires |-> FALSE] \in [count : Nat, expires : BOOLEAN]
  BY <1>2
<1> QED BY <1>1, <1>2, <1>7, <1>8, <1>9, <1>10

(* The tokens are a sequence whatever becomes of them.                     *)
LEMMA TokensType ==
  ASSUME TwoFaTypeOK, NEW t, NEW x \in TokenStates,
         \/ tokens' = [u \in DOMAIN tokens |-> x]
         \/ tokens' = [tokens EXCEPT ![t] = x]
  PROVE  /\ tokens' \in Seq(TokenStates) /\ Len(tokens') = Len(tokens)
         /\ DOMAIN tokens' = DOMAIN tokens
<1>1. tokens \in Seq(TokenStates) /\ Len(tokens) \in Nat /\ DOMAIN tokens = 1..Len(tokens)
      /\ \A u \in 1..Len(tokens) : tokens[u] \in TokenStates
  BY DEF TwoFaTypeOK, TokenStates
<1>2. tokens' \in [1..Len(tokens) -> TokenStates]
  BY <1>1
<1>3. tokens' \in Seq(TokenStates) /\ Len(tokens') = Len(tokens)
  BY <1>1, <1>2
<1> QED BY <1>1, <1>2, <1>3

(* Users, secrets, tokens, counters and requests keep their types.         *)
LEMMA TwoFaTypesStay ==
  ASSUME TwoFaTypeOK, [TwoFaNext]_twoFaVars
  PROVE  TwoFaRowsOK'
<1> USE TwoFaAssumption
<1>0. /\ Scopes' = Scopes /\ Recent \in Scopes /\ DOMAIN tokens \subseteq Scopes
      /\ tokens \in Seq(TokenStates) /\ Len(tokens) \in Nat /\ DOMAIN tokens = 1..Len(tokens)
  BY DEF TwoFaTypeOK, Scopes, Recent, TokenStates
<1>1. ASSUME NEW h \in TwoFaHandlers, NEW pc \in TwoFaPcs, NEW k \in Scopes, Turn(h, pc, k)
      PROVE  twoFa' \in [TwoFaHandlers -> [pc : TwoFaPcs, scope : Scopes]]
  BY <1>1, TwoFaTurns
<1>2. ASSUME NEW h \in TwoFaHandlers, Leave(h)
      PROVE  twoFa' \in [TwoFaHandlers -> [pc : TwoFaPcs, scope : Scopes]]
  BY <1>0, <1>1, <1>2, TwoFaLeaves DEF TwoFaPcs
<1>5. /\ tokens \in Seq(TokenStates) /\ Len(tokens) <= MaxTwoFaTokens
      /\ attempts \in [Scopes -> [count : Nat, expires : BOOLEAN]]
      /\ granted \in [1..MaxTwoFaTokens -> Nat]
      /\ twoFa \in [TwoFaHandlers -> [pc : TwoFaPcs, scope : Scopes]]
      /\ twoFaFaults \in 0..MaxTwoFaFaults
  BY DEF TwoFaTypeOK, TokenStates, TwoFaPcs
<1>3. ASSUME NEW h \in TwoFaHandlers, EnrolmentStep(h)
      PROVE  TwoFaRowsOK'
  <2>1. twoFa' \in [TwoFaHandlers -> [pc : TwoFaPcs, scope : Scopes]]
    BY <1>0, <1>1, <1>2, <1>3 DEF EnrolmentStep, SetupTwoFa, UpsertSecret, VerifyTwoFaSetup,
       EnableTwoFa, Enter, TwoFaPcs
  <2>2. UNCHANGED <<tokens, attempts, granted, twoFaFaults>>
    BY <1>3 DEF EnrolmentStep, SetupTwoFa, UpsertSecret, VerifyTwoFaSetup, EnableTwoFa
  <2>3. /\ isTwoFaEnabled' \in BOOLEAN
        /\ twoFaSecret' \in [version : 0..MaxSecrets, isVerified : BOOLEAN]
    <3>1. isTwoFaEnabled \in BOOLEAN
          /\ twoFaSecret \in [version : 0..MaxSecrets, isVerified : BOOLEAN]
      BY DEF TwoFaTypeOK
    <3>2. CASE SetupTwoFa(h) \/ VerifyTwoFaSetup(h)
      <4>1. UNCHANGED <<isTwoFaEnabled, twoFaSecret>>
        BY <3>2 DEF SetupTwoFa, VerifyTwoFaSetup, enrolment
      <4> QED BY <3>1, <4>1
    <3>3. CASE UpsertSecret(h)
      <4>1. twoFaSecret' = [version |-> twoFaSecret.version + 1, isVerified |-> FALSE]
            /\ UNCHANGED isTwoFaEnabled /\ twoFaSecret.version + 1 \in 0..MaxSecrets
        BY <3>1, <3>3 DEF UpsertSecret
      <4> QED BY <3>1, <4>1
    <3>4. CASE EnableTwoFa(h)
      <4>1. twoFaSecret' = [twoFaSecret EXCEPT !.isVerified = TRUE] /\ isTwoFaEnabled' = TRUE
        BY <3>4 DEF EnableTwoFa
      <4> QED BY <3>1, <4>1
    <3> QED BY <1>3, <3>2, <3>3, <3>4 DEF EnrolmentStep
  <2> QED BY <1>5, <2>1, <2>2, <2>3 DEF TwoFaRowsOK
<1>4. ASSUME UNCHANGED <<isTwoFaEnabled, twoFaSecret>>,
             tokens' \in Seq(TokenStates), Len(tokens') <= MaxTwoFaTokens,
             attempts' \in [Scopes -> [count : Nat, expires : BOOLEAN]],
             granted' \in [1..MaxTwoFaTokens -> Nat],
             twoFa' \in [TwoFaHandlers -> [pc : TwoFaPcs, scope : Scopes]],
             twoFaFaults' \in 0..MaxTwoFaFaults
      PROVE  TwoFaRowsOK'
  BY <1>0, <1>4 DEF TwoFaTypeOK, TwoFaRowsOK
<1>6. ASSUME NEW h \in TwoFaHandlers, LoginUser(h) \/ VerifyRecentTwoFa(h) \/ TwoFaFails(h)
      PROVE  TwoFaRowsOK'
  <2>1. UNCHANGED <<isTwoFaEnabled, twoFaSecret, tokens, attempts, granted>>
    BY <1>6 DEF LoginUser, VerifyRecentTwoFa, TwoFaFails, enrolment
  <2>2. twoFa' \in [TwoFaHandlers -> [pc : TwoFaPcs, scope : Scopes]]
    BY <1>0, <1>1, <1>2, <1>6 DEF LoginUser, VerifyRecentTwoFa, TwoFaFails, Enter, TwoFaPcs
  <2>3. twoFaFaults' \in 0..MaxTwoFaFaults
    BY <1>5, <1>6 DEF LoginUser, VerifyRecentTwoFa, TwoFaFails
  <2> QED BY <1>4, <1>5, <2>1, <2>2, <2>3
<1>7. ASSUME NEW h \in TwoFaHandlers, DeleteTokens(h) \/ CreateTwoFaToken(h)
      PROVE  TwoFaRowsOK'
  <2>1. UNCHANGED <<isTwoFaEnabled, twoFaSecret, attempts, granted, twoFaFaults>>
    BY <1>7 DEF DeleteTokens, CreateTwoFaToken, enrolment
  <2>2. twoFa' \in [TwoFaHandlers -> [pc : TwoFaPcs, scope : Scopes]]
    BY <1>0, <1>1, <1>2, <1>7 DEF DeleteTokens, CreateTwoFaToken, TwoFaPcs
  <2>3. tokens' \in Seq(TokenStates) /\ Len(tokens') <= MaxTwoFaTokens
    <3>1. CASE DeleteTokens(h)
      BY <1>5, <3>1, TokensType DEF DeleteTokens, TokenStates
    <3>2. CASE CreateTwoFaToken(h)
      BY <1>0, <1>5, <3>2 DEF CreateTwoFaToken, TokenStates
    <3> QED BY <1>7, <3>1, <3>2
  <2> QED BY <1>4, <1>5, <2>1, <2>2, <2>3
<1>8. ASSUME NEW h \in TwoFaHandlers, NEW k \in Scopes,
             \/ CheckTwoFaAttempts(h, k) \/ VerifyUserTwoFaOtp(h, k) \/ IncrAttempts(h, k)
             \/ ExpireAttempts(h, k) \/ ClearTwoFaAttempts(h, k)
      PROVE  TwoFaRowsOK'
  <2>1. UNCHANGED <<isTwoFaEnabled, twoFaSecret, tokens, granted, twoFaFaults>>
    BY <1>8 DEF CheckTwoFaAttempts, VerifyUserTwoFaOtp, IncrAttempts, ExpireAttempts,
       ClearTwoFaAttempts, enrolment
  <2>2. twoFa' \in [TwoFaHandlers -> [pc : TwoFaPcs, scope : Scopes]]
    BY <1>1, <1>2, <1>8 DEF CheckTwoFaAttempts, VerifyUserTwoFaOtp, IncrAttempts,
       ExpireAttempts, ClearTwoFaAttempts, TwoFaPcs
  <2>3. attempts' \in [Scopes -> [count : Nat, expires : BOOLEAN]]
    <3>1. CASE CheckTwoFaAttempts(h, k) \/ VerifyUserTwoFaOtp(h, k)
      BY <1>5, <3>1 DEF CheckTwoFaAttempts, VerifyUserTwoFaOtp
    <3>2. CASE IncrAttempts(h, k) \/ ExpireAttempts(h, k) \/ ClearTwoFaAttempts(h, k)
      <4>1. PICK a \in [count : Nat, expires : BOOLEAN] : attempts' = [attempts EXCEPT ![k] = a]
        BY <3>2, CounterChanges
      <4> QED BY <1>5, <4>1
    <3> QED BY <1>8, <3>1, <3>2
  <2> QED BY <1>4, <1>5, <2>1, <2>2, <2>3
<1>9. ASSUME NEW h \in TwoFaHandlers, NEW t \in DOMAIN tokens,
             MarkTwoFaTokenUsed(h, t) \/ GrantSession(h, t) \/ VerifyTwoFaLogin(h, t)
      PROVE  TwoFaRowsOK'
  <2>1. UNCHANGED <<isTwoFaEnabled, twoFaSecret, attempts, twoFaFaults>>
    BY <1>9 DEF MarkTwoFaTokenUsed, GrantSession, VerifyTwoFaLogin, enrolment
  <2>2. twoFa' \in [TwoFaHandlers -> [pc : TwoFaPcs, scope : Scopes]]
    BY <1>0, <1>1, <1>2, <1>9 DEF MarkTwoFaTokenUsed, GrantSession, VerifyTwoFaLogin, Enter,
       TwoFaPcs
  <2>3. tokens' \in Seq(TokenStates) /\ Len(tokens') <= MaxTwoFaTokens
    <3>1. UNCHANGED tokens \/ tokens' = [tokens EXCEPT ![t] = "used"]
      BY <1>9 DEF MarkTwoFaTokenUsed, GrantSession, VerifyTwoFaLogin
    <3>2. "used" \in TokenStates
      BY DEF TokenStates
    <3>3. CASE tokens' = [tokens EXCEPT ![t] = "used"]
      BY <1>5, <3>2, <3>3, TokensType
    <3> QED BY <1>5, <3>1, <3>3
  <2>4. granted' \in [1..MaxTwoFaTokens -> Nat]
    <3>1. granted' = granted \/ granted' = [granted EXCEPT ![t] = @ + 1]
      BY <1>9 DEF MarkTwoFaTokenUsed, GrantSession, VerifyTwoFaLogin
    <3>2. granted \in [1..MaxTwoFaTokens -> Nat]
      BY <1>5
    <3> QED BY <3>1, <3>2
  <2> QED BY <1>4, <1>5, <2>1, <2>2, <2>3, <2>4
<1>10. ASSUME NEW t \in DOMAIN tokens, TokenExpires(t)
       PROVE  TwoFaRowsOK'
  <2>1. UNCHANGED <<isTwoFaEnabled, twoFaSecret, attempts, granted, twoFa, twoFaFaults>>
        /\ tokens' = [tokens EXCEPT ![t] = "expired"]
    BY <1>10 DEF TokenExpires, enrolment
  <2>2. tokens' \in Seq(TokenStates) /\ Len(tokens') <= MaxTwoFaTokens
    BY <1>5, <2>1, TokensType DEF TokenStates
  <2> QED BY <1>4, <1>5, <2>1, <2>2
<1>11. ASSUME NEW k \in Scopes, AttemptsExpire(k)
       PROVE  TwoFaRowsOK'
  <2>1. UNCHANGED <<isTwoFaEnabled, twoFaSecret, tokens, granted, twoFa, twoFaFaults>>
        /\ attempts' = [attempts EXCEPT ![k] = NoAttempts]
    BY <1>11 DEF AttemptsExpire, enrolment
  <2>2. attempts' \in [Scopes -> [count : Nat, expires : BOOLEAN]]
    BY <1>5, <2>1 DEF NoAttempts
  <2> QED BY <1>4, <1>5, <2>1, <2>2
<1>12. CASE UNCHANGED twoFaVars
  BY <1>4, <1>5, <1>12 DEF twoFaVars
<1> QED BY <1>3, <1>6, <1>7, <1>8, <1>9, <1>10, <1>11, <1>12 DEF TwoFaNext, TwoFaStep, CheckStep

(* What the history records is of its type, never less than before, and    *)
(* counts whoever is at work.                                              *)
LEMMA HistoryGrows ==
  ASSUME TwoFaTypeOK, TwoFaRowsOK', HistoryCounts, [TwoFaNext]_twoFaVars
  PROVE  /\ TwoFaTypeOK' /\ HistoryCounts'
         /\ \A k \in Scopes : together'[k] >= together[k]
         /\ logins' >= logins
         /\ proven \subseteq proven' /\ crossed \subseteq crossed'
<1> USE TwoFaAssumption
<1>1. ASSUME NEW S, S \subseteq TwoFaHandlers PROVE Cardinality(S) \in Nat
  BY <1>1, FS_Subset, FS_CardinalityType
<1>2. /\ \A k \in Scopes : Cardinality(Trying(k)') \in Nat
      /\ Cardinality(LoggingIn') \in Nat
  <2>1. ASSUME NEW k \in Scopes PROVE Trying(k)' \subseteq TwoFaHandlers
    BY DEF Trying
  <2>2. LoggingIn' \subseteq TwoFaHandlers
    BY DEF LoggingIn
  <2> QED BY <1>1, <2>1, <2>2
<1>3. /\ together \in [Scopes -> Nat] /\ logins \in Nat /\ met \subseteq TwoFaHandlers
      /\ proven \subseteq 0..MaxSecrets /\ crossed \subseteq 0..MaxSecrets
      /\ twoFaSecret.version \in 0..MaxSecrets /\ twoFaSecret'.version \in 0..MaxSecrets
  BY DEF TwoFaTypeOK, TwoFaRowsOK
<1>4. CASE TwoFaNext
  <2>1. Recorded
    BY <1>4 DEF TwoFaNext
  <2>2. /\ together' = [k \in Scopes |-> AtLeast(together[k], Trying(k)')]
        /\ logins' = AtLeast(logins, LoggingIn')
    BY <2>1 DEF Recorded
  <2>3. \A k \in Scopes : /\ AtLeast(together[k], Trying(k)') \in Nat
                          /\ AtLeast(together[k], Trying(k)') >= together[k]
                          /\ AtLeast(together[k], Trying(k)') >= Cardinality(Trying(k)')
    BY <1>2, <1>3 DEF AtLeast
  <2>4. logins' \in Nat /\ logins' >= logins /\ logins' >= Cardinality(LoggingIn')
    BY <1>2, <1>3, <2>2 DEF AtLeast
  <2>5. /\ proven \subseteq proven' /\ crossed \subseteq crossed'
        /\ proven' \subseteq proven \cup {twoFaSecret.version}
        /\ crossed' \subseteq crossed \cup {twoFaSecret'.version}
        /\ met' \subseteq TwoFaHandlers
    BY <2>1 DEF Recorded
  <2>6. \A k \in Scopes : /\ together'[k] \in Nat /\ together'[k] >= together[k]
                          /\ together'[k] >= Cardinality(Trying(k)')
    BY <2>2, <2>3
  <2>7. together' \in [Scopes -> Nat]
    BY <2>2, <2>3
  <2>8. HistoryCounts'
    BY <1>2, <2>4, <2>6 DEF HistoryCounts, Scopes, Recent
  <2>9. TwoFaTypeOK'
    <3>1. proven' \cup crossed' \subseteq 0..MaxSecrets
      BY <1>3, <2>5
    <3> QED BY <2>4, <2>5, <2>7, <3>1 DEF TwoFaTypeOK, TwoFaRowsOK, TokenStates, TwoFaPcs, Scopes,
           Recent
  <2> QED BY <2>4, <2>5, <2>6, <2>8, <2>9
<1>5. CASE UNCHANGED twoFaVars
  <2>1. UNCHANGED <<isTwoFaEnabled, twoFaSecret, tokens, attempts, granted, twoFa, twoFaFaults>>
        /\ UNCHANGED <<proven, met, crossed, together, logins>>
    BY <1>5 DEF twoFaVars, twoFaHistory
  <2>2. TwoFaTypeOK'
    BY <2>1 DEF TwoFaTypeOK, Scopes, Recent
  <2>3. HistoryCounts'
    BY <2>1 DEF HistoryCounts, Trying, LoggingIn, Scopes, Recent
  <2> QED BY <1>3, <2>1, <2>2, <2>3
<1> QED BY <1>4, <1>5

(* The steps, by what they do to the counters, the tokens and the grants.  *)
LEMMA TwoFaSteps ==
  ASSUME TwoFaTypeOK, [TwoFaNext]_twoFaVars
  PROVE  \/ \E h \in TwoFaHandlers :
               \/ /\ EnrolmentStep(h) \/ LoginUser(h) \/ VerifyRecentTwoFa(h)
                  /\ UNCHANGED <<tokens, attempts, granted, twoFaFaults>>
               \/ /\ DeleteTokens(h) \/ CreateTwoFaToken(h)
                     \/ \E t \in DOMAIN tokens : MarkTwoFaTokenUsed(h, t)
                  /\ UNCHANGED <<attempts, granted, twoFaFaults>>
               \/ TwoFaFails(h)
               \/ \E t \in DOMAIN tokens :
                     /\ VerifyTwoFaLogin(h, t) \/ GrantSession(h, t)
                     /\ UNCHANGED <<tokens, attempts, twoFaFaults>>
               \/ \E k \in Scopes :
                     /\ CheckTwoFaAttempts(h, k) \/ VerifyUserTwoFaOtp(h, k)
                     /\ UNCHANGED <<tokens, attempts, granted, twoFaFaults>>
               \/ \E k \in Scopes :
                     /\ IncrAttempts(h, k) \/ ExpireAttempts(h, k) \/ ClearTwoFaAttempts(h, k)
                     /\ UNCHANGED <<tokens, granted, twoFaFaults>>
         \/ \E t \in DOMAIN tokens : TokenExpires(t)
         \/ \E k \in Scopes : AttemptsExpire(k)
         \/ UNCHANGED twoFaVars
<1>1. \A h \in TwoFaHandlers : EnrolmentStep(h) \/ LoginUser(h) \/ VerifyRecentTwoFa(h) =>
         UNCHANGED <<tokens, attempts, granted, twoFaFaults>>
  BY DEF EnrolmentStep, LoginUser, VerifyRecentTwoFa, SetupTwoFa, UpsertSecret,
     VerifyTwoFaSetup, EnableTwoFa
<1>2. \A h \in TwoFaHandlers :
         /\ DeleteTokens(h) \/ CreateTwoFaToken(h)
              \/ (\E t \in DOMAIN tokens : MarkTwoFaTokenUsed(h, t))
            => UNCHANGED <<attempts, granted, twoFaFaults>>
         /\ \A t : VerifyTwoFaLogin(h, t) \/ GrantSession(h, t) =>
               UNCHANGED <<tokens, attempts, twoFaFaults>>
  BY DEF DeleteTokens, CreateTwoFaToken, MarkTwoFaTokenUsed, VerifyTwoFaLogin, GrantSession
<1>3. \A h \in TwoFaHandlers, k \in Scopes :
         /\ CheckTwoFaAttempts(h, k) \/ VerifyUserTwoFaOtp(h, k) =>
               UNCHANGED <<tokens, attempts, granted, twoFaFaults>>
         /\ IncrAttempts(h, k) \/ ExpireAttempts(h, k) \/ ClearTwoFaAttempts(h, k) =>
               UNCHANGED <<tokens, granted, twoFaFaults>>
  BY DEF CheckTwoFaAttempts, VerifyUserTwoFaOtp, IncrAttempts, ExpireAttempts, ClearTwoFaAttempts
<1> QED BY <1>1, <1>2, <1>3 DEF TwoFaNext, TwoFaStep, CheckStep

(* Where a request goes in a step, and from where.                         *)
LEMMA TwoFaGoesOn ==
  ASSUME TwoFaTypeOK, NEW h \in TwoFaHandlers
  PROVE  EnrolmentStep(h) \/ LoginUser(h) \/ DeleteTokens(h) \/ CreateTwoFaToken(h)
           \/ VerifyRecentTwoFa(h) \/ TwoFaFails(h) =>
               \E pc \in {"idle", "upsert", "enable", "delete", "create", "attempts"} :
                  /\ Turn(h, pc, Recent)
                  /\ pc = "create" => DeleteTokens(h)
<1>1. Leave(h) => Turn(h, "idle", Recent)
  BY TwoFaLeaves
<1> QED BY <1>1 DEF EnrolmentStep, LoginUser, VerifyRecentTwoFa, SetupTwoFa, UpsertSecret,
       VerifyTwoFaSetup, EnableTwoFa, DeleteTokens, CreateTwoFaToken, TwoFaFails, Enter

(* Where every step of a request in the middle of its check takes it.      *)
LEMMA CheckGoesOn ==
  ASSUME TwoFaTypeOK, NEW h \in TwoFaHandlers, NEW k
  PROVE  /\ VerifyTwoFaLogin(h, k) => twoFa[h] = TwoFaIdle /\ Turn(h, "attempts", k)
         /\ MarkTwoFaTokenUsed(h, k) =>
               /\ twoFa[h].pc = "use" /\ twoFa[h].scope = k
               /\ \/ Turn(h, "idle", Recent) /\ tokens' = tokens
                  \/ Turn(h, "grant", k) /\ tokens' = [tokens EXCEPT ![k] = "used"]
         /\ GrantSession(h, k) =>
               twoFa[h].pc = "grant" /\ twoFa[h].scope = k /\ Turn(h, "idle", Recent)
         /\ CheckTwoFaAttempts(h, k) =>
               /\ twoFa[h].pc = "attempts" /\ twoFa[h].scope = k
               /\ \/ Turn(h, "idle", Recent)
                  \/ Turn(h, "otp", k) /\ ~(attempts[k].count >= MAX_TWO_FA_ATTEMPTS)
         /\ VerifyUserTwoFaOtp(h, k) =>
               /\ twoFa[h].pc = "otp" /\ twoFa[h].scope = k
               /\ Turn(h, "incr", k) \/ Turn(h, "clear", k)
         /\ IncrAttempts(h, k) =>
               /\ twoFa[h].pc = "incr" /\ twoFa[h].scope = k
               /\ \/ Turn(h, "expire", k) /\ attempts[k].count = 0
                  \/ Turn(h, "idle", Recent) /\ attempts[k].count # 0
         /\ ExpireAttempts(h, k) =>
               twoFa[h].pc = "expire" /\ twoFa[h].scope = k /\ Turn(h, "idle", Recent)
         /\ ClearTwoFaAttempts(h, k) =>
               /\ twoFa[h].pc = "clear" /\ twoFa[h].scope = k
               /\ Turn(h, "idle", Recent) \/ (k # Recent /\ Turn(h, "use", k))
<1>1. Leave(h) => Turn(h, "idle", Recent)
  BY TwoFaLeaves
<1> QED BY <1>1 DEF VerifyTwoFaLogin, Enter, MarkTwoFaTokenUsed, GrantSession,
       CheckTwoFaAttempts, VerifyUserTwoFaOtp, IncrAttempts, ExpireAttempts, ClearTwoFaAttempts

(* Failures stay bounded by the requests that passed the check together.   *)
LEMMA AttemptsStay ==
  ASSUME TwoFaTypeOK, NEW k \in Scopes, AttemptsBounded(k), [TwoFaNext]_twoFaVars,
         TwoFaTypeOK', HistoryCounts',
         together'[k] >= together[k]
  PROVE  AttemptsBounded(k)'
<1> USE TwoFaAssumption
<1>1. /\ Counting(k) \subseteq TwoFaHandlers /\ Counting(k)' \subseteq TwoFaHandlers
      /\ IsFiniteSet(Counting(k)) /\ IsFiniteSet(Counting(k)')
      /\ Cardinality(Counting(k)) \in Nat /\ Cardinality(Counting(k)') \in Nat
      /\ Cardinality(Counting(k)') <= together'[k]
      /\ together[k] \in Nat /\ together'[k] \in Nat /\ together'[k] >= together[k]
  <2>1. Counting(k) \subseteq TwoFaHandlers /\ Counting(k)' \subseteq TwoFaHandlers
    BY DEF Counting
  <2>2. Trying(k)' \subseteq TwoFaHandlers /\ Counting(k)' \subseteq Trying(k)'
    BY DEF Counting, Trying
  <2>3. /\ Cardinality(Counting(k)') <= Cardinality(Trying(k)')
        /\ Cardinality(Counting(k)') \in Nat /\ Cardinality(Trying(k)') \in Nat
    BY <2>1, <2>2, FS_Subset, FS_CardinalityType
  <2>4. together[k] \in Nat /\ together'[k] \in Nat /\ Cardinality(Trying(k)') <= together'[k]
    BY DEF TwoFaTypeOK, HistoryCounts, Scopes
  <2> QED BY <2>1, <2>3, <2>4, FS_Subset, FS_CardinalityType
<1>2. attempts[k].count \in Nat /\ attempts \in [Scopes -> [count : Nat, expires : BOOLEAN]]
  BY DEF TwoFaTypeOK
<1>3. ASSUME attempts'[k].count \in Nat, attempts'[k].count <= attempts[k].count,
             Counting(k)' \subseteq Counting(k)
      PROVE  AttemptsBounded(k)'
  <2>1. Cardinality(Counting(k)') <= Cardinality(Counting(k))
    BY <1>1, <1>3, FS_Subset
  <2> QED BY <1>1, <1>2, <1>3, <2>1 DEF AttemptsBounded
<1>4. ASSUME NEW h \in TwoFaHandlers, NEW pc, NEW j, Turn(h, pc, j),
             \/ pc \notin {"otp", "incr"} \/ j # k
             \/ twoFa[h].scope = k /\ twoFa[h].pc \in {"otp", "incr"}
      PROVE  Counting(k)' \subseteq Counting(k)
  <2>0. Turn(h, pc, j)
    BY <1>4
  <2>1. /\ twoFa'[h].pc = pc /\ twoFa'[h].scope = j
        /\ \A g \in TwoFaHandlers : g # h => twoFa'[g] = twoFa[g]
    BY <2>0, TwoFaTurns
  <2> QED BY <1>4, <2>1 DEF Counting
<1>5. ASSUME NEW h \in TwoFaHandlers,
             \/ EnrolmentStep(h) \/ LoginUser(h) \/ VerifyRecentTwoFa(h) \/ TwoFaFails(h)
             \/ DeleteTokens(h) \/ CreateTwoFaToken(h)
             \/ \E t \in DOMAIN tokens : MarkTwoFaTokenUsed(h, t) \/ VerifyTwoFaLogin(h, t)
                                        \/ GrantSession(h, t)
      PROVE  Counting(k)' \subseteq Counting(k)
  <2>1. PICK pc, j : Turn(h, pc, j) /\ pc \notin {"otp", "incr"}
    <3>1. CASE \E t \in DOMAIN tokens : MarkTwoFaTokenUsed(h, t) \/ VerifyTwoFaLogin(h, t)
                                        \/ GrantSession(h, t)
      <4>1. PICK t \in DOMAIN tokens : MarkTwoFaTokenUsed(h, t) \/ VerifyTwoFaLogin(h, t)
                                        \/ GrantSession(h, t)
        BY <3>1
      <4>2. Turn(h, "idle", Recent) \/ Turn(h, "grant", t) \/ Turn(h, "attempts", t)
        BY <4>1, CheckGoesOn
      <4> QED BY <4>2
    <3>2. CASE EnrolmentStep(h) \/ LoginUser(h) \/ VerifyRecentTwoFa(h) \/ TwoFaFails(h)
               \/ DeleteTokens(h) \/ CreateTwoFaToken(h)
      <4>1. PICK pc \in {"idle", "upsert", "enable", "delete", "create", "attempts"} :
               Turn(h, pc, Recent)
        BY <3>2, TwoFaGoesOn
      <4> QED BY <4>1
    <3> QED BY <1>5, <3>1, <3>2
  <2> QED BY <1>4, <2>1
<1>6. ASSUME NEW h \in TwoFaHandlers, NEW j \in Scopes, CheckTwoFaAttempts(h, j),
             UNCHANGED attempts
      PROVE  AttemptsBounded(k)'
  <2>1. CASE Turn(h, "idle", Recent) \/ j # k
    <3>1. Counting(k)' \subseteq Counting(k)
      BY <1>4, <1>6, <2>1, CheckGoesOn
    <3> QED BY <1>2, <1>3, <1>6, <3>1
  <2>2. CASE j = k /\ ~(attempts[k].count >= MAX_TWO_FA_ATTEMPTS)
    BY <1>1, <1>2, <1>6, <2>2 DEF AttemptsBounded
  <2> QED BY <1>6, <2>1, <2>2, CheckGoesOn
<1>7. ASSUME NEW h \in TwoFaHandlers, NEW j \in Scopes, VerifyUserTwoFaOtp(h, j),
             UNCHANGED attempts
      PROVE  AttemptsBounded(k)'
  <2>1. twoFa[h].scope = j /\ twoFa[h].pc = "otp" /\ (Turn(h, "incr", j) \/ Turn(h, "clear", j))
    BY <1>7, CheckGoesOn
  <2>2. Counting(k)' \subseteq Counting(k)
    BY <1>4, <2>1
  <2> QED BY <1>2, <1>3, <1>7, <2>2
<1>8. ASSUME NEW h \in TwoFaHandlers, NEW j \in Scopes, IncrAttempts(h, j)
      PROVE  AttemptsBounded(k)'
  <2>1. PICK e \in BOOLEAN : attempts' = [attempts EXCEPT ![j] =
                                            [count |-> attempts[j].count + 1, expires |-> e]]
    BY <1>8, CounterChanges
  <2>2. /\ twoFa[h].scope = j /\ twoFa[h].pc = "incr"
        /\ Turn(h, "expire", j) \/ Turn(h, "idle", Recent)
    BY <1>8, CheckGoesOn
  <2>3. CASE j # k
    <3>1. Counting(k)' \subseteq Counting(k)
      BY <1>4, <2>2
    <3> QED BY <1>2, <1>3, <2>1, <2>3, <3>1
  <2>4. CASE j = k
    <3>1. h \in Counting(k)
      BY <2>2, <2>4 DEF Counting
    <3>2. Counting(k)' \subseteq Counting(k) \ {h}
      <4>1. /\ twoFa'[h].pc \in {"expire", "idle"}
            /\ \A g \in TwoFaHandlers : g # h => twoFa'[g] = twoFa[g]
        BY <2>2, TwoFaTurns
      <4> QED BY <4>1 DEF Counting
    <3>3. Cardinality(Counting(k)') <= Cardinality(Counting(k)) - 1
      BY <1>1, <3>1, <3>2, ProperPart
    <3>4. attempts'[k].count = attempts[k].count + 1
      BY <1>2, <2>1, <2>4
    <3> QED BY <1>1, <1>2, <3>3, <3>4 DEF AttemptsBounded
  <2> QED BY <2>3, <2>4
<1>9. ASSUME NEW h \in TwoFaHandlers, NEW j \in Scopes,
             ExpireAttempts(h, j) \/ ClearTwoFaAttempts(h, j)
      PROVE  AttemptsBounded(k)'
  <2>1. PICK c \in Nat, e \in BOOLEAN :
           /\ attempts' = [attempts EXCEPT ![j] = [count |-> c, expires |-> e]]
           /\ c <= attempts[j].count
    <3>1. attempts[j].count \in Nat
      BY <1>2
    <3> QED BY <1>9, <3>1, CounterChanges
  <2>2. Turn(h, "idle", Recent) \/ Turn(h, "use", j)
    BY <1>9, CheckGoesOn
  <2>3. Counting(k)' \subseteq Counting(k)
    BY <1>4, <2>2
  <2> QED BY <1>2, <1>3, <2>1, <2>3
<1>10. ASSUME NEW j \in Scopes, AttemptsExpire(j) PROVE AttemptsBounded(k)'
  <2>1. attempts' = [attempts EXCEPT ![j] = NoAttempts] /\ UNCHANGED twoFa
    BY <1>10 DEF AttemptsExpire
  <2>2. Counting(k)' = Counting(k)
    BY <2>1 DEF Counting
  <2> QED BY <1>2, <1>3, <2>1, <2>2 DEF NoAttempts
<1>11. ASSUME UNCHANGED <<attempts, twoFa>> PROVE AttemptsBounded(k)'
  <2>1. Counting(k)' = Counting(k)
    BY <1>11 DEF Counting
  <2> QED BY <1>2, <1>3, <1>11, <2>1
<1>12. ASSUME UNCHANGED attempts, Counting(k)' \subseteq Counting(k) PROVE AttemptsBounded(k)'
  BY <1>2, <1>3, <1>12
<1>13. \A h \in TwoFaHandlers : TwoFaFails(h) => UNCHANGED attempts
  BY DEF TwoFaFails
<1>14. (\E t \in DOMAIN tokens : TokenExpires(t)) \/ UNCHANGED twoFaVars
         => UNCHANGED <<attempts, twoFa>>
  BY DEF TokenExpires, twoFaVars
<1> QED BY <1>5, <1>6, <1>7, <1>8, <1>9, <1>10, <1>11, <1>12, <1>13, <1>14, TwoFaSteps

(* A token buys no more sessions than requests that found it unused.       *)
LEMMA GrantsStay ==
  ASSUME TwoFaTypeOK, NEW t \in 1..MaxTwoFaTokens, GrantsBounded(t), [TwoFaNext]_twoFaVars,
         TwoFaTypeOK', HistoryCounts',
         together'[t] >= together[t]
  PROVE  GrantsBounded(t)'
<1> USE TwoFaAssumption
<1>1. /\ Granting(t) \subseteq TwoFaHandlers /\ Granting(t)' \subseteq TwoFaHandlers
      /\ IsFiniteSet(Granting(t)) /\ IsFiniteSet(Granting(t)')
      /\ Cardinality(Granting(t)) \in Nat /\ Cardinality(Granting(t)') \in Nat
      /\ Cardinality(Granting(t)') <= together'[t]
      /\ together[t] \in Nat /\ together'[t] \in Nat /\ together'[t] >= together[t]
  <2>1. Granting(t) \subseteq TwoFaHandlers /\ Granting(t)' \subseteq TwoFaHandlers
    BY DEF Granting
  <2>2. Trying(t)' \subseteq TwoFaHandlers /\ Granting(t)' \subseteq Trying(t)'
    BY DEF Granting, Trying
  <2>3. /\ Cardinality(Granting(t)') <= Cardinality(Trying(t)')
        /\ Cardinality(Granting(t)') \in Nat /\ Cardinality(Trying(t)') \in Nat
    BY <2>1, <2>2, FS_Subset, FS_CardinalityType
  <2>4. together[t] \in Nat /\ together'[t] \in Nat /\ Cardinality(Trying(t)') <= together'[t]
    BY DEF TwoFaTypeOK, HistoryCounts, Scopes
  <2> QED BY <2>1, <2>3, <2>4, FS_Subset, FS_CardinalityType
<1>2. /\ granted[t] \in Nat /\ granted \in [1..MaxTwoFaTokens -> Nat] /\ t # Recent
      /\ tokens \in Seq(TokenStates) /\ DOMAIN tokens = 1..Len(tokens) /\ Len(tokens) \in Nat
      /\ Len(tokens) <= MaxTwoFaTokens
  BY DEF TwoFaTypeOK, Recent, TokenStates
<1>3. ASSUME UNCHANGED granted, Granting(t)' \subseteq Granting(t),
             DOMAIN tokens' = DOMAIN tokens, LiveTokens' \subseteq LiveTokens,
             \A h \in Granting(t)' : twoFa'[h].pc = "grant" => twoFa[h].pc = "grant",
             t \notin DOMAIN tokens => \A h \in TwoFaHandlers : twoFa'[h].scope # t
      PROVE  GrantsBounded(t)'
  <2>1. Cardinality(Granting(t)') <= Cardinality(Granting(t))
    BY <1>1, <1>3, FS_Subset
  <2>2. granted'[t] + Cardinality(Granting(t)') <= together'[t]
    BY <1>1, <1>2, <1>3, <2>1 DEF GrantsBounded
  <2> QED BY <1>3, <2>2 DEF GrantsBounded
<1>4. ASSUME NEW h \in TwoFaHandlers, NEW pc, NEW j, Turn(h, pc, j),
             pc # "grant" \/ j # t, j \in {Recent} \cup DOMAIN tokens,
             \/ pc \notin {"attempts", "otp", "clear", "use"} \/ j # t
             \/ /\ twoFa[h].scope = t
                /\ twoFa[h].pc \in {"attempts", "otp", "clear", "use"},
             UNCHANGED granted, DOMAIN tokens' = DOMAIN tokens, LiveTokens' \subseteq LiveTokens
      PROVE  GrantsBounded(t)'
  <2>1. /\ twoFa'[h].pc = pc /\ twoFa'[h].scope = j
        /\ \A g \in TwoFaHandlers : g # h => twoFa'[g] = twoFa[g]
    BY <1>4, TwoFaTurns
  <2>2. Granting(t)' \subseteq Granting(t)
    BY <1>4, <2>1 DEF Granting
  <2>3. \A g \in Granting(t)' : twoFa'[g].pc = "grant" => twoFa[g].pc = "grant"
    BY <1>4, <2>1 DEF Granting
  <2>4. t \notin DOMAIN tokens => \A g \in TwoFaHandlers : twoFa'[g].scope # t
    BY <1>2, <1>4, <2>1 DEF GrantsBounded
  <2> QED BY <1>3, <1>4, <2>2, <2>3, <2>4
<1>5. UNCHANGED tokens => DOMAIN tokens' = DOMAIN tokens /\ LiveTokens' = LiveTokens
  BY DEF LiveTokens
<1>6. ASSUME NEW h \in TwoFaHandlers,
             EnrolmentStep(h) \/ LoginUser(h) \/ VerifyRecentTwoFa(h) \/ TwoFaFails(h)
             \/ DeleteTokens(h)
      PROVE  GrantsBounded(t)'
  <2>1. PICK pc \in {"idle", "upsert", "enable", "delete", "create", "attempts"} :
           Turn(h, pc, Recent)
    BY <1>6, TwoFaGoesOn
  <2>2. UNCHANGED granted /\ DOMAIN tokens' = DOMAIN tokens /\ LiveTokens' \subseteq LiveTokens
    <3>1. CASE DeleteTokens(h)
      <4>1. UNCHANGED granted /\ tokens' = [u \in DOMAIN tokens |-> "deleted"]
        BY <3>1 DEF DeleteTokens
      <4> QED BY <4>1 DEF LiveTokens
    <3>2. CASE EnrolmentStep(h) \/ LoginUser(h) \/ VerifyRecentTwoFa(h) \/ TwoFaFails(h)
      BY <1>5, <3>2 DEF EnrolmentStep, LoginUser, VerifyRecentTwoFa, TwoFaFails, SetupTwoFa,
         UpsertSecret, VerifyTwoFaSetup, EnableTwoFa
    <3> QED BY <1>6, <3>1, <3>2
  <2> QED BY <1>2, <1>4, <2>1, <2>2
<1>7. ASSUME NEW h \in TwoFaHandlers, CreateTwoFaToken(h) PROVE GrantsBounded(t)'
  <2>1. /\ tokens' = Append(tokens, "live") /\ UNCHANGED granted
        /\ Turn(h, "idle", Recent)
    BY <1>7, TwoFaLeaves DEF CreateTwoFaToken
  <2>2. /\ twoFa'[h].pc = "idle" /\ twoFa'[h].scope = Recent
        /\ \A g \in TwoFaHandlers : g # h => twoFa'[g] = twoFa[g]
    BY <2>1, TwoFaTurns
  <2>3. /\ DOMAIN tokens' = 1..(Len(tokens) + 1)
        /\ \A u \in 1..Len(tokens) : tokens'[u] = tokens[u]
    <3>1. "live" \in TokenStates
      BY DEF TokenStates
    <3> QED BY <1>2, <2>1, <3>1
  <2>4. Granting(t)' \subseteq Granting(t)
        /\ \A g \in Granting(t)' : twoFa'[g] = twoFa[g]
    BY <1>2, <2>2 DEF Granting
  <2>5. Cardinality(Granting(t)') <= Cardinality(Granting(t))
    BY <1>1, <2>4, FS_Subset
  <2>6. granted'[t] + Cardinality(Granting(t)') <= together'[t]
    BY <1>1, <1>2, <2>1, <2>5 DEF GrantsBounded
  <2>7. CASE t \in DOMAIN tokens
    <3>1. t \in LiveTokens' => t \in LiveTokens
      BY <1>2, <2>3, <2>7 DEF LiveTokens
    <3> QED BY <1>2, <2>1, <2>3, <2>4, <2>6, <2>7, <3>1 DEF GrantsBounded
  <2>8. CASE t \notin DOMAIN tokens
    <3>1. granted[t] = 0 /\ \A g \in TwoFaHandlers : twoFa[g].scope # t
      BY <2>8 DEF GrantsBounded
    <3>2. \A g \in TwoFaHandlers : twoFa'[g].scope # t
      BY <1>2, <2>2, <3>1
    <3> QED BY <2>1, <2>6, <3>1, <3>2 DEF GrantsBounded, Granting
  <2> QED BY <2>7, <2>8
<1>8. ASSUME NEW h \in TwoFaHandlers, NEW u \in DOMAIN tokens, VerifyTwoFaLogin(h, u)
      PROVE  GrantsBounded(t)'
  <2>1. /\ Turn(h, "attempts", u) /\ UNCHANGED <<tokens, granted>> /\ u \in LiveTokens
    BY <1>8 DEF VerifyTwoFaLogin, Enter, LiveTokens
  <2>2. CASE u # t
    BY <1>4, <1>5, <2>1, <2>2
  <2>3. CASE u = t
    <3>1. granted[t] = 0 /\ \A g \in Granting(t) : twoFa[g].pc # "grant"
      BY <2>1, <2>3 DEF GrantsBounded
    <3>2. /\ twoFa'[h].pc = "attempts"
          /\ \A g \in TwoFaHandlers : g # h => twoFa'[g] = twoFa[g]
      BY <2>1, TwoFaTurns
    <3>3. \A g \in Granting(t)' : twoFa'[g].pc # "grant"
      BY <3>1, <3>2 DEF Granting
    <3>4. t \in DOMAIN tokens' /\ granted'[t] = 0
      BY <2>1, <2>3, <3>1
    <3> QED BY <1>1, <3>3, <3>4 DEF GrantsBounded
  <2> QED BY <2>2, <2>3
<1>9. ASSUME NEW h \in TwoFaHandlers, NEW u \in DOMAIN tokens, MarkTwoFaTokenUsed(h, u)
      PROVE  GrantsBounded(t)'
  <2>1. UNCHANGED granted /\ twoFa[h].pc = "use" /\ twoFa[h].scope = u
    BY <1>9, CheckGoesOn DEF MarkTwoFaTokenUsed
  <2>2. CASE Turn(h, "idle", Recent) /\ tokens' = tokens
    BY <1>2, <1>4, <1>5, <2>1, <2>2
  <2>3. CASE Turn(h, "grant", u) /\ tokens' = [tokens EXCEPT ![u] = "used"]
    <3>1. DOMAIN tokens' = DOMAIN tokens /\ LiveTokens' \subseteq LiveTokens \ {u}
      BY <2>3 DEF LiveTokens
    <3>2. CASE u # t
      BY <1>4, <2>1, <2>3, <3>1, <3>2
    <3>3. CASE u = t
      <4>1. /\ twoFa'[h].pc = "grant" /\ twoFa'[h].scope = t
            /\ \A g \in TwoFaHandlers : g # h => twoFa'[g] = twoFa[g]
        BY <2>3, <3>3, TwoFaTurns
      <4>2. Granting(t)' \subseteq Granting(t)
        BY <2>1, <3>3, <4>1 DEF Granting
      <4>3. Cardinality(Granting(t)') <= Cardinality(Granting(t))
        BY <1>1, <4>2, FS_Subset
      <4>4. granted'[t] + Cardinality(Granting(t)') <= together'[t]
        BY <1>1, <1>2, <2>1, <4>3 DEF GrantsBounded
      <4>5. t \notin LiveTokens' /\ t \in DOMAIN tokens'
        BY <3>1, <3>3
      <4> QED BY <4>4, <4>5 DEF GrantsBounded
    <3> QED BY <3>2, <3>3
  <2> QED BY <1>9, <2>2, <2>3, CheckGoesOn
<1>10. ASSUME NEW h \in TwoFaHandlers, NEW u \in DOMAIN tokens, GrantSession(h, u)
       PROVE  GrantsBounded(t)'
  <2>1. /\ twoFa[h].pc = "grant" /\ twoFa[h].scope = u /\ Turn(h, "idle", Recent)
        /\ granted' = [granted EXCEPT ![u] = @ + 1] /\ UNCHANGED tokens
    BY <1>10, CheckGoesOn DEF GrantSession
  <2>2. CASE u # t
    <3>1. /\ twoFa'[h].pc = "idle" /\ twoFa'[h].scope = Recent
          /\ \A g \in TwoFaHandlers : g # h => twoFa'[g] = twoFa[g]
      BY <2>1, TwoFaTurns
    <3>2. Granting(t)' \subseteq Granting(t) /\ granted'[t] = granted[t]
          /\ \A g \in Granting(t)' : twoFa'[g] = twoFa[g]
      BY <1>2, <2>1, <2>2, <3>1 DEF Granting
    <3>3. Cardinality(Granting(t)') <= Cardinality(Granting(t))
      BY <1>1, <3>2, FS_Subset
    <3>4. granted'[t] + Cardinality(Granting(t)') <= together'[t]
      BY <1>1, <1>2, <3>2, <3>3 DEF GrantsBounded
    <3>5. t \notin DOMAIN tokens => \A g \in TwoFaHandlers : twoFa'[g].scope # t
      BY <1>2, <3>1 DEF GrantsBounded
    <3> QED BY <1>5, <2>1, <3>2, <3>4, <3>5 DEF GrantsBounded
  <2>3. CASE u = t
    <3>1. h \in Granting(t) /\ t \notin LiveTokens /\ t \in DOMAIN tokens
      BY <2>1, <2>3 DEF Granting, GrantsBounded
    <3>2. /\ twoFa'[h].pc = "idle"
          /\ \A g \in TwoFaHandlers : g # h => twoFa'[g] = twoFa[g]
      BY <2>1, TwoFaTurns
    <3>3. Granting(t)' \subseteq Granting(t) \ {h}
      BY <3>2 DEF Granting
    <3>4. Cardinality(Granting(t)') <= Cardinality(Granting(t)) - 1
      BY <1>1, <3>1, <3>3, ProperPart
    <3>5. granted'[t] = granted[t] + 1
      BY <1>2, <2>1, <2>3
    <3>6. granted'[t] + Cardinality(Granting(t)') <= together'[t]
      BY <1>1, <1>2, <3>4, <3>5 DEF GrantsBounded
    <3> QED BY <1>5, <2>1, <3>1, <3>6 DEF GrantsBounded
  <2> QED BY <2>2, <2>3
<1>11. ASSUME NEW h \in TwoFaHandlers, NEW k \in Scopes,
              \/ CheckTwoFaAttempts(h, k) \/ VerifyUserTwoFaOtp(h, k) \/ IncrAttempts(h, k)
              \/ ExpireAttempts(h, k) \/ ClearTwoFaAttempts(h, k),
              UNCHANGED <<tokens, granted>>
       PROVE  GrantsBounded(t)'
  <2>1. twoFa[h].scope = k
    BY <1>11, CheckGoesOn
  <2>2. k = t => t \in DOMAIN tokens
    BY <2>1 DEF GrantsBounded
  <2>3. PICK pc, j : /\ Turn(h, pc, j) /\ j \in {Recent, k} /\ pc # "grant"
                     /\ \/ pc \in {"idle", "incr", "expire"}
                        \/ twoFa[h].pc \in {"attempts", "otp", "clear", "use"}
    BY <1>11, CheckGoesOn
  <2>4. /\ twoFa'[h].pc = pc /\ twoFa'[h].scope = j
        /\ \A g \in TwoFaHandlers : g # h => twoFa'[g] = twoFa[g]
    <3>1. Turn(h, pc, j)
      BY <2>3
    <3> QED BY <3>1, TwoFaTurns
  <2>5. Granting(t)' \subseteq Granting(t)
    BY <1>2, <2>1, <2>3, <2>4 DEF Granting
  <2>6. \A g \in Granting(t)' : twoFa'[g].pc = "grant" => twoFa[g].pc = "grant"
    BY <2>3, <2>4 DEF Granting
  <2>7. t \notin DOMAIN tokens => \A g \in TwoFaHandlers : twoFa'[g].scope # t
    BY <1>2, <2>2, <2>3, <2>4 DEF GrantsBounded
  <2> QED BY <1>3, <1>5, <1>11, <2>5, <2>6, <2>7
<1>12. ASSUME NEW u \in DOMAIN tokens, TokenExpires(u) PROVE GrantsBounded(t)'
  <2>1. UNCHANGED <<granted, twoFa>> /\ tokens' = [tokens EXCEPT ![u] = "expired"]
    BY <1>12 DEF TokenExpires
  <2>2. DOMAIN tokens' = DOMAIN tokens /\ LiveTokens' \subseteq LiveTokens
    BY <2>1 DEF LiveTokens
  <2>3. Granting(t)' = Granting(t)
    BY <2>1 DEF Granting
  <2>4. t \notin DOMAIN tokens => \A g \in TwoFaHandlers : twoFa'[g].scope # t
    BY <2>1 DEF GrantsBounded
  <2> QED BY <1>3, <2>1, <2>2, <2>3, <2>4
<1>13. ASSUME UNCHANGED <<tokens, granted, twoFa>> PROVE GrantsBounded(t)'
  <2>1. Granting(t)' = Granting(t)
    BY <1>13 DEF Granting
  <2>2. t \notin DOMAIN tokens => \A g \in TwoFaHandlers : twoFa'[g].scope # t
    BY <1>13 DEF GrantsBounded
  <2> QED BY <1>3, <1>5, <1>13, <2>1, <2>2
<1>14. (\E k \in Scopes : AttemptsExpire(k)) \/ UNCHANGED twoFaVars
         => UNCHANGED <<tokens, granted, twoFa>>
  BY DEF AttemptsExpire, twoFaVars
<1> QED BY <1>6, <1>7, <1>8, <1>9, <1>10, <1>11, <1>12, <1>13, <1>14, TwoFaSteps

(* Only logins that overlap leave more than one token to answer.           *)
LEMMA TokensStay ==
  ASSUME TwoFaTypeOK, TokensBounded, [TwoFaNext]_twoFaVars,
         TwoFaTypeOK', HistoryCounts',
         logins' >= logins
  PROVE  TokensBounded'
<1> USE TwoFaAssumption
<1>1. /\ Creating' \subseteq TwoFaHandlers /\ IsFiniteSet(Creating) /\ IsFiniteSet(Creating')
      /\ Cardinality(Creating) \in Nat /\ Cardinality(Creating') \in Nat
      /\ Cardinality(Creating') <= logins'
      /\ logins \in Nat /\ logins' \in Nat /\ logins' >= logins
  <2>1. Creating \subseteq TwoFaHandlers /\ Creating' \subseteq TwoFaHandlers
    BY DEF Creating
  <2>2. LoggingIn' \subseteq TwoFaHandlers /\ Creating' \subseteq LoggingIn'
    BY DEF Creating, LoggingIn
  <2>3. /\ Cardinality(Creating') <= Cardinality(LoggingIn')
        /\ Cardinality(Creating') \in Nat /\ Cardinality(LoggingIn') \in Nat
    BY <2>1, <2>2, FS_Subset, FS_CardinalityType
  <2>4. logins \in Nat /\ logins' \in Nat /\ Cardinality(LoggingIn') <= logins'
    BY DEF TwoFaTypeOK, HistoryCounts, Scopes
  <2> QED BY <2>1, <2>3, <2>4, FS_Subset, FS_CardinalityType
<1>2. IsFiniteSet(LiveTokens) /\ Cardinality(LiveTokens) \in Nat
      /\ Cardinality(LiveTokens) + Cardinality(Creating) <= logins
  BY FS_CardinalityType DEF TokensBounded
<1>3. ASSUME LiveTokens' \subseteq LiveTokens, Creating' \subseteq Creating
      PROVE  TokensBounded'
  BY <1>1, <1>2, <1>3, BothShrink DEF TokensBounded
<1>4. ASSUME NEW h \in TwoFaHandlers, NEW pc, NEW j, Turn(h, pc, j), pc # "create"
      PROVE  Creating' \subseteq Creating
  <2>1. /\ twoFa'[h].pc = pc
        /\ \A g \in TwoFaHandlers : g # h => twoFa'[g] = twoFa[g]
    BY <1>4, TwoFaTurns
  <2> QED BY <1>4, <2>1 DEF Creating
<1>5. UNCHANGED tokens => LiveTokens' = LiveTokens
  BY DEF LiveTokens
<1>6. ASSUME NEW h \in TwoFaHandlers, DeleteTokens(h) PROVE TokensBounded'
  <2>1. LiveTokens' = {}
    BY <1>6 DEF DeleteTokens, LiveTokens
  <2>2. IsFiniteSet({}) /\ Cardinality({}) = 0
    BY FS_EmptySet
  <2> QED BY <1>1, <2>1, <2>2 DEF TokensBounded
<1>7. ASSUME NEW h \in TwoFaHandlers, CreateTwoFaToken(h) PROVE TokensBounded'
  <2>1. /\ tokens' = Append(tokens, "live") /\ twoFa[h].pc = "create"
        /\ Turn(h, "idle", Recent)
    BY <1>7, TwoFaLeaves DEF CreateTwoFaToken, Awaits
  <2>2. /\ twoFa'[h].pc = "idle"
        /\ \A g \in TwoFaHandlers : g # h => twoFa'[g] = twoFa[g]
    BY <2>1, TwoFaTurns
  <2>3. h \in Creating /\ Creating' \subseteq Creating \ {h}
    BY <2>1, <2>2 DEF Creating
  <2>4. LiveTokens' \subseteq LiveTokens \cup {Len(tokens) + 1}
    <3>1. tokens \in Seq(TokenStates) /\ "live" \in TokenStates
      BY DEF TwoFaTypeOK, TokenStates
    <3>2. /\ DOMAIN tokens = 1..Len(tokens) /\ DOMAIN tokens' = 1..(Len(tokens) + 1)
          /\ \A u \in 1..Len(tokens) : tokens'[u] = tokens[u]
          /\ Len(tokens) \in Nat
      BY <2>1, <3>1
    <3> QED BY <3>2 DEF LiveTokens
  <2>5. PICK c \in Nat : c = Cardinality(LiveTokens)
    BY <1>2
  <2>6. Cardinality(LiveTokens) <= c
    BY <2>5
  <2>7. /\ IsFiniteSet(LiveTokens') /\ Cardinality(LiveTokens') \in Nat
        /\ Cardinality(LiveTokens') <= c + 1
    BY <1>2, <2>4, <2>6, GrowsByOne
  <2>8. Cardinality(Creating') <= Cardinality(Creating) - 1
    BY <1>1, <2>3, ProperPart
  <2> QED BY <1>1, <1>2, <2>5, <2>7, <2>8 DEF TokensBounded
<1>8. ASSUME NEW h \in TwoFaHandlers,
             EnrolmentStep(h) \/ LoginUser(h) \/ VerifyRecentTwoFa(h) \/ TwoFaFails(h)
      PROVE  TokensBounded'
  <2>1. UNCHANGED tokens
    BY <1>8 DEF EnrolmentStep, LoginUser, VerifyRecentTwoFa, TwoFaFails, SetupTwoFa,
       UpsertSecret, VerifyTwoFaSetup, EnableTwoFa
  <2>2. PICK pc \in {"idle", "upsert", "enable", "delete", "attempts"} : Turn(h, pc, Recent)
    <3>1. Leave(h) => Turn(h, "idle", Recent)
      BY TwoFaLeaves
    <3> QED BY <1>8, <3>1 DEF EnrolmentStep, LoginUser, VerifyRecentTwoFa, TwoFaFails,
           SetupTwoFa, UpsertSecret, VerifyTwoFaSetup, EnableTwoFa, Enter
  <2>3. Creating' \subseteq Creating
    BY <1>4, <2>2
  <2> QED BY <1>3, <1>5, <2>1, <2>3
<1>9. ASSUME NEW h \in TwoFaHandlers, NEW u \in DOMAIN tokens,
             MarkTwoFaTokenUsed(h, u) \/ VerifyTwoFaLogin(h, u) \/ GrantSession(h, u)
      PROVE  TokensBounded'
  <2>1. tokens' = tokens \/ tokens' = [tokens EXCEPT ![u] = "used"]
    BY <1>9 DEF MarkTwoFaTokenUsed, VerifyTwoFaLogin, GrantSession
  <2>2. LiveTokens' \subseteq LiveTokens
    BY <2>1 DEF LiveTokens
  <2>3. PICK pc, j : Turn(h, pc, j) /\ pc # "create"
    <3>1. Turn(h, "idle", Recent) \/ Turn(h, "grant", u) \/ Turn(h, "attempts", u)
      BY <1>9, CheckGoesOn
    <3> QED BY <3>1
  <2>4. Creating' \subseteq Creating
    BY <1>4, <2>3
  <2> QED BY <1>3, <2>2, <2>4
<1>10. ASSUME NEW h \in TwoFaHandlers, NEW k \in Scopes,
              \/ CheckTwoFaAttempts(h, k) \/ VerifyUserTwoFaOtp(h, k) \/ IncrAttempts(h, k)
              \/ ExpireAttempts(h, k) \/ ClearTwoFaAttempts(h, k),
              UNCHANGED tokens
       PROVE  TokensBounded'
  <2>1. PICK pc, j : Turn(h, pc, j) /\ pc # "create"
    <3>1. \/ Turn(h, "idle", Recent) \/ Turn(h, "otp", k) \/ Turn(h, "incr", k)
          \/ Turn(h, "clear", k) \/ Turn(h, "expire", k) \/ Turn(h, "use", k)
      BY <1>10, CheckGoesOn
    <3> QED BY <3>1
  <2>2. Creating' \subseteq Creating
    BY <1>4, <2>1
  <2> QED BY <1>3, <1>5, <1>10, <2>2
<1>11. ASSUME NEW u \in DOMAIN tokens, TokenExpires(u) PROVE TokensBounded'
  <2>1. LiveTokens' \subseteq LiveTokens
    BY <1>11 DEF TokenExpires, LiveTokens
  <2>2. Creating' = Creating
    BY <1>11 DEF TokenExpires, Creating
  <2> QED BY <1>3, <2>1, <2>2
<1>12. ASSUME UNCHANGED <<tokens, twoFa>> PROVE TokensBounded'
  <2>1. Creating' = Creating
    BY <1>12 DEF Creating
  <2> QED BY <1>3, <1>5, <1>12, <2>1
<1>13. (\E k \in Scopes : AttemptsExpire(k)) \/ UNCHANGED twoFaVars => UNCHANGED <<tokens, twoFa>>
  BY DEF AttemptsExpire, twoFaVars
<1> QED BY <1>6, <1>7, <1>8, <1>9, <1>10, <1>11, <1>12, <1>13, TwoFaSteps

(* A counter is left without an expiry only by a request that failed.      *)
LEMMA CountersStay ==
  ASSUME TwoFaTypeOK, CountersBounded, [TwoFaNext]_twoFaVars
  PROVE  CountersBounded'
<1> USE TwoFaAssumption
<1>1. IsFiniteSet(Bare) /\ Cardinality(Bare) <= twoFaFaults /\ twoFaFaults \in Nat
      /\ Recent \in Scopes /\ attempts \in [Scopes -> [count : Nat, expires : BOOLEAN]]
      /\ Scopes' = Scopes
  BY DEF CountersBounded, TwoFaTypeOK, Recent, Scopes
<1>2. ASSUME UNCHANGED twoFaFaults, Bare' \subseteq Bare PROVE CountersBounded'
  BY <1>1, <1>2, Shrinks DEF CountersBounded
<1>3. ASSUME NEW h \in TwoFaHandlers, NEW pc, NEW j, Turn(h, pc, j), NEW k \in Scopes,
             twoFa[h].pc # "expire" \/ twoFa[h].scope # k, k \in Bare',
             attempts[k].count > 0, ~attempts[k].expires
      PROVE  k \in Bare
  <2>1. /\ twoFa'[h] = [pc |-> pc, scope |-> j]
        /\ \A g \in TwoFaHandlers : g # h => twoFa'[g] = twoFa[g]
    BY <1>3, TwoFaTurns
  <2>2. twoFa[h] # [pc |-> "expire", scope |-> k]
    BY <1>3
  <2> QED BY <1>3, <2>1, <2>2 DEF Bare
<1>4. ASSUME NEW h \in TwoFaHandlers, NEW pc, NEW j, Turn(h, pc, j), twoFa[h].pc # "expire",
             UNCHANGED <<attempts, twoFaFaults>>
      PROVE  CountersBounded'
  <2>1. ASSUME NEW k \in Bare' PROVE k \in Bare
    <3>1. k \in Scopes /\ attempts[k].count > 0 /\ ~attempts[k].expires
      BY <1>1, <1>4, <2>1 DEF Bare
    <3> QED BY <1>3, <1>4, <2>1, <3>1
  <2> QED BY <1>2, <1>4, <2>1
<1>5. ASSUME NEW h \in TwoFaHandlers,
             EnrolmentStep(h) \/ LoginUser(h) \/ VerifyRecentTwoFa(h) \/ DeleteTokens(h)
             \/ CreateTwoFaToken(h)
      PROVE  CountersBounded'
  <2>1. PICK pc : Turn(h, pc, Recent)
    BY <1>5, TwoFaGoesOn
  <2>2. UNCHANGED <<attempts, twoFaFaults>>
    BY <1>5 DEF EnrolmentStep, LoginUser, VerifyRecentTwoFa, SetupTwoFa, UpsertSecret,
       VerifyTwoFaSetup, EnableTwoFa, DeleteTokens, CreateTwoFaToken
  <2>3. twoFa[h].pc # "expire"
    BY <1>5 DEF EnrolmentStep, LoginUser, VerifyRecentTwoFa, SetupTwoFa, UpsertSecret,
       VerifyTwoFaSetup, EnableTwoFa, DeleteTokens, CreateTwoFaToken, Enter, Awaits, TwoFaIdle
  <2> QED BY <1>4, <2>1, <2>2, <2>3
<1>6. ASSUME NEW h \in TwoFaHandlers, NEW u \in DOMAIN tokens,
             MarkTwoFaTokenUsed(h, u) \/ VerifyTwoFaLogin(h, u) \/ GrantSession(h, u),
             UNCHANGED <<attempts, twoFaFaults>>
      PROVE  CountersBounded'
  <2>1. PICK pc, j : Turn(h, pc, j)
    <3>1. Turn(h, "idle", Recent) \/ Turn(h, "grant", u) \/ Turn(h, "attempts", u)
      BY <1>6, CheckGoesOn
    <3> QED BY <3>1
  <2>2. twoFa[h].pc # "expire"
    BY <1>6, CheckGoesOn DEF TwoFaIdle
  <2> QED BY <1>4, <1>6, <2>1, <2>2
<1>7. ASSUME NEW h \in TwoFaHandlers, NEW k \in Scopes,
             CheckTwoFaAttempts(h, k) \/ VerifyUserTwoFaOtp(h, k),
             UNCHANGED <<attempts, twoFaFaults>>
      PROVE  CountersBounded'
  <2>1. PICK pc, j : Turn(h, pc, j)
    <3>1. \/ Turn(h, "idle", Recent) \/ Turn(h, "otp", k) \/ Turn(h, "incr", k)
          \/ Turn(h, "clear", k)
      BY <1>7, CheckGoesOn
    <3> QED BY <3>1
  <2>2. twoFa[h].pc # "expire"
    BY <1>7, CheckGoesOn
  <2> QED BY <1>4, <1>7, <2>1, <2>2
<1>8. ASSUME NEW h \in TwoFaHandlers, NEW j \in Scopes, IncrAttempts(h, j), UNCHANGED twoFaFaults
      PROVE  CountersBounded'
  <2>1. PICK e \in BOOLEAN : /\ attempts' = [attempts EXCEPT ![j] =
                                              [count |-> attempts[j].count + 1, expires |-> e]]
                             /\ e = attempts[j].expires
    BY <1>8, CounterChanges
  <2>2. /\ twoFa[h].pc = "incr"
        /\ \/ Turn(h, "expire", j) /\ attempts[j].count = 0
           \/ Turn(h, "idle", Recent) /\ attempts[j].count # 0
    BY <1>8, CheckGoesOn
  <2>3. ASSUME NEW k \in Bare' PROVE k \in Bare
    <3>1. k \in Scopes /\ attempts'[k].count > 0 /\ ~attempts'[k].expires
          /\ twoFa'[h] # [pc |-> "expire", scope |-> k]
      BY <1>1, <2>3 DEF Bare
    <3>2. ~attempts[k].expires
      BY <1>1, <2>1, <3>1
    <3>3. CASE k # j
      <4>1. attempts[k].count > 0
        BY <1>1, <2>1, <3>1, <3>3
      <4> QED BY <1>3, <2>2, <2>3, <3>1, <3>2, <4>1
    <3>4. CASE k = j
      <4>1. ~Turn(h, "expire", j)
        BY <3>1, <3>4, TwoFaTurns
      <4>2. attempts[k].count > 0 /\ Turn(h, "idle", Recent)
        <5>1. attempts[k].count \in Nat
          BY <1>1, <3>1
        <5> QED BY <2>2, <3>4, <4>1, <5>1
      <4> QED BY <1>3, <2>2, <2>3, <3>1, <3>2, <4>2
    <3> QED BY <3>3, <3>4
  <2> QED BY <1>2, <1>8, <2>3
<1>9. ASSUME NEW h \in TwoFaHandlers, NEW j \in Scopes, ExpireAttempts(h, j), UNCHANGED twoFaFaults
      PROVE  CountersBounded'
  <2>1. PICK e \in BOOLEAN : /\ attempts' = [attempts EXCEPT ![j] =
                                              [count |-> attempts[j].count, expires |-> e]]
                             /\ e = (attempts[j].count > 0)
    BY <1>9, CounterChanges
  <2>2. twoFa[h].scope = j /\ Turn(h, "idle", Recent)
    BY <1>9, CheckGoesOn
  <2>3. ASSUME NEW k \in Bare' PROVE k \in Bare
    <3>1. k \in Scopes /\ attempts'[k].count > 0 /\ ~attempts'[k].expires
      BY <1>1, <2>3 DEF Bare
    <3>2. k # j
      <4>1. ASSUME k = j PROVE FALSE
        <5>1. attempts'[k].count = attempts[k].count /\ attempts'[k].expires = e
          BY <1>1, <2>1, <3>1, <4>1
        <5> QED BY <2>1, <3>1, <4>1, <5>1
      <4> QED BY <4>1
    <3>3. attempts[k].count > 0 /\ ~attempts[k].expires
      BY <1>1, <2>1, <3>1, <3>2
    <3> QED BY <1>3, <2>2, <2>3, <3>1, <3>2, <3>3
  <2> QED BY <1>2, <1>9, <2>3
<1>10. ASSUME NEW h \in TwoFaHandlers, NEW j \in Scopes, ClearTwoFaAttempts(h, j),
              UNCHANGED twoFaFaults
       PROVE  CountersBounded'
  <2>1. attempts' = [attempts EXCEPT ![j] = [count |-> 0, expires |-> FALSE]]
    BY <1>10, CounterChanges
  <2>2. twoFa[h].pc = "clear" /\ (Turn(h, "idle", Recent) \/ Turn(h, "use", j))
    BY <1>10, CheckGoesOn
  <2>3. ASSUME NEW k \in Bare' PROVE k \in Bare
    <3>1. k \in Scopes /\ attempts'[k].count > 0 /\ ~attempts'[k].expires
      BY <1>1, <2>3 DEF Bare
    <3>2. attempts[k].count > 0 /\ ~attempts[k].expires
      BY <1>1, <2>1, <3>1
    <3> QED BY <1>3, <2>2, <2>3, <3>1, <3>2
  <2> QED BY <1>2, <1>10, <2>3
<1>11. ASSUME NEW h \in TwoFaHandlers, TwoFaFails(h) PROVE CountersBounded'
  <2>1. /\ twoFaFaults' = twoFaFaults + 1 /\ UNCHANGED attempts /\ Turn(h, "idle", Recent)
    BY <1>11, TwoFaLeaves DEF TwoFaFails
  <2>2. Bare' \subseteq Bare \cup {twoFa[h].scope}
    <3>1. ASSUME NEW k \in Bare', k # twoFa[h].scope PROVE k \in Bare
      <4>1. k \in Scopes /\ attempts[k].count > 0 /\ ~attempts[k].expires
        BY <1>1, <2>1, <3>1 DEF Bare
      <4> QED BY <1>3, <2>1, <3>1, <4>1
    <3> QED BY <3>1
  <2> QED BY <1>1, <2>1, <2>2, GrowsByOne DEF CountersBounded
<1>12. ASSUME NEW j \in Scopes, AttemptsExpire(j) PROVE CountersBounded'
  <2>1. attempts' = [attempts EXCEPT ![j] = NoAttempts] /\ UNCHANGED <<twoFa, twoFaFaults>>
    BY <1>12 DEF AttemptsExpire
  <2>2. Bare' \subseteq Bare
    BY <1>1, <2>1 DEF Bare, NoAttempts
  <2> QED BY <1>2, <2>1, <2>2
<1>13. ASSUME UNCHANGED <<attempts, twoFa, twoFaFaults>> PROVE CountersBounded'
  <2>1. Bare' = Bare
    BY <1>1, <1>13 DEF Bare
  <2> QED BY <1>2, <1>13, <2>1
<1>14. (\E t \in DOMAIN tokens : TokenExpires(t)) \/ UNCHANGED twoFaVars
         => UNCHANGED <<attempts, twoFa, twoFaFaults>>
  BY DEF TokenExpires, twoFaVars
<1> QED BY <1>5, <1>6, <1>7, <1>8, <1>9, <1>10, <1>11, <1>12, <1>13, <1>14, TwoFaSteps

(* An enrolment is half done only by a setup that met a verification.      *)
LEMMA EnrolmentStays ==
  ASSUME TwoFaTypeOK, EnrolmentBounded, [TwoFaNext]_twoFaVars
  PROVE  /\ EnrolmentBounded'
         /\ isTwoFaEnabled /\ twoFaSecret.isVerified =>
               /\ isTwoFaEnabled'
               /\ UNCHANGED twoFaSecret \/ twoFaSecret'.version \in crossed'
<1>1. /\ isTwoFaEnabled \in BOOLEAN
      /\ twoFaSecret \in [version : 0..MaxSecrets, isVerified : BOOLEAN]
  BY DEF TwoFaTypeOK
<1>2. CASE UNCHANGED twoFaVars
  BY <1>2 DEF twoFaVars, twoFaHistory, EnrolmentBounded, VerifiedIsEnabled, EnrolmentOverlaps
<1>3. CASE TwoFaNext
  <2>1. /\ proven \subseteq proven' /\ crossed \subseteq crossed'
        /\ \A h \in TwoFaHandlers :
              /\ twoFa[h].pc # "enable" /\ twoFa'[h].pc = "enable" =>
                    twoFaSecret.version \in proven'
              /\ twoFa'[h].pc = "upsert"
                 /\ (h \in met \/ \E g \in TwoFaHandlers : twoFa'[g].pc = "enable")
                 => h \in met'
              /\ h \in met /\ twoFa'[h].pc # "upsert" /\ twoFaSecret' # twoFaSecret =>
                    twoFaSecret'.version \in crossed'
    BY <1>3 DEF TwoFaNext, Recorded, Awaits
  <2>2. ASSUME UNCHANGED enrolment,
               \A h \in TwoFaHandlers : twoFa'[h].pc = "upsert" =>
                  twoFa[h].pc = "upsert" \/ ~isTwoFaEnabled
        PROVE  /\ EnrolmentBounded'
               /\ isTwoFaEnabled => isTwoFaEnabled' /\ UNCHANGED twoFaSecret
    BY <2>1, <2>2 DEF enrolment, EnrolmentBounded, VerifiedIsEnabled, EnrolmentOverlaps
  <2>3. ASSUME NEW h \in TwoFaHandlers, UpsertSecret(h)
        PROVE  /\ EnrolmentBounded'
               /\ isTwoFaEnabled => isTwoFaEnabled' /\ twoFaSecret'.version \in crossed'
    <3>1. /\ twoFa[h].pc = "upsert" /\ UNCHANGED isTwoFaEnabled
          /\ twoFaSecret' = [version |-> twoFaSecret.version + 1, isVerified |-> FALSE]
          /\ Turn(h, "idle", Recent)
      BY <2>3, TwoFaLeaves DEF UpsertSecret, Awaits
    <3>2. twoFaSecret'.isVerified = FALSE /\ twoFaSecret' # twoFaSecret
      BY <1>1, <3>1
    <3>3. twoFa'[h].pc = "idle" /\ \A g \in TwoFaHandlers : g # h => twoFa'[g] = twoFa[g]
      BY <3>1, TwoFaTurns
    <3>4. isTwoFaEnabled \/ (\E g \in TwoFaHandlers : twoFa[g].pc = "enable") =>
             twoFaSecret'.version \in crossed'
      BY <2>1, <3>1, <3>2, <3>3 DEF EnrolmentBounded
    <3>5. VerifiedIsEnabled' /\ EnrolmentOverlaps'
      BY <3>1, <3>2, <3>4 DEF VerifiedIsEnabled, EnrolmentOverlaps
    <3>6. ASSUME NEW g \in TwoFaHandlers
          PROVE  /\ twoFa'[g].pc = "upsert"
                    /\ (isTwoFaEnabled' \/ \E f \in TwoFaHandlers : twoFa'[f].pc = "enable")
                    => g \in met'
                 /\ twoFa'[g].pc = "enable" => twoFaSecret'.version \in proven' \cup crossed'
      BY <2>1, <3>1, <3>3, <3>4 DEF EnrolmentBounded
    <3> QED BY <3>1, <3>4, <3>5, <3>6 DEF EnrolmentBounded
  <2>4. ASSUME NEW h \in TwoFaHandlers, EnableTwoFa(h)
        PROVE  /\ EnrolmentBounded' /\ isTwoFaEnabled'
               /\ twoFaSecret.isVerified => UNCHANGED twoFaSecret
    <3>1. /\ twoFa[h].pc = "enable" /\ isTwoFaEnabled' = TRUE
          /\ twoFaSecret' = [twoFaSecret EXCEPT !.isVerified = TRUE]
          /\ Turn(h, "idle", Recent)
      BY <2>4, TwoFaLeaves DEF EnableTwoFa, Awaits
    <3>2. /\ twoFaSecret'.isVerified = TRUE /\ twoFaSecret'.version = twoFaSecret.version
          /\ twoFaSecret.isVerified => twoFaSecret' = twoFaSecret
      BY <1>1, <3>1
    <3>3. twoFa'[h].pc = "idle" /\ \A g \in TwoFaHandlers : g # h => twoFa'[g] = twoFa[g]
      BY <3>1, TwoFaTurns
    <3>4. twoFaSecret.version \in proven' \cup crossed'
      BY <2>1, <3>1 DEF EnrolmentBounded
    <3>5. VerifiedIsEnabled' /\ EnrolmentOverlaps'
      BY <3>1, <3>2, <3>4 DEF VerifiedIsEnabled, EnrolmentOverlaps
    <3>6. ASSUME NEW g \in TwoFaHandlers
          PROVE  /\ twoFa'[g].pc = "upsert" => g \in met'
                 /\ twoFa'[g].pc = "enable" => twoFaSecret'.version \in proven' \cup crossed'
      BY <2>1, <3>1, <3>2, <3>3, <3>4 DEF EnrolmentBounded
    <3> QED BY <3>1, <3>2, <3>5, <3>6 DEF EnrolmentBounded
  <2>5. ASSUME NEW h \in TwoFaHandlers, SetupTwoFa(h) \/ VerifyTwoFaSetup(h)
        PROVE  /\ UNCHANGED enrolment
               /\ \A g \in TwoFaHandlers : twoFa'[g].pc = "upsert" =>
                     twoFa[g].pc = "upsert" \/ ~isTwoFaEnabled
    <3>1. UNCHANGED enrolment
      BY <2>5 DEF SetupTwoFa, VerifyTwoFaSetup
    <3>2. \/ Turn(h, "upsert", Recent) /\ ~isTwoFaEnabled
          \/ Turn(h, "enable", Recent)
      BY <2>5 DEF SetupTwoFa, VerifyTwoFaSetup, Enter
    <3>3. PICK pc : Turn(h, pc, Recent) /\ (pc = "enable" \/ ~isTwoFaEnabled)
      BY <3>2
    <3>4. twoFa'[h].pc = pc /\ \A g \in TwoFaHandlers : g # h => twoFa'[g] = twoFa[g]
      <4>1. Turn(h, pc, Recent)
        BY <3>3
      <4> QED BY <4>1, TwoFaTurns
    <3> QED BY <3>1, <3>3, <3>4
  <2>6. ASSUME NEW h \in TwoFaHandlers, NEW pc, NEW k, Turn(h, pc, k), pc # "upsert"
        PROVE  \A g \in TwoFaHandlers : twoFa'[g].pc = "upsert" => twoFa[g].pc = "upsert"
    <3>1. twoFa'[h].pc = pc /\ \A g \in TwoFaHandlers : g # h => twoFa'[g] = twoFa[g]
      BY <2>6, TwoFaTurns
    <3> QED BY <2>6, <3>1
  <2>7. ASSUME NEW h \in TwoFaHandlers,
               LoginUser(h) \/ DeleteTokens(h) \/ CreateTwoFaToken(h) \/ VerifyRecentTwoFa(h)
               \/ TwoFaFails(h)
        PROVE  /\ UNCHANGED enrolment
               /\ \A g \in TwoFaHandlers : twoFa'[g].pc = "upsert" => twoFa[g].pc = "upsert"
    <3>1. UNCHANGED enrolment
      BY <2>7 DEF LoginUser, DeleteTokens, CreateTwoFaToken, VerifyRecentTwoFa, TwoFaFails
    <3>2. Leave(h) => Turn(h, "idle", Recent)
      BY TwoFaLeaves
    <3>3. PICK pc \in {"idle", "delete", "create", "attempts"} : Turn(h, pc, Recent)
      BY <2>7, <3>2 DEF LoginUser, DeleteTokens, CreateTwoFaToken, VerifyRecentTwoFa, TwoFaFails,
         Enter
    <3> QED BY <2>6, <3>1, <3>3
  <2>8. ASSUME NEW h \in TwoFaHandlers, NEW k,
               \/ MarkTwoFaTokenUsed(h, k) \/ VerifyTwoFaLogin(h, k) \/ GrantSession(h, k)
               \/ CheckTwoFaAttempts(h, k) \/ VerifyUserTwoFaOtp(h, k) \/ IncrAttempts(h, k)
               \/ ExpireAttempts(h, k) \/ ClearTwoFaAttempts(h, k)
        PROVE  /\ UNCHANGED enrolment
               /\ \A g \in TwoFaHandlers : twoFa'[g].pc = "upsert" => twoFa[g].pc = "upsert"
    <3>1. UNCHANGED enrolment
      BY <2>8 DEF MarkTwoFaTokenUsed, VerifyTwoFaLogin, GrantSession, CheckTwoFaAttempts,
         VerifyUserTwoFaOtp, IncrAttempts, ExpireAttempts, ClearTwoFaAttempts
    <3>2. \/ Turn(h, "idle", Recent) \/ Turn(h, "otp", k) \/ Turn(h, "incr", k)
          \/ Turn(h, "clear", k) \/ Turn(h, "expire", k) \/ Turn(h, "use", k)
          \/ Turn(h, "grant", k) \/ Turn(h, "attempts", k)
      BY <2>8, CheckGoesOn
    <3> QED BY <2>6, <3>1, <3>2
  <2>9. ASSUME (\E t \in DOMAIN tokens : TokenExpires(t)) \/ (\E k \in Scopes : AttemptsExpire(k))
        PROVE  UNCHANGED <<enrolment, twoFa>>
    BY <2>9 DEF TokenExpires, AttemptsExpire
  <2>10. ASSUME UNCHANGED enrolment,
                \A g \in TwoFaHandlers : twoFa'[g].pc = "upsert" => twoFa[g].pc = "upsert"
         PROVE  /\ EnrolmentBounded'
                /\ isTwoFaEnabled => isTwoFaEnabled' /\ UNCHANGED twoFaSecret
    BY <2>2, <2>10
  <2>11. CASE \E h \in TwoFaHandlers : EnrolmentStep(h)
    BY <2>2, <2>3, <2>4, <2>5, <2>11 DEF EnrolmentStep
  <2>12. CASE \E h \in TwoFaHandlers : CheckStep(h)
    BY <2>8, <2>10, <2>12 DEF CheckStep
  <2>13. CASE \E h \in TwoFaHandlers :
                 \/ LoginUser(h) \/ DeleteTokens(h) \/ CreateTwoFaToken(h)
                 \/ \E t \in DOMAIN tokens : VerifyTwoFaLogin(h, t)
                 \/ VerifyRecentTwoFa(h) \/ TwoFaFails(h)
    BY <2>7, <2>8, <2>10, <2>13
  <2>14. CASE (\E t \in DOMAIN tokens : TokenExpires(t)) \/ (\E k \in Scopes : AttemptsExpire(k))
    BY <2>9, <2>10, <2>14
  <2> QED BY <1>3, <2>11, <2>12, <2>13, <2>14 DEF TwoFaNext, TwoFaStep
<1> QED BY <1>2, <1>3

(* What two-factor authentication keeps at every step: its types, who      *)
(* overlapped in an enrolment that is half done, and for every limit the   *)
(* requests that may still use it up (twofa-service/).                     *)
THEOREM TwoFaInvariant == TwoFaSpec => []TwoFaInv
<1>1. TwoFaInit => TwoFaInv
  <2> SUFFICES ASSUME TwoFaInit PROVE TwoFaInv
    OBVIOUS
  <2> USE TwoFaAssumption
  <2>1. \A h \in TwoFaHandlers : twoFa[h] = TwoFaIdle
    BY DEF TwoFaInit
  <2>2. TwoFaTypeOK /\ EnrolmentBounded
    <3>1. tokens \in Seq(TokenStates) /\ Len(tokens) = 0 /\ 0 <= MaxTwoFaTokens
      BY DEF TwoFaInit
    <3>2. /\ isTwoFaEnabled \in BOOLEAN /\ EnrolmentBounded
          /\ twoFaSecret \in [version : 0..MaxSecrets, isVerified : BOOLEAN]
      <4>1. isTwoFaEnabled = FALSE /\ twoFaSecret = [version |-> 0, isVerified |-> FALSE]
        BY DEF TwoFaInit
      <4>2. twoFaSecret.isVerified = FALSE
        BY <4>1
      <4>3. twoFaSecret \in [version : 0..MaxSecrets, isVerified : BOOLEAN]
        BY <4>1
      <4>4. \A h \in TwoFaHandlers : twoFa[h].pc = "idle"
        BY <2>1 DEF TwoFaIdle
      <4> QED BY <4>1, <4>2, <4>3, <4>4 DEF EnrolmentBounded, VerifiedIsEnabled, EnrolmentOverlaps
    <3>3. /\ attempts \in [Scopes -> [count : Nat, expires : BOOLEAN]]
          /\ granted \in [1..MaxTwoFaTokens -> Nat] /\ twoFaFaults \in 0..MaxTwoFaFaults
      BY DEF TwoFaInit, NoAttempts
    <3>4. twoFa \in [TwoFaHandlers -> [pc : TwoFaPcs, scope : Scopes]]
      BY DEF TwoFaInit, TwoFaIdle, Recent, Scopes, TwoFaPcs
    <3>5. /\ met \subseteq TwoFaHandlers /\ proven \cup crossed \subseteq 0..MaxSecrets
          /\ together \in [Scopes -> Nat] /\ logins \in Nat
      BY DEF TwoFaInit
    <3> QED BY <3>1, <3>2, <3>3, <3>4, <3>5 DEF TwoFaTypeOK, TokenStates, TwoFaPcs
  <2>3. IsFiniteSet({}) /\ Cardinality({}) = 0 /\ logins = 0 /\ \A k \in Scopes : together[k] = 0
    BY FS_EmptySet DEF TwoFaInit
  <2>4. ASSUME NEW k \in Scopes PROVE AttemptsBounded(k) /\ Cardinality(Trying(k)) = 0
    <3>1. Counting(k) = {} /\ attempts[k].count = 0 /\ Trying(k) = {}
      BY <2>1 DEF Counting, Trying, TwoFaIdle, TwoFaInit, NoAttempts
    <3> QED BY <2>3, <3>1 DEF AttemptsBounded
  <2>5. ASSUME NEW t \in 1..MaxTwoFaTokens PROVE GrantsBounded(t)
    <3>1. Granting(t) = {} /\ granted[t] = 0 /\ LiveTokens = {}
          /\ \A h \in TwoFaHandlers : twoFa[h].scope # t
      BY <2>1 DEF Granting, TwoFaIdle, TwoFaInit, LiveTokens, Recent
    <3>2. together[t] = 0
      BY <2>3 DEF Scopes
    <3> QED BY <2>3, <3>1, <3>2 DEF GrantsBounded
  <2>6. /\ LiveTokens = {} /\ Creating = {} /\ Bare = {} /\ LoggingIn = {}
        /\ twoFaFaults = 0
    BY <2>1 DEF LiveTokens, Creating, Bare, LoggingIn, TwoFaIdle, TwoFaInit, NoAttempts
  <2>7. HistoryCounts
    BY <2>3, <2>4, <2>6 DEF HistoryCounts
  <2> QED BY <2>2, <2>3, <2>4, <2>5, <2>6, <2>7 DEF TwoFaInv, TokensBounded, CountersBounded
<1>2. TwoFaInv /\ [TwoFaNext]_twoFaVars => TwoFaInv'
  <2> SUFFICES ASSUME TwoFaInv, [TwoFaNext]_twoFaVars PROVE TwoFaInv'
    OBVIOUS
  <2>1. /\ TwoFaTypeOK' /\ HistoryCounts'
        /\ \A k \in Scopes : together'[k] >= together[k]
        /\ logins' >= logins
    <3>1. TwoFaTypeOK /\ HistoryCounts
      BY DEF TwoFaInv
    <3>2. TwoFaRowsOK'
      BY <3>1, TwoFaTypesStay
    <3> QED BY <3>1, <3>2, HistoryGrows
  <2>2. EnrolmentBounded'
    BY EnrolmentStays DEF TwoFaInv
  <2>3. \A k \in Scopes : AttemptsBounded(k)'
    BY <2>1, AttemptsStay DEF TwoFaInv
  <2>4. \A t \in 1..MaxTwoFaTokens : GrantsBounded(t)'
    <3>1. 1..MaxTwoFaTokens \subseteq Scopes
      BY DEF Scopes
    <3> QED BY <2>1, <3>1, GrantsStay DEF TwoFaInv
  <2>5. TokensBounded' /\ CountersBounded'
    BY <2>1, TokensStay, CountersStay DEF TwoFaInv
  <2> QED BY <2>1, <2>2, <2>3, <2>4, <2>5 DEF TwoFaInv, Scopes, Recent
<1> QED BY <1>1, <1>2, PTL DEF TwoFaSpec

(* An enrolment is half done only if a setup and a verification overlapped, *)
(* and failed codes, sessions per token and live tokens exceed their      *)
(* limits only by requests that were under way together: with one at a time *)
(* a scope has MAX_TWO_FA_ATTEMPTS failures and a token buys one session   *)
(* (twofa-service/).                                                       *)
THEOREM TwoFaIsSound == TwoFaSpec => []TwoFaSound
<1>1. TwoFaInv => TwoFaSound
  <2> SUFFICES ASSUME TwoFaInv PROVE TwoFaSound
    OBVIOUS
  <2>1. /\ logins \in Nat /\ \A k \in Scopes : together[k] \in Nat
        /\ 1..MaxTwoFaTokens \subseteq Scopes
    BY DEF TwoFaInv, TwoFaTypeOK, Scopes
  <2>2. ASSUME NEW S, S \subseteq TwoFaHandlers PROVE Cardinality(S) \in Nat
    BY <2>2, TwoFaAssumption, FS_Subset, FS_CardinalityType
  <2>3. AttemptsLimited
    <3>1. ASSUME NEW k \in Scopes
          PROVE  attempts[k].count < MAX_TWO_FA_ATTEMPTS + together[k]
      <4>1. Cardinality(Counting(k)) \in Nat
        BY <2>2 DEF Counting
      <4>2. attempts[k].count \in Nat /\ AttemptsBounded(k)
        BY DEF TwoFaInv, TwoFaTypeOK
      <4> QED BY <2>1, <4>1, <4>2, TwoFaAssumption DEF AttemptsBounded
    <3> QED BY <3>1 DEF AttemptsLimited
  <2>4. GrantsOverlap
    <3>1. ASSUME NEW t \in DOMAIN tokens PROVE granted[t] <= together[t]
      <4>1. t \in 1..MaxTwoFaTokens
        BY TwoFaAssumption DEF TwoFaInv, TwoFaTypeOK
      <4>2. Cardinality(Granting(t)) \in Nat
        BY <2>2 DEF Granting
      <4>3. granted[t] \in Nat /\ GrantsBounded(t)
        BY <4>1 DEF TwoFaInv, TwoFaTypeOK
      <4>4. together[t] \in Nat
        BY <2>1, <4>1
      <4> QED BY <4>2, <4>3, <4>4 DEF GrantsBounded
    <3> QED BY <3>1 DEF GrantsOverlap
  <2>5. LiveTokensOverlap
    <3>1. Cardinality(Creating) \in Nat
      BY <2>2 DEF Creating
    <3>2. Cardinality(LiveTokens) \in Nat /\ TokensBounded
      BY FS_CardinalityType DEF TwoFaInv, TokensBounded
    <3>3. Cardinality(LiveTokens) <= logins
      BY <2>1, <3>1, <3>2 DEF TokensBounded
    <3> QED BY <3>3 DEF LiveTokensOverlap, LiveTokens
  <2>6. CountersExpire
    BY DEF TwoFaInv, CountersBounded, CountersExpire, Bare
  <2>7. VerifiedIsEnabled /\ EnrolmentOverlaps
    BY DEF TwoFaInv, EnrolmentBounded
  <2> QED BY <2>3, <2>4, <2>5, <2>6, <2>7 DEF TwoFaSound
<1> QED BY <1>1, TwoFaInvariant, PTL

(* The secret of an enrolled user is replaced only by a setup that was     *)
(* under way together with a verification, and nobody is disenrolled       *)
(* (setupTwoFa and verifyTwoFaSetup).                                      *)
THEOREM EnrolmentIsFinal == TwoFaSpec => EnrolmentStands
<1>1. ASSUME TwoFaInv, [TwoFaNext]_twoFaVars, isTwoFaEnabled /\ twoFaSecret.isVerified
      PROVE  /\ isTwoFaEnabled'
             /\ UNCHANGED twoFaSecret \/ twoFaSecret'.version \in crossed'
  BY <1>1, EnrolmentStays DEF TwoFaInv
<1>2. TwoFaInv /\ [TwoFaNext]_twoFaVars =>
         [isTwoFaEnabled /\ twoFaSecret.isVerified =>
             /\ isTwoFaEnabled'
             /\ UNCHANGED twoFaSecret \/ twoFaSecret'.version \in crossed']_twoFaVars
  BY <1>1
<1> QED BY <1>2, TwoFaInvariant, PTL DEF TwoFaSpec, EnrolmentStands
-------------------------------------------------------------------------------
(* Identity checks.                                                        *)

SubmissionStates == {"PENDING"} \cup Decisions

KycRequests(S) ==
    {KycIdle}
    \cup [pc : {"find", "create"}]
    \cup [pc : {"check", "decide"}, s : S, to : Decisions]
    \cup [pc : {"existing", "store", "unlink"}, s : S, type : RequiredFileTypes,
          file : DocumentFiles, old : DocumentFiles \cup {NoFile}]

\* The requests that will decide submission s.
Deciding(s) == {k \in KycHandlers : Pc(k) \in {"check", "decide"} /\ kycRequest[k].s = s}

\* A pending submission was never decided, and every decision was made by a
\* request that had seen it pending.
DecisionsBounded(s) ==
    /\ IsFiniteSet(DecisionsOn(s))
    /\ Cardinality(DecisionsOn(s)) + Cardinality(Deciding(s)) <= Cardinality(KycHandlers)
    /\ submissions[s] = "PENDING" => DecisionsOn(s) = {}

\* Whoever is about to approve has seen every document, and documents stay.
ApprovalsChecked ==
    \A k \in KycHandlers : Pc(k) = "decide" /\ kycRequest[k].to = "APPROVED" =>
       \A t \in RequiredFileTypes : document[kycRequest[k].s][t] # NoFile

Holding == {k \in KycHandlers : Pc(k) \in {"existing", "store"}}
Replacing == {k \in KycHandlers : Pc(k) \in {"store", "unlink"} /\ kycRequest[k].old # NoFile}
Rows == (1..MaxSubmissions) \X RequiredFileTypes
FileOf(x) == document[x[1]][x[2]]
RowOf(k) == <<kycRequest[k].s, kycRequest[k].type>>

\* A file is in one place at most: in the hands of the request that brought
\* it, or in the row this request wrote, and never there again.
FilesSound ==
    /\ \A x \in Rows : FileOf(x) # NoFile => disk[FileOf(x)] = "stored"
    /\ \A x, y \in Rows : FileOf(x) # NoFile /\ FileOf(x) = FileOf(y) => x = y
    /\ \A k \in KycHandlers : k \in Holding =>
          /\ disk[kycRequest[k].file] = "stored"
          /\ \A x \in Rows : FileOf(x) # kycRequest[k].file
          /\ \A j \in KycHandlers :
                /\ j \in Replacing => kycRequest[j].old # kycRequest[k].file
                /\ j \in Holding /\ kycRequest[j].file = kycRequest[k].file => j = k
    /\ \A k \in KycHandlers : k \in Replacing =>
          /\ disk[kycRequest[k].old] # "new"
          /\ \A x \in Rows : x # RowOf(k) \/ Pc(k) = "unlink" => FileOf(x) # kycRequest[k].old

KycInv ==
    /\ KycTypeOK /\ TrailExplainsStatus /\ PendingIsReviewable
    /\ \A s \in Submitted : DecisionsBounded(s)
    /\ ApprovalsChecked /\ ApprovedHasDocuments
    /\ FilesSound

(* What a request knows, by where it is.                                   *)
LEMMA KycShapes ==
  ASSUME KycTypeOK, NEW k \in KycHandlers
  PROVE  /\ Pc(k) \in {"idle", "find", "create", "check", "decide", "existing", "store", "unlink"}
         /\ Pc(k) \in {"check", "decide"} =>
               /\ kycRequest[k].s \in Submitted /\ kycRequest[k].to \in Decisions
               /\ kycRequest[k] = [pc |-> Pc(k), s |-> kycRequest[k].s, to |-> kycRequest[k].to]
         /\ Pc(k) \in {"existing", "store", "unlink"} =>
               /\ kycRequest[k].s \in Submitted /\ kycRequest[k].type \in RequiredFileTypes
               /\ kycRequest[k].file \in DocumentFiles
               /\ kycRequest[k].old \in DocumentFiles \cup {NoFile}
               /\ kycRequest[k] = [pc |-> Pc(k), s |-> kycRequest[k].s,
                                   type |-> kycRequest[k].type, file |-> kycRequest[k].file,
                                   old |-> kycRequest[k].old]
         /\ Pc(k) \in {"find", "create"} => kycRequest[k] = [pc |-> Pc(k)]
         /\ Pc(k) = "idle" => kycRequest[k] = KycIdle
         /\ \A s : WorksOn(k, s) <=>
               Pc(k) \notin {"idle", "find", "create"} /\ kycRequest[k].s = s
<1>1. PICK r : r = kycRequest[k] /\ r.pc = Pc(k)
  BY DEF Pc
<1>2. \A s : WorksOn(k, s) <=> "s" \in DOMAIN r /\ r.s = s
  BY <1>1 DEF WorksOn
<1>3. r \in KycRequests(Submitted)
  BY <1>1 DEF KycTypeOK, KycRequests
<1>4. CASE r = KycIdle
  BY <1>1, <1>2, <1>4 DEF KycIdle
<1>5. CASE r \in [pc : {"find", "create"}]
  BY <1>1, <1>2, <1>5
<1>6. CASE r \in [pc : {"check", "decide"}, s : Submitted, to : Decisions]
  BY <1>1, <1>2, <1>6
<1>7. CASE r \in [pc : {"existing", "store", "unlink"}, s : Submitted, type : RequiredFileTypes,
                  file : DocumentFiles, old : DocumentFiles \cup {NoFile}]
  BY <1>1, <1>2, <1>7
<1> QED BY <1>3, <1>4, <1>5, <1>6, <1>7 DEF KycRequests

(* The kinds of requests.                                                  *)
LEMMA KycRecords ==
  ASSUME NEW S, NEW s \in S
  PROVE  /\ KycIdle \in KycRequests(S)
         /\ \A pc \in {"find", "create"} : [pc |-> pc] \in KycRequests(S)
         /\ \A pc \in {"check", "decide"}, to \in Decisions :
               [pc |-> pc, s |-> s, to |-> to] \in KycRequests(S)
         /\ \A pc \in {"existing", "store", "unlink"}, t \in RequiredFileTypes,
               f \in DocumentFiles, old \in DocumentFiles \cup {NoFile} :
                  [pc |-> pc, s |-> s, type |-> t, file |-> f, old |-> old] \in KycRequests(S)
BY DEF KycRequests

(* A function on an interval is a sequence, and a sequence over a set is    *)
(* one over a larger set.                                                  *)
LEMMA IntervalIsSeq ==
  ASSUME NEW S, NEW n \in Nat, NEW f \in [1..n -> S]
  PROVE  f \in Seq(S) /\ Len(f) = n
OBVIOUS

(* The elements of a sequence are in its set.                              *)
LEMMA SeqElements ==
  ASSUME NEW S, NEW f \in Seq(S)
  PROVE  \A i \in 1..Len(f) : f[i] \in S
OBVIOUS

(* A sequence over a set is one over a larger set.                         *)
LEMMA SeqGrows ==
  ASSUME NEW S, NEW T, S \subseteq T, NEW f \in Seq(S)
  PROVE  f \in Seq(T)
<1>1. Len(f) \in Nat /\ f \in [1..Len(f) -> S]
  OBVIOUS
<1>2. f \in [1..Len(f) -> T]
  BY <1>1
<1> QED BY <1>1, <1>2, IntervalIsSeq

Goes(k, r) == kycRequest' = [kycRequest EXCEPT ![k] = r]

(* A request moves, the others do not.                                     *)
LEMMA KycGoes ==
  ASSUME KycTypeOK, NEW k \in KycHandlers, NEW r, Goes(k, r)
  PROVE  /\ kycRequest'[k] = r
         /\ \A j \in KycHandlers : j # k => kycRequest'[j] = kycRequest[j]
         /\ \A S : Submitted \subseteq S /\ r \in KycRequests(S) =>
               kycRequest' \in [KycHandlers -> KycRequests(S)]
<1>1. kycRequest \in [KycHandlers -> KycRequests(Submitted)]
  BY DEF KycTypeOK, KycRequests
<1>2. \A S : Submitted \subseteq S => KycRequests(Submitted) \subseteq KycRequests(S)
  BY DEF KycRequests
<1> HIDE DEF KycRequests
<1> QED BY <1>1, <1>2 DEF Goes

(* Where every step takes a request.                                       *)
LEMMA KycGoesOn ==
  ASSUME KycTypeOK, NEW k \in KycHandlers, NEW r, r = kycRequest[k]
  PROVE  /\ SubmitKyc(k) => Goes(k, [pc |-> "find"]) /\ Pc(k) = "idle"
         /\ FindPending(k) => /\ Pc(k) = "find"
                              /\ Goes(k, [pc |-> "create"]) \/ Goes(k, KycIdle)
         /\ CreateSubmission(k) => Goes(k, KycIdle) /\ Pc(k) = "create"
         /\ CheckDocuments(k) =>
               /\ Pc(k) = "check"
               /\ \/ Goes(k, KycIdle)
                  \/ /\ Goes(k, [pc |-> "decide", s |-> r.s, to |-> r.to])
                     /\ \A t \in RequiredFileTypes : document[r.s][t] # NoFile
         /\ Decide(k) => Goes(k, KycIdle) /\ Pc(k) = "decide"
         /\ FindDocument(k) =>
               /\ Pc(k) = "existing"
               /\ Goes(k, [pc |-> "store", s |-> r.s, type |-> r.type, file |-> r.file,
                           old |-> document[r.s][r.type]])
         /\ StoreDocument(k) =>
               /\ Pc(k) = "store"
               /\ \/ Goes(k, KycIdle) /\ r.old = NoFile
                  \/ Goes(k, [pc |-> "unlink", s |-> r.s, type |-> r.type, file |-> r.file,
                              old |-> r.old])
         /\ Unlink(k) => Goes(k, KycIdle) /\ Pc(k) = "unlink"
         /\ KycFails(k) => Goes(k, KycIdle)
<1>1. Pc(k) = "idle" <=> kycRequest[k] = KycIdle
  BY DEF KycTypeOK, KycIdle, Pc
<1>2. SubmitKyc(k) => Goes(k, [pc |-> "find"]) /\ Pc(k) = "idle"
  BY <1>1 DEF SubmitKyc, Begin, Goes
<1>3. ASSUME NEW pc, Continue(k, pc) PROVE Goes(k, [r EXCEPT !.pc = pc])
  BY <1>3 DEF Continue, Goes
<1>4. EndKyc(k) => Goes(k, KycIdle)
  BY DEF EndKyc, Goes
<1>5. FindPending(k) => Pc(k) = "find" /\ (Goes(k, [pc |-> "create"]) \/ Goes(k, KycIdle))
  <2> SUFFICES ASSUME FindPending(k), Continue(k, "create") PROVE Goes(k, [pc |-> "create"])
    BY <1>4 DEF FindPending
  <2>1. r = [pc |-> "find"]
    BY KycShapes DEF FindPending
  <2>2. [r EXCEPT !.pc = "create"] = [pc |-> "create"]
    BY <2>1
  <2> QED BY <1>3, <2>2
<1>6. CheckDocuments(k) =>
         /\ Pc(k) = "check"
         /\ \/ Goes(k, KycIdle)
            \/ /\ Goes(k, [pc |-> "decide", s |-> r.s, to |-> r.to])
               /\ \A t \in RequiredFileTypes : document[r.s][t] # NoFile
  <2> SUFFICES ASSUME CheckDocuments(k), Continue(k, "decide")
               PROVE  Goes(k, [pc |-> "decide", s |-> r.s, to |-> r.to])
    BY <1>4 DEF CheckDocuments
  <2>1. r = [pc |-> "check", s |-> r.s, to |-> r.to]
    BY KycShapes DEF CheckDocuments
  <2>2. [r EXCEPT !.pc = "decide"] = [pc |-> "decide", s |-> r.s, to |-> r.to]
    BY <2>1
  <2> QED BY <1>3, <2>2
<1>7. FindDocument(k) =>
         /\ Pc(k) = "existing"
         /\ Goes(k, [pc |-> "store", s |-> r.s, type |-> r.type, file |-> r.file,
                     old |-> document[r.s][r.type]])
  <2> SUFFICES ASSUME FindDocument(k)
               PROVE  Goes(k, [pc |-> "store", s |-> r.s, type |-> r.type, file |-> r.file,
                               old |-> document[r.s][r.type]])
    BY DEF FindDocument
  <2>1. r = [pc |-> "existing", s |-> r.s, type |-> r.type, file |-> r.file, old |-> r.old]
    BY KycShapes DEF FindDocument
  <2>2. PICK o : o = document[r.s][r.type]
    OBVIOUS
  <2>3. [[r EXCEPT !.pc = "store"] EXCEPT !.old = o]
          = [pc |-> "store", s |-> r.s, type |-> r.type, file |-> r.file, old |-> o]
    <3>1. [r EXCEPT !.pc = "store"]
            = [pc |-> "store", s |-> r.s, type |-> r.type, file |-> r.file, old |-> r.old]
      BY <2>1
    <3>2. [[pc |-> "store", s |-> r.s, type |-> r.type, file |-> r.file, old |-> r.old]
             EXCEPT !.old = o]
            = [pc |-> "store", s |-> r.s, type |-> r.type, file |-> r.file, old |-> o]
      OBVIOUS
    <3> QED BY ONLY <3>1, <3>2
  <2>4. kycRequest' = [kycRequest EXCEPT ![k].pc = "store", ![k].old = o]
    BY <2>2 DEF FindDocument
  <2>5. [kycRequest EXCEPT ![k].pc = "store", ![k].old = o]
           = [kycRequest EXCEPT ![k] = [[r EXCEPT !.pc = "store"] EXCEPT !.old = o]]
    BY DEF KycTypeOK
  <2> QED BY ONLY <2>2, <2>3, <2>4, <2>5 DEF Goes
<1>8. StoreDocument(k) =>
         /\ Pc(k) = "store"
         /\ \/ Goes(k, KycIdle) /\ r.old = NoFile
            \/ Goes(k, [pc |-> "unlink", s |-> r.s, type |-> r.type, file |-> r.file,
                        old |-> r.old])
  <2> SUFFICES ASSUME StoreDocument(k), Continue(k, "unlink")
               PROVE  Goes(k, [pc |-> "unlink", s |-> r.s, type |-> r.type, file |-> r.file,
                               old |-> r.old])
    BY <1>4 DEF StoreDocument
  <2>1. r = [pc |-> "store", s |-> r.s, type |-> r.type, file |-> r.file, old |-> r.old]
    BY KycShapes DEF StoreDocument
  <2>2. [r EXCEPT !.pc = "unlink"]
          = [pc |-> "unlink", s |-> r.s, type |-> r.type, file |-> r.file, old |-> r.old]
    BY <2>1
  <2> QED BY <1>3, <2>2
<1>9. /\ CreateSubmission(k) => Goes(k, KycIdle) /\ Pc(k) = "create"
      /\ Decide(k) => Goes(k, KycIdle) /\ Pc(k) = "decide"
      /\ Unlink(k) => Goes(k, KycIdle) /\ Pc(k) = "unlink"
      /\ KycFails(k) => Goes(k, KycIdle)
  BY <1>4 DEF CreateSubmission, Decide, Unlink, KycFails
<1> QED BY <1>2, <1>5, <1>6, <1>7, <1>8, <1>9

(* A review reads a pending submission, and looks for its documents before *)
(* it approves.  An upload brings a new file.                              *)
LEMMA KycBegins ==
  ASSUME KycTypeOK, NEW k \in KycHandlers
  PROVE  /\ \A s \in Submitted, to \in Decisions : Review(k, s, to) =>
               /\ submissions[s] = "PENDING" /\ Pc(k) = "idle"
               /\ \/ Goes(k, [pc |-> "check", s |-> s, to |-> to])
                  \/ Goes(k, [pc |-> "decide", s |-> s, to |-> to]) /\ to # "APPROVED"
         /\ \A t \in RequiredFileTypes, f \in DocumentFiles : Upload(k, t, f) =>
               /\ disk[f] = "new" /\ disk' = [disk EXCEPT ![f] = "stored"]
               /\ \/ UNCHANGED kycRequest
                  \/ /\ Pc(k) = "idle"
                     /\ \E s \in PendingSubmissions :
                           Goes(k, [pc |-> "existing", s |-> s, type |-> t, file |-> f,
                                    old |-> NoFile])
<1>1. Pc(k) = "idle" <=> kycRequest[k] = KycIdle
  BY DEF KycTypeOK, KycIdle, Pc
<1> QED BY <1>1 DEF Review, Upload, Begin, PendingSubmissions, Goes

(* The types of the identity checks are inductive.                         *)
LEMMA KycTypesStay ==
  ASSUME KycTypeOK, [KycNext]_kycVars
  PROVE  KycTypeOK'
<1> USE KycAssumption
<1>1. /\ submissions \in Seq(SubmissionStates) /\ Len(submissions) <= MaxSubmissions
      /\ Submitted = 1..Len(submissions) /\ Len(submissions) \in Nat
      /\ kycStatus \in {"NOT_SUBMITTED"} \cup SubmissionStates
      /\ document \in [1..MaxSubmissions -> [RequiredFileTypes -> DocumentFiles \cup {NoFile}]]
      /\ disk \in [DocumentFiles -> {"new", "stored", "unlinked"}]
      /\ kycAudit \in Seq([s : Submitted, toStatus : SubmissionStates])
      /\ kycRequest \in [KycHandlers -> KycRequests(Submitted)]
      /\ Submitted \subseteq 1..MaxSubmissions
  BY DEF KycTypeOK, SubmissionStates, KycRequests, Submitted
<1>2. ASSUME submissions' \in Seq(SubmissionStates), Len(submissions') <= MaxSubmissions,
             kycStatus' \in {"NOT_SUBMITTED"} \cup SubmissionStates,
             document' \in [1..MaxSubmissions -> [RequiredFileTypes -> DocumentFiles \cup {NoFile}]],
             disk' \in [DocumentFiles -> {"new", "stored", "unlinked"}],
             kycAudit' \in Seq([s : Submitted', toStatus : SubmissionStates]),
             kycRequest' \in [KycHandlers -> KycRequests(Submitted')]
      PROVE  KycTypeOK'
  BY <1>2 DEF KycTypeOK, SubmissionStates, KycRequests, DocumentFiles
<1>3. ASSUME UNCHANGED <<kycStatus, submissions, document, disk, kycAudit>>,
             NEW k \in KycHandlers, NEW r \in KycRequests(Submitted), Goes(k, r)
      PROVE  KycTypeOK'
  <2>1. kycRequest' \in [KycHandlers -> KycRequests(Submitted)] /\ Submitted' = Submitted
    BY <1>3, KycGoes DEF Submitted
  <2> QED BY <1>1, <1>2, <1>3, <2>1
<1>4. KycIdle \in KycRequests(Submitted) /\ \A pc \in {"find", "create"} : [pc |-> pc] \in KycRequests(Submitted)
  BY DEF KycRequests
<1>5. ASSUME NEW k \in KycHandlers, SubmitKyc(k) \/ FindPending(k) \/ KycFails(k)
      PROVE  KycTypeOK'
  <2>1. UNCHANGED <<kycStatus, submissions, document, disk, kycAudit>>
    BY <1>5 DEF SubmitKyc, FindPending, KycFails
  <2>2. Goes(k, [pc |-> "find"]) \/ Goes(k, [pc |-> "create"]) \/ Goes(k, KycIdle)
    BY <1>5, KycGoesOn
  <2> QED BY <1>3, <1>4, <2>1, <2>2
<1>6. ASSUME NEW k \in KycHandlers, NEW s \in Submitted, NEW to \in Decisions, Review(k, s, to)
      PROVE  KycTypeOK'
  <2>1. UNCHANGED <<kycStatus, submissions, document, disk, kycAudit>>
    BY <1>6 DEF Review
  <2>2. PICK pc \in {"check", "decide"} : Goes(k, [pc |-> pc, s |-> s, to |-> to])
    BY <1>6, KycBegins
  <2>3. [pc |-> pc, s |-> s, to |-> to] \in KycRequests(Submitted)
    BY KycRecords
  <2> QED BY <1>3, <2>1, <2>2, <2>3
<1>7. ASSUME NEW k \in KycHandlers, CheckDocuments(k) PROVE KycTypeOK'
  <2>1. UNCHANGED <<kycStatus, submissions, document, disk, kycAudit>>
    BY <1>7 DEF CheckDocuments
  <2>2. PICK r : r = kycRequest[k]
    OBVIOUS
  <2>3. Pc(k) = "check" /\ (Goes(k, KycIdle) \/ Goes(k, [pc |-> "decide", s |-> r.s, to |-> r.to]))
    BY <1>7, <2>2, KycGoesOn
  <2>4. r.s \in Submitted /\ r.to \in Decisions
    BY <2>2, <2>3, KycShapes
  <2>5. [pc |-> "decide", s |-> r.s, to |-> r.to] \in KycRequests(Submitted)
    BY <2>4, KycRecords
  <2> QED BY <1>3, <1>4, <2>1, <2>3, <2>5
<1>8. ASSUME NEW k \in KycHandlers, CreateSubmission(k) PROVE KycTypeOK'
  <2>1. /\ submissions' = Append(submissions, "PENDING") /\ Len(submissions) < MaxSubmissions
        /\ kycStatus' = "PENDING" /\ UNCHANGED <<document, disk>>
        /\ kycAudit' = Append(kycAudit, [s |-> Len(submissions) + 1, toStatus |-> "PENDING"])
        /\ Goes(k, KycIdle)
    BY <1>8, KycGoesOn DEF CreateSubmission, Audit
  <2>2. /\ submissions' \in Seq(SubmissionStates) /\ Len(submissions') = Len(submissions) + 1
        /\ Submitted' = 1..(Len(submissions) + 1)
    <3>1. "PENDING" \in SubmissionStates
      BY DEF SubmissionStates
    <3> QED BY <1>1, <2>1, <3>1 DEF Submitted
  <2>3. kycRequest' \in [KycHandlers -> KycRequests(Submitted')]
    <3>1. Submitted \subseteq Submitted' /\ KycIdle \in KycRequests(Submitted')
      BY <1>1, <2>2 DEF KycRequests
    <3> QED BY <2>1, <3>1, KycGoes
  <2>4. kycAudit' \in Seq([s : Submitted', toStatus : SubmissionStates])
    <3>1. [s |-> Len(submissions) + 1, toStatus |-> "PENDING"]
             \in [s : Submitted', toStatus : SubmissionStates]
      BY <1>1, <2>2 DEF SubmissionStates
    <3>2. [s : Submitted, toStatus : SubmissionStates] \subseteq [s : Submitted', toStatus : SubmissionStates]
      BY <1>1, <2>2
    <3>3. kycAudit \in Seq([s : Submitted', toStatus : SubmissionStates])
      <4>1. PICK A, B : /\ A = [s : Submitted, toStatus : SubmissionStates]
                        /\ B = [s : Submitted', toStatus : SubmissionStates]
        OBVIOUS
      <4>2. A \subseteq B /\ kycAudit \in Seq(A)
        BY <1>1, <3>2, <4>1
      <4>3. kycAudit \in Seq(B)
        BY <4>2, SeqGrows
      <4> QED BY <4>1, <4>3
    <3> QED BY <2>1, <3>1, <3>3
  <2> QED BY <1>1, <1>2, <2>1, <2>2, <2>3, <2>4 DEF SubmissionStates
<1>9. ASSUME NEW k \in KycHandlers, Decide(k) PROVE KycTypeOK'
  <2>1. PICK s, to : s = kycRequest[k].s /\ to = kycRequest[k].to
    OBVIOUS
  <2>2. /\ submissions' = [submissions EXCEPT ![s] = to] /\ kycStatus' = to
        /\ kycAudit' = Append(kycAudit, [s |-> s, toStatus |-> to])
        /\ UNCHANGED <<document, disk>> /\ Goes(k, KycIdle) /\ Pc(k) = "decide"
    BY <1>9, <2>1, KycGoesOn DEF Decide, Audit
  <2>3. s \in Submitted /\ to \in Decisions /\ to \in SubmissionStates
    BY <2>1, <2>2, KycShapes DEF SubmissionStates
  <2>4. /\ submissions' \in Seq(SubmissionStates) /\ Len(submissions') = Len(submissions)
        /\ Submitted' = Submitted
    <3>1. submissions' \in [1..Len(submissions) -> SubmissionStates]
      BY <1>1, <2>2, <2>3
    <3>2. submissions' \in Seq(SubmissionStates) /\ Len(submissions') = Len(submissions)
      BY <1>1, <3>1, IntervalIsSeq
    <3> QED BY <1>1, <3>1, <3>2 DEF Submitted
  <2>5. kycRequest' \in [KycHandlers -> KycRequests(Submitted')]
    BY <1>4, <2>2, <2>4, KycGoes
  <2>6. kycAudit' \in Seq([s : Submitted', toStatus : SubmissionStates])
    <3>1. [s |-> s, toStatus |-> to] \in [s : Submitted, toStatus : SubmissionStates]
      BY <2>3
    <3> QED BY <1>1, <2>2, <2>4, <3>1
  <2> QED BY <1>1, <1>2, <2>2, <2>3, <2>4, <2>5, <2>6
<1>10. ASSUME NEW k \in KycHandlers, NEW t \in RequiredFileTypes, NEW f \in DocumentFiles,
              Upload(k, t, f)
       PROVE  KycTypeOK'
  <2>1. UNCHANGED <<kycStatus, submissions, document, kycAudit>> /\ Submitted' = Submitted
        /\ disk' \in [DocumentFiles -> {"new", "stored", "unlinked"}]
    BY <1>1, <1>10 DEF Upload, Submitted
  <2>2. kycRequest' \in [KycHandlers -> KycRequests(Submitted')]
    <3>1. CASE UNCHANGED kycRequest
      BY <1>1, <2>1, <3>1
    <3>2. ASSUME NEW s \in PendingSubmissions,
                 Goes(k, [pc |-> "existing", s |-> s, type |-> t, file |-> f, old |-> NoFile])
          PROVE  kycRequest' \in [KycHandlers -> KycRequests(Submitted')]
      <4>1. s \in Submitted
        BY DEF PendingSubmissions
      <4>2. [pc |-> "existing", s |-> s, type |-> t, file |-> f, old |-> NoFile]
               \in KycRequests(Submitted)
        BY <4>1, KycRecords
      <4> QED BY <2>1, <3>2, <4>2, KycGoes
    <3> QED BY <1>10, <3>1, <3>2, KycBegins
  <2> QED BY <1>1, <1>2, <2>1, <2>2
<1>11. ASSUME NEW k \in KycHandlers, FindDocument(k) PROVE KycTypeOK'
  <2>1. UNCHANGED <<kycStatus, submissions, document, disk, kycAudit>>
    BY <1>11 DEF FindDocument
  <2>2. PICK r : r = kycRequest[k]
    OBVIOUS
  <2>3. PICK o : o = document[r.s][r.type]
    OBVIOUS
  <2>4. /\ Pc(k) = "existing"
        /\ Goes(k, [pc |-> "store", s |-> r.s, type |-> r.type, file |-> r.file, old |-> o])
    BY <1>11, <2>2, <2>3, KycGoesOn
  <2>5. r.s \in Submitted /\ r.type \in RequiredFileTypes /\ r.file \in DocumentFiles
        /\ o \in DocumentFiles \cup {NoFile}
    <3>1. r.s \in Submitted /\ r.type \in RequiredFileTypes /\ r.file \in DocumentFiles
      BY <2>2, <2>4, KycShapes
    <3> QED BY <1>1, <2>3, <3>1
  <2>6. [pc |-> "store", s |-> r.s, type |-> r.type, file |-> r.file, old |-> o]
           \in KycRequests(Submitted)
    BY <2>5, KycRecords
  <2> QED BY <1>3, <2>1, <2>4, <2>6
<1>12. ASSUME NEW k \in KycHandlers, StoreDocument(k) PROVE KycTypeOK'
  <2>1. PICK r : r = kycRequest[k]
    OBVIOUS
  <2>2. /\ UNCHANGED <<kycStatus, submissions, disk, kycAudit>> /\ Submitted' = Submitted
        /\ document' = [document EXCEPT ![r.s][r.type] = r.file] /\ Pc(k) = "store"
    BY <1>12, <2>1 DEF StoreDocument, Submitted
  <2>3. r.s \in Submitted /\ r.type \in RequiredFileTypes /\ r.file \in DocumentFiles
        /\ r.old \in DocumentFiles \cup {NoFile}
    BY <2>1, <2>2, KycShapes
  <2>4. document' \in [1..MaxSubmissions -> [RequiredFileTypes -> DocumentFiles \cup {NoFile}]]
    BY <1>1, <2>2, <2>3
  <2>5. [pc |-> "unlink", s |-> r.s, type |-> r.type, file |-> r.file, old |-> r.old]
           \in KycRequests(Submitted)
    BY <2>3, KycRecords
  <2>6. \/ Goes(k, KycIdle)
        \/ Goes(k, [pc |-> "unlink", s |-> r.s, type |-> r.type, file |-> r.file, old |-> r.old])
    BY <1>12, <2>1, KycGoesOn
  <2>7. kycRequest' \in [KycHandlers -> KycRequests(Submitted')]
    BY <1>4, <2>2, <2>5, <2>6, KycGoes
  <2> QED BY <1>1, <1>2, <2>2, <2>4, <2>7
<1>13. ASSUME NEW k \in KycHandlers, Unlink(k) PROVE KycTypeOK'
  <2>1. /\ UNCHANGED <<kycStatus, submissions, document, kycAudit>> /\ Submitted' = Submitted
        /\ disk' \in [DocumentFiles -> {"new", "stored", "unlinked"}]
    BY <1>1, <1>13 DEF Unlink, Submitted
  <2>2. kycRequest' \in [KycHandlers -> KycRequests(Submitted')]
    BY <1>4, <1>13, <2>1, KycGoes, KycGoesOn
  <2> QED BY <1>1, <1>2, <2>1, <2>2
<1>14. CASE UNCHANGED kycVars
  BY <1>1, <1>2, <1>14 DEF kycVars, Submitted
<1> QED BY <1>5, <1>6, <1>7, <1>8, <1>9, <1>10, <1>11, <1>12, <1>13, <1>14 DEF KycNext

(* Only an application and a decision change a status, and each of them    *)
(* leaves an audit entry.                                                  *)
LEMMA TrailGrows ==
  ASSUME KycTypeOK, [KycNext]_kycVars
  PROVE  \/ UNCHANGED <<kycStatus, submissions, kycAudit>>
         \/ \E k \in KycHandlers, s \in Nat, to \in SubmissionStates :
               /\ \/ /\ CreateSubmission(k) /\ s = Len(submissions) + 1 /\ to = "PENDING"
                     /\ Submitted' = Submitted \cup {s} /\ s \notin Submitted
                  \/ /\ Decide(k) /\ s = kycRequest[k].s /\ to = kycRequest[k].to
                     /\ to # "PENDING" /\ s \in Submitted /\ Submitted' = Submitted
               /\ kycStatus' = to /\ submissions'[s] = to
               /\ \A r \in Submitted : r # s => submissions'[r] = submissions[r]
               /\ Len(kycAudit) \in Nat /\ DOMAIN kycAudit = 1..Len(kycAudit)
               /\ Len(kycAudit') = Len(kycAudit) + 1 /\ DOMAIN kycAudit' = 1..(Len(kycAudit) + 1)
               /\ kycAudit'[Len(kycAudit) + 1] = [s |-> s, toStatus |-> to]
               /\ \A i \in 1..Len(kycAudit) : kycAudit'[i] = kycAudit[i]
<1>1. /\ submissions \in Seq(SubmissionStates) /\ Submitted = 1..Len(submissions)
      /\ Len(submissions) \in Nat
  BY DEF KycTypeOK, SubmissionStates, Submitted
<1>2. ASSUME NEW e, kycAudit' = Append(kycAudit, e), e \in [s : Nat, toStatus : SubmissionStates]
      PROVE  /\ Len(kycAudit) \in Nat /\ DOMAIN kycAudit = 1..Len(kycAudit)
             /\ Len(kycAudit') = Len(kycAudit) + 1 /\ DOMAIN kycAudit' = 1..(Len(kycAudit) + 1)
             /\ kycAudit'[Len(kycAudit) + 1] = e
             /\ \A i \in 1..Len(kycAudit) : kycAudit'[i] = kycAudit[i]
  <2>1. [s : Submitted, toStatus : SubmissionStates] \subseteq [s : Nat, toStatus : SubmissionStates]
    BY <1>1
  <2>2. PICK A, B : /\ A = [s : Submitted, toStatus : SubmissionStates]
                    /\ B = [s : Nat, toStatus : SubmissionStates]
    OBVIOUS
  <2>3. A \subseteq B /\ kycAudit \in Seq(A) /\ e \in B
    BY <1>2, <2>1, <2>2 DEF KycTypeOK, SubmissionStates
  <2>4. kycAudit \in Seq(B)
    BY <2>3, SeqGrows
  <2> QED BY <1>2, <2>3, <2>4
<1>3. ASSUME NEW k \in KycHandlers, CreateSubmission(k)
      PROVE  \E s \in Nat, to \in SubmissionStates :
               /\ CreateSubmission(k) /\ s = Len(submissions) + 1 /\ to = "PENDING"
               /\ Submitted' = Submitted \cup {s} /\ s \notin Submitted
               /\ kycStatus' = to /\ submissions'[s] = to
               /\ \A r \in Submitted : r # s => submissions'[r] = submissions[r]
               /\ Len(kycAudit) \in Nat /\ DOMAIN kycAudit = 1..Len(kycAudit)
               /\ Len(kycAudit') = Len(kycAudit) + 1 /\ DOMAIN kycAudit' = 1..(Len(kycAudit) + 1)
               /\ kycAudit'[Len(kycAudit) + 1] = [s |-> s, toStatus |-> to]
               /\ \A i \in 1..Len(kycAudit) : kycAudit'[i] = kycAudit[i]
  <2>1. PICK s \in Nat, to \in SubmissionStates : s = Len(submissions) + 1 /\ to = "PENDING"
    BY <1>1 DEF SubmissionStates
  <2>2. /\ submissions' = Append(submissions, to) /\ kycStatus' = to
        /\ kycAudit' = Append(kycAudit, [s |-> s, toStatus |-> to])
    BY <1>3, <2>1 DEF CreateSubmission, Audit
  <2>3. /\ Submitted' = Submitted \cup {s} /\ s \notin Submitted /\ submissions'[s] = to
        /\ \A r \in Submitted : r # s => submissions'[r] = submissions[r]
    BY <1>1, <2>1, <2>2 DEF Submitted
  <2>4. [s |-> s, toStatus |-> to] \in [s : Nat, toStatus : SubmissionStates]
    OBVIOUS
  <2> QED BY <1>2, <1>3, <2>1, <2>2, <2>3, <2>4
<1>4. ASSUME NEW k \in KycHandlers, Decide(k)
      PROVE  \E s \in Nat, to \in SubmissionStates :
               /\ Decide(k) /\ s = kycRequest[k].s /\ to = kycRequest[k].to
               /\ to # "PENDING" /\ s \in Submitted /\ Submitted' = Submitted
               /\ kycStatus' = to /\ submissions'[s] = to
               /\ \A r \in Submitted : r # s => submissions'[r] = submissions[r]
               /\ Len(kycAudit) \in Nat /\ DOMAIN kycAudit = 1..Len(kycAudit)
               /\ Len(kycAudit') = Len(kycAudit) + 1 /\ DOMAIN kycAudit' = 1..(Len(kycAudit) + 1)
               /\ kycAudit'[Len(kycAudit) + 1] = [s |-> s, toStatus |-> to]
               /\ \A i \in 1..Len(kycAudit) : kycAudit'[i] = kycAudit[i]
  <2>1. kycRequest[k].s \in Submitted /\ kycRequest[k].to \in Decisions
    BY <1>4, KycShapes DEF Decide
  <2>2. PICK s \in Nat, to \in SubmissionStates : s = kycRequest[k].s /\ to = kycRequest[k].to
                                                 /\ to # "PENDING" /\ s \in Submitted
    BY <1>1, <2>1 DEF SubmissionStates, Decisions
  <2>3. /\ submissions' = [submissions EXCEPT ![s] = to] /\ kycStatus' = to
        /\ kycAudit' = Append(kycAudit, [s |-> s, toStatus |-> to])
    BY <1>4, <2>2 DEF Decide, Audit
  <2>4. /\ Submitted' = Submitted /\ submissions'[s] = to
        /\ \A r \in Submitted : r # s => submissions'[r] = submissions[r]
    BY <1>1, <2>2, <2>3 DEF Submitted
  <2>5. [s |-> s, toStatus |-> to] \in [s : Nat, toStatus : SubmissionStates]
    OBVIOUS
  <2> QED BY <1>2, <1>4, <2>2, <2>3, <2>4, <2>5
<1>5. ASSUME NEW k \in KycHandlers,
             \/ SubmitKyc(k) \/ FindPending(k) \/ CheckDocuments(k) \/ FindDocument(k)
             \/ StoreDocument(k) \/ Unlink(k) \/ KycFails(k)
             \/ \E s \in Submitted, to \in Decisions : Review(k, s, to)
             \/ \E t \in RequiredFileTypes, f \in DocumentFiles : Upload(k, t, f)
      PROVE  UNCHANGED <<kycStatus, submissions, kycAudit>>
  BY <1>5 DEF SubmitKyc, FindPending, CheckDocuments, FindDocument, StoreDocument, Unlink,
     KycFails, Review, Upload
<1>6. CASE UNCHANGED kycVars
  BY <1>6 DEF kycVars
<1>7. CASE \E k \in KycHandlers : CreateSubmission(k)
  <2>1. PICK k \in KycHandlers : CreateSubmission(k)
    BY <1>7
  <2> QED BY <1>3, <2>1
<1>8. CASE \E k \in KycHandlers : Decide(k)
  <2>1. PICK k \in KycHandlers : Decide(k)
    BY <1>8
  <2> QED BY <1>4, <2>1
<1> QED BY <1>5, <1>6, <1>7, <1>8 DEF KycNext

(* The trail explains the status, and a pending user has an application.   *)
LEMMA TrailStays ==
  ASSUME KycTypeOK, TrailExplainsStatus, PendingIsReviewable, [KycNext]_kycVars
  PROVE  TrailExplainsStatus' /\ PendingIsReviewable'
<1>1. CASE UNCHANGED <<kycStatus, submissions, kycAudit>>
  BY <1>1 DEF TrailExplainsStatus, PendingIsReviewable, PendingSubmissions, IsLastOn,
     LastStatus, Submitted
<1>2. ASSUME NEW s \in Nat, NEW to \in SubmissionStates,
             Submitted' = Submitted \cup {s},
             kycStatus' = to, submissions'[s] = to,
             \A r \in Submitted : r # s => submissions'[r] = submissions[r],
             Len(kycAudit) \in Nat, DOMAIN kycAudit = 1..Len(kycAudit),
             Len(kycAudit') = Len(kycAudit) + 1, DOMAIN kycAudit' = 1..(Len(kycAudit) + 1),
             kycAudit'[Len(kycAudit) + 1] = [s |-> s, toStatus |-> to],
             \A i \in 1..Len(kycAudit) : kycAudit'[i] = kycAudit[i]
      PROVE  TrailExplainsStatus' /\ PendingIsReviewable'
  <2>1. kycStatus' = LastStatus(kycAudit')
    BY <1>2 DEF LastStatus
  <2>2. ASSUME NEW r \in Submitted'
        PROVE  \E i \in DOMAIN kycAudit' : IsLastOn(r, i)' /\ submissions'[r] = kycAudit'[i].toStatus
    <3>1. CASE r = s
      <4>1. PICK n \in Nat : n = Len(kycAudit) + 1
        BY <1>2
      <4>2. n \in DOMAIN kycAudit' /\ kycAudit'[n] = [s |-> s, toStatus |-> to]
            /\ (n + 1)..Len(kycAudit') = {}
        BY <1>2, <4>1
      <4>3. IsLastOn(s, n)'
        BY <4>2 DEF IsLastOn
      <4> QED BY <1>2, <3>1, <4>2, <4>3
    <3>2. CASE r # s
      <4>1. PICK i \in DOMAIN kycAudit : IsLastOn(r, i) /\ submissions[r] = kycAudit[i].toStatus
        BY <1>2, <3>2 DEF TrailExplainsStatus
      <4>2. IsLastOn(r, i)' /\ i \in DOMAIN kycAudit'
        BY <1>2, <3>2, <4>1 DEF IsLastOn
      <4>3. submissions'[r] = kycAudit'[i].toStatus
        BY <1>2, <3>2, <4>1
      <4> QED BY <4>2, <4>3
    <3> QED BY <3>1, <3>2
  <2>3. PendingIsReviewable'
    BY <1>2 DEF PendingIsReviewable, PendingSubmissions
  <2> QED BY <2>1, <2>2, <2>3 DEF TrailExplainsStatus
<1>3. CASE ~ UNCHANGED <<kycStatus, submissions, kycAudit>>
  <2>1. PICK k \in KycHandlers, s \in Nat, to \in SubmissionStates :
           /\ Submitted' = Submitted \cup {s}
           /\ kycStatus' = to /\ submissions'[s] = to
           /\ \A r \in Submitted : r # s => submissions'[r] = submissions[r]
           /\ Len(kycAudit) \in Nat /\ DOMAIN kycAudit = 1..Len(kycAudit)
           /\ Len(kycAudit') = Len(kycAudit) + 1 /\ DOMAIN kycAudit' = 1..(Len(kycAudit) + 1)
           /\ kycAudit'[Len(kycAudit) + 1] = [s |-> s, toStatus |-> to]
           /\ \A i \in 1..Len(kycAudit) : kycAudit'[i] = kycAudit[i]
    BY <1>3, TrailGrows
  <2> QED BY <1>2, <2>1
<1> QED BY <1>1, <1>3

(* Where the requests that decide s come from, and where they go.          *)
LEMMA DecidersMove ==
  ASSUME KycTypeOK, [KycNext]_kycVars, NEW s
  PROVE  \/ Deciding(s)' \subseteq Deciding(s)
         \/ submissions[s] = "PENDING" /\ s \in Submitted /\ UNCHANGED <<submissions, kycAudit>>
<1>1. ASSUME NEW k \in KycHandlers, NEW r, Goes(k, r),
             r.pc \notin {"check", "decide"} \/ r.s # s \/ k \in Deciding(s)
      PROVE  Deciding(s)' \subseteq Deciding(s)
  <2>1. kycRequest'[k] = r /\ \A j \in KycHandlers : j # k => kycRequest'[j] = kycRequest[j]
    BY <1>1, KycGoes
  <2> QED BY <1>1, <2>1 DEF Deciding, Pc
<1>2. UNCHANGED kycRequest => Deciding(s)' = Deciding(s)
  BY DEF Deciding, Pc
<1>3. KycIdle.pc = "idle"
  BY DEF KycIdle
<1>4. ASSUME NEW k \in KycHandlers,
             \/ SubmitKyc(k) \/ FindPending(k) \/ CreateSubmission(k) \/ Decide(k)
             \/ FindDocument(k) \/ StoreDocument(k) \/ Unlink(k) \/ KycFails(k)
      PROVE  Deciding(s)' \subseteq Deciding(s)
  <2>1. PICK q : q = kycRequest[k]
    OBVIOUS
  <2>2. PICK o : o = document[q.s][q.type]
    OBVIOUS
  <2>3. \/ Goes(k, [pc |-> "find"]) \/ Goes(k, [pc |-> "create"]) \/ Goes(k, KycIdle)
        \/ Goes(k, [pc |-> "store", s |-> q.s, type |-> q.type, file |-> q.file, old |-> o])
        \/ Goes(k, [pc |-> "unlink", s |-> q.s, type |-> q.type, file |-> q.file,
                    old |-> q.old])
    BY <1>4, <2>1, <2>2, KycGoesOn
  <2>4. PICK r : Goes(k, r) /\ r.pc \notin {"check", "decide"}
    BY <1>3, <2>3
  <2> QED BY <1>1, <2>4
<1>5. ASSUME NEW k \in KycHandlers, CheckDocuments(k) PROVE Deciding(s)' \subseteq Deciding(s)
  <2>1. PICK q : q = kycRequest[k]
    OBVIOUS
  <2>2. Pc(k) = "check" /\ (Goes(k, KycIdle) \/ Goes(k, [pc |-> "decide", s |-> q.s, to |-> q.to]))
    BY <1>5, <2>1, KycGoesOn
  <2>3. q.s = s => k \in Deciding(s)
    BY <2>1, <2>2 DEF Deciding
  <2> QED BY <1>1, <1>3, <2>2, <2>3
<1>6. ASSUME NEW k \in KycHandlers, NEW u \in Submitted, NEW to \in Decisions, Review(k, u, to)
      PROVE  \/ Deciding(s)' \subseteq Deciding(s)
             \/ submissions[s] = "PENDING" /\ s \in Submitted /\ UNCHANGED <<submissions, kycAudit>>
  <2>1. submissions[u] = "PENDING" /\ UNCHANGED <<submissions, kycAudit>>
    BY <1>6 DEF Review, PendingSubmissions
  <2>2. PICK pc \in {"check", "decide"} : Goes(k, [pc |-> pc, s |-> u, to |-> to])
    BY <1>6, KycBegins
  <2>3. CASE u # s
    BY <1>1, <2>2, <2>3
  <2> QED BY <2>1, <2>3
<1>7. ASSUME NEW k \in KycHandlers, NEW t \in RequiredFileTypes, NEW f \in DocumentFiles,
             Upload(k, t, f)
      PROVE  Deciding(s)' \subseteq Deciding(s)
  <2>1. ASSUME NEW u, Goes(k, [pc |-> "existing", s |-> u, type |-> t, file |-> f, old |-> NoFile])
        PROVE  Deciding(s)' \subseteq Deciding(s)
    BY <1>1, <2>1
  <2> QED BY <1>2, <1>7, <2>1, KycBegins
<1>8. CASE UNCHANGED kycVars
  BY <1>2, <1>8 DEF kycVars
<1> QED BY <1>4, <1>5, <1>6, <1>7, <1>8 DEF KycNext

(* A submission is decided at most once per request at once.               *)
LEMMA DecisionsStay ==
  ASSUME KycTypeOK, \A s \in Submitted : DecisionsBounded(s), [KycNext]_kycVars,
         NEW s \in Submitted'
  PROVE  DecisionsBounded(s)'
<1>1. /\ \A u : IsFiniteSet(Deciding(u)) /\ Cardinality(Deciding(u)) \in Nat
      /\ IsFiniteSet(Deciding(s)') /\ Cardinality(Deciding(s)') \in Nat
      /\ Cardinality(Deciding(s)') <= Cardinality(KycHandlers)
      /\ Cardinality(KycHandlers) \in Nat
  <2>1. (\A u : Deciding(u) \subseteq KycHandlers) /\ Deciding(s)' \subseteq KycHandlers
    BY DEF Deciding
  <2> QED BY <2>1, KycAssumption, FS_Subset, FS_CardinalityType
<1>2. IsFiniteSet({}) /\ Cardinality({}) = 0
  BY FS_EmptySet
<1>3. CASE UNCHANGED <<kycStatus, submissions, kycAudit>>
  <2>1. DecisionsOn(s)' = DecisionsOn(s) /\ s \in Submitted
    BY <1>3 DEF DecisionsOn, Submitted
  <2>2. DecisionsBounded(s)
    BY <2>1
  <2>3. CASE Deciding(s)' \subseteq Deciding(s)
    <3>1. Cardinality(DecisionsOn(s)) + Cardinality(Deciding(s)') <= Cardinality(KycHandlers)
      BY <1>1, <2>2, <2>3, BothShrink DEF DecisionsBounded
    <3> QED BY <1>3, <2>1, <2>2, <3>1 DEF DecisionsBounded
  <2>4. CASE submissions[s] = "PENDING"
    BY <1>1, <1>2, <1>3, <2>1, <2>2, <2>4 DEF DecisionsBounded
  <2> QED BY <2>3, <2>4, DecidersMove
<1>4. ASSUME NEW k \in KycHandlers, NEW u \in Nat, NEW to \in SubmissionStates,
             CreateSubmission(k), u \notin Submitted, to = "PENDING",
             Submitted' = Submitted \cup {u}, submissions'[u] = to,
             \A r \in Submitted : r # u => submissions'[r] = submissions[r],
             Len(kycAudit) \in Nat, DOMAIN kycAudit = 1..Len(kycAudit),
             DOMAIN kycAudit' = 1..(Len(kycAudit) + 1),
             kycAudit'[Len(kycAudit) + 1] = [s |-> u, toStatus |-> to],
             \A i \in 1..Len(kycAudit) : kycAudit'[i] = kycAudit[i]
      PROVE  DecisionsBounded(s)'
  <2>1. DecisionsOn(s)' = DecisionsOn(s)
    BY <1>4 DEF DecisionsOn
  <2>2. Deciding(s)' \subseteq Deciding(s)
    <3>1. Goes(k, KycIdle)
      BY <1>4, KycGoesOn
    <3>2. kycRequest'[k] = KycIdle /\ \A j \in KycHandlers : j # k => kycRequest'[j] = kycRequest[j]
      BY <3>1, KycGoes
    <3> QED BY <3>2 DEF Deciding, Pc, KycIdle
  <2>3. CASE s = u
    <3>1. DecisionsOn(s) = {}
      <4>1. \A i \in 1..Len(kycAudit) : kycAudit[i].s \in Submitted
        <5>1. kycAudit \in Seq([s : Submitted, toStatus : SubmissionStates])
          BY DEF KycTypeOK, SubmissionStates
        <5>2. \A i \in 1..Len(kycAudit) :
                 kycAudit[i] \in [s : Submitted, toStatus : SubmissionStates]
          <6>1. PICK A : A = [s : Submitted, toStatus : SubmissionStates]
            OBVIOUS
          <6>2. \A i \in 1..Len(kycAudit) : kycAudit[i] \in A
            BY <5>1, <6>1, SeqElements
          <6> QED BY <6>1, <6>2
        <5> QED BY <5>2
      <4> QED BY <1>4, <2>3, <4>1 DEF DecisionsOn
    <3> QED BY <1>1, <1>2, <2>1, <3>1 DEF DecisionsBounded
  <2>4. CASE s # u
    <3>1. s \in Submitted
      BY <1>4, <2>4
    <3>2. DecisionsBounded(s)
      BY <3>1
    <3>3. Cardinality(DecisionsOn(s)) + Cardinality(Deciding(s)') <= Cardinality(KycHandlers)
      BY <1>1, <2>2, <3>2, BothShrink DEF DecisionsBounded
    <3> QED BY <1>4, <2>1, <2>4, <3>1, <3>2, <3>3 DEF DecisionsBounded
  <2> QED BY <2>3, <2>4
<1>5. ASSUME NEW k \in KycHandlers, NEW u \in Nat, NEW to \in SubmissionStates,
             Decide(k), u = kycRequest[k].s, to # "PENDING", u \in Submitted,
             Submitted' = Submitted, submissions'[u] = to,
             \A r \in Submitted : r # u => submissions'[r] = submissions[r],
             Len(kycAudit) \in Nat, DOMAIN kycAudit = 1..Len(kycAudit),
             DOMAIN kycAudit' = 1..(Len(kycAudit) + 1),
             kycAudit'[Len(kycAudit) + 1] = [s |-> u, toStatus |-> to],
             \A i \in 1..Len(kycAudit) : kycAudit'[i] = kycAudit[i]
      PROVE  DecisionsBounded(s)'
  <2>1. DecisionsBounded(s) /\ s \in Submitted
    BY <1>5
  <2>2. kycRequest'[k] = KycIdle /\ \A j \in KycHandlers : j # k => kycRequest'[j] = kycRequest[j]
    <3>1. Goes(k, KycIdle)
      BY <1>5, KycGoesOn
    <3> QED BY <3>1, KycGoes
  <2>3. CASE s # u
    <3>1. DecisionsOn(s)' = DecisionsOn(s) /\ Deciding(s)' \subseteq Deciding(s)
      BY <1>5, <2>2, <2>3 DEF DecisionsOn, Deciding, Pc, KycIdle
    <3>2. Cardinality(DecisionsOn(s)) + Cardinality(Deciding(s)') <= Cardinality(KycHandlers)
      BY <1>1, <2>1, <3>1, BothShrink DEF DecisionsBounded
    <3> QED BY <1>5, <2>1, <2>3, <3>1, <3>2 DEF DecisionsBounded
  <2>4. CASE s = u
    <3>1. DecisionsOn(s)' \subseteq DecisionsOn(s) \cup {Len(kycAudit) + 1}
      BY <1>5 DEF DecisionsOn
    <3>2. k \in Deciding(s) /\ Deciding(s)' \subseteq Deciding(s) \ {k}
      BY <1>5, <2>2, <2>4 DEF Deciding, Pc, KycIdle, Decide
    <3>3. PICK n \in Nat : n = Cardinality(DecisionsOn(s))
      BY <2>1, FS_CardinalityType DEF DecisionsBounded
    <3>4. IsFiniteSet(DecisionsOn(s)) /\ Cardinality(DecisionsOn(s)) <= n
      BY <2>1, <3>3 DEF DecisionsBounded
    <3>5. IsFiniteSet(DecisionsOn(s)') /\ Cardinality(DecisionsOn(s)') \in Nat
          /\ Cardinality(DecisionsOn(s)') <= n + 1
      BY <3>1, <3>4, GrowsByOne
    <3>6. Cardinality(Deciding(s)') <= Cardinality(Deciding(s)) - 1
      BY <1>1, <3>2, ProperPart
    <3>7. Cardinality(DecisionsOn(s)') + Cardinality(Deciding(s)') <= Cardinality(KycHandlers)
      <4>1. Cardinality(DecisionsOn(s)) + Cardinality(Deciding(s)) <= Cardinality(KycHandlers)
        BY <2>1 DEF DecisionsBounded
      <4>2. Cardinality(Deciding(s)) \in Nat
        BY <1>1
      <4> QED BY <1>1, <3>3, <3>5, <3>6, <4>1, <4>2
    <3> QED BY <1>5, <2>4, <3>5, <3>7 DEF DecisionsBounded
  <2> QED BY <2>3, <2>4
<1> QED BY <1>3, <1>4, <1>5, TrailGrows

(* Documents are replaced, never removed.                                  *)
LEMMA DocumentsStay ==
  ASSUME KycTypeOK, [KycNext]_kycVars
  PROVE  \A s \in Submitted, t \in RequiredFileTypes :
            document[s][t] # NoFile => document'[s][t] # NoFile
<1>1. document \in [1..MaxSubmissions -> [RequiredFileTypes -> DocumentFiles \cup {NoFile}]]
      /\ Submitted \subseteq 1..MaxSubmissions
  BY KycAssumption DEF KycTypeOK, Submitted
<1>2. ASSUME NEW k \in KycHandlers, StoreDocument(k)
      PROVE  \A s \in Submitted, t \in RequiredFileTypes :
                document[s][t] # NoFile => document'[s][t] # NoFile
  <2>1. PICK r : r = kycRequest[k]
    OBVIOUS
  <2>2. document' = [document EXCEPT ![r.s][r.type] = r.file] /\ Pc(k) = "store"
    BY <1>2, <2>1 DEF StoreDocument
  <2>3. r.s \in Submitted /\ r.type \in RequiredFileTypes /\ r.file \in DocumentFiles
    BY <2>1, <2>2, KycShapes
  <2>4. NoFile \notin DocumentFiles
    BY KycAssumption DEF NoFile, DocumentFiles
  <2> QED BY <1>1, <2>2, <2>3, <2>4
<1>3. ASSUME NEW k \in KycHandlers,
             \/ SubmitKyc(k) \/ FindPending(k) \/ CheckDocuments(k) \/ FindDocument(k)
             \/ CreateSubmission(k) \/ Decide(k) \/ Unlink(k) \/ KycFails(k)
             \/ \E s \in Submitted, to \in Decisions : Review(k, s, to)
             \/ \E t \in RequiredFileTypes, f \in DocumentFiles : Upload(k, t, f)
      PROVE  UNCHANGED document
  BY <1>3 DEF SubmitKyc, FindPending, CheckDocuments, FindDocument, CreateSubmission, Decide,
     Unlink, KycFails, Review, Upload
<1>4. CASE UNCHANGED kycVars
  BY <1>4 DEF kycVars
<1> QED BY <1>2, <1>3, <1>4 DEF KycNext

(* Who is about to approve has seen the documents.                         *)
LEMMA ApprovalsStay ==
  ASSUME KycTypeOK, ApprovalsChecked, [KycNext]_kycVars
  PROVE  ApprovalsChecked'
<1>1. ASSUME NEW k \in KycHandlers, NEW r, Goes(k, r),
             r.pc = "decide" /\ r.to = "APPROVED" =>
                /\ r.s \in Submitted
                /\ \A t \in RequiredFileTypes : document[r.s][t] # NoFile
      PROVE  ApprovalsChecked'
  <2>1. kycRequest'[k] = r /\ \A j \in KycHandlers : j # k => kycRequest'[j] = kycRequest[j]
    BY <1>1, KycGoes
  <2> SUFFICES ASSUME NEW j \in KycHandlers, kycRequest'[j].pc = "decide",
                      kycRequest'[j].to = "APPROVED", NEW t \in RequiredFileTypes
               PROVE  document'[kycRequest'[j].s][t] # NoFile
    BY DEF ApprovalsChecked, Pc
  <2>2. PICK q : q = kycRequest'[j]
    OBVIOUS
  <2>3. q.s \in Submitted /\ document[q.s][t] # NoFile
    <3>1. CASE j = k
      BY <1>1, <2>1, <2>2, <3>1
    <3>2. CASE j # k
      <4>1. q = kycRequest[j]
        BY <2>1, <2>2, <3>2
      <4>2. Pc(j) = "decide" /\ kycRequest[j].to = "APPROVED"
        BY <2>2, <4>1 DEF Pc
      <4>3. kycRequest[j].s \in Submitted
        BY <4>2, KycShapes
      <4>4. document[kycRequest[j].s][t] # NoFile
        BY <4>2 DEF ApprovalsChecked
      <4> QED BY <4>1, <4>3, <4>4
    <3> QED BY <3>1, <3>2
  <2> QED BY <2>2, <2>3, DocumentsStay
<1>2. ASSUME UNCHANGED kycRequest PROVE ApprovalsChecked'
  <2> SUFFICES ASSUME NEW j \in KycHandlers, Pc(j) = "decide",
                      kycRequest[j].to = "APPROVED", NEW t \in RequiredFileTypes
               PROVE  document'[kycRequest[j].s][t] # NoFile
    BY <1>2 DEF ApprovalsChecked, Pc
  <2> QED BY KycShapes, DocumentsStay DEF ApprovalsChecked
<1>3. KycIdle.pc = "idle"
  BY DEF KycIdle
<1>4. ASSUME NEW k \in KycHandlers,
             \/ SubmitKyc(k) \/ FindPending(k) \/ CreateSubmission(k) \/ Decide(k)
             \/ FindDocument(k) \/ StoreDocument(k) \/ Unlink(k) \/ KycFails(k)
      PROVE  ApprovalsChecked'
  <2>1. PICK q : q = kycRequest[k]
    OBVIOUS
  <2>2. PICK o : o = document[q.s][q.type]
    OBVIOUS
  <2>3. \/ Goes(k, [pc |-> "find"]) \/ Goes(k, [pc |-> "create"]) \/ Goes(k, KycIdle)
        \/ Goes(k, [pc |-> "store", s |-> q.s, type |-> q.type, file |-> q.file, old |-> o])
        \/ Goes(k, [pc |-> "unlink", s |-> q.s, type |-> q.type, file |-> q.file,
                    old |-> q.old])
    BY <1>4, <2>1, <2>2, KycGoesOn
  <2>4. PICK r : Goes(k, r) /\ r.pc # "decide"
    BY <1>3, <2>3
  <2> QED BY <1>1, <2>4
<1>5. ASSUME NEW k \in KycHandlers, CheckDocuments(k) PROVE ApprovalsChecked'
  <2>1. PICK q : q = kycRequest[k]
    OBVIOUS
  <2>2. /\ Pc(k) = "check"
        /\ \/ Goes(k, KycIdle)
           \/ /\ Goes(k, [pc |-> "decide", s |-> q.s, to |-> q.to])
              /\ \A t \in RequiredFileTypes : document[q.s][t] # NoFile
    BY <1>5, <2>1, KycGoesOn
  <2>3. q.s \in Submitted
    BY <2>1, <2>2, KycShapes
  <2> QED BY <1>1, <1>3, <2>2, <2>3
<1>6. ASSUME NEW k \in KycHandlers, NEW u \in Submitted, NEW to \in Decisions, Review(k, u, to)
      PROVE  ApprovalsChecked'
  <2>1. \/ Goes(k, [pc |-> "check", s |-> u, to |-> to])
        \/ Goes(k, [pc |-> "decide", s |-> u, to |-> to]) /\ to # "APPROVED"
    BY <1>6, KycBegins
  <2> QED BY <1>1, <2>1
<1>7. ASSUME NEW k \in KycHandlers, NEW t \in RequiredFileTypes, NEW f \in DocumentFiles,
             Upload(k, t, f)
      PROVE  ApprovalsChecked'
  <2>1. ASSUME NEW u, Goes(k, [pc |-> "existing", s |-> u, type |-> t, file |-> f, old |-> NoFile])
        PROVE  ApprovalsChecked'
    BY <1>1, <2>1
  <2> QED BY <1>2, <1>7, <2>1, KycBegins
<1>8. CASE UNCHANGED kycVars
  BY <1>2, <1>8 DEF kycVars
<1> QED BY <1>4, <1>5, <1>6, <1>7, <1>8 DEF KycNext

(* What was approved has its documents.                                    *)
LEMMA ApprovedStay ==
  ASSUME KycTypeOK, ApprovalsChecked, ApprovedHasDocuments, [KycNext]_kycVars
  PROVE  ApprovedHasDocuments'
<1> SUFFICES ASSUME NEW s \in Submitted', submissions'[s] = "APPROVED", NEW t \in RequiredFileTypes
             PROVE  document'[s][t] # NoFile
  BY DEF ApprovedHasDocuments
<1>1. s \in Submitted /\ (submissions[s] = "APPROVED" \/ document[s][t] # NoFile)
  <2>1. CASE UNCHANGED <<kycStatus, submissions, kycAudit>>
    BY <2>1 DEF Submitted
  <2>2. ASSUME NEW k \in KycHandlers, NEW u \in Nat, NEW to \in SubmissionStates,
               CreateSubmission(k), to = "PENDING", Submitted' = Submitted \cup {u},
               submissions'[u] = to,
               \A r \in Submitted : r # u => submissions'[r] = submissions[r]
        PROVE  s \in Submitted /\ submissions[s] = "APPROVED"
    BY <2>2
  <2>3. ASSUME NEW k \in KycHandlers, NEW u \in Nat, NEW to \in SubmissionStates,
               Decide(k), u = kycRequest[k].s, to = kycRequest[k].to, Submitted' = Submitted,
               submissions'[u] = to,
               \A r \in Submitted : r # u => submissions'[r] = submissions[r]
        PROVE  s \in Submitted /\ (submissions[s] = "APPROVED" \/ document[s][t] # NoFile)
    BY <2>3 DEF Decide, ApprovalsChecked
  <2> QED BY <2>1, <2>2, <2>3, TrailGrows
<1> QED BY <1>1, DocumentsStay DEF ApprovedHasDocuments

(* Files stay sound while requests only let go of them and the disk keeps   *)
(* what is in use.                                                         *)
LEMMA FilesFollow ==
  ASSUME FilesSound,
         \A j \in KycHandlers : j \in Holding' => j \in Holding /\ kycRequest'[j] = kycRequest[j],
         \A j \in KycHandlers : j \in Replacing' => j \in Replacing /\ kycRequest'[j] = kycRequest[j],
         UNCHANGED document,
         \A x \in Rows : FileOf(x) # NoFile => disk'[FileOf(x)] = "stored",
         \A j \in KycHandlers : j \in Holding => disk'[kycRequest[j].file] = "stored",
         \A j \in KycHandlers : j \in Replacing => disk'[kycRequest[j].old] # "new"
  PROVE  FilesSound'
<1>1. Rows' = Rows /\ \A x \in Rows : FileOf(x)' = FileOf(x)
  BY DEF Rows, FileOf
<1>2. /\ \A x \in Rows' : FileOf(x)' # NoFile => disk'[FileOf(x)'] = "stored"
      /\ \A x, y \in Rows' : FileOf(x)' # NoFile /\ FileOf(x)' = FileOf(y)' => x = y
  <2>1. \A x \in Rows' : FileOf(x)' # NoFile => disk'[FileOf(x)'] = "stored"
    BY <1>1
  <2>2. \A x, y \in Rows' : FileOf(x)' # NoFile /\ FileOf(x)' = FileOf(y)' => x = y
    BY <1>1 DEF FilesSound
  <2> QED BY <2>1, <2>2
<1>3. ASSUME NEW l \in KycHandlers, l \in Holding'
      PROVE  /\ disk'[kycRequest'[l].file] = "stored"
             /\ \A x \in Rows' : FileOf(x)' # kycRequest'[l].file
             /\ \A j \in KycHandlers :
                  /\ j \in Replacing' => kycRequest'[j].old # kycRequest'[l].file
                  /\ j \in Holding' /\ kycRequest'[j].file = kycRequest'[l].file => j = l
  <2>1. l \in Holding /\ kycRequest'[l] = kycRequest[l]
    BY <1>3
  <2>2. /\ \A x \in Rows : FileOf(x) # kycRequest[l].file
        /\ \A j \in KycHandlers :
              /\ j \in Replacing => kycRequest[j].old # kycRequest[l].file
              /\ j \in Holding /\ kycRequest[j].file = kycRequest[l].file => j = l
    BY <2>1 DEF FilesSound
  <2>3. \A x \in Rows' : FileOf(x)' # kycRequest'[l].file
    BY <1>1, <2>1, <2>2
  <2>4. disk'[kycRequest'[l].file] = "stored"
    BY <2>1
  <2>5. ASSUME NEW j \in KycHandlers
        PROVE  /\ j \in Replacing' => kycRequest'[j].old # kycRequest'[l].file
               /\ j \in Holding' /\ kycRequest'[j].file = kycRequest'[l].file => j = l
    BY <2>1, <2>2
  <2> QED BY <2>3, <2>4, <2>5
<1>4. ASSUME NEW l \in KycHandlers, l \in Replacing'
      PROVE  /\ disk'[kycRequest'[l].old] # "new"
             /\ \A x \in Rows' : x # RowOf(l)' \/ Pc(l)' = "unlink" => FileOf(x)' # kycRequest'[l].old
  <2>1. l \in Replacing /\ kycRequest'[l] = kycRequest[l]
    BY <1>4
  <2>2. RowOf(l)' = RowOf(l) /\ Pc(l)' = Pc(l)
    BY <2>1 DEF RowOf, Pc
  <2>3. \A x \in Rows : x # RowOf(l) \/ Pc(l) = "unlink" => FileOf(x) # kycRequest[l].old
    BY <2>1 DEF FilesSound
  <2>4. disk'[kycRequest'[l].old] # "new"
    BY <2>1
  <2> QED BY <1>1, <2>1, <2>2, <2>3, <2>4
<1> QED BY <1>2, <1>3, <1>4 DEF FilesSound

(* A file is in one place at most, and only files that were replaced are   *)
(* removed from the disk.                                                  *)
LEMMA FilesStay ==
  ASSUME KycTypeOK, FilesSound, [KycNext]_kycVars
  PROVE  FilesSound'
<1>1. /\ document \in [1..MaxSubmissions -> [RequiredFileTypes -> DocumentFiles \cup {NoFile}]]
      /\ Submitted \subseteq 1..MaxSubmissions /\ NoFile \notin DocumentFiles
      /\ disk \in [DocumentFiles -> {"new", "stored", "unlinked"}]
      /\ \A x \in Rows : FileOf(x) \in DocumentFiles \cup {NoFile}
  BY KycAssumption DEF KycTypeOK, Submitted, NoFile, DocumentFiles, Rows, FileOf
<1>2. /\ \A x \in Rows : FileOf(x) # NoFile => disk[FileOf(x)] = "stored"
      /\ \A j \in KycHandlers : j \in Holding => disk[kycRequest[j].file] = "stored"
      /\ \A j \in KycHandlers : j \in Replacing => disk[kycRequest[j].old] # "new"
  BY DEF FilesSound
<1>3. ASSUME NEW k \in KycHandlers, NEW r, Goes(k, r),
             r.pc \notin {"existing", "store", "unlink"}, UNCHANGED <<document, disk>>
      PROVE  FilesSound'
  <2>1. kycRequest'[k] = r /\ \A j \in KycHandlers : j # k => kycRequest'[j] = kycRequest[j]
    BY <1>3, KycGoes
  <2>2. \A j \in KycHandlers : (j \in Holding' \/ j \in Replacing') => j # k /\ kycRequest'[j] = kycRequest[j]
    BY <1>3, <2>1 DEF Holding, Replacing, Pc
  <2>3. \A j \in KycHandlers : /\ j \in Holding' => j \in Holding /\ kycRequest'[j] = kycRequest[j]
                               /\ j \in Replacing' => j \in Replacing /\ kycRequest'[j] = kycRequest[j]
    BY <2>2 DEF Holding, Replacing, Pc
  <2> QED BY <1>3, <1>2, <2>3, FilesFollow
<1>4. KycIdle.pc = "idle"
  BY DEF KycIdle
<1>5. ASSUME NEW k \in KycHandlers,
             \/ SubmitKyc(k) \/ FindPending(k) \/ CreateSubmission(k) \/ CheckDocuments(k)
             \/ Decide(k) \/ KycFails(k)
      PROVE  FilesSound'
  <2>1. PICK q : q = kycRequest[k]
    OBVIOUS
  <2>2. \/ Goes(k, [pc |-> "find"]) \/ Goes(k, [pc |-> "create"]) \/ Goes(k, KycIdle)
        \/ Goes(k, [pc |-> "decide", s |-> q.s, to |-> q.to])
    BY <1>5, <2>1, KycGoesOn
  <2>3. PICK r : Goes(k, r) /\ r.pc \notin {"existing", "store", "unlink"}
    BY <1>4, <2>2
  <2>4. UNCHANGED <<document, disk>>
    BY <1>5 DEF SubmitKyc, FindPending, CreateSubmission, CheckDocuments, Decide, KycFails
  <2> QED BY <1>3, <2>3, <2>4
<1>6. ASSUME NEW k \in KycHandlers, NEW u \in Submitted, NEW to \in Decisions, Review(k, u, to)
      PROVE  FilesSound'
  <2>1. PICK pc \in {"check", "decide"} : Goes(k, [pc |-> pc, s |-> u, to |-> to])
    BY <1>6, KycBegins
  <2>2. UNCHANGED <<document, disk>>
    BY <1>6 DEF Review
  <2> QED BY <1>3, <2>1, <2>2
<1>7. ASSUME UNCHANGED <<document, disk, kycRequest>> PROVE FilesSound'
  <2>1. \A j \in KycHandlers : /\ j \in Holding' => j \in Holding /\ kycRequest'[j] = kycRequest[j]
                               /\ j \in Replacing' => j \in Replacing /\ kycRequest'[j] = kycRequest[j]
    BY <1>7 DEF Holding, Replacing, Pc
  <2> QED BY <1>2, <1>7, <2>1, FilesFollow
<1>8. ASSUME NEW k \in KycHandlers, NEW t \in RequiredFileTypes, NEW f \in DocumentFiles,
             Upload(k, t, f)
      PROVE  FilesSound'
  <2>1. /\ disk[f] = "new" /\ disk' = [disk EXCEPT ![f] = "stored"] /\ UNCHANGED document
    BY <1>8 DEF Upload
  <2>2. Rows' = Rows /\ \A x \in Rows : FileOf(x)' = FileOf(x)
    BY <2>1 DEF Rows, FileOf
  <2>3. /\ \A x \in Rows : FileOf(x) # f
        /\ \A j \in KycHandlers : /\ j \in Holding => kycRequest[j].file # f
                                  /\ j \in Replacing => kycRequest[j].old # f
    BY <1>1, <2>1 DEF FilesSound, NoFile
  <2>4. /\ disk'[f] = "stored"
        /\ \A g \in DocumentFiles : g # f => disk'[g] = disk[g]
    BY <1>1, <2>1
  <2>5. \A j \in KycHandlers : /\ j \in Holding => kycRequest[j].file \in DocumentFiles
                               /\ j \in Replacing => kycRequest[j].old \in DocumentFiles
    BY KycShapes DEF Holding, Replacing
  <2>6. CASE UNCHANGED kycRequest
    <3>1. \A j \in KycHandlers : /\ j \in Holding' => j \in Holding /\ kycRequest'[j] = kycRequest[j]
                                 /\ j \in Replacing' => j \in Replacing /\ kycRequest'[j] = kycRequest[j]
      BY <2>6 DEF Holding, Replacing, Pc
    <3>2. \A x \in Rows : FileOf(x) # NoFile => disk'[FileOf(x)] = "stored"
      BY <1>1, <1>2, <2>4
    <3>3. \A j \in KycHandlers : j \in Holding => disk'[kycRequest[j].file] = "stored"
      BY <1>2, <2>4, <2>5
    <3>4. \A j \in KycHandlers : j \in Replacing => disk'[kycRequest[j].old] # "new"
      BY <1>2, <2>4, <2>5
    <3> QED BY <2>1, <3>1, <3>2, <3>3, <3>4, FilesFollow
  <2>7. ASSUME NEW u \in PendingSubmissions,
               Goes(k, [pc |-> "existing", s |-> u, type |-> t, file |-> f, old |-> NoFile])
        PROVE  FilesSound'
    <3>1. /\ kycRequest'[k] = [pc |-> "existing", s |-> u, type |-> t, file |-> f, old |-> NoFile]
          /\ \A j \in KycHandlers : j # k => kycRequest'[j] = kycRequest[j]
      BY <2>7, KycGoes
    <3>2. k \in Holding' /\ k \notin Replacing' /\ kycRequest'[k].file = f
      BY <3>1 DEF Holding, Replacing, Pc
    <3>3. \A j \in KycHandlers : j # k =>
             /\ (j \in Holding' <=> j \in Holding) /\ (j \in Replacing' <=> j \in Replacing)
             /\ RowOf(j)' = RowOf(j) /\ Pc(j)' = Pc(j)
      BY <3>1 DEF Holding, Replacing, RowOf, Pc
    <3>4. /\ \A x \in Rows' : FileOf(x)' # NoFile => disk'[FileOf(x)'] = "stored"
          /\ \A x, y \in Rows' : FileOf(x)' # NoFile /\ FileOf(x)' = FileOf(y)' => x = y
      BY <1>1, <2>2, <2>3, <2>4 DEF FilesSound
    <3>5. ASSUME NEW l \in KycHandlers, l \in Holding'
          PROVE  /\ disk'[kycRequest'[l].file] = "stored"
                 /\ \A x \in Rows' : FileOf(x)' # kycRequest'[l].file
                 /\ \A j \in KycHandlers :
                      /\ j \in Replacing' => kycRequest'[j].old # kycRequest'[l].file
                      /\ j \in Holding' /\ kycRequest'[j].file = kycRequest'[l].file => j = l
      <4>1. CASE l = k
        <5>1. ASSUME NEW j \in KycHandlers
              PROVE  /\ j \in Replacing' => kycRequest'[j].old # f
                     /\ j \in Holding' /\ kycRequest'[j].file = f => j = k
          <6>1. CASE j = k
            BY <3>2, <6>1
          <6>2. CASE j # k
            BY <2>3, <3>1, <3>3, <6>2
          <6> QED BY <6>1, <6>2
        <5>2. \A x \in Rows' : FileOf(x)' # f
          BY <2>2, <2>3
        <5> QED BY <2>4, <3>2, <4>1, <5>1, <5>2
      <4>2. CASE l # k
        <5>1. l \in Holding /\ kycRequest'[l] = kycRequest[l] /\ kycRequest[l].file # f
          BY <2>3, <3>1, <3>3, <3>5, <4>2
        <5>2. disk'[kycRequest'[l].file] = "stored"
          BY <1>2, <2>4, <2>5, <5>1
        <5>3. \A x \in Rows' : FileOf(x)' # kycRequest'[l].file
          <6>1. \A x \in Rows : FileOf(x) # kycRequest[l].file
            BY <5>1 DEF FilesSound
          <6> QED BY <2>2, <5>1, <6>1
        <5>4. ASSUME NEW j \in KycHandlers
              PROVE  /\ j \in Replacing' => kycRequest'[j].old # kycRequest'[l].file
                     /\ j \in Holding' /\ kycRequest'[j].file = kycRequest'[l].file => j = l
          <6>1. /\ j \in Replacing => kycRequest[j].old # kycRequest[l].file
                /\ j \in Holding /\ kycRequest[j].file = kycRequest[l].file => j = l
            BY <5>1 DEF FilesSound
          <6>2. CASE j = k
            BY <3>2, <5>1, <6>2
          <6>3. CASE j # k
            BY <3>1, <3>3, <5>1, <6>1, <6>3
          <6> QED BY <6>2, <6>3
        <5> QED BY <5>2, <5>3, <5>4
      <4> QED BY <4>1, <4>2
    <3>6. ASSUME NEW l \in KycHandlers, l \in Replacing'
          PROVE  /\ disk'[kycRequest'[l].old] # "new"
                 /\ \A x \in Rows' : x # RowOf(l)' \/ Pc(l)' = "unlink" => FileOf(x)' # kycRequest'[l].old
      <4>1. l # k /\ l \in Replacing /\ kycRequest'[l] = kycRequest[l]
            /\ RowOf(l)' = RowOf(l) /\ Pc(l)' = Pc(l)
        BY <3>1, <3>2, <3>3, <3>6
      <4>2. \A x \in Rows : x # RowOf(l) \/ Pc(l) = "unlink" => FileOf(x) # kycRequest[l].old
        BY <4>1 DEF FilesSound
      <4>3. disk'[kycRequest[l].old] # "new"
        BY <1>2, <2>4, <2>5, <4>1
      <4> QED BY <2>2, <4>1, <4>2, <4>3
    <3> QED BY <3>4, <3>5, <3>6 DEF FilesSound
  <2> QED BY <1>8, <2>6, <2>7, KycBegins
<1>9. ASSUME NEW k \in KycHandlers, FindDocument(k) PROVE FilesSound'
  <2>1. PICK q, o : q = kycRequest[k] /\ o = document[q.s][q.type]
    OBVIOUS
  <2>2. /\ Pc(k) = "existing" /\ UNCHANGED <<document, disk>>
        /\ Goes(k, [pc |-> "store", s |-> q.s, type |-> q.type, file |-> q.file, old |-> o])
    BY <1>9, <2>1, KycGoesOn DEF FindDocument
  <2>3. /\ q.s \in Submitted /\ q.type \in RequiredFileTypes /\ q.file \in DocumentFiles
        /\ RowOf(k) = <<q.s, q.type>> /\ RowOf(k) \in Rows /\ FileOf(RowOf(k)) = o
    BY <1>1, <2>1, <2>2, KycShapes DEF RowOf, Rows, FileOf
  <2>4. /\ kycRequest'[k] = [pc |-> "store", s |-> q.s, type |-> q.type, file |-> q.file, old |-> o]
        /\ \A j \in KycHandlers : j # k => kycRequest'[j] = kycRequest[j]
    BY <2>2, KycGoes
  <2>5. Rows' = Rows /\ \A x \in Rows : FileOf(x)' = FileOf(x)
    BY <2>2 DEF Rows, FileOf
  <2>6. /\ k \in Holding /\ k \in Holding' /\ Pc(k)' = "store" /\ RowOf(k)' = RowOf(k)
        /\ kycRequest'[k].file = q.file /\ kycRequest'[k].old = o
        /\ k \in Replacing' => o # NoFile
    BY <2>2, <2>3, <2>4 DEF Holding, Replacing, Pc, RowOf
  <2>7. \A j \in KycHandlers : j # k =>
           /\ (j \in Holding' <=> j \in Holding) /\ (j \in Replacing' <=> j \in Replacing)
           /\ RowOf(j)' = RowOf(j) /\ Pc(j)' = Pc(j)
    BY <2>4 DEF Holding, Replacing, RowOf, Pc
  <2>8. \A j \in KycHandlers : j \in Holding' => j \in Holding /\ kycRequest'[j].file = kycRequest[j].file
    BY <2>1, <2>4, <2>6, <2>7
  <2>9. ASSUME NEW l \in KycHandlers, l \in Holding'
        PROVE  /\ disk'[kycRequest'[l].file] = "stored"
               /\ \A x \in Rows' : FileOf(x)' # kycRequest'[l].file
               /\ \A j \in KycHandlers :
                    /\ j \in Replacing' => kycRequest'[j].old # kycRequest'[l].file
                    /\ j \in Holding' /\ kycRequest'[j].file = kycRequest'[l].file => j = l
    <3>1. l \in Holding /\ kycRequest'[l].file = kycRequest[l].file
      BY <2>8, <2>9
    <3>2. disk'[kycRequest'[l].file] = "stored" /\ \A x \in Rows' : FileOf(x)' # kycRequest'[l].file
      BY <2>2, <2>5, <3>1 DEF FilesSound
    <3>3. ASSUME NEW j \in KycHandlers, j \in Replacing'
          PROVE  kycRequest'[j].old # kycRequest'[l].file
      <4>1. CASE j = k
        BY <2>3, <2>6, <3>1, <4>1 DEF FilesSound
      <4>2. CASE j # k
        BY <2>4, <2>7, <3>1, <3>3, <4>2 DEF FilesSound
      <4> QED BY <4>1, <4>2
    <3>4. ASSUME NEW j \in KycHandlers, j \in Holding', kycRequest'[j].file = kycRequest'[l].file
          PROVE  j = l
      BY <2>8, <3>1, <3>4 DEF FilesSound
    <3> QED BY <3>2, <3>3, <3>4
  <2>10. ASSUME NEW l \in KycHandlers, l \in Replacing'
         PROVE  /\ disk'[kycRequest'[l].old] # "new"
                /\ \A x \in Rows' : x # RowOf(l)' \/ Pc(l)' = "unlink" => FileOf(x)' # kycRequest'[l].old
    <3>1. CASE l # k
      BY <2>2, <2>4, <2>5, <2>7, <2>10, <3>1 DEF FilesSound
    <3>2. CASE l = k
      <4>1. o # NoFile /\ disk[o] = "stored"
        BY <2>3, <2>6, <2>10, <3>2 DEF FilesSound
      <4>2. \A x \in Rows : x # RowOf(k) => FileOf(x) # o
        BY <2>3, <4>1 DEF FilesSound
      <4> QED BY <2>2, <2>5, <2>6, <3>2, <4>1, <4>2
    <3> QED BY <3>1, <3>2
  <2>11. /\ \A x \in Rows' : FileOf(x)' # NoFile => disk'[FileOf(x)'] = "stored"
         /\ \A x, y \in Rows' : FileOf(x)' # NoFile /\ FileOf(x)' = FileOf(y)' => x = y
    BY <2>2, <2>5 DEF FilesSound
  <2> QED BY <2>9, <2>10, <2>11 DEF FilesSound
<1>10. ASSUME NEW k \in KycHandlers, StoreDocument(k) PROVE FilesSound'
  <2>1. PICK q : q = kycRequest[k]
    OBVIOUS
  <2>2. /\ Pc(k) = "store" /\ UNCHANGED disk
        /\ document' = [document EXCEPT ![q.s][q.type] = q.file]
        /\ \/ Goes(k, KycIdle) /\ q.old = NoFile
           \/ Goes(k, [pc |-> "unlink", s |-> q.s, type |-> q.type, file |-> q.file, old |-> q.old])
    BY <1>10, <2>1, KycGoesOn DEF StoreDocument
  <2>3. /\ q.s \in Submitted /\ q.type \in RequiredFileTypes /\ q.file \in DocumentFiles
        /\ RowOf(k) = <<q.s, q.type>> /\ RowOf(k) \in Rows /\ k \in Holding
    BY <1>1, <2>1, <2>2, KycShapes DEF RowOf, Rows, Holding
  <2>4. /\ Rows' = Rows
        /\ \A x \in Rows : FileOf(x)' = IF x = RowOf(k) THEN q.file ELSE FileOf(x)
    BY <1>1, <2>2, <2>3 DEF Rows, FileOf
  <2>5. /\ \A j \in KycHandlers : j # k => kycRequest'[j] = kycRequest[j]
        /\ k \notin Holding' /\ RowOf(k) \in Rows
        /\ k \in Replacing' => /\ k \in Replacing /\ kycRequest'[k].old = q.old
                               /\ RowOf(k)' = RowOf(k) /\ Pc(k)' = "unlink"
    <3>1. CASE Goes(k, KycIdle)
      <4>1. kycRequest'[k] = KycIdle /\ \A j \in KycHandlers : j # k => kycRequest'[j] = kycRequest[j]
        BY <3>1, KycGoes
      <4> QED BY <1>4, <2>3, <4>1 DEF Holding, Replacing, Pc
    <3>2. CASE Goes(k, [pc |-> "unlink", s |-> q.s, type |-> q.type, file |-> q.file, old |-> q.old])
      <4>1. /\ kycRequest'[k] = [pc |-> "unlink", s |-> q.s, type |-> q.type, file |-> q.file,
                                 old |-> q.old]
            /\ \A j \in KycHandlers : j # k => kycRequest'[j] = kycRequest[j]
        BY <3>2, KycGoes
      <4> QED BY <2>1, <2>2, <2>3, <4>1 DEF Holding, Replacing, Pc, RowOf
    <3> QED BY <2>2, <3>1, <3>2
  <2>6. \A j \in KycHandlers : j # k =>
           /\ (j \in Holding' <=> j \in Holding) /\ (j \in Replacing' <=> j \in Replacing)
           /\ RowOf(j)' = RowOf(j) /\ Pc(j)' = Pc(j)
    BY <2>5 DEF Holding, Replacing, RowOf, Pc
  <2>7. /\ disk[q.file] = "stored" /\ \A x \in Rows : FileOf(x) # q.file
        /\ \A j \in KycHandlers : /\ j \in Replacing => kycRequest[j].old # q.file
                                  /\ j \in Holding /\ kycRequest[j].file = q.file => j = k
    BY <2>1, <2>3 DEF FilesSound
  <2>8. /\ \A x \in Rows' : FileOf(x)' # NoFile => disk'[FileOf(x)'] = "stored"
        /\ \A x, y \in Rows' : FileOf(x)' # NoFile /\ FileOf(x)' = FileOf(y)' => x = y
    BY <2>2, <2>4, <2>7 DEF FilesSound
  <2>9. ASSUME NEW l \in KycHandlers, l \in Holding'
        PROVE  /\ disk'[kycRequest'[l].file] = "stored"
               /\ \A x \in Rows' : FileOf(x)' # kycRequest'[l].file
               /\ \A j \in KycHandlers :
                    /\ j \in Replacing' => kycRequest'[j].old # kycRequest'[l].file
                    /\ j \in Holding' /\ kycRequest'[j].file = kycRequest'[l].file => j = l
    <3>1. l # k /\ l \in Holding /\ kycRequest'[l] = kycRequest[l] /\ kycRequest[l].file # q.file
      BY <2>5, <2>6, <2>7, <2>9
    <3>2. disk'[kycRequest'[l].file] = "stored" /\ \A x \in Rows' : FileOf(x)' # kycRequest'[l].file
      BY <2>2, <2>4, <3>1 DEF FilesSound
    <3>3. \A j \in KycHandlers : j \in Replacing' => j \in Replacing /\ kycRequest'[j].old = kycRequest[j].old
      BY <2>1, <2>5, <2>6
    <3>4. \A j \in KycHandlers : j \in Holding' => j \in Holding /\ kycRequest'[j] = kycRequest[j]
      BY <2>5, <2>6
    <3> QED BY <3>1, <3>2, <3>3, <3>4 DEF FilesSound
  <2>10. ASSUME NEW l \in KycHandlers, l \in Replacing'
         PROVE  /\ disk'[kycRequest'[l].old] # "new"
                /\ \A x \in Rows' : x # RowOf(l)' \/ Pc(l)' = "unlink" => FileOf(x)' # kycRequest'[l].old
    <3>1. l \in Replacing /\ kycRequest'[l].old = kycRequest[l].old /\ RowOf(l)' = RowOf(l)
      BY <2>1, <2>5, <2>6, <2>10
    <3>2. kycRequest[l].old # q.file /\ disk'[kycRequest'[l].old] # "new"
      BY <2>2, <2>7, <3>1 DEF FilesSound
    <3>3. ASSUME NEW x \in Rows, x # RowOf(l)' \/ Pc(l)' = "unlink"
          PROVE  FileOf(x)' # kycRequest'[l].old
      <4>1. CASE x = RowOf(k)
        BY <2>4, <3>1, <3>2, <4>1
      <4>2. CASE x # RowOf(k) /\ l = k
        BY <2>4, <3>1, <4>2 DEF FilesSound
      <4>3. CASE x # RowOf(k) /\ l # k
        BY <2>4, <2>6, <3>1, <3>3, <4>3 DEF FilesSound
      <4> QED BY <4>1, <4>2, <4>3
    <3> QED BY <2>4, <3>2, <3>3
  <2> QED BY <2>8, <2>9, <2>10 DEF FilesSound
<1>11. ASSUME NEW k \in KycHandlers, Unlink(k) PROVE FilesSound'
  <2>1. PICK q : q = kycRequest[k]
    OBVIOUS
  <2>2. /\ Pc(k) = "unlink" /\ UNCHANGED document /\ Goes(k, KycIdle)
        /\ disk' = [disk EXCEPT ![q.old] = "unlinked"]
    BY <1>11, <2>1, KycGoesOn DEF Unlink
  <2>3. kycRequest'[k] = KycIdle /\ \A j \in KycHandlers : j # k => kycRequest'[j] = kycRequest[j]
    BY <2>2, KycGoes
  <2>4. \A j \in KycHandlers : /\ j \in Holding' => j \in Holding /\ kycRequest'[j] = kycRequest[j]
                               /\ j \in Replacing' => j \in Replacing /\ kycRequest'[j] = kycRequest[j]
    BY <1>4, <2>3 DEF Holding, Replacing, Pc
  <2>5. /\ \A x \in Rows : FileOf(x) = NoFile \/ FileOf(x) # q.old
        /\ \A j \in KycHandlers : j \in Holding => kycRequest[j].file # q.old
    <3>1. CASE q.old # NoFile
      <4>1. k \in Replacing
        BY <2>1, <2>2, <3>1 DEF Replacing
      <4> QED BY <2>1, <2>2, <4>1 DEF FilesSound
    <3>2. CASE q.old = NoFile
      <4>1. \A j \in KycHandlers : j \in Holding => kycRequest[j].file \in DocumentFiles
        BY KycShapes DEF Holding
      <4> QED BY <1>1, <3>2, <4>1
    <3> QED BY <3>1, <3>2
  <2>6. /\ \A f \in DocumentFiles : f # q.old => disk'[f] = disk[f]
        /\ \A f \in DocumentFiles : disk[f] # "new" => disk'[f] # "new"
    BY <1>1, <2>2
  <2>7. \A j \in KycHandlers : /\ j \in Holding => kycRequest[j].file \in DocumentFiles
                               /\ j \in Replacing => kycRequest[j].old \in DocumentFiles
    BY KycShapes DEF Holding, Replacing
  <2>8. \A x \in Rows : FileOf(x) # NoFile => disk'[FileOf(x)] = "stored"
    BY <1>1, <1>2, <2>5, <2>6
  <2>9. \A j \in KycHandlers : j \in Holding => disk'[kycRequest[j].file] = "stored"
    BY <1>2, <2>5, <2>6, <2>7
  <2>10. \A j \in KycHandlers : j \in Replacing => disk'[kycRequest[j].old] # "new"
    BY <1>2, <2>6, <2>7
  <2> QED BY <2>2, <2>4, <2>8, <2>9, <2>10, FilesFollow
<1>12. CASE UNCHANGED kycVars
  BY <1>7, <1>12 DEF kycVars
<1> QED BY <1>5, <1>6, <1>8, <1>9, <1>10, <1>11, <1>12 DEF KycNext
(* The identity checks stay consistent.                                    *)
THEOREM KycInvariant == KycSpec => []KycInv
<1>1. KycInit => KycInv
  <2> SUFFICES ASSUME KycInit PROVE KycInv
    OBVIOUS
  <2>1. /\ submissions = << >> /\ kycAudit = << >> /\ Submitted = {} /\ kycStatus = "NOT_SUBMITTED"
        /\ Len(submissions) = 0
    BY DEF KycInit, Submitted
  <2>2. /\ \A k \in KycHandlers : kycRequest[k] = KycIdle /\ Pc(k) = "idle"
        /\ \A x \in Rows : FileOf(x) = NoFile
    BY DEF KycInit, KycIdle, Pc, Rows, FileOf
  <2>3. KycTypeOK
    <3>1. submissions \in Seq({"PENDING"} \cup Decisions) /\ Len(submissions) <= MaxSubmissions
      BY <2>1, KycAssumption
    <3>2. kycAudit \in Seq([s : Submitted, toStatus : {"PENDING"} \cup Decisions])
      BY <2>1
    <3> QED BY <2>1, <3>1, <3>2 DEF KycInit, KycTypeOK
  <2>4. TrailExplainsStatus /\ PendingIsReviewable /\ ApprovedHasDocuments
    BY <2>1 DEF TrailExplainsStatus, PendingIsReviewable, ApprovedHasDocuments, LastStatus
  <2>5. ApprovalsChecked
    BY <2>2 DEF ApprovalsChecked
  <2>6. FilesSound
    BY <2>2 DEF FilesSound, Holding, Replacing
  <2> QED BY <2>1, <2>3, <2>4, <2>5, <2>6 DEF KycInv
<1>2. KycInv /\ [KycNext]_kycVars => KycInv'
  <2> SUFFICES ASSUME KycInv, [KycNext]_kycVars PROVE KycInv'
    OBVIOUS
  <2>1. /\ KycTypeOK /\ TrailExplainsStatus /\ PendingIsReviewable
        /\ \A s \in Submitted : DecisionsBounded(s)
        /\ ApprovalsChecked /\ ApprovedHasDocuments /\ FilesSound
    BY DEF KycInv
  <2>2. KycTypeOK' /\ TrailExplainsStatus' /\ PendingIsReviewable'
    BY <2>1, KycTypesStay, TrailStays
  <2>3. \A s \in Submitted' : DecisionsBounded(s)'
    BY <2>1, DecisionsStay
  <2>4. ApprovalsChecked' /\ ApprovedHasDocuments' /\ FilesSound'
    BY <2>1, ApprovalsStay, ApprovedStay, FilesStay
  <2> QED BY <2>2, <2>3, <2>4 DEF KycInv
<1> QED BY <1>1, <1>2, PTL DEF KycSpec

(* At every moment of every interleaving the user, the submissions, the    *)
(* trail of decisions and the files on disk fit together.                  *)
THEOREM KycIsConsistent == KycSpec => []KycConsistent
<1>1. KycInv => KycConsistent
  <2> SUFFICES ASSUME KycInv PROVE KycConsistent
    OBVIOUS
  <2>1. ASSUME NEW s \in Submitted PROVE Cardinality(DecisionsOn(s)) <= Cardinality(KycHandlers)
    <3>1. DecisionsBounded(s)
      BY DEF KycInv
    <3>2. Deciding(s) \subseteq KycHandlers
      BY DEF Deciding
    <3>3. IsFiniteSet(Deciding(s)) /\ Cardinality(Deciding(s)) \in Nat
      BY <3>2, KycAssumption, FS_Subset, FS_CardinalityType
    <3>4. Cardinality(DecisionsOn(s)) \in Nat /\ Cardinality(KycHandlers) \in Nat
      BY <3>1, KycAssumption, FS_CardinalityType DEF DecisionsBounded
    <3> QED BY <3>1, <3>3, <3>4 DEF DecisionsBounded
  <2>2. DocumentsExist
    <3> SUFFICES ASSUME NEW s \in Submitted, NEW t \in RequiredFileTypes, document[s][t] # NoFile
                 PROVE  disk[document[s][t]] = "stored"
      BY DEF DocumentsExist
    <3>1. PICK x : x = <<s, t>>
      OBVIOUS
    <3>2. s \in 1..MaxSubmissions
      BY KycAssumption DEF KycInv, KycTypeOK, Submitted
    <3>3. x \in Rows /\ FileOf(x) = document[s][t]
      BY <3>1, <3>2 DEF Rows, FileOf
    <3>4. \A y \in Rows : FileOf(y) # NoFile => disk[FileOf(y)] = "stored"
      BY DEF KycInv, FilesSound
    <3> QED BY <3>3, <3>4
  <2> QED BY <2>1, <2>2 DEF KycInv, KycConsistent, DecisionsOverlap
<1> QED BY <1>1, KycInvariant, PTL

(* Nothing touches a submission that is decided and that no request works  *)
(* on any more.                                                            *)
LEMMA ClosedStays ==
  ASSUME KycTypeOK, [KycNext]_kycVars, NEW s \in Submitted, Closed(s)
  PROVE  Closed(s)' /\ submissions'[s] = submissions[s] /\ document'[s] = document[s]
<1>1. \A k \in KycHandlers : Pc(k) \notin {"idle", "find", "create"} => kycRequest[k].s # s
  BY KycShapes DEF Closed
<1>2. submissions'[s] = submissions[s] /\ submissions[s] # "PENDING"
  <2>1. CASE UNCHANGED <<kycStatus, submissions, kycAudit>>
    BY <2>1 DEF Closed
  <2>2. ASSUME NEW k \in KycHandlers, NEW u, Decide(k), u = kycRequest[k].s
        PROVE  u # s
    BY <1>1, <2>2 DEF Decide
  <2> QED BY <2>1, <2>2, TrailGrows DEF Closed
<1>3. ASSUME NEW k \in KycHandlers, NEW r, Goes(k, r), "s" \in DOMAIN r => r.s # s
      PROVE  \A j \in KycHandlers : ~WorksOn(j, s)'
  <2>1. kycRequest'[k] = r /\ \A j \in KycHandlers : j # k => kycRequest'[j] = kycRequest[j]
    BY <1>3, KycGoes
  <2>2. \A j \in KycHandlers : ~WorksOn(j, s)
    BY DEF Closed
  <2> QED BY <1>3, <2>1, <2>2 DEF WorksOn
<1>4. ASSUME UNCHANGED kycRequest PROVE \A j \in KycHandlers : ~WorksOn(j, s)'
  BY <1>4 DEF Closed, WorksOn
<1>5. \A k \in KycHandlers : ~WorksOn(k, s)'
  <2>1. "s" \notin DOMAIN KycIdle
    BY DEF KycIdle
  <2>2. ASSUME NEW k \in KycHandlers,
               \/ SubmitKyc(k) \/ FindPending(k) \/ CreateSubmission(k) \/ CheckDocuments(k)
               \/ Decide(k) \/ FindDocument(k) \/ StoreDocument(k) \/ Unlink(k) \/ KycFails(k)
        PROVE  \A j \in KycHandlers : ~WorksOn(j, s)'
    <3>1. PICK q : q = kycRequest[k]
      OBVIOUS
    <3>2. PICK o : o = document[q.s][q.type]
      OBVIOUS
    <3>3. \/ Goes(k, [pc |-> "find"]) \/ Goes(k, [pc |-> "create"]) \/ Goes(k, KycIdle)
          \/ /\ Pc(k) \in {"check", "existing", "store"}
             /\ \/ Goes(k, [pc |-> "decide", s |-> q.s, to |-> q.to])
                \/ Goes(k, [pc |-> "store", s |-> q.s, type |-> q.type, file |-> q.file, old |-> o])
                \/ Goes(k, [pc |-> "unlink", s |-> q.s, type |-> q.type, file |-> q.file,
                            old |-> q.old])
      BY <2>2, <3>1, <3>2, KycGoesOn
    <3>4. Pc(k) \in {"check", "existing", "store"} => q.s # s
      BY <1>1, <3>1
    <3>5. PICK r : Goes(k, r) /\ ("s" \in DOMAIN r => r.s # s)
      BY <2>1, <3>3, <3>4
    <3> QED BY <1>3, <3>5
  <2>3. ASSUME NEW k \in KycHandlers, NEW u \in Submitted, NEW to \in Decisions, Review(k, u, to)
        PROVE  \A j \in KycHandlers : ~WorksOn(j, s)'
    <3>1. u # s /\ \E pc : Goes(k, [pc |-> pc, s |-> u, to |-> to])
      BY <1>2, <2>3, KycBegins
    <3>2. PICK r : Goes(k, r) /\ ("s" \in DOMAIN r => r.s # s)
      BY <3>1
    <3> QED BY <1>3, <3>2
  <2>4. ASSUME NEW k \in KycHandlers, NEW t \in RequiredFileTypes, NEW f \in DocumentFiles,
               Upload(k, t, f)
        PROVE  \A j \in KycHandlers : ~WorksOn(j, s)'
    <3>1. ASSUME NEW u \in PendingSubmissions,
                 Goes(k, [pc |-> "existing", s |-> u, type |-> t, file |-> f, old |-> NoFile])
          PROVE  \A j \in KycHandlers : ~WorksOn(j, s)'
      <4>1. u # s
        BY <1>2 DEF PendingSubmissions
      <4>2. PICK r : Goes(k, r) /\ ("s" \in DOMAIN r => r.s # s)
        BY <3>1, <4>1
      <4> QED BY <1>3, <4>2
    <3> QED BY <1>4, <2>4, <3>1, KycBegins
  <2>5. CASE UNCHANGED kycVars
    BY <1>4, <2>5 DEF kycVars
  <2> QED BY <2>2, <2>3, <2>4, <2>5 DEF KycNext
<1>6. document'[s] = document[s]
  <2>1. ASSUME NEW k \in KycHandlers, StoreDocument(k) PROVE document'[s] = document[s]
    <3>1. PICK q : q = kycRequest[k]
      OBVIOUS
    <3>2. document' = [document EXCEPT ![q.s][q.type] = q.file] /\ Pc(k) = "store"
      BY <2>1, <3>1 DEF StoreDocument
    <3>3. q.s # s
      BY <1>1, <3>1, <3>2
    <3>4. s \in 1..MaxSubmissions /\ DOMAIN document = 1..MaxSubmissions
      BY KycAssumption DEF KycTypeOK, Submitted
    <3> QED BY <3>2, <3>3, <3>4
  <2>2. ASSUME NEW k \in KycHandlers,
               \/ SubmitKyc(k) \/ FindPending(k) \/ CheckDocuments(k) \/ FindDocument(k)
               \/ CreateSubmission(k) \/ Decide(k) \/ Unlink(k) \/ KycFails(k)
               \/ \E u \in Submitted, to \in Decisions : Review(k, u, to)
               \/ \E t \in RequiredFileTypes, f \in DocumentFiles : Upload(k, t, f)
        PROVE  UNCHANGED document
    BY <2>2 DEF SubmitKyc, FindPending, CheckDocuments, FindDocument, CreateSubmission, Decide,
       Unlink, KycFails, Review, Upload
  <2>3. CASE UNCHANGED kycVars
    BY <2>3 DEF kycVars
  <2> QED BY <2>1, <2>2, <2>3 DEF KycNext
<1> QED BY <1>2, <1>5, <1>6 DEF Closed

(* A user approved with nothing pending and nobody deciding stays so.      *)
LEMMA SettledStays ==
  ASSUME KycTypeOK, [KycNext]_kycVars, SettledApproval
  PROVE  SettledApproval'
<1>1. /\ kycStatus = "APPROVED" /\ PendingSubmissions = {}
      /\ \A k \in KycHandlers : Pc(k) \notin {"find", "create", "check", "decide"}
  BY DEF SettledApproval
<1>2. UNCHANGED <<kycStatus, submissions>>
  <2>1. \A k \in KycHandlers : ~CreateSubmission(k) /\ ~Decide(k)
    BY <1>1 DEF CreateSubmission, Decide
  <2> QED BY <2>1, TrailGrows
<1>3. PendingSubmissions' = {}
  BY <1>1, <1>2 DEF PendingSubmissions, Submitted
<1>4. ASSUME NEW k \in KycHandlers, NEW r, Goes(k, r),
             r.pc \notin {"find", "create", "check", "decide"}
      PROVE  \A j \in KycHandlers : Pc(j)' \notin {"find", "create", "check", "decide"}
  <2>1. kycRequest'[k] = r /\ \A j \in KycHandlers : j # k => kycRequest'[j] = kycRequest[j]
    BY <1>4, KycGoes
  <2> QED BY <1>1, <1>4, <2>1 DEF Pc
<1>5. ASSUME UNCHANGED kycRequest
      PROVE  \A j \in KycHandlers : Pc(j)' \notin {"find", "create", "check", "decide"}
  BY <1>1, <1>5 DEF Pc
<1>6. ASSUME NEW k \in KycHandlers,
             \/ FindDocument(k) \/ StoreDocument(k) \/ Unlink(k) \/ KycFails(k)
      PROVE  \A j \in KycHandlers : Pc(j)' \notin {"find", "create", "check", "decide"}
  <2>1. PICK q : q = kycRequest[k]
    OBVIOUS
  <2>2. PICK o : o = document[q.s][q.type]
    OBVIOUS
  <2>3. \/ Goes(k, KycIdle)
        \/ Goes(k, [pc |-> "store", s |-> q.s, type |-> q.type, file |-> q.file, old |-> o])
        \/ Goes(k, [pc |-> "unlink", s |-> q.s, type |-> q.type, file |-> q.file, old |-> q.old])
    BY <1>6, <2>1, <2>2, KycGoesOn
  <2>4. KycIdle.pc = "idle"
    BY DEF KycIdle
  <2>5. PICK r : Goes(k, r) /\ r.pc \notin {"find", "create", "check", "decide"}
    BY <2>3, <2>4
  <2> QED BY <1>4, <2>5
<1>7. ASSUME NEW k \in KycHandlers,
             \/ SubmitKyc(k) \/ FindPending(k) \/ CreateSubmission(k) \/ CheckDocuments(k)
             \/ Decide(k) \/ \E s \in Submitted, to \in Decisions : Review(k, s, to)
      PROVE  FALSE
  BY <1>1, <1>7 DEF SubmitKyc, FindPending, CreateSubmission, CheckDocuments, Decide, Review
<1>8. ASSUME NEW k \in KycHandlers, NEW t \in RequiredFileTypes, NEW f \in DocumentFiles,
             Upload(k, t, f)
      PROVE  \A j \in KycHandlers : Pc(j)' \notin {"find", "create", "check", "decide"}
  <2>1. UNCHANGED kycRequest
    BY <1>1, <1>8 DEF Upload
  <2> QED BY <1>5, <2>1
<1>9. ASSUME NEW j \in KycHandlers
      PROVE  kycRequest'[j].pc \notin {"find", "create", "check", "decide"}
  <2> DEFINE P == \A i \in KycHandlers : Pc(i)' \notin {"find", "create", "check", "decide"}
  <2>1. CASE KycNext
    <3>1. PICK k \in KycHandlers :
             \/ SubmitKyc(k) \/ FindPending(k) \/ CreateSubmission(k) \/ CheckDocuments(k)
             \/ Decide(k) \/ \E s \in Submitted, to \in Decisions : Review(k, s, to)
             \/ FindDocument(k) \/ StoreDocument(k) \/ Unlink(k) \/ KycFails(k)
             \/ \E t \in RequiredFileTypes, f \in DocumentFiles : Upload(k, t, f)
      BY <2>1 DEF KycNext
    <3>2. P
      BY <1>6, <1>7, <1>8, <3>1
    <3> QED BY <3>2 DEF Pc
  <2>2. CASE UNCHANGED kycVars
    BY <1>5, <2>2 DEF kycVars, Pc
  <2> QED BY <2>1, <2>2
<1>10. kycStatus' = "APPROVED"
  BY <1>1, <1>2
<1> QED BY <1>3, <1>9, <1>10 DEF SettledApproval, Pc

(* Decisions are final once the requests that overlapped them have ended:  *)
(* submission and documents never change again, and neither does the       *)
(* approval of a user who has nothing pending.                             *)
THEOREM DecisionsAreFinal == KycSpec => DecisionsStand
<1>1. KycTypeOK /\ [KycNext]_kycVars =>
         [/\ \A s \in Submitted : Closed(s) =>
                Closed(s)' /\ submissions'[s] = submissions[s] /\ document'[s] = document[s]
          /\ SettledApproval => SettledApproval']_kycVars
  BY ClosedStays, SettledStays
<1>2. KycInv => KycTypeOK
  BY DEF KycInv
<1> QED BY <1>1, <1>2, KycInvariant, PTL DEF KycSpec, DecisionsStand
-------------------------------------------------------------------------------
(* MarketData.                                                             *)

\* The number n is what the last message of feed f in s carries, 0 if none.
IsLast(s, f, n) ==
    \/ n = 0 /\ \A j \in DOMAIN s : s[j].feed # f
    \/ \E q \in DOMAIN s : /\ s[q].feed = f /\ s[q].number = n
                           /\ \A j \in DOMAIN s : s[j].feed = f => j <= q

\* The updates that what is stored of f shows: the stored one, or all when the
\* backfill put it there or the ticker has expired.
Shown(f) ==
    {n \in 0..MaxUpdates :
       \/ projected[f] = n
       \/ f \in CandleFeeds /\ backfill.pc = "done" /\ backfill.update = [feed |-> f, number |-> projected[f]]
       \/ f \notin CandleFeeds /\ projected[f] = 0}

\* The last message of a feed is shown once the projection is past it, and
\* stays so when the projection goes back.
LastIsShown ==
    \A f \in Feeds :
       /\ \A q \in 1..marketPosition :
             /\ marketLog[q].feed = f
             /\ \A j \in DOMAIN marketLog : marketLog[j].feed = f => j <= q
             => marketLog[q].number \in Shown(f)
       /\ (\A j \in DOMAIN marketLog : marketLog[j].feed # f) => 0 \in Shown(f)

\* As long as nothing failed the stream is open, and what is on its way ends
\* with the provider's last update.
NothingLost ==
    marketFaults = 0 =>
       /\ socket = "open"
       /\ \A f \in Feeds : IsLast(marketLog \o sending, f, provided[f])

MarketInv == MarketTypeOK /\ LastIsShown /\ NothingLost

(* A message put at the end of a sequence is the last of its feed, and     *)
(* changes nothing for the others.                                         *)
LEMMA LastAppended ==
  ASSUME NEW s \in Seq(Updates), NEW u \in Updates, NEW f, NEW n
  PROVE  /\ u.feed = f => IsLast(Append(s, u), f, u.number)
         /\ u.feed # f /\ IsLast(s, f, n) => IsLast(Append(s, u), f, n)
<1> DEFINE N == Len(s)  t == Append(s, u)
<1>1. /\ N \in Nat /\ DOMAIN s = 1..N /\ DOMAIN t = 1..(N + 1)
      /\ t[N + 1] = u /\ \A j \in 1..N : t[j] = s[j]
  OBVIOUS
<1> HIDE DEF N, t
<1>2. ASSUME u.feed = f PROVE IsLast(t, f, u.number)
  BY <1>1, <1>2 DEF IsLast
<1>3. ASSUME u.feed # f, IsLast(s, f, n) PROVE IsLast(t, f, n)
  <2>1. CASE n = 0 /\ \A j \in DOMAIN s : s[j].feed # f
    <3>1. \A j \in DOMAIN t : t[j].feed # f
      BY <1>1, <1>3, <2>1
    <3> QED BY <2>1, <3>1 DEF IsLast
  <2>2. CASE \E q \in DOMAIN s : /\ s[q].feed = f /\ s[q].number = n
                                 /\ \A j \in DOMAIN s : s[j].feed = f => j <= q
    <3>1. PICK q \in DOMAIN s : /\ s[q].feed = f /\ s[q].number = n
                                /\ \A j \in DOMAIN s : s[j].feed = f => j <= q
      BY <2>2
    <3>2. q \in DOMAIN t /\ t[q].feed = f /\ t[q].number = n
      BY <1>1, <3>1
    <3>3. \A j \in DOMAIN t : t[j].feed = f => j <= q
      BY <1>1, <1>3, <3>1
    <3> QED BY <3>2, <3>3 DEF IsLast
  <2> QED BY <1>3, <2>1, <2>2 DEF IsLast
<1> QED BY <1>2, <1>3 DEF t

(* A message that is answered moves from what is being sent to the end of  *)
(* the partition: both together stay the same.                             *)
LEMMA SentInOrder ==
  ASSUME NEW s \in Seq(Updates), NEW t \in Seq(Updates)
  PROVE  /\ t # << >> => Append(s, Head(t)) \o Tail(t) = s \o t
         /\ \A u \in Updates : s \o Append(t, u) = Append(s \o t, u)
         /\ s \o << >> = s
<1>1. ASSUME t # << >> PROVE Append(s, Head(t)) \o Tail(t) = s \o t
  <2> DEFINE a == Append(s, Head(t)) \o Tail(t)  b == s \o t
  <2>0. Head(t) \in Updates /\ Len(t) \in Nat \ {0} /\ Len(s) \in Nat
    BY <1>1
  <2>1. a \in Seq(Updates) /\ b \in Seq(Updates)
    BY <1>1, <2>0
  <2>2. Len(a) = Len(s) + Len(t) /\ Len(b) = Len(s) + Len(t)
    BY <1>1, <2>0
  <2>3. \A i \in 1..(Len(s) + Len(t)) : a[i] = b[i]
    BY <1>1, <2>0
  <2> HIDE DEF a, b
  <2>4. a = b
    BY <2>1, <2>2, <2>3
  <2> QED BY <2>4 DEF a, b
<1>2. ASSUME NEW u \in Updates PROVE s \o Append(t, u) = Append(s \o t, u)
  <2> DEFINE a == s \o Append(t, u)  b == Append(s \o t, u)
  <2>1. a \in Seq(Updates) /\ b \in Seq(Updates)
    OBVIOUS
  <2>2. Len(a) = Len(s) + Len(t) + 1 /\ Len(b) = Len(s) + Len(t) + 1
    OBVIOUS
  <2>3. \A i \in 1..(Len(s) + Len(t) + 1) : a[i] = b[i]
    OBVIOUS
  <2> HIDE DEF a, b
  <2>4. a = b
    BY <2>1, <2>2, <2>3
  <2> QED BY <2>4 DEF a, b
<1>3. s \o << >> = s
  OBVIOUS
<1> QED BY <1>1, <1>2, <1>3

(* The type invariant of the reference market is kept by every step.       *)
LEMMA MarketTypesStay ==
  ASSUME MarketTypeOK, [MarketNext]_marketVars
  PROVE  MarketTypeOK'
<1> USE MarketAssumption
<1>1. ASSUME NEW f \in Feeds, Provide(f) PROVE MarketTypeOK'
  <2>1. provided[f] + 1 \in 1..MaxUpdates
    BY <1>1 DEF MarketTypeOK, Provide
  <2>2. provided' \in [Feeds -> 0..MaxUpdates] /\ provided'[f] = provided[f] + 1
    BY <1>1, <2>1 DEF MarketTypeOK, Provide
  <2>3. [feed |-> f, number |-> provided'[f]] \in Updates
    BY <2>1, <2>2 DEF Updates
  <2>4. sending' \in Seq(Updates)
    BY <1>1, <2>3 DEF MarketTypeOK, Provide
  <2> QED BY <1>1, <2>2, <2>4 DEF MarketTypeOK, Provide, projectionVars
<1>2. CASE PublishMarketEvent
  <2>1. /\ Head(sending) \in Updates /\ sending' \in Seq(Updates)
        /\ marketLog' \in Seq(Updates) /\ Len(marketLog') = Len(marketLog) + 1
    BY <1>2 DEF MarketTypeOK, PublishMarketEvent
  <2>2. Len(marketLog) \in Nat
    BY DEF MarketTypeOK
  <2> QED BY <1>2, <2>1, <2>2 DEF MarketTypeOK, PublishMarketEvent, projectionVars
<1>3. CASE PublishGoesWrong
  <2>1. PICK i \in DOMAIN sending :
           /\ sending' = Without(sending, i)
           /\ marketLog' \in {marketLog} \cup
                 {Append(marketLog, sending[j]) : j \in {i} \ {1}}
    BY <1>3 DEF PublishGoesWrong
  <2>2. i \in 1..Len(sending) /\ sending[i] \in Updates /\ Len(sending) \in Nat
    BY <2>1 DEF MarketTypeOK
  <2>3. SubSeq(sending, 1, i - 1) \in Seq(Updates) /\ SubSeq(sending, i + 1, Len(sending)) \in Seq(Updates)
    BY <2>2 DEF MarketTypeOK
  <2>4. sending' \in Seq(Updates)
    BY <2>1, <2>3 DEF Without
  <2>5. marketLog' \in Seq(Updates) /\ Len(marketLog') \in Nat /\ Len(marketLog) \in Nat
        /\ Len(marketLog) <= Len(marketLog')
    <3>1. marketLog' = marketLog \/ marketLog' = Append(marketLog, sending[i])
      BY <2>1
    <3>2. marketLog \in Seq(Updates)
      BY DEF MarketTypeOK
    <3>3. Append(marketLog, sending[i]) \in Seq(Updates)
          /\ Len(Append(marketLog, sending[i])) = Len(marketLog) + 1 /\ Len(marketLog) \in Nat
      BY <2>2, <3>2
    <3> QED BY <3>1, <3>2, <3>3
  <2> QED BY <1>3, <2>4, <2>5 DEF MarketTypeOK, PublishGoesWrong, MarketFault, projectionVars
<1>4. CASE SocketCloses
  BY <1>4 DEF MarketTypeOK, SocketCloses, MarketFault, ScheduleReconnect, projectionVars
<1>5. CASE Reconnect
  BY <1>5 DEF MarketTypeOK, Reconnect, projectionVars
<1>6. CASE ReconnectFails
  BY <1>6 DEF MarketTypeOK, ReconnectFails, MarketFault, ScheduleReconnect, projectionVars
<1>7. CASE EachMessage
  <2>1. marketPosition + 1 \in 1..Len(marketLog) /\ Len(marketLog) \in Nat
    BY <1>7 DEF MarketTypeOK, EachMessage
  <2>2. marketLog[marketPosition + 1] \in Updates
    BY <2>1 DEF MarketTypeOK
  <2>3. projected' \in [Feeds -> 0..MaxUpdates]
    <3> DEFINE u == marketLog[marketPosition + 1]
    <3>1. u.feed \in Feeds /\ u.number \in 1..MaxUpdates
      BY <2>2 DEF Updates
    <3>2. projected' = [projected EXCEPT ![u.feed] = u.number]
      BY <1>7 DEF EachMessage, ProjectMarketEvent
    <3>3. projected \in [Feeds -> 0..MaxUpdates]
      BY DEF MarketTypeOK
    <3> HIDE DEF u
    <3>4. u.number \in 0..MaxUpdates
      BY <3>1
    <3> QED BY <3>1, <3>2, <3>3, <3>4
  <2>4. /\ marketPosition' = marketPosition + 1
        /\ UNCHANGED <<streamVars, marketLog, marketCommitted, active, backfill, marketFaults>>
    BY <1>7 DEF EachMessage, ProjectMarketEvent
  <2>5. marketPosition' \in 0..Len(marketLog) /\ marketCommitted \in 0..marketPosition'
    BY <2>1, <2>4 DEF MarketTypeOK
  <2> QED BY <2>3, <2>4, <2>5 DEF MarketTypeOK, streamVars
<1>8. CASE ProjectionThrows
  BY <1>8 DEF MarketTypeOK, ProjectionThrows, streamVars
<1>9. CASE CommitMarketOffset
  BY <1>9 DEF MarketTypeOK, CommitMarketOffset, streamVars
<1>10. CASE ProjectionRestarts
  BY <1>10 DEF MarketTypeOK, ProjectionRestarts, MarketFault, streamVars
<1>11. ASSUME NEW f \in Feeds, TickerExpires(f) PROVE MarketTypeOK'
  BY <1>11 DEF MarketTypeOK, TickerExpires, streamVars
<1>12. ASSUME NEW f \in Feeds, HaltPair(f) \/ ResumePair(f) PROVE MarketTypeOK'
  BY <1>12 DEF MarketTypeOK, HaltPair, ResumePair, MarketFault, streamVars
<1>13. ASSUME NEW f \in Feeds, FetchPage(f) PROVE MarketTypeOK'
  <2>1. [feed |-> f, number |-> provided[f]] \in Updates
    BY <1>13 DEF MarketTypeOK, FetchPage, Updates
  <2>2. backfill' \in [pc : {"store", "done"}, update : Updates]
    BY <1>13, <2>1 DEF FetchPage
  <2> QED BY <1>13, <2>2 DEF MarketTypeOK, FetchPage, streamVars, projectionVars
<1>14. CASE StorePage
  <2>1. backfill \in [pc : {"store", "done"}, update : Updates]
    BY <1>14 DEF MarketTypeOK, StorePage, NoBackfill
  <2>2. backfill' \in [pc : {"store", "done"}, update : Updates]
    BY <1>14, <2>1 DEF StorePage
  <2>3. projected' \in [Feeds -> 0..MaxUpdates]
    <3>1. backfill.update.number \in 0..MaxUpdates
      BY <2>1 DEF Updates
    <3>2. projected \in [Feeds -> 0..MaxUpdates]
      BY DEF MarketTypeOK
    <3>3. \/ projected' = projected
          \/ projected' = [projected EXCEPT ![backfill.update.feed] = backfill.update.number]
      BY <1>14 DEF StorePage, ProjectMarketEvent
    <3> QED BY <3>1, <3>2, <3>3
  <2> QED BY <1>14, <2>2, <2>3 DEF MarketTypeOK, StorePage, streamVars
<1>15. CASE UNCHANGED marketVars
  BY <1>15 DEF MarketTypeOK, marketVars, streamVars, projectionVars
<1> QED BY <1>1, <1>2, <1>3, <1>4, <1>5, <1>6, <1>7, <1>8, <1>9, <1>10, <1>11,
           <1>12, <1>13, <1>14, <1>15 DEF MarketNext, Stream, Projection

(* The last message of a feed stays shown, whatever is delivered again,    *)
(* held up or expires on the way (projectMarketEvent).                     *)
LEMMA LastStaysShown ==
  ASSUME MarketInv, [MarketNext]_marketVars
  PROVE  LastIsShown'
<1> USE MarketAssumption
<1> DEFINE N == Len(marketLog)
<1>0. /\ N \in Nat /\ DOMAIN marketLog = 1..N /\ marketPosition \in 0..N
      /\ marketCommitted \in 0..marketPosition
      /\ \A j \in 1..N : marketLog[j] \in Updates
  BY DEF MarketInv, MarketTypeOK
\* A partition that only grew, behind the position.
<1>1. ASSUME marketLog' = marketLog \/ \E u \in Updates : marketLog' = Append(marketLog, u),
             UNCHANGED <<marketPosition, projected, backfill>>
      PROVE  LastIsShown'
  <2>1. \A j \in 1..N : marketLog'[j] = marketLog[j] /\ j \in DOMAIN marketLog'
    BY <1>0, <1>1 DEF MarketInv, MarketTypeOK
  <2>2. \A f \in Feeds : Shown(f) \subseteq Shown(f)'
    BY <1>1 DEF Shown
  <2> HIDE DEF N
  <2> QED BY <1>0, <1>1, <2>1, <2>2 DEF MarketInv, LastIsShown
\* A position that went back, and nothing else that counts.
<1>2. ASSUME marketPosition' \in 0..marketPosition,
             UNCHANGED <<marketLog, projected, backfill>>
      PROVE  LastIsShown'
  <2>1. \A f \in Feeds : Shown(f) \subseteq Shown(f)'
    BY <1>2 DEF Shown
  <2> HIDE DEF N
  <2> QED BY <1>0, <1>2, <2>1 DEF MarketInv, LastIsShown
\* Nothing new in the partition, and what was shown is still.
<1>3. ASSUME \A f \in Feeds : Shown(f) \subseteq Shown(f)',
             UNCHANGED <<marketLog, marketPosition>>
      PROVE  LastIsShown'
  BY <1>3 DEF MarketInv, LastIsShown
<1>4. CASE Stream
  <2>1. marketLog' = marketLog \/ \E u \in Updates : marketLog' = Append(marketLog, u)
    <3>1. CASE PublishMarketEvent
      <4>1. Head(sending) \in Updates
        BY <3>1 DEF MarketInv, MarketTypeOK, PublishMarketEvent
      <4> QED BY <3>1, <4>1 DEF PublishMarketEvent
    <3>2. CASE PublishGoesWrong
      <4>1. \A j \in DOMAIN sending : sending[j] \in Updates
        BY DEF MarketInv, MarketTypeOK
      <4> QED BY <3>2, <4>1 DEF PublishGoesWrong
    <3> QED BY <1>4, <3>1, <3>2 DEF Stream, Provide, SocketCloses, Reconnect, ReconnectFails
  <2>2. UNCHANGED <<marketPosition, projected, backfill>>
    BY <1>4 DEF Stream, Provide, PublishMarketEvent, PublishGoesWrong, SocketCloses,
                Reconnect, ReconnectFails, projectionVars
  <2> QED BY <1>1, <2>1, <2>2
<1>5. CASE EachMessage
  <2>0. PICK u : u = marketLog[marketPosition + 1]
    OBVIOUS
  <2>1. /\ marketPosition + 1 \in 1..N /\ u \in Updates /\ marketPosition' = marketPosition + 1
        /\ projected' = [projected EXCEPT ![u.feed] = u.number]
        /\ UNCHANGED <<marketLog, backfill>>
    BY <1>0, <1>5, <2>0 DEF EachMessage, ProjectMarketEvent
  <2>2. u.feed \in Feeds /\ u.number \in 0..MaxUpdates /\ projected \in [Feeds -> 0..MaxUpdates]
    <3>1. u.feed \in Feeds /\ u.number \in 0..MaxUpdates
      BY <2>1 DEF Updates
    <3> QED BY <3>1 DEF MarketInv, MarketTypeOK
  <2>3. u.number \in Shown(u.feed)'
    BY <2>1, <2>2 DEF Shown
  <2>4. \A f \in Feeds \ {u.feed} : Shown(f) \subseteq Shown(f)'
    BY <2>1, <2>2 DEF Shown
  <2>5. SUFFICES ASSUME NEW f \in Feeds
        PROVE  /\ \A q \in 1..marketPosition' :
                     /\ marketLog[q].feed = f
                     /\ \A j \in DOMAIN marketLog : marketLog[j].feed = f => j <= q
                     => marketLog[q].number \in Shown(f)'
               /\ (\A j \in DOMAIN marketLog : marketLog[j].feed # f) => 0 \in Shown(f)'
    BY <2>1 DEF LastIsShown
  <2> HIDE DEF N
  <2>6. CASE f = u.feed
    <3>1. ASSUME NEW q \in 1..marketPosition', marketLog[q].feed = f,
                 \A j \in DOMAIN marketLog : marketLog[j].feed = f => j <= q
          PROVE  q = marketPosition + 1
      BY <1>0, <2>0, <2>1, <2>6, <3>1
    <3>2. ASSUME \A j \in DOMAIN marketLog : marketLog[j].feed # f PROVE FALSE
      BY <1>0, <2>0, <2>1, <2>6, <3>2
    <3> QED BY <2>0, <2>3, <2>6, <3>1, <3>2
  <2>7. CASE f # u.feed
    <3>1. ASSUME NEW q \in 1..marketPosition', marketLog[q].feed = f
          PROVE  q \in 1..marketPosition
      BY <1>0, <2>0, <2>1, <2>7, <3>1
    <3> QED BY <2>4, <2>7, <3>1 DEF MarketInv, LastIsShown
  <2> QED BY <2>6, <2>7
<1>6. CASE ProjectionThrows \/ ProjectionRestarts
  BY <1>0, <1>2, <1>6 DEF ProjectionThrows, ProjectionRestarts
<1>7. ASSUME NEW f \in Feeds, TickerExpires(f) PROVE LastIsShown'
  <2>1. \A g \in Feeds : Shown(g) \subseteq Shown(g)'
    BY <1>7 DEF TickerExpires, Shown, MarketInv, MarketTypeOK
  <2> QED BY <1>3, <1>7, <2>1 DEF TickerExpires
<1>8. ASSUME NEW f \in Feeds, FetchPage(f) PROVE LastIsShown'
  <2>1. \A g \in Feeds : Shown(g) \subseteq Shown(g)'
    BY <1>8 DEF FetchPage, Shown, NoBackfill, projectionVars
  <2> QED BY <1>3, <1>8, <2>1 DEF FetchPage, projectionVars
<1>9. CASE StorePage
  <2>1. backfill.pc = "store" /\ backfill \in [pc : {"store", "done"}, update : Updates]
    BY <1>9 DEF MarketInv, MarketTypeOK, StorePage, NoBackfill
  <2> DEFINE u == backfill.update
  <2>2. u \in Updates /\ u.feed \in Feeds /\ u = [feed |-> u.feed, number |-> u.number]
    BY <2>1 DEF Updates
  <2>3. backfill'.pc = "done" /\ backfill'.update = u
    BY <1>9, <2>1 DEF StorePage
  <2>4. projected \in [Feeds -> 0..MaxUpdates]
    BY DEF MarketInv, MarketTypeOK
  <2>5. \/ projected' = projected
        \/ /\ projected' = [projected EXCEPT ![u.feed] = u.number]
           /\ u.feed \in CandleFeeds
    BY <1>9 DEF StorePage, ProjectMarketEvent, MarketInv, MarketTypeOK
  <2>6. \A g \in Feeds : Shown(g) \subseteq Shown(g)'
    <3> SUFFICES ASSUME NEW g \in Feeds, NEW n \in Shown(g) PROVE n \in Shown(g)'
      OBVIOUS
    <3>1. projected[g] = n \/ (g \notin CandleFeeds /\ projected[g] = 0)
      BY <2>1 DEF Shown
    <3>2. CASE projected'[g] = projected[g]
      BY <3>1, <3>2 DEF Shown
    <3>3. CASE projected'[g] # projected[g]
      <4>1. g = u.feed /\ projected'[g] = u.number /\ g \in CandleFeeds
        BY <2>4, <2>5, <3>3
      <4> QED BY <2>2, <2>3, <4>1 DEF Shown
    <3> QED BY <3>2, <3>3
  <2> QED BY <1>3, <1>9, <2>6 DEF StorePage
<1>10. ASSUME NEW f \in Feeds, HaltPair(f) \/ ResumePair(f) PROVE LastIsShown'
  BY <1>10, <1>1 DEF HaltPair, ResumePair
<1>11. CASE CommitMarketOffset \/ UNCHANGED marketVars
  BY <1>11, <1>1 DEF CommitMarketOffset, marketVars, projectionVars
<1> QED BY <1>4, <1>5, <1>6, <1>7, <1>8, <1>9, <1>10, <1>11 DEF MarketNext, Projection

(* Without a failure no update is lost or overtaken on its way             *)
(* (startMarketDataStreamWorker, publishMarketEvent).                      *)
LEMMA NothingGetsLost ==
  ASSUME MarketInv, [MarketNext]_marketVars
  PROVE  NothingLost'
<1> USE MarketAssumption
<1>0. /\ marketFaults \in Nat /\ marketLog \in Seq(Updates) /\ sending \in Seq(Updates)
      /\ provided \in [Feeds -> 0..MaxUpdates] /\ marketLog \o sending \in Seq(Updates)
  BY DEF MarketInv, MarketTypeOK
<1>1. CASE MarketFault
  BY <1>0, <1>1 DEF MarketFault, NothingLost
<1>2. CASE UNCHANGED <<marketFaults, socket, marketLog, sending, provided>>
  BY <1>2 DEF MarketInv, NothingLost
<1>3. ASSUME NEW f \in Feeds, Provide(f) PROVE NothingLost'
  <2> SUFFICES ASSUME marketFaults = 0
               PROVE  socket = "open" /\ \A g \in Feeds : IsLast(marketLog \o sending', g, provided'[g])
    BY <1>3 DEF NothingLost, Provide
  <2> DEFINE u == [feed |-> f, number |-> provided[f] + 1]
  <2>1. socket = "open" /\ \A g \in Feeds : IsLast(marketLog \o sending, g, provided[g])
    BY DEF MarketInv, NothingLost
  <2>2. /\ u \in Updates /\ u.feed = f /\ u.number = provided[f] + 1
        /\ provided' = [provided EXCEPT ![f] = u.number]
    BY <1>0, <1>3 DEF Provide, Updates
  <2>3. sending' = Append(sending, u)
    BY <1>0, <1>3, <2>1, <2>2 DEF Provide
  <2> HIDE DEF u
  <2>4. marketLog \o sending' = Append(marketLog \o sending, u)
    BY <1>0, <2>2, <2>3, SentInOrder
  <2>5. ASSUME NEW g \in Feeds PROVE IsLast(marketLog \o sending', g, provided'[g])
    <3>1. CASE g = f
      BY <1>0, <2>2, <2>4, <3>1, LastAppended
    <3>2. CASE g # f
      <4>1. provided'[g] = provided[g] /\ u.feed # g
        BY <1>0, <2>2, <3>2
      <4> QED BY <1>0, <2>1, <2>2, <2>4, <4>1, LastAppended
    <3> QED BY <3>1, <3>2
  <2> QED BY <2>1, <2>5
<1>4. CASE PublishMarketEvent
  <2>1. marketLog' \o sending' = marketLog \o sending
    BY <1>0, <1>4, SentInOrder DEF PublishMarketEvent
  <2> QED BY <1>4, <2>1 DEF PublishMarketEvent, MarketInv, NothingLost
<1>5. CASE Reconnect
  BY <1>5 DEF Reconnect, MarketInv, NothingLost
<1>6. CASE PublishGoesWrong \/ SocketCloses \/ ReconnectFails
  BY <1>1, <1>6 DEF PublishGoesWrong, SocketCloses, ReconnectFails
<1>7. CASE Projection
  BY <1>1, <1>2, <1>7 DEF Projection, EachMessage, ProjectionThrows, CommitMarketOffset,
       ProjectionRestarts, TickerExpires, HaltPair, ResumePair, FetchPage, StorePage, streamVars
<1>8. CASE UNCHANGED marketVars
  BY <1>2, <1>8 DEF marketVars, streamVars
<1> QED BY <1>3, <1>4, <1>5, <1>6, <1>7, <1>8 DEF MarketNext, Stream

(* The inductive invariant of the reference market: its types, the last    *)
(* message shown behind the projection's position, nothing lost without a  *)
(* failure.                                                                *)
THEOREM MarketInvariant == MarketSpec => []MarketInv
<1>1. MarketInit => MarketInv
  <2> SUFFICES ASSUME MarketInit PROVE MarketInv
    OBVIOUS
  <2>1. MarketTypeOK
    BY MarketAssumption DEF MarketInit, MarketTypeOK
  <2>2. LastIsShown
    <3>1. \A f \in Feeds : 0 \in Shown(f)
      <4> SUFFICES ASSUME NEW f \in Feeds PROVE 0 \in Shown(f)
        OBVIOUS
      <4>1. projected[f] = 0 /\ 0 \in 0..MaxUpdates
        BY MarketAssumption DEF MarketInit, MarketAssumption
      <4> QED BY <4>1 DEF Shown
    <3>2. 1..marketPosition = {}
      BY DEF MarketInit
    <3> QED BY <3>1, <3>2 DEF LastIsShown
  <2>3. marketLog \o sending = << >>
    BY DEF MarketInit
  <2>4. NothingLost
    BY <2>3 DEF MarketInit, NothingLost, IsLast
  <2> QED BY <2>1, <2>2, <2>4 DEF MarketInv
<1>2. MarketInv /\ [MarketNext]_marketVars => MarketInv'
  BY MarketTypesStay, LastStaysShown, NothingGetsLost DEF MarketInv
<1> QED BY <1>1, <1>2, PTL DEF MarketSpec

(* The last message of a feed is what LastLogged finds, and there is one   *)
(* unless there is none at all.                                            *)
LEMMA LastIsLogged ==
  ASSUME NEW f \in Feeds, NEW q \in DOMAIN marketLog, MarketTypeOK, marketLog[q].feed = f,
         \A j \in DOMAIN marketLog : marketLog[j].feed = f => j <= q
  PROVE  LastLogged(f) = marketLog[q].number
<1> DEFINE at == {i \in DOMAIN marketLog : marketLog[i].feed = f}
           c == CHOOSE i \in at : \A j \in at : j <= i
<1>1. at \subseteq Int
  BY DEF MarketTypeOK
<1>2. q \in at /\ \A j \in at : j <= q
  OBVIOUS
<1>3. c \in at /\ \A j \in at : j <= c
  BY <1>2
<1>4. LastLogged(f) = marketLog[c].number
  BY <1>2 DEF LastLogged
<1>5. c = q
  <2>1. c \in Int /\ q \in Int
    BY <1>1, <1>2, <1>3
  <2>2. c <= q /\ q <= c
    BY <1>2, <1>3
  <2> HIDE DEF c
  <2> QED BY <2>1, <2>2
<1> QED BY <1>4, <1>5

(* A feed with a message in the log has a last one.                        *)
LEMMA SomeIsLast ==
  ASSUME NEW f \in Feeds, NEW k \in DOMAIN marketLog, MarketTypeOK, marketLog[k].feed = f
  PROVE  \E q \in DOMAIN marketLog :
            /\ marketLog[q].feed = f
            /\ \A j \in DOMAIN marketLog : marketLog[j].feed = f => j <= q
<1> DEFINE at == {i \in DOMAIN marketLog : marketLog[i].feed = f}
<1>1. at # {}
  OBVIOUS
<1>2. at \in SUBSET Nat /\ IsFiniteSet(at)
  <2>1. IsFiniteSet(1..Len(marketLog)) /\ DOMAIN marketLog = 1..Len(marketLog)
    BY FS_Interval DEF MarketTypeOK
  <2>2. at \in SUBSET (1..Len(marketLog)) /\ at \in SUBSET Nat
    BY <2>1
  <2>3. IsFiniteSet(at)
    <3> HIDE DEF at
    <3> QED BY <2>1, <2>2, FS_Subset
  <2> QED BY <2>2, <2>3
<1>3. Max(at) \in at /\ \A y \in at : Max(at) >= y
  <2> HIDE DEF at
  <2> QED BY <1>1, <1>2, MaxOfFinite
<1>4. PICK q \in at : \A y \in at : q >= y
  BY <1>3
<1>5. \A j \in at : j <= q
  BY <1>2, <1>4
<1> QED BY <1>4, <1>5

(* ProjectionFaithful of the services run: what is stored is what the      *)
(* provider said last, as far as it was published (marketProjection        *)
(* worker, projectMarketEvent).                                            *)
THEOREM MarketProjectionFaithful == MarketSpec => []ProjectionFaithful
<1>1. MarketInv => ProjectionFaithful
  <2> SUFFICES ASSUME MarketInv PROVE ShowsLastMessage /\ NothingOvertakes
    BY DEF ProjectionFaithful
  <2>0. MarketTypeOK /\ DOMAIN marketLog = 1..Len(marketLog)
    BY DEF MarketInv, MarketTypeOK
  <2>1. ShowsLastMessage
    <3> SUFFICES ASSUME CaughtUp, NEW f \in Feeds PROVE LastLogged(f) \in Shown(f)
      BY DEF ShowsLastMessage, Shown
    <3>1. DOMAIN marketLog = 1..marketPosition
      BY <2>0 DEF CaughtUp
    <3>2. CASE \E k \in DOMAIN marketLog : marketLog[k].feed = f
      <4>1. PICK q \in DOMAIN marketLog :
                  /\ marketLog[q].feed = f
                  /\ \A j \in DOMAIN marketLog : marketLog[j].feed = f => j <= q
        BY <2>0, <3>2, SomeIsLast
      <4>2. LastLogged(f) = marketLog[q].number
        BY <2>0, <4>1, LastIsLogged
      <4> QED BY <3>1, <4>1, <4>2 DEF MarketInv, LastIsShown
    <3>3. CASE \A k \in DOMAIN marketLog : marketLog[k].feed # f
      <4>1. LastLogged(f) = 0
        BY <3>3 DEF LastLogged
      <4> QED BY <3>3, <4>1 DEF MarketInv, LastIsShown
    <3> QED BY <3>2, <3>3
  <2>2. NothingOvertakes
    <3> SUFFICES ASSUME sending = << >>, marketFaults = 0, NEW f \in Feeds
                 PROVE  LastLogged(f) = provided[f]
      BY DEF NothingOvertakes
    <3>1. marketLog \o sending = marketLog
      BY <2>0, SentInOrder DEF MarketTypeOK
    <3>2. IsLast(marketLog, f, provided[f])
      BY <3>1 DEF MarketInv, NothingLost
    <3>3. CASE provided[f] = 0 /\ \A j \in DOMAIN marketLog : marketLog[j].feed # f
      BY <3>3 DEF LastLogged
    <3> QED BY <2>0, <3>2, <3>3, LastIsLogged DEF IsLast
  <2> QED BY <2>1, <2>2
<1> QED BY <1>1, MarketInvariant, PTL
-------------------------------------------------------------------------------
(* RateLimiters.                                                           *)

\* A request that has its stamp runs its script within the delay.
StampsInTime ==
    \A c \in Callers : stamp[c] # NoStamp =>
       stamp[c].at <= clock /\ clock <= stamp[c].at + MaxDelay

\* What was drawn and what is left flowed in by the time of the bucket, and a
\* bucket that gave something is kept for its full time from then on.
BucketPaid ==
    /\ drawn * SCALE + bucket.tokensScaled
          <= capacity * SCALE + refillRatePerMsScaled * (bucket.updatedAt + setBack)
    /\ bucket.updatedAt <= clock
    /\ drawn > 0 => bucket.updatedAt + ttlMs <= bucket.expiresAt

\* The numbers of the buckets are whole and fit together.
LEMMA BucketNumbers ==
  /\ {windowMs, maxRequests, capacity, refillTokens, refillIntervalMs, SCALE} \subseteq Nat \ {0}
  /\ MaxTime \in Nat /\ MaxDelay \in Nat
  /\ refillRatePerMsScaled \in Nat /\ ttlMs \in Nat /\ capacity * SCALE \in Nat
<1>1. /\ {windowMs, maxRequests, capacity, refillTokens, refillIntervalMs, SCALE}
            \subseteq Nat \ {0}
      /\ MaxTime \in Nat /\ MaxDelay \in Nat
  BY LimiterAssumption
<1>2. refillTokens * SCALE \in Nat /\ capacity * SCALE \in Nat
      /\ 2 * capacity * refillIntervalMs + refillTokens - 1 \in Nat
  BY <1>1
<1>3. refillRatePerMsScaled \in Nat
  BY <1>1, <1>2 DEF refillRatePerMsScaled
<1>4. ttlMs \in Nat
  BY <1>1, <1>2 DEF ttlMs
<1> QED BY <1>1, <1>2, <1>3, <1>4

(* The larger and the smaller of two, as Lua's math.max and math.min.      *)
LEMMA LargerOfTwo ==
  ASSUME NEW a \in Int, NEW b \in Int
  PROVE  Max({a, b}) = IF a <= b THEN b ELSE a
<1> DEFINE c == IF a <= b THEN b ELSE a
<1>1. c \in {a, b} /\ \A y \in {a, b} : c >= y
  OBVIOUS
<1>2. \A d \in {a, b} : (\A y \in {a, b} : d >= y) => d = c
  OBVIOUS
<1> HIDE DEF c
<1> QED BY <1>1, <1>2 DEF Max

(* One run of the bucket's script, as numbers: R per ms flow in up to C,   *)
(* what was drawn and is left stays paid for, by time that was set back if *)
(* need be.                                                                *)
LEMMA BucketFills ==
  ASSUME NEW C \in Nat, NEW R \in Nat, NEW k \in Nat, NEW D \in Nat, NEW S \in Nat,
         NEW u \in Nat, NEW t \in Nat, D + k <= C + R * (u + S),
         NEW e \in Nat, NEW back \in Nat, u + e = t + back,
         NEW filled \in 0..C, filled <= k + e * R
  PROVE  D + filled <= C + R * (t + (S + back))
<1>1. e * R \in Nat /\ R * (u + S) \in Nat
  OBVIOUS
<1>2. R * (t + (S + back)) = R * (u + S) + e * R
  <2>1. t + (S + back) = (u + S) + e
    OBVIOUS
  <2>2. R * ((u + S) + e) = R * (u + S) + R * e
    OBVIOUS
  <2> QED BY <2>1, <2>2
<1> QED BY <1>1, <1>2

(* The bucket stays paid for by whatever its script does (tokenBucket.js). *)
LEMMA BucketStaysPaid ==
  ASSUME LimiterTypeOK, StampsInTime, BucketPaid, [LimiterNext]_limiterVars
  PROVE  BucketPaid' /\ bucket' \in [tokensScaled : 0..(capacity * SCALE), updatedAt : Times,
                                     expiresAt : Nat] /\ drawn' \in Nat /\ setBack' \in Nat
<1> USE BucketNumbers
<1> DEFINE C == capacity * SCALE
           R == refillRatePerMsScaled
           typed(b) == b \in [tokensScaled : 0..C, updatedAt : Times, expiresAt : Nat]
<1>0. /\ clock \in Nat /\ drawn \in Nat /\ setBack \in Nat /\ typed(bucket)
      /\ bucket.tokensScaled \in 0..C /\ bucket.updatedAt \in Nat /\ bucket.expiresAt \in Nat
  BY DEF LimiterTypeOK, Times
<1>1. CASE UNCHANGED tokenBucket /\ clock' \in Nat /\ clock <= clock'
  <2>1. bucket' = bucket /\ drawn' = drawn /\ setBack' = setBack
    BY <1>1 DEF tokenBucket
  <2>2. bucket.updatedAt <= clock'
    BY <1>0, <1>1 DEF BucketPaid
  <2> QED BY <1>0, <2>1, <2>2 DEF BucketPaid
<1>2. ASSUME NEW c \in Callers, TokenBucket(c)
      PROVE  BucketPaid' /\ typed(bucket') /\ drawn' \in Nat /\ setBack' \in Nat
  <2>1. PICK t : t = stamp[c].at
    OBVIOUS
  <2>2. /\ t \in Times /\ t \in Nat /\ t <= clock /\ clock <= t + MaxDelay
    <3>1. stamp[c] # NoStamp
      BY <1>2 DEF TokenBucket, NoStamp
    <3> QED BY <2>1, <3>1 DEF StampsInTime, LimiterTypeOK, Times
  <2>3. PICK filled, more, back :
          /\ filled = Refilled(t) /\ more = (IF Enough(t) THEN 1 ELSE 0)
          /\ back = (IF BucketThere THEN Max({0, bucket.updatedAt - t}) ELSE 0)
    OBVIOUS
  <2>4. /\ bucket' = [tokensScaled |-> filled - (IF Enough(t) THEN SCALE ELSE 0),
                      updatedAt |-> t, expiresAt |-> clock + ttlMs]
        /\ drawn' = drawn + more /\ setBack' = setBack + back /\ clock' = clock
    BY <1>2, <2>1, <2>3 DEF TokenBucket, Taken
  <2>5. more * SCALE = (IF Enough(t) THEN SCALE ELSE 0)
        /\ more \in Nat /\ (filled >= SCALE \/ more = 0)
    BY <2>3 DEF Enough
  <2>6. drawn * SCALE \in Nat
    BY <1>0
  <2>7. filled \in 0..C /\ back \in Nat
        /\ drawn * SCALE + filled <= C + R * (t + (setBack + back))
    <3>1. CASE BucketThere
      <4>1. filled = Min({C, bucket.tokensScaled + Max({0, t - bucket.updatedAt}) * R})
        BY <2>3, <3>1 DEF Refilled
      <4>2. back = Max({0, bucket.updatedAt - t})
        BY <2>3, <3>1
      <4>3. drawn * SCALE + bucket.tokensScaled <= C + R * (bucket.updatedAt + setBack)
        BY DEF BucketPaid
      <4> HIDE DEF C, R
      <4>4. C \in Nat /\ R \in Nat
        BY DEF C, R
      <4>5. PICK D, k, u, e : /\ D = drawn * SCALE /\ k = bucket.tokensScaled
                              /\ u = bucket.updatedAt /\ e = Max({0, t - u})
        OBVIOUS
      <4>6. /\ D \in Nat /\ k \in Nat /\ u \in Nat /\ D + k <= C + R * (u + setBack)
            /\ t \in Nat /\ setBack \in Nat
        BY <1>0, <2>2, <2>6, <4>3, <4>4, <4>5
      <4>7. e = (IF u <= t THEN t - u ELSE 0) /\ back = (IF t <= u THEN u - t ELSE 0)
        <5>1. back = Max({0, u - t})
          BY <4>2, <4>5
        <5>2. t - u \in Int /\ u - t \in Int
          BY <4>6
        <5>3. e = (IF 0 <= t - u THEN t - u ELSE 0)
          BY <4>5, <5>2, LargerOfTwo
        <5>4. back = (IF 0 <= u - t THEN u - t ELSE 0)
          <6> DEFINE d == u - t
          <6>1. d \in Int /\ 0 \in Int /\ back = Max({0, d})
            BY <5>1, <5>2
          <6> HIDE DEF d
          <6>2. back = (IF 0 <= d THEN d ELSE 0)
            BY <6>1, LargerOfTwo
          <6> QED BY <6>2 DEF d
        <5> QED BY <4>6, <5>3, <5>4
      <4>8. e \in Nat /\ back \in Nat /\ u + e = t + back
        BY <4>6, <4>7
      <4>9. filled = Min({C, k + e * R})
        BY <4>1, <4>5
      <4>10. e * R \in Nat
        BY <4>4, <4>8
      <4>11. filled \in 0..C /\ filled <= k + e * R
        BY <4>4, <4>6, <4>9, <4>10, MinOfTwo
      <4>12. D + filled <= C + R * (t + (setBack + back))
        BY <4>4, <4>6, <4>8, <4>11, BucketFills
      <4> QED BY <4>5, <4>8, <4>11, <4>12
    <3>2. CASE ~BucketThere
      <4>1. filled = C /\ back = 0
        BY <2>3, <3>2 DEF Refilled
      <4>2. CASE drawn = 0
        <5>1. R * (t + (setBack + back)) \in Nat
          BY <1>0, <2>2, <4>1
        <5> QED BY <4>1, <4>2, <5>1
      <4>3. CASE drawn > 0
        <5>1. bucket.updatedAt + ttlMs <= clock
          BY <1>0, <3>2, <4>3 DEF BucketPaid, BucketThere
        <5>2. bucket.updatedAt + (ttlMs - MaxDelay) <= t
          BY <1>0, <2>2, <5>1
        <5> DEFINE x == bucket.updatedAt + setBack  y == ttlMs - MaxDelay  z == t + setBack
        <5>3. x \in Nat /\ y \in Int /\ z \in Nat /\ x + y <= z /\ R \in Nat /\ R * y >= C
          BY <1>0, <2>2, <5>2, BucketAssumption DEF BucketAssumption
        <5>4. drawn * SCALE + bucket.tokensScaled <= C + R * x
          BY DEF BucketPaid
        <5> HIDE DEF R, x, y, z
        <5>5. R * x + R * y <= R * z
          BY <5>3
        <5>6. drawn * SCALE <= R * z
          <6> HIDE DEF C
          <6>1. C \in Nat
            BY DEF C
          <6> QED BY <1>0, <2>6, <5>3, <5>4, <5>5, <6>1
        <5> QED BY <1>0, <4>1, <5>3, <5>6 DEF z
      <4> QED BY <1>0, <4>2, <4>3
    <3> QED BY <3>1, <3>2
  <2>8. drawn' * SCALE + bucket'.tokensScaled = drawn * SCALE + filled
    <3>1. drawn' * SCALE = drawn * SCALE + more * SCALE
      BY <1>0, <2>4, <2>5
    <3>2. bucket'.tokensScaled = filled - more * SCALE
      BY <2>4, <2>5
    <3> QED BY <2>5, <2>6, <2>7, <3>1, <3>2
  <2>9. typed(bucket')
    BY <1>0, <2>2, <2>4, <2>5, <2>7
  <2>10. BucketPaid'
    BY <1>0, <2>2, <2>4, <2>7, <2>8 DEF BucketPaid
  <2> QED BY <1>0, <2>4, <2>5, <2>7, <2>9, <2>10
<1>3. CASE Tick
  BY <1>0, <1>1, <1>3 DEF Tick
<1>4. ASSUME NEW c \in Callers,
             Stamp(c, "window") \/ Stamp(c, "bucket") \/ EvalFails(c) \/ SlidingWindow(c)
      PROVE  UNCHANGED tokenBucket /\ clock' \in Nat /\ clock <= clock'
  BY <1>0, <1>4 DEF Stamp, EvalFails, SlidingWindow
<1>5. CASE UNCHANGED limiterVars
  BY <1>0, <1>1, <1>5 DEF limiterVars, tokenBucket
<1> QED BY <1>1, <1>2, <1>3, <1>4, <1>5 DEF LimiterNext

-------------------------------------------------------------------------------
\* The stamps of a window, and those of its first r + 1 ms.
Whole(w) == {t \in Times : WindowOf(t) = w}
Part(w, r) == {t \in Times : WindowOf(t) = w /\ (t % windowMs) <= r}

\* What was admitted then.
InWhole(w) == SumFunctionOnSet(admitted, Whole(w))
InPart(w, r) == SumFunctionOnSet(admitted, Part(w, r))

\* Nothing was admitted that is still to come.
NothingAhead == \A t \in Times : admitted[t] > 0 => t <= clock

\* A counter that counts is kept until the window after its own is over, and
\* counts all the window admitted as long as it is kept.
CountersKept ==
    \A w \in Windows :
       /\ counter[w].count > 0 => counter[w].expiresAt >= (w + 2) * windowMs
       /\ clock < (w + 2) * windowMs => InWhole(w) <= counter[w].count

\* A window admits its quota, and what its first ms admit is weighed with what
\* is left of the window before.
WindowsLimited ==
    \A w \in Windows :
       /\ InWhole(w) <= maxRequests
       /\ \A r \in 0..(windowMs - 1) : InPart(w + 1, r) > 0 =>
             InWhole(w) * (windowMs - r) + InPart(w + 1, r) * windowMs
                < (maxRequests + 1) * windowMs

WindowPaid == NothingAhead /\ CountersKept /\ WindowsLimited

\* The calendar: every time lies in its window.
LEMMA TimeInWindow ==
  /\ windowMs \in Nat /\ windowMs > 0 /\ MaxTime \in Nat
  /\ IsFiniteSet(Times) /\ Times \subseteq Nat
  /\ \A t \in Nat : /\ WindowOf(t) \in Nat /\ (t % windowMs) \in 0..(windowMs - 1)
                    /\ t = WindowOf(t) * windowMs + (t % windowMs)
  /\ \A t \in Times : WindowOf(t) \in Windows
<1>1. windowMs \in Nat /\ windowMs > 0 /\ MaxTime \in Nat
  BY LimiterAssumption
<1>2. IsFiniteSet(Times) /\ Times \subseteq Nat
  BY <1>1, FS_Interval DEF Times
<1>3. ASSUME NEW t \in Nat
      PROVE  /\ WindowOf(t) \in Nat /\ (t % windowMs) \in 0..(windowMs - 1)
             /\ t = WindowOf(t) * windowMs + (t % windowMs)
  BY <1>1 DEF WindowOf
<1>4. ASSUME NEW t \in Times PROVE WindowOf(t) \in Windows
  <2>1. t \in Nat /\ t <= MaxTime
    BY <1>1 DEF Times
  <2> DEFINE a == WindowOf(t)  b == WindowOf(MaxTime)  x == t % windowMs  y == MaxTime % windowMs
  <2>2. /\ a \in Nat /\ b \in Nat /\ x \in 0..(windowMs - 1) /\ y \in 0..(windowMs - 1)
        /\ t = a * windowMs + x /\ MaxTime = b * windowMs + y
    BY <1>1, <1>3, <2>1
  <2>3. Windows = 0..b
    BY DEF Windows
  <2> HIDE DEF a, b, x, y
  <2>4. ~(b + 1 <= a)
    <3> SUFFICES ASSUME b + 1 <= a PROVE FALSE
      OBVIOUS
    <3>1. PICK k \in Nat : a = b + 1 + k
      <4>1. a - (b + 1) \in Nat /\ a = b + 1 + (a - (b + 1))
        BY <2>2
      <4> QED BY <4>1
    <3>2. a * windowMs = b * windowMs + windowMs + k * windowMs
      BY <1>1, <2>2, <3>1
    <3>3. k * windowMs \in Nat /\ b * windowMs \in Nat
      BY <1>1, <2>2, <3>1
    <3> QED BY <1>1, <2>1, <2>2, <3>2, <3>3
  <2>5. a \in Windows
    BY <2>2, <2>3, <2>4
  <2> QED BY <2>5 DEF a
<1> QED BY <1>1, <1>2, <1>3, <1>4

\* The sums are numbers, and a part admits no more than the whole.
LEMMA PartsOfWindows ==
  ASSUME admitted \in [Times -> Nat], NEW w, NEW r
  PROVE  /\ InWhole(w) \in Nat /\ InPart(w, r) \in Nat /\ InPart(w, r) <= InWhole(w)
         /\ IsFiniteSet(Whole(w)) /\ IsFiniteSet(Part(w, r))
<1>1. Whole(w) \in SUBSET Times /\ Part(w, r) \in SUBSET Whole(w)
  BY DEF Whole, Part
<1>2. IsFiniteSet(Whole(w)) /\ \A t \in Whole(w) : admitted[t] \in Nat
  BY <1>1, TimeInWindow, FS_Subset
<1>3. IsFiniteSet(Part(w, r))
  BY <1>1, <1>2, FS_Subset
<1> QED BY <1>1, <1>2, <1>3, SumOfParts DEF InWhole, InPart

\* Where the window stands: a later window is a later time.
LEMMA WindowsInOrder ==
  ASSUME NEW t \in Nat, NEW w \in Nat
  PROVE  /\ WindowOf(t) >= w <=> t >= w * windowMs
         /\ WindowOf(t) < w <=> t < w * windowMs
<1> DEFINE a == WindowOf(t)  x == t % windowMs
<1>1. /\ windowMs \in Nat /\ windowMs > 0 /\ a \in Nat /\ x \in 0..(windowMs - 1)
      /\ t = a * windowMs + x
  BY TimeInWindow
<1> HIDE DEF a, x
<1>2. ASSUME a >= w PROVE t >= w * windowMs
  <2>1. PICK k \in Nat : a = w + k
    <3>1. a - w \in Nat /\ a = w + (a - w)
      BY <1>1, <1>2
    <3> QED BY <3>1
  <2>2. a * windowMs = w * windowMs + k * windowMs
    BY <1>1, <2>1
  <2>3. k * windowMs \in Nat /\ w * windowMs \in Nat
    BY <1>1
  <2> QED BY <1>1, <2>2, <2>3
<1>3. ASSUME a < w PROVE t < w * windowMs
  <2>1. PICK k \in Nat : w = a + 1 + k
    <3>1. w - (a + 1) \in Nat /\ w = a + 1 + (w - (a + 1))
      BY <1>1, <1>3
    <3> QED BY <3>1
  <2>2. w * windowMs = a * windowMs + windowMs + k * windowMs
    BY <1>1, <2>1
  <2>3. k * windowMs \in Nat /\ a * windowMs \in Nat
    BY <1>1
  <2> QED BY <1>1, <2>2, <2>3
<1>4. w * windowMs \in Nat
  BY <1>1
<1> QED BY <1>1, <1>2, <1>3, <1>4 DEF a

\* What lies below the limit: by the code's estimate, rounded down, and so by
\* the weights themselves.
LEMMA BelowByWeight ==
  ASSUME NEW C1 \in Nat, NEW C0 \in Nat, NEW x \in Nat, NEW W \in Nat, W > 0,
         NEW S \in Nat, S > 0, NEW M \in Nat, C1 * S + ((C0 * x * S) \div W) < M * S
  PROVE  C1 < M /\ C1 * W + C0 * x < M * W
<1>1. PICK y : y = C0 * x
  OBVIOUS
<1>2. y \in Nat /\ y * S \in Nat
  BY <1>1
<1>3. PICK q, z : q = (y * S) \div W /\ z = (y * S) % W
  OBVIOUS
<1>4. q \in Nat /\ z \in 0..(W - 1) /\ y * S = q * W + z
  BY <1>2, <1>3
<1>5. C1 * S + q < M * S
  BY <1>1, <1>3
<1>6. C1 < M
  <2>1. ASSUME C1 >= M PROVE FALSE
    <3>1. PICK k \in Nat : C1 = M + k
      <4>1. C1 - M \in Nat /\ C1 = M + (C1 - M)
        BY <2>1
      <4> QED BY <4>1
    <3>2. C1 * S = M * S + k * S /\ k * S \in Nat /\ M * S \in Nat
      BY <3>1
    <3> QED BY <1>4, <1>5, <3>2
  <2> QED BY <2>1
<1>7. PICK k \in Nat : M = C1 + k
  <2>1. M - C1 \in Nat /\ M = C1 + (M - C1)
    BY <1>6
  <2> QED BY <2>1
<1>8. q < k * S
  <2>1. M * S = C1 * S + k * S /\ C1 * S \in Nat /\ k * S \in Nat
    BY <1>7
  <2> QED BY <1>4, <1>5, <2>1
<1>9. y < k * W
  <2>1. ASSUME y >= k * W PROVE FALSE
    <3>1. PICK e \in Nat : y = k * W + e
      <4>1. k * W \in Nat
        OBVIOUS
      <4>2. y - k * W \in Nat /\ y = k * W + (y - k * W)
        BY <1>2, <2>1, <4>1
      <4> QED BY <4>2
    <3>2. PICK g \in Nat : k * S = q + 1 + g
      <4>1. k * S \in Nat
        OBVIOUS
      <4>2. k * S - (q + 1) \in Nat /\ k * S = q + 1 + (k * S - (q + 1))
        BY <1>4, <1>8, <4>1
      <4> QED BY <4>2
    <3>3. y * S = (k * S) * W + e * S
      BY <3>1
    <3>4. (k * S) * W = q * W + W + g * W
      BY <1>4, <3>2
    <3>5. e * S \in Nat /\ g * W \in Nat /\ q * W \in Nat
      BY <1>4
    <3> QED BY <1>4, <3>3, <3>4, <3>5
  <2> QED BY <1>2, <2>1
<1>10. M * W = C1 * W + k * W /\ C1 * W \in Nat /\ k * W \in Nat
  BY <1>7
<1> QED BY <1>1, <1>2, <1>6, <1>9, <1>10

\* What the script weighed bounds what is admitted with the request it lets by.
LEMMA WeightsAdd ==
  ASSUME NEW C0 \in Nat, NEW C1 \in Nat, NEW x \in Nat, NEW W \in Nat, NEW M \in Nat,
         C1 * W + C0 * x < M * W,
         NEW A \in Nat, A <= C0, NEW P \in Nat, P <= C1 + 1, NEW y \in Nat, y <= x
  PROVE  A * y + P * W < (M + 1) * W
<1>1. PICK a \in Nat : C0 = A + a
  <2>1. C0 - A \in Nat /\ C0 = A + (C0 - A)
    OBVIOUS
  <2> QED BY <2>1
<1>2. PICK b \in Nat : x = y + b
  <2>1. x - y \in Nat /\ x = y + (x - y)
    OBVIOUS
  <2> QED BY <2>1
<1>3. PICK p \in Nat : C1 + 1 = P + p
  <2>1. (C1 + 1) - P \in Nat /\ C1 + 1 = P + ((C1 + 1) - P)
    OBVIOUS
  <2> QED BY <2>1
<1>4. C0 * x = A * y + (A * b + a * y + a * b)
  BY <1>1, <1>2
<1>5. C1 * W + W = P * W + p * W
  <2>1. (C1 + 1) * W = C1 * W + W /\ (P + p) * W = P * W + p * W
    OBVIOUS
  <2> QED BY <1>3, <2>1
<1>6. A * b + a * y + a * b \in Nat /\ p * W \in Nat /\ A * y \in Nat /\ P * W \in Nat
      /\ C1 * W \in Nat /\ M * W \in Nat /\ (M + 1) * W = M * W + W
  BY <1>1, <1>2, <1>3
<1> QED BY <1>4, <1>5, <1>6

\* A counter that is kept counts all its window admitted.
LEMMA CountKnows ==
  ASSUME LimiterTypeOK, CountersKept, NEW v \in Windows, clock < (v + 2) * windowMs
  PROVE  InWhole(v) <= Count(v)
<1>1. windowMs \in Nat /\ v \in Nat /\ clock \in Nat /\ maxRequests \in Nat
  <2>1. WindowOf(MaxTime) \in Nat /\ windowMs \in Nat /\ Times \subseteq Nat
    BY TimeInWindow
  <2>2. Windows \subseteq Nat
    BY <2>1 DEF Windows
  <2> QED BY <2>1, <2>2, LimiterAssumption DEF LimiterTypeOK
<1>2. counter[v].count \in Nat /\ counter[v].expiresAt \in Nat
  <2>1. counter[v] \in [count : 0..maxRequests, expiresAt : Nat]
    BY DEF LimiterTypeOK
  <2>2. counter[v].count \in 0..maxRequests /\ counter[v].expiresAt \in Nat
    BY <2>1
  <2> QED BY <1>1, <2>2
<1>3. PICK e : e = (v + 2) * windowMs
  OBVIOUS
<1>4. /\ e \in Nat /\ clock < e /\ InWhole(v) <= counter[v].count
      /\ counter[v].count > 0 => counter[v].expiresAt >= e
  BY <1>1, <1>3 DEF CountersKept
<1>5. InWhole(v) \in Nat
  BY PartsOfWindows DEF LimiterTypeOK
<1>6. CASE counter[v].count > 0
  <2>1. counter[v].expiresAt > clock
    BY <1>1, <1>2, <1>4, <1>6
  <2> QED BY <1>4, <2>1 DEF Count
<1>7. CASE counter[v].count = 0
  <2>1. InWhole(v) = 0
    BY <1>4, <1>5, <1>7
  <2> QED BY <1>2, <1>7, <2>1 DEF Count
<1> QED BY <1>2, <1>6, <1>7

\* One run of the window's script keeps all that is known of the counters and
\* of what they admit (slidingWindowCounter.js).
LEMMA WindowStep ==
  ASSUME LimiterTypeOK, StampsInTime, WindowPaid, NEW c \in Callers, SlidingWindow(c),
         BelowLimit(stamp[c].at)
  PROVE  /\ WindowPaid'
         /\ counter' \in [Windows -> [count : 0..maxRequests, expiresAt : Nat]]
         /\ admitted' \in [Times -> Nat]
<1> DEFINE W == windowMs
<1>1. PICK t, w, d : /\ t = stamp[c].at /\ w = WindowOf(t)
                     /\ d = (IF WindowOf(clock) = w THEN 1 ELSE 0)
  OBVIOUS
<1>2. /\ W \in Nat /\ W > 0 /\ maxRequests \in Nat /\ SCALE \in Nat /\ SCALE > 0
      /\ Windows \subseteq Nat /\ MaxTime \in Nat
  <2>1. WindowOf(MaxTime) \in Nat
    BY TimeInWindow
  <2>2. Windows \subseteq Nat
    BY <2>1 DEF Windows
  <2>3. W \in Nat \ {0} /\ maxRequests \in Nat \ {0} /\ SCALE \in Nat \ {0}
    BY LimiterAssumption
  <2> QED BY <2>2, <2>3, TimeInWindow
<1>3. /\ counter \in [Windows -> [count : 0..maxRequests, expiresAt : Nat]]
      /\ admitted \in [Times -> Nat] /\ clock \in Nat
  BY <1>2, TimeInWindow DEF LimiterTypeOK
<1>4. t \in Times /\ t \in Nat /\ t <= clock
  <2>1. stamp[c] # NoStamp
    BY DEF SlidingWindow, NoStamp
  <2>2. stamp[c].at \in Times
    BY DEF LimiterTypeOK
  <2> QED BY <1>1, <2>1, <2>2, TimeInWindow DEF StampsInTime
<1>5. w \in Windows /\ w \in Nat /\ WindowOf(clock) \in Nat /\ w <= WindowOf(clock) /\ d \in {0, 1}
      /\ w * W <= t /\ w * W \in Nat
  <2>1. w \in Windows /\ w \in Nat
    BY <1>1, <1>2, <1>4, TimeInWindow
  <2>2. w * W <= t
    BY <1>1, <1>4, <2>1, WindowsInOrder
  <2>3. w * W \in Nat
    BY <1>2, <2>1
  <2>4. w * W <= clock
    BY <1>3, <1>4, <2>2, <2>3
  <2>5. w <= WindowOf(clock) /\ WindowOf(clock) \in Nat
    BY <1>3, <2>1, <2>4, TimeInWindow, WindowsInOrder
  <2> QED BY <1>1, <2>1, <2>2, <2>3, <2>5
<1>6. counter' = [counter EXCEPT ![w] = Increment(w)]
      /\ admitted' = [admitted EXCEPT ![t] = @ + d] /\ clock' = clock
  BY <1>1 DEF SlidingWindow
<1>7. PICK C0, C1 : C0 = Count(w - 1) /\ C1 = Count(w)
  OBVIOUS
<1>8. /\ C0 \in Nat /\ C1 \in Nat
      /\ \A v \in Windows : counter[v].count \in Nat /\ counter[v].expiresAt \in Nat
  <2>1. \A v \in Windows : counter[v] \in [count : 0..maxRequests, expiresAt : Nat]
    BY <1>3
  <2>2. \A v \in Windows : counter[v].count \in 0..maxRequests /\ counter[v].expiresAt \in Nat
    BY <2>1
  <2>3. \A v \in Windows : counter[v].count \in Nat
    BY <1>2, <2>2
  <2> QED BY <1>7, <2>2, <2>3 DEF Count
<1>9. C1 < maxRequests /\ C1 * W + C0 * (W - (t % W)) < maxRequests * W
  <2>1. (t % W) \in 0..(W - 1) /\ W - (t % W) \in Nat
    BY <1>2, <1>4, TimeInWindow
  <2>2. C1 * SCALE + ((C0 * (W - (t % W)) * SCALE) \div W) < maxRequests * SCALE
    BY <1>1, <1>7 DEF BelowLimit, EstimatedCountScaled
  <2> QED BY <1>2, <1>8, <2>1, <2>2, BelowByWeight
<1>10. Increment(w) = [count |-> C1 + 1,
                       expiresAt |-> IF C1 = 0 THEN clock + 2 * W ELSE counter[w].expiresAt]
  BY <1>7 DEF Increment
<1>11. /\ counter' \in [Windows -> [count : 0..maxRequests, expiresAt : Nat]]
       /\ \A v \in Windows : v # w => counter'[v] = counter[v]
       /\ counter'[w] = [count |-> C1 + 1,
                         expiresAt |-> IF C1 = 0 THEN clock + 2 * W ELSE counter[w].expiresAt]
  <2>1. Increment(w) \in [count : 0..maxRequests, expiresAt : Nat]
    BY <1>2, <1>3, <1>5, <1>8, <1>9, <1>10
  <2> QED BY <1>3, <1>5, <1>6, <1>10, <2>1
<1>12. /\ \A v : InWhole(v)' = InWhole(v) + (IF v = w THEN d ELSE 0)
       /\ \A v, r : InPart(v, r)' = InPart(v, r) + (IF v = w /\ (t % W) <= r THEN d ELSE 0)
  <2>1. PICK f, g : f = admitted /\ g = admitted'
    OBVIOUS
  <2>2. \A x \in Times : f[x] \in Nat /\ g[x] = f[x] + (IF x = t THEN d ELSE 0)
    BY <1>3, <1>4, <1>6, <2>1
  <2>3. d \in Int
    BY <1>5
  <2>4. ASSUME NEW T \in SUBSET Times
        PROVE  SumFunctionOnSet(g, T) = SumFunctionOnSet(f, T) + (IF t \in T THEN d ELSE 0)
    <3>1. IsFiniteSet(T)
      BY TimeInWindow, FS_Subset
    <3>2. \A x \in T : f[x] \in Int /\ g[x] \in Int
      BY <2>2, <2>3
    <3>3. (\A x \in T \ {t} : g[x] = f[x]) /\ (t \in T => g[t] = f[t] + d)
      BY <2>2
    <3> QED BY <2>3, <3>1, <3>2, <3>3, SumGrows
  <2>5. ASSUME NEW v PROVE InWhole(v)' = InWhole(v) + (IF v = w THEN d ELSE 0)
    <3>1. Whole(v) \in SUBSET Times /\ (t \in Whole(v) <=> v = w)
      BY <1>1, <1>4 DEF Whole
    <3>2. SumFunctionOnSet(g, Whole(v)) = SumFunctionOnSet(f, Whole(v)) + (IF v = w THEN d ELSE 0)
      BY <2>4, <3>1
    <3>3. InWhole(v) = SumFunctionOnSet(f, Whole(v)) /\ InWhole(v)' = SumFunctionOnSet(g, Whole(v))
      BY <2>1 DEF InWhole, Whole, Times, WindowOf
    <3> QED BY <3>2, <3>3
  <2>6. ASSUME NEW v, NEW r
        PROVE  InPart(v, r)' = InPart(v, r) + (IF v = w /\ (t % W) <= r THEN d ELSE 0)
    <3>1. Part(v, r) \in SUBSET Times /\ (t \in Part(v, r) <=> v = w /\ (t % W) <= r)
      BY <1>1, <1>4 DEF Part
    <3>2. SumFunctionOnSet(g, Part(v, r)) =
             SumFunctionOnSet(f, Part(v, r)) + (IF v = w /\ (t % W) <= r THEN d ELSE 0)
      BY <2>4, <3>1
    <3>3. /\ InPart(v, r) = SumFunctionOnSet(f, Part(v, r))
          /\ InPart(v, r)' = SumFunctionOnSet(g, Part(v, r))
      BY <2>1 DEF InPart, Part, Times, WindowOf
    <3> QED BY <3>2, <3>3
  <2> QED BY <2>5, <2>6
<1>13. /\ \A v : InWhole(v) \in Nat
       /\ \A v, r : InPart(v, r) \in Nat /\ InPart(v, r) <= InWhole(v)
  BY <1>3, PartsOfWindows
<1>14. NothingAhead'
  <2>1. \A x \in Times : admitted'[x] > 0 => x <= clock
    <3>1. ASSUME NEW x \in Times, admitted'[x] > 0, x # t PROVE x <= clock
      BY <1>3, <1>6, <3>1 DEF WindowPaid, NothingAhead
    <3> QED BY <1>4, <3>1
  <2> QED BY <1>6, <2>1 DEF NothingAhead
<1>15. CountersKept'
  <2>1. ASSUME NEW v \in Windows
        PROVE  /\ counter'[v].count > 0 => counter'[v].expiresAt >= (v + 2) * W
               /\ clock < (v + 2) * W => InWhole(v)' <= counter'[v].count
    <3>1. CASE v # w
      <4>1. counter'[v] = counter[v] /\ InWhole(v)' = InWhole(v)
        BY <1>11, <1>12, <1>13, <3>1
      <4> QED BY <4>1 DEF WindowPaid, CountersKept
    <3>2. CASE v = w
      <4>1. PICK e : e = (w + 2) * W
        OBVIOUS
      <4>2. e \in Nat /\ e = w * W + 2 * W
        BY <1>2, <1>5, <4>1
      <4>3. /\ counter'[w].count = C1 + 1
            /\ counter'[w].expiresAt = IF C1 = 0 THEN clock + 2 * W ELSE counter[w].expiresAt
        BY <1>11
      <4>4. C1 > 0 => counter[w].expiresAt >= e
        <5>1. C1 > 0 => counter[w].count > 0
          BY <1>5, <1>7 DEF Count
        <5> QED BY <1>5, <4>1, <5>1 DEF WindowPaid, CountersKept
      <4>5. clock + 2 * W >= e
        BY <1>2, <1>3, <1>4, <1>5, <4>2
      <4>6. counter'[w].expiresAt >= e
        BY <1>8, <4>3, <4>4, <4>5
      <4>7. clock < e => InWhole(w) <= C1
        BY <1>5, <1>7, <4>1, CountKnows DEF WindowPaid
      <4>8. InWhole(w)' = InWhole(w) + d
        BY <1>12
      <4>9. clock < e => InWhole(w)' <= C1 + 1
        BY <1>5, <1>8, <1>13, <4>7, <4>8
      <4> QED BY <3>2, <4>1, <4>3, <4>6, <4>9
    <3> QED BY <3>1, <3>2
  <2>2. /\ \A v \in Windows : counter'[v].count > 0 => counter'[v].expiresAt >= (v + 2) * W
        /\ \A v \in Windows : clock < (v + 2) * W => InWhole(v)' <= counter'[v].count
    BY <2>1
  <2>3. Windows' = Windows /\ clock' = clock
    BY <1>6
  <2> QED BY <2>2, <2>3 DEF CountersKept
<1>16. WindowsLimited'
  <2>1. ASSUME NEW v \in Windows
        PROVE  /\ InWhole(v)' <= maxRequests
               /\ \A r \in 0..(W - 1) : InPart(v + 1, r)' > 0 =>
                     InWhole(v)' * (W - r) + InPart(v + 1, r)' * W < (maxRequests + 1) * W
    <3>1. /\ InWhole(v) <= maxRequests
          /\ \A r \in 0..(W - 1) : InPart(v + 1, r) > 0 =>
                InWhole(v) * (W - r) + InPart(v + 1, r) * W < (maxRequests + 1) * W
      BY DEF WindowPaid, WindowsLimited
    <3>2. v \in Nat
      BY <1>2
    <3>3. CASE d = 0
      <4>1. InWhole(v)' = InWhole(v) /\ \A r : InPart(v + 1, r)' = InPart(v + 1, r)
        BY <1>12, <1>13, <3>3
      <4> QED BY <3>1, <4>1
    <3>4. CASE d = 1
      <4>1. WindowOf(clock) = w /\ clock < (w + 1) * W
        <5>1. WindowOf(clock) = w
          BY <1>1, <3>4
        <5>2. WindowOf(clock) < w + 1 /\ w + 1 \in Nat
          BY <1>5, <5>1
        <5> QED BY <1>3, <5>1, <5>2, WindowsInOrder
      <4>2. (w + 1) * W \in Nat /\ (w + 2) * W = (w + 1) * W + W
        BY <1>2, <1>5
      <4>3. clock < (w + 2) * W
        BY <1>2, <1>3, <4>1, <4>2
      <4>4. InWhole(w) <= C1
        BY <1>5, <1>7, <4>3, CountKnows DEF WindowPaid
      <4>5. InWhole(v)' <= maxRequests
        <5>1. CASE v = w
          <6>1. InWhole(v)' = InWhole(w) + 1
            BY <1>12, <3>4, <5>1
          <6> QED BY <1>2, <1>8, <1>9, <1>13, <4>4, <6>1
        <5>2. CASE v # w
          <6>1. InWhole(v)' = InWhole(v)
            BY <1>12, <1>13, <5>2
          <6> QED BY <3>1, <6>1
        <5> QED BY <5>1, <5>2
      <4>6. ASSUME NEW r \in 0..(W - 1), InPart(v + 1, r)' > 0
            PROVE  InWhole(v)' * (W - r) + InPart(v + 1, r)' * W < (maxRequests + 1) * W
        <5>1. CASE v = w
          <6>1. InPart(v + 1, r) > 0
            <7>1. InPart(v + 1, r)' = InPart(v + 1, r)
              BY <1>12, <1>13, <1>5, <5>1
            <7> QED BY <4>6, <7>1
          <6>2. \A x \in Part(w + 1, r) : admitted[x] = 0
            <7> SUFFICES ASSUME NEW x \in Part(w + 1, r) PROVE admitted[x] = 0
              OBVIOUS
            <7>1. x \in Times /\ WindowOf(x) = w + 1
              BY DEF Part
            <7>2. x \in Nat /\ w + 1 \in Nat
              BY <1>5, <7>1, TimeInWindow
            <7>3. x >= (w + 1) * W
              BY <1>5, <7>1, <7>2, WindowsInOrder
            <7>4. ~(admitted[x] > 0)
              BY <1>3, <4>1, <4>2, <7>1, <7>2, <7>3 DEF WindowPaid, NothingAhead
            <7> QED BY <1>3, <7>1, <7>4
          <6>3. IsFiniteSet(Part(w + 1, r))
            BY <1>3, PartsOfWindows
          <6>4. InPart(w + 1, r) = 0
            BY <6>2, <6>3, SumOfZeros DEF InPart
          <6> QED BY <5>1, <6>1, <6>4
        <5>2. CASE v + 1 = w /\ (t % W) <= r
          <6>1. InWhole(v) <= C0
            <7>1. clock < (v + 2) * W
              BY <1>2, <1>5, <3>2, <4>1, <5>2
            <7>2. v = w - 1
              BY <1>5, <3>2, <5>2
            <7> QED BY <1>7, <7>1, <7>2, CountKnows DEF WindowPaid
          <6>2. InWhole(v)' = InWhole(v)
            <7>1. v # w
              BY <1>5, <3>2, <5>2
            <7> QED BY <1>12, <1>13, <7>1
          <6>3. InPart(v + 1, r)' = InPart(w, r) + 1
            BY <1>12, <3>4, <5>2
          <6>4. InPart(w, r) + 1 \in Nat /\ InPart(w, r) + 1 <= C1 + 1
            <7>1. InPart(w, r) \in Nat /\ InPart(w, r) <= InWhole(w) /\ InWhole(w) \in Nat
              BY <1>13
            <7> QED BY <1>8, <4>4, <7>1
          <6>5. /\ W - (t % W) \in Nat /\ W - r \in Nat /\ W - r <= W - (t % W)
            BY <1>2, <1>4, <5>2, TimeInWindow
          <6>6. InWhole(v) * (W - r) + (InPart(w, r) + 1) * W < (maxRequests + 1) * W
            <7> HIDE DEF W
            <7>1. InWhole(v) \in Nat
              BY <1>13
            <7> QED BY <1>2, <1>8, <1>9, <6>1, <6>4, <6>5, <7>1, WeightsAdd
          <6> QED BY <6>2, <6>3, <6>6
        <5>3. CASE v # w /\ ~(v + 1 = w /\ (t % W) <= r)
          <6>1. InWhole(v)' = InWhole(v) /\ InPart(v + 1, r)' = InPart(v + 1, r)
            BY <1>12, <1>13, <5>3
          <6> QED BY <3>1, <4>6, <6>1
        <5> QED BY <5>1, <5>2, <5>3
      <4> QED BY <4>5, <4>6
    <3> QED BY <1>5, <3>3, <3>4
  <2>2. Windows' = Windows
    OBVIOUS
  <2>3. \A v \in Windows : InWhole(v)' <= maxRequests
    BY <2>1
  <2>4. \A v \in Windows : \A r \in 0..(W - 1) : InPart(v + 1, r)' > 0 =>
           InWhole(v)' * (W - r) + InPart(v + 1, r)' * W < (maxRequests + 1) * W
    BY <2>1
  <2> QED BY <2>2, <2>3, <2>4 DEF WindowsLimited
<1>17. admitted' \in [Times -> Nat]
  BY <1>3, <1>4, <1>5, <1>6
<1> QED BY <1>11, <1>14, <1>15, <1>16, <1>17 DEF WindowPaid

\* Nothing but its script touches the window, and time only ends what counts.
LEMMA WindowStays ==
  ASSUME LimiterTypeOK, WindowPaid, UNCHANGED slidingWindow, clock' \in Nat, clock <= clock'
  PROVE  WindowPaid'
<1>1. counter' = counter /\ admitted' = admitted
  BY DEF slidingWindow
<1>2. /\ \A w : InWhole(w)' = InWhole(w)
      /\ \A w, r : InPart(w, r)' = InPart(w, r)
  BY <1>1 DEF InWhole, InPart, Whole, Part, Times, WindowOf
<1>3. windowMs \in Nat /\ Windows \subseteq Nat /\ Times \subseteq Nat /\ clock \in Nat
  <2>1. WindowOf(MaxTime) \in Nat /\ windowMs \in Nat /\ Times \subseteq Nat
    BY TimeInWindow
  <2>2. Windows \subseteq Nat
    BY <2>1 DEF Windows
  <2>3. clock \in Times
    BY DEF LimiterTypeOK
  <2> QED BY <2>1, <2>2, <2>3
<1>4. NothingAhead'
  <2>1. \A t \in Times : admitted[t] > 0 => t <= clock'
    <3> SUFFICES ASSUME NEW t \in Times, admitted[t] > 0 PROVE t <= clock'
      OBVIOUS
    <3>1. t <= clock /\ t \in Nat
      BY <1>3 DEF WindowPaid, NothingAhead
    <3> QED BY <1>3, <3>1
  <2> QED BY <1>1, <2>1 DEF NothingAhead
<1>5. CountersKept'
  <2>1. ASSUME NEW w \in Windows, clock' < (w + 2) * windowMs
        PROVE  InWhole(w) <= counter[w].count
    <3>1. (w + 2) * windowMs \in Nat
      BY <1>3
    <3>2. clock < (w + 2) * windowMs
      BY <1>3, <2>1, <3>1
    <3> QED BY <3>2 DEF WindowPaid, CountersKept
  <2>2. \A w \in Windows : clock' < (w + 2) * windowMs => InWhole(w)' <= counter'[w].count
    BY <1>1, <1>2, <2>1
  <2>3. \A w \in Windows : counter'[w].count > 0 => counter'[w].expiresAt >= (w + 2) * windowMs
    BY <1>1 DEF WindowPaid, CountersKept
  <2> QED BY <2>2, <2>3 DEF CountersKept
<1>6. WindowsLimited'
  BY <1>2 DEF WindowPaid, WindowsLimited
<1> QED BY <1>4, <1>5, <1>6 DEF WindowPaid

LimiterInv == LimiterTypeOK /\ StampsInTime /\ BucketPaid /\ WindowPaid

\* At first nothing was let by.
LEMMA LimiterInitInv == LimiterInit => LimiterInv
<1> SUFFICES ASSUME LimiterInit PROVE LimiterInv
  OBVIOUS
<1> USE DEF LimiterInit
<1>1. MaxTime \in Nat /\ capacity * SCALE \in Nat /\ maxRequests \in Nat /\ maxRequests > 0
      /\ refillRatePerMsScaled \in Nat /\ windowMs \in Nat /\ windowMs > 0
  BY BucketNumbers
<1>2. 0 \in Times /\ Times \subseteq Nat
  BY <1>1 DEF Times
<1>3. LimiterTypeOK
  <2>1. stamp \in [Callers -> [limiter : {"none", "window", "bucket"}, at : Times]]
    BY <1>2 DEF NoStamp
  <2>2. counter \in [Windows -> [count : 0..maxRequests, expiresAt : Nat]]
    BY <1>1 DEF NoKey
  <2>3. bucket \in [tokensScaled : 0..(capacity * SCALE), updatedAt : Times, expiresAt : Nat]
    BY <1>1, <1>2 DEF NoBucket
  <2>4. admitted \in [Times -> Nat] /\ clock \in Times /\ drawn \in Nat /\ setBack \in Nat
    BY <1>2
  <2> QED BY <2>1, <2>2, <2>3, <2>4 DEF LimiterTypeOK
<1>4. StampsInTime
  BY DEF StampsInTime
<1>5. BucketPaid
  <2>1. bucket.tokensScaled = 0 /\ bucket.updatedAt = 0 /\ drawn = 0 /\ setBack = 0 /\ clock = 0
    BY DEF NoBucket
  <2>2. refillRatePerMsScaled * (0 + 0) = 0 /\ 0 * SCALE = 0
    BY <1>1, BucketNumbers
  <2> QED BY <1>1, <2>1, <2>2 DEF BucketPaid
<1>6. WindowPaid
  <2>1. ASSUME NEW T \in SUBSET Times PROVE SumFunctionOnSet(admitted, T) = 0
    <3>1. IsFiniteSet(T) /\ \A t \in T : admitted[t] = 0
      BY TimeInWindow, FS_Subset
    <3> QED BY <3>1, SumOfZeros
  <2>2. \A w, r : InWhole(w) = 0 /\ InPart(w, r) = 0
    <3>1. \A w, r : Whole(w) \in SUBSET Times /\ Part(w, r) \in SUBSET Times
      BY DEF Whole, Part
    <3> QED BY <2>1, <3>1 DEF InWhole, InPart
  <2>3. NothingAhead
    BY DEF NothingAhead
  <2>4. CountersKept
    BY <2>2 DEF CountersKept, NoKey
  <2>5. WindowsLimited
    BY <1>1, <2>2 DEF WindowsLimited
  <2> QED BY <2>3, <2>4, <2>5 DEF WindowPaid
<1> QED BY <1>3, <1>4, <1>5, <1>6 DEF LimiterInv

\* The requests keep their times (Date.now() in both middlewares).
LEMMA StampsStayInTime ==
  ASSUME LimiterTypeOK, StampsInTime, [LimiterNext]_limiterVars
  PROVE  /\ clock' \in Times /\ clock' \in Nat /\ clock <= clock' /\ StampsInTime'
         /\ stamp' \in [Callers -> [limiter : {"none", "window", "bucket"}, at : Times]]
<1>1. /\ MaxTime \in Nat /\ MaxDelay \in Nat /\ Times \subseteq Nat /\ 0 \in Times
      /\ clock \in Nat /\ clock \in Times
      /\ stamp \in [Callers -> [limiter : {"none", "window", "bucket"}, at : Times]]
  BY LimiterAssumption DEF LimiterTypeOK, Times
<1>2. ASSUME NEW c \in Callers, Answer(c), clock' = clock
      PROVE  /\ StampsInTime'
             /\ stamp' \in [Callers -> [limiter : {"none", "window", "bucket"}, at : Times]]
  <2>1. stamp' = [stamp EXCEPT ![c] = NoStamp]
    BY <1>2 DEF Answer
  <2>2. NoStamp \in [limiter : {"none", "window", "bucket"}, at : Times]
    BY <1>1 DEF NoStamp
  <2>3. \A b \in Callers : stamp'[b] # NoStamp =>
           stamp'[b].at <= clock /\ clock <= stamp'[b].at + MaxDelay
    BY <1>1, <2>1 DEF StampsInTime
  <2> QED BY <1>1, <1>2, <2>1, <2>2, <2>3 DEF StampsInTime
<1>3. CASE Tick
  <2>1. stamp' = stamp /\ clock' = clock + 1 /\ clock' \in Times
    BY <1>1, <1>3 DEF Tick, Times
  <2>2. ASSUME NEW c \in Callers, stamp[c] # NoStamp
        PROVE  stamp[c].at <= clock + 1 /\ clock + 1 <= stamp[c].at + MaxDelay
    <3>1. stamp[c].at <= clock /\ clock < stamp[c].at + MaxDelay
      BY <1>3, <2>2 DEF Tick, StampsInTime
    <3>2. stamp[c].at \in Nat
      BY <1>1
    <3> QED BY <1>1, <3>1, <3>2
  <2> QED BY <1>1, <2>1, <2>2 DEF StampsInTime
<1>4. ASSUME NEW c \in Callers, NEW limiter \in {"window", "bucket"}, Stamp(c, limiter)
      PROVE  /\ StampsInTime' /\ clock' = clock
             /\ stamp' \in [Callers -> [limiter : {"none", "window", "bucket"}, at : Times]]
  <2>1. stamp' = [stamp EXCEPT ![c] = [limiter |-> limiter, at |-> clock]] /\ clock' = clock
    BY <1>4 DEF Stamp
  <2>2. [limiter |-> limiter, at |-> clock]
           \in [limiter : {"none", "window", "bucket"}, at : Times]
    BY <1>1
  <2>3. \A b \in Callers : stamp'[b] # NoStamp =>
           stamp'[b].at <= clock /\ clock <= stamp'[b].at + MaxDelay
    <3>1. stamp'[c].at = clock
      BY <1>1, <2>1
    <3>2. \A b \in Callers : b # c => stamp'[b] = stamp[b]
      BY <1>1, <2>1
    <3> QED BY <1>1, <3>1, <3>2 DEF StampsInTime
  <2> QED BY <1>1, <2>1, <2>2, <2>3 DEF StampsInTime
<1>5. ASSUME NEW c \in Callers, EvalFails(c) \/ SlidingWindow(c) \/ TokenBucket(c)
      PROVE  Answer(c) /\ clock' = clock
  BY <1>5 DEF EvalFails, SlidingWindow, TokenBucket
<1>6. CASE UNCHANGED limiterVars
  BY <1>1, <1>6 DEF limiterVars, StampsInTime
<1>7. CASE Tick \/ UNCHANGED limiterVars
  <2>1. clock' \in Times /\ clock' \in Nat /\ clock <= clock'
    BY <1>1, <1>7 DEF Tick, limiterVars, Times
  <2>2. stamp' = stamp
    BY <1>7 DEF Tick, limiterVars
  <2> QED BY <1>1, <1>3, <1>6, <1>7, <2>1, <2>2
<1>8. ASSUME NEW c \in Callers,
             \/ Stamp(c, "window") \/ Stamp(c, "bucket") \/ EvalFails(c)
             \/ SlidingWindow(c) \/ TokenBucket(c)
      PROVE  /\ clock' = clock /\ StampsInTime'
             /\ stamp' \in [Callers -> [limiter : {"none", "window", "bucket"}, at : Times]]
  BY <1>2, <1>4, <1>5, <1>8
<1> QED BY <1>1, <1>7, <1>8 DEF LimiterNext

\* Every step of the limiters keeps the invariant.
LEMMA LimiterStepInv == LimiterInv /\ [LimiterNext]_limiterVars => LimiterInv'
<1> SUFFICES ASSUME LimiterInv, [LimiterNext]_limiterVars PROVE LimiterInv'
  OBVIOUS
<1>0. LimiterTypeOK /\ StampsInTime /\ BucketPaid /\ WindowPaid
  BY DEF LimiterInv
<1>1. /\ clock' \in Times /\ clock' \in Nat /\ clock <= clock' /\ StampsInTime'
      /\ stamp' \in [Callers -> [limiter : {"none", "window", "bucket"}, at : Times]]
  BY <1>0, StampsStayInTime
<1>2. /\ BucketPaid' /\ drawn' \in Nat /\ setBack' \in Nat
      /\ bucket' \in [tokensScaled : 0..(capacity * SCALE), updatedAt : Times, expiresAt : Nat]
  BY <1>0, BucketStaysPaid
<1>3. /\ WindowPaid'
      /\ counter' \in [Windows -> [count : 0..maxRequests, expiresAt : Nat]]
      /\ admitted' \in [Times -> Nat]
  <2>1. CASE UNCHANGED slidingWindow
    <3>1. counter' = counter /\ admitted' = admitted
      BY <2>1 DEF slidingWindow
    <3>2. WindowPaid'
      BY <1>0, <1>1, <2>1, WindowStays
    <3> QED BY <1>0, <3>1, <3>2 DEF LimiterTypeOK
  <2>2. ASSUME NEW c \in Callers, SlidingWindow(c), BelowLimit(stamp[c].at)
        PROVE  /\ WindowPaid'
               /\ counter' \in [Windows -> [count : 0..maxRequests, expiresAt : Nat]]
               /\ admitted' \in [Times -> Nat]
    BY <1>0, <2>2, WindowStep
  <2>3. ASSUME NEW c \in Callers, SlidingWindow(c), ~BelowLimit(stamp[c].at)
        PROVE  UNCHANGED slidingWindow
    BY <2>3 DEF SlidingWindow
  <2>4. ASSUME NEW c \in Callers,
               Stamp(c, "window") \/ Stamp(c, "bucket") \/ EvalFails(c) \/ TokenBucket(c)
        PROVE  UNCHANGED slidingWindow
    BY <2>4 DEF Stamp, EvalFails, TokenBucket
  <2>5. CASE Tick \/ UNCHANGED limiterVars
    BY <2>1, <2>5 DEF Tick, limiterVars, slidingWindow
  <2> QED BY <2>1, <2>2, <2>3, <2>4, <2>5 DEF LimiterNext
<1>4. LimiterTypeOK'
  BY <1>1, <1>2, <1>3 DEF LimiterTypeOK
<1> QED BY <1>1, <1>2, <1>3, <1>4 DEF LimiterInv

\* What a window and the first part of the next one admit fits in the share
\* that a span has of both.
LEMMA ShareOfSpan ==
  ASSUME NEW W \in Nat, W > 0, NEW M \in Nat, NEW r \in 0..(W - 1), NEW L \in Nat, r + 2 <= L,
         NEW A \in Nat, A <= M, NEW P \in Nat, NEW n \in Nat, n <= A + P,
         P > 0 => A * (W - r) + P * W < (M + 1) * W
  PROVE  n * W < M * (W + L - 2) + W
<1>1. PICK b \in Nat : L = r + 2 + b
  <2>1. L - (r + 2) \in Nat /\ L = r + 2 + (L - (r + 2))
    OBVIOUS
  <2> QED BY <2>1
<1>2. PICK a \in Nat : M = A + a
  <2>1. M - A \in Nat /\ M = A + (M - A)
    OBVIOUS
  <2> QED BY <2>1
<1>3. PICK k \in Nat : A + P = n + k
  <2>1. (A + P) - n \in Nat /\ A + P = n + ((A + P) - n)
    OBVIOUS
  <2> QED BY <2>1
<1>4. M * (W + L - 2) = M * W + M * r + M * b
  <2>1. W + L - 2 = W + r + b
    BY <1>1
  <2> QED BY <2>1
<1>5. n * W + k * W = A * W + P * W
  <2>1. (n + k) * W = n * W + k * W /\ (A + P) * W = A * W + P * W
    OBVIOUS
  <2> QED BY <1>3, <2>1
<1>6. M * r = A * r + a * r /\ M * W = A * W + a * W
  BY <1>2
<1>7. /\ M * r \in Nat /\ M * b \in Nat /\ M * W \in Nat /\ k * W \in Nat /\ n * W \in Nat
      /\ A * W \in Nat /\ P * W \in Nat /\ A * r \in Nat /\ a * r \in Nat /\ a * W \in Nat
  BY <1>1, <1>2, <1>3
<1>8. CASE P = 0
  <2>1. P * W = 0
    BY <1>8
  <2> QED BY <1>4, <1>5, <1>6, <1>7, <2>1
<1>9. CASE P > 0
  <2>1. A * (W - r) = A * W - A * r /\ (M + 1) * W = M * W + W
    OBVIOUS
  <2>2. A * W + P * W < M * W + W + A * r
    BY <1>7, <1>9, <2>1
  <2> QED BY <1>4, <1>5, <1>6, <1>7, <2>2
<1> QED BY <1>8, <1>9

\* The invariant says what the limiters promise.
LEMMA LimiterInvKeepsLimits == LimiterInv => LimitsHold
<1> SUFFICES ASSUME LimiterInv PROVE LimitsHold
  OBVIOUS
<1>0. LimiterTypeOK /\ BucketPaid /\ WindowPaid
  BY DEF LimiterInv
<1>1. DrawnFromBucket
  <2>1. PICK C, R : C = capacity * SCALE /\ R = refillRatePerMsScaled
    OBVIOUS
  <2>2. C \in Nat /\ R \in Nat /\ SCALE \in Nat
    BY <2>1, BucketNumbers
  <2>3. /\ drawn \in Nat /\ setBack \in Nat /\ clock \in Nat /\ bucket.updatedAt \in Nat
        /\ bucket.tokensScaled \in 0..C
    BY <1>0, <2>1, TimeInWindow DEF LimiterTypeOK
  <2>4. /\ drawn * SCALE + bucket.tokensScaled <= C + R * (bucket.updatedAt + setBack)
        /\ bucket.updatedAt <= clock
    BY <1>0, <2>1 DEF BucketPaid
  <2>5. PICK e \in Nat : clock + setBack = bucket.updatedAt + setBack + e
    <3>1. clock - bucket.updatedAt \in Nat
          /\ clock + setBack = bucket.updatedAt + setBack + (clock - bucket.updatedAt)
      BY <2>3, <2>4
    <3> QED BY <3>1
  <2>6. R * (clock + setBack) = R * (bucket.updatedAt + setBack) + R * e /\ R * e \in Nat
    <3>1. PICK x : x = bucket.updatedAt + setBack
      OBVIOUS
    <3>2. x \in Nat /\ clock + setBack = x + e
      BY <2>3, <2>5, <3>1
    <3>3. R * (x + e) = R * x + R * e /\ R * e \in Nat
      BY <2>2, <3>2
    <3> QED BY <3>1, <3>2, <3>3
  <2>7. R * (bucket.updatedAt + setBack) \in Nat /\ drawn * SCALE \in Nat
    BY <2>2, <2>3
  <2>8. drawn * SCALE <= C + R * (clock + setBack)
    BY <2>2, <2>3, <2>4, <2>6, <2>7
  <2> QED BY <2>1, <2>8 DEF DrawnFromBucket
<1>2. SpansLimited
  <2> SUFFICES ASSUME NEW from \in Times, NEW to \in Times,
                      from <= to, to - from + 1 <= windowMs
               PROVE  IF WindowOf(from) = WindowOf(to) THEN Admitted(from, to) <= maxRequests
                      ELSE Admitted(from, to) * windowMs
                              < maxRequests * (windowMs + (to - from + 1) - 2) + windowMs
    BY DEF SpansLimited
  <2> DEFINE Span == from..to
             w == WindowOf(from)
  <2>1. /\ windowMs \in Nat /\ windowMs > 0 /\ maxRequests \in Nat /\ MaxTime \in Nat
        /\ from \in Nat /\ to \in Nat /\ Times = 0..MaxTime
    BY LimiterAssumption, TimeInWindow DEF Times
  <2>2. Span \in SUBSET Times /\ IsFiniteSet(Span)
    BY <2>1, FS_Interval
  <2>3. admitted \in [Times -> Nat]
    BY <1>0 DEF LimiterTypeOK
  <2>4. /\ w \in Windows /\ w \in Nat /\ WindowOf(to) \in Nat
        /\ w * windowMs <= from /\ from < (w + 1) * windowMs
    <3>1. w \in Windows /\ w \in Nat /\ WindowOf(to) \in Nat
      BY <2>1, TimeInWindow
    <3>2. WindowOf(from) >= w /\ WindowOf(from) < w + 1 /\ w + 1 \in Nat
      BY <3>1
    <3> HIDE DEF w
    <3> QED BY <2>1, <3>1, <3>2, WindowsInOrder
  <2>5. PICK A : A = InWhole(w)
    OBVIOUS
  <2>6. A \in Nat /\ A <= maxRequests
    BY <1>0, <2>3, <2>4, <2>5, PartsOfWindows DEF WindowPaid, WindowsLimited
  <2>7. \A T \in SUBSET Times : IsFiniteSet(T) /\ \A t \in T : admitted[t] \in Nat
    BY <2>3, TimeInWindow, FS_Subset
  <2>8. CASE WindowOf(from) = WindowOf(to)
    <3>1. Span \in SUBSET Whole(w)
      <4> SUFFICES ASSUME NEW t \in Span PROVE WindowOf(t) = w
        BY <2>2 DEF Whole
      <4>1. t \in Nat /\ from <= t /\ t <= to
        BY <2>1
      <4>2. WindowOf(to) < w + 1 /\ w + 1 \in Nat
        BY <2>4, <2>8
      <4>3. to < (w + 1) * windowMs /\ (w + 1) * windowMs \in Nat /\ w * windowMs \in Nat
        BY <2>1, <2>4, <4>2, WindowsInOrder
      <4>4. t >= w * windowMs /\ t < (w + 1) * windowMs
        BY <2>1, <2>4, <4>1, <4>3
      <4>5. WindowOf(t) >= w /\ WindowOf(t) < w + 1 /\ WindowOf(t) \in Nat
        BY <2>4, <4>1, <4>2, <4>4, TimeInWindow, WindowsInOrder
      <4> QED BY <2>4, <4>5
    <3>2. Whole(w) \in SUBSET Times
      BY DEF Whole
    <3>3. SumFunctionOnSet(admitted, Span) <= SumFunctionOnSet(admitted, Whole(w))
          /\ SumFunctionOnSet(admitted, Span) \in Nat
      BY <2>7, <3>1, <3>2, SumOfParts
    <3>4. Admitted(from, to) <= maxRequests
      BY <2>1, <2>5, <2>6, <3>3 DEF Admitted, InWhole
    <3> QED BY <2>8, <3>4
  <2>9. CASE WindowOf(from) # WindowOf(to)
    <3> DEFINE r == to % windowMs
               P == InPart(w + 1, r)
               L == to - from + 1
    <3>1. (w + 1) * windowMs \in Nat /\ w * windowMs \in Nat
          /\ (w + 1) * windowMs = w * windowMs + windowMs
          /\ (w + 2) * windowMs = w * windowMs + 2 * windowMs
      BY <2>1, <2>4
    <3>2. WindowOf(to) = w + 1
      <4>1. to < (w + 2) * windowMs
        <5>1. PICK e, b : e = (w + 1) * windowMs /\ b = w * windowMs
          OBVIOUS
        <5>2. e \in Nat /\ b \in Nat /\ e = b + windowMs /\ from < e
              /\ (w + 2) * windowMs = b + 2 * windowMs
          BY <2>4, <3>1, <5>1
        <5> QED BY <2>1, <5>2
      <4>2. WindowOf(to) < w + 2
        BY <2>1, <2>4, <4>1, WindowsInOrder
      <4>3. to >= w * windowMs
        BY <2>1, <2>4, <3>1
      <4>4. WindowOf(to) >= w
        BY <2>1, <2>4, <4>3, WindowsInOrder
      <4> QED BY <2>4, <2>9, <4>2, <4>4
    <3>3. r \in 0..(windowMs - 1) /\ to = (w + 1) * windowMs + r
      BY <2>1, <3>2, TimeInWindow
    <3>4. Span \subseteq Whole(w) \cup Part(w + 1, r)
      <4> SUFFICES ASSUME NEW t \in Span
                   PROVE  \/ WindowOf(t) = w
                          \/ WindowOf(t) = w + 1 /\ (t % windowMs) <= r
        BY <2>2 DEF Whole, Part
      <4>1. t \in Nat /\ from <= t /\ t <= to
        BY <2>1
      <4>2. /\ WindowOf(t) \in Nat /\ (t % windowMs) \in 0..(windowMs - 1)
            /\ t = WindowOf(t) * windowMs + (t % windowMs)
        BY <4>1, TimeInWindow
      <4>3. WindowOf(t) >= w
        <5>1. t >= w * windowMs
          BY <2>1, <2>4, <3>1, <4>1
        <5> QED BY <2>4, <4>1, <5>1, WindowsInOrder
      <4>4. WindowOf(t) < w + 2
        <5>1. t < (w + 2) * windowMs
          BY <2>1, <3>1, <3>3, <4>1
        <5> QED BY <2>4, <4>1, <5>1, WindowsInOrder
      <4>5. CASE WindowOf(t) = w + 1
        <5>1. t = (w + 1) * windowMs + (t % windowMs)
          BY <4>2, <4>5
        <5>2. (t % windowMs) <= r
          BY <2>1, <3>1, <3>3, <4>1, <4>2, <5>1
        <5> QED BY <4>5, <5>2
      <4> QED BY <2>4, <4>2, <4>3, <4>4, <4>5
    <3>5. PICK n : n = Admitted(from, to)
      OBVIOUS
    <3>6. n \in Nat /\ P \in Nat /\ n <= A + P
      <4> DEFINE U == Whole(w) \cup Part(w + 1, r)
      <4>1. U \in SUBSET Times /\ Whole(w) \in SUBSET U /\ Part(w + 1, r) \in SUBSET U
        BY DEF Whole, Part
      <4>2. Span \in SUBSET U /\ U \subseteq Whole(w) \cup Part(w + 1, r)
        BY <3>4
      <4> HIDE DEF U, Span
      <4>3. IsFiniteSet(U) /\ \A t \in U : admitted[t] \in Nat
        BY <2>7, <4>1
      <4>4. /\ SumFunctionOnSet(admitted, Span) \in Nat /\ SumFunctionOnSet(admitted, U) \in Nat
            /\ SumFunctionOnSet(admitted, Span) <= SumFunctionOnSet(admitted, U)
        BY <4>2, <4>3, SumOfParts
      <4>5. SumFunctionOnSet(admitted, U) <= SumFunctionOnSet(admitted, Whole(w))
               + SumFunctionOnSet(admitted, Part(w + 1, r))
        BY <4>1, <4>2, <4>3, SumOfParts
      <4>6. P \in Nat /\ P = SumFunctionOnSet(admitted, Part(w + 1, r))
            /\ A = SumFunctionOnSet(admitted, Whole(w))
        BY <2>3, <2>5, PartsOfWindows DEF InPart, InWhole
      <4>7. n = SumFunctionOnSet(admitted, Span)
        BY <3>5 DEF Admitted, Span
      <4> QED BY <2>6, <4>4, <4>5, <4>6, <4>7
    <3>7. P > 0 => A * (windowMs - r) + P * windowMs < (maxRequests + 1) * windowMs
      BY <1>0, <2>4, <2>5, <3>3 DEF WindowPaid, WindowsLimited
    <3>8. L \in Nat /\ r + 2 <= L
      <4>1. PICK e : e = (w + 1) * windowMs
        OBVIOUS
      <4>2. e \in Nat /\ from < e /\ to = e + r /\ r \in Nat
        BY <2>1, <2>4, <3>1, <3>3, <4>1
      <4> QED BY <2>1, <4>2
    <3> HIDE DEF r, P, L, w
    <3>9. n * windowMs < maxRequests * (windowMs + L - 2) + windowMs
      BY <2>1, <2>6, <3>3, <3>6, <3>7, <3>8, ShareOfSpan
    <3> QED BY <2>9, <3>5, <3>9 DEF L
  <2> QED BY <2>8, <2>9
<1> QED BY <1>1, <1>2 DEF LimitsHold

\* The invariant of both limiters: what the scripts weigh and store covers
\* whatever they let by, in whatever order they run and whenever keys expire.
THEOREM LimiterInvariant == LimiterSpec => []LimiterInv
<1>1. LimiterInit => LimiterInv
  BY LimiterInitInv
<1>2. LimiterInv /\ [LimiterNext]_limiterVars => LimiterInv'
  BY LimiterStepInv
<1> QED BY <1>1, <1>2, PTL DEF LimiterSpec

\* Neither limiter lets more by than it promises, for every quota, window,
\* capacity and rate and any number of callers.
THEOREM LimiterLimitsHold == LimiterSpec => []LimitsHold
<1>1. LimiterInv => LimitsHold
  BY LimiterInvKeepsLimits
<1> QED BY <1>1, LimiterInvariant, PTL
-------------------------------------------------------------------------------
(* Services.                                                               *)

(* The services share no variable, which is how they are modelled and not a *)
(* result: what is proved of one of them therefore holds of all together.  *)
LEMMA ServicesRunApart ==
  ServicesSpec => /\ PipelineSpec /\ FiatSpec /\ KycSpec /\ SessionSpec
                  /\ TwoFaSpec /\ MarketSpec /\ AddressSpec /\ LimiterSpec
<1>1. ServicesInit => /\ PipelineInit /\ FiatInit /\ KycInit /\ SessionInit
                      /\ TwoFaInit /\ MarketInit /\ AddressInit /\ LimiterInit
  BY DEF ServicesInit
<1>2. [ServicesNext]_servicesVars => [PipelineNext]_pipelineVars
  BY DEF ServicesNext, servicesVars
<1>3. [ServicesNext]_servicesVars => [FiatNext]_fiatVars
  BY DEF ServicesNext, servicesVars
<1>4. [ServicesNext]_servicesVars => [KycNext]_kycVars
  BY DEF ServicesNext, servicesVars
<1>5. [ServicesNext]_servicesVars => [SessionNext]_sessionVars
  BY DEF ServicesNext, servicesVars
<1>6. [ServicesNext]_servicesVars => [TwoFaNext]_twoFaVars
  BY DEF ServicesNext, servicesVars
<1>7. [ServicesNext]_servicesVars => [MarketNext]_marketVars
  BY DEF ServicesNext, servicesVars
<1>8. [ServicesNext]_servicesVars => [AddressNext]_addressVars
  BY DEF ServicesNext, servicesVars
<1>9. [ServicesNext]_servicesVars => [LimiterNext]_limiterVars
  BY DEF ServicesNext, servicesVars
<1> QED
  BY <1>1, <1>2, <1>3, <1>4, <1>5, <1>6, <1>7, <1>8, <1>9, PTL
  DEF ServicesSpec, PipelineSpec, FiatSpec, KycSpec, SessionSpec, TwoFaSpec, MarketSpec,
      AddressSpec, LimiterSpec

(* Whichever service acts, every table, timer and request keeps its type.  *)
THEOREM ServicesTypeCorrect == ServicesSpec => []ServicesTypeOK
<1>1. OutboxInv /\ CandleInv /\ FiatTypeOK /\ KycInv /\ SessionInv /\ TwoFaInv /\ MarketInv
      /\ AddressInv /\ LimiterInv => ServicesTypeOK
  BY DEF ServicesTypeOK, OutboxInv, WorkInv, CandleInv, KycInv, SessionInv, TwoFaInv,
         MarketInv, AddressInv, LimiterInv
<1> QED BY <1>1, ServicesRunApart, PipelineInvariant, FiatTypeCorrect, KycInvariant,
           SessionInvariant, TwoFaInvariant, MarketInvariant, AddressInvariant,
           LimiterInvariant, PTL
================================================================================
