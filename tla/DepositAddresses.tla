--------------------------- MODULE DepositAddresses ---------------------------
(***************************************************************************)
(* The deposit address of one user for one asset on one network            *)
(* (wallet-ledger-service/depositAddress.service.js): looked up, or        *)
(* created at the custodian and then stored.  Requests overlap, and each   *)
(* await may throw before or after it took effect.  The checks of the      *)
(* asset and the network, which refuse a request before it changes         *)
(* anything, are left out.                                                 *)
(***************************************************************************)
EXTENDS Naturals, FiniteSets

CONSTANTS AddressHandlers,   \* requests the server handles at once
          MaxAddresses,      \* bound: addresses the custodian creates
          MaxAddressFaults   \* bound: awaits that throw

ASSUME AddressAssumption ==
    /\ IsFiniteSet(AddressHandlers) /\ AddressHandlers # {}
    /\ MaxAddresses \in Nat /\ MaxAddressFaults \in Nat

VARIABLES receiveAddresses,  \* at the custodian: how many there are
          depositAddress,    \* the row's address, or NoAddress
          answered,          \* addresses the user was told to pay to
          addressRequest,    \* per request: where it is and its new address
          addressFaults

addressVars == <<receiveAddresses, depositAddress, answered, addressRequest, addressFaults>>

NoAddress == 0
AddressIdle == [pc |-> "idle", address |-> NoAddress]

AddressTypeOK ==
    /\ receiveAddresses \in 0..MaxAddresses
    /\ depositAddress \in 0..receiveAddresses
    /\ answered \subseteq 1..receiveAddresses
    /\ addressRequest \in [AddressHandlers ->
           [pc : {"idle", "create", "store"}, address : 0..receiveAddresses]]
    /\ addressFaults \in 0..MaxAddressFaults

AddressInit ==
    /\ receiveAddresses = 0 /\ depositAddress = NoAddress /\ answered = {}
    /\ addressRequest = [h \in AddressHandlers |-> AddressIdle]
    /\ addressFaults = 0
-------------------------------------------------------------------------------
Proceed(h, pc, a) ==
    addressRequest' = [addressRequest EXCEPT ![h] = [pc |-> pc, address |-> a]]
Finish(h) == addressRequest' = [addressRequest EXCEPT ![h] = AddressIdle]

\* getOrCreateDepositAddress: an existing row is the answer ...
FindAddress(h) ==
    /\ addressRequest[h] = AddressIdle
    /\ \/ /\ depositAddress # NoAddress
          /\ answered' = answered \cup {depositAddress}
          /\ UNCHANGED addressRequest
       \/ /\ depositAddress = NoAddress
          /\ Proceed(h, "create", NoAddress)
          /\ UNCHANGED answered
    /\ UNCHANGED <<receiveAddresses, depositAddress, addressFaults>>

NewAddress ==
    receiveAddresses < MaxAddresses /\ receiveAddresses' = receiveAddresses + 1

\* ... otherwise createCustodyReceiveAddress ...
CreateReceiveAddress(h) ==
    /\ addressRequest[h].pc = "create"
    /\ NewAddress
    /\ Proceed(h, "store", receiveAddresses')
    /\ UNCHANGED <<depositAddress, answered, addressFaults>>

\* Fault: the row of another request is overwritten.
StoreAnyway(h) ==
    /\ addressRequest[h].pc = "store"
    /\ depositAddress' = addressRequest[h].address
    /\ answered' = answered \cup {addressRequest[h].address}
    /\ Finish(h)
    /\ UNCHANGED <<receiveAddresses, addressFaults>>

\* ... and the row, which the unique index refuses to a second request.
StoreAddress(h) ==
    /\ addressRequest[h].pc = "store"
    /\ IF depositAddress = NoAddress
       THEN /\ depositAddress' = addressRequest[h].address
            /\ answered' = answered \cup {addressRequest[h].address}
       ELSE UNCHANGED <<depositAddress, answered>>
    /\ Finish(h)
    /\ UNCHANGED <<receiveAddresses, addressFaults>>

AddressFails(h) ==
    /\ addressRequest[h] # AddressIdle
    /\ addressFaults < MaxAddressFaults /\ addressFaults' = addressFaults + 1
    /\ \/ UNCHANGED <<receiveAddresses, depositAddress>>
       \/ addressRequest[h].pc = "create" /\ NewAddress /\ UNCHANGED depositAddress
       \/ /\ addressRequest[h].pc = "store" /\ depositAddress = NoAddress
          /\ depositAddress' = addressRequest[h].address
          /\ UNCHANGED receiveAddresses
    /\ Finish(h)
    /\ UNCHANGED answered

AddressNext ==
    \E h \in AddressHandlers : \/ FindAddress(h) \/ CreateReceiveAddress(h)
                               \/ StoreAddress(h) \/ AddressFails(h)

AddressSpec == AddressInit /\ [][AddressNext]_addressVars
-------------------------------------------------------------------------------
\* What a user was told to pay to, in whatever request, is the address that
\* the deposit webhooks will find: overlapping requests and failures never
\* leave him with one that is not, or no longer, stored.
AnsweredIsStored == answered \subseteq {depositAddress}

\* Addresses that belong to nobody: created, not stored, and in no one's hand.
Orphans == {a \in 1..receiveAddresses :
               a # depositAddress /\ \A h \in AddressHandlers : addressRequest[h].address # a}

\* The custodian keeps an address for nobody only where requests overlapped
\* or one failed: repeating the request afterwards creates no more of them.
OrphansByOverlap ==
    Cardinality(Orphans) < Cardinality(AddressHandlers) + addressFaults

\* Every address that was created is the user's, or was wasted by an overlap or
\* a failure; the user never learns of a wasted one.
AddressesAccounted == AnsweredIsStored /\ OrphansByOverlap
===============================================================================
