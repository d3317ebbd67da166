-------------------------------- MODULE Ledger --------------------------------
(***************************************************************************)
(* postLedgerTransaction called by concurrent request handlers and workers *)
(* (wallet-ledger-service/ledger.service.js, walletAccount.service.js).    *)
(*                                                                         *)
(* One call is three database round trips that others may interleave with: *)
(* the idempotency lookup, the read of the balance rows, and the write.    *)
(* The write is one PostgreSQL transaction at READ COMMITTED: it takes     *)
(* effect in one step, but sets each balance row to a value computed from  *)
(* the earlier read.  A call that is refused by validation, or answered    *)
(* with the transaction its key already posted, changes nothing: it is a   *)
(* stuttering step.                                                        *)
(*                                                                         *)
(* Two history variables record which calls and which accounts were in the *)
(* hands of two callers at once, between read and write.                   *)
(***************************************************************************)
EXTENDS DoubleEntry, Sequences

CONSTANTS Posters,         \* concurrent callers
          Requests,        \* the calls that may be made: [key, posting]
          Mine             \* which calls each poster makes

ASSUME RequestsAssumption ==
    \A r \in Requests : /\ r = [key |-> r.key, posting |-> r.posting]
                        /\ IsPosting(r.posting)
ASSUME MineAssumption == Mine \in [Posters -> SUBSET Requests]

VARIABLES balance,         \* rows of WalletBalance, one per existing account
          history,         \* LedgerTransaction rows with their LedgerEntry rows
          call,            \* per poster: where its call is and what it has read
          crossed,         \* history: calls that overlapped on an account,
          contended        \* and the accounts that calls overlapped on

books == <<balance, history>>
vars == <<balance, history, call, crossed, contended>>

Idle == [at |-> "idle"]

IsCall(c) == \/ c = Idle
             \/ c \in [at : {"loading"}, req : Requests]
             \/ /\ c = [at |-> "writing", req |-> c.req, next |-> c.next]
                /\ c.req \in Requests
                /\ c.next \in [DOMAIN c.req.posting -> Int]

RowsTyped == /\ IsBalances(balance)
             /\ history \in Seq(Requests)
             /\ DOMAIN call = Posters
             /\ \A p \in Posters : IsCall(call[p])

TypeOK == /\ RowsTyped
          /\ crossed \subseteq Posters /\ contended \subseteq Account

Init == /\ balance = [a \in {} |-> 0]
        /\ history = << >>
        /\ call = [p \in Posters |-> Idle]
        /\ crossed = {} /\ contended = {}

\* Fault: the upsert writes the zero balance over an existing row.
OpenResetting(a) ==
    /\ balance' = [b \in DOMAIN balance \cup {a} |->
                      IF b = a THEN 0 ELSE balance[b]]
    /\ UNCHANGED <<history, call>>

\* Upsert of one wallet account and its balance row: an existing row is kept.
Open(a) ==
    /\ balance' = [b \in DOMAIN balance \cup {a} |->
                      IF b \in DOMAIN balance THEN balance[b] ELSE 0]
    /\ UNCHANGED <<history, call>>

Posted(key) == \E i \in 1..Len(history) : history[i].key = key

\* Checks on the request itself, then the lookup of its idempotency key.
Lookup(p, r) ==
    /\ call[p] = Idle
    /\ WellFormed(r.posting) /\ Balanced(r.posting)
    /\ ~Posted(r.key)
    /\ call' = [call EXCEPT ![p] = [at |-> "loading", req |-> r]]
    /\ UNCHANGED <<balance, history>>

\* Fault: the check that user balances stay non-negative is missing.
LoadUnchecked(p) ==
    /\ call[p].at = "loading"
    /\ LET r == call[p].req
       IN  /\ PointsAtAccounts(r.posting, balance)
           /\ call' = [call EXCEPT ![p] =
                          [at |-> "writing", req |-> r,
                           next |-> NextBalances(r.posting, balance)]]
    /\ UNCHANGED <<balance, history>>

\* Read the accounts with their balances and simulate the result.
Load(p) ==
    /\ call[p].at = "loading"
    /\ LET r == call[p].req
           next == NextBalances(r.posting, balance)
       IN  /\ PointsAtAccounts(r.posting, balance)
           /\ ~Overdraws(next)
           /\ call' = [call EXCEPT ![p] =
                          [at |-> "writing", req |-> r, next |-> next]]
    /\ UNCHANGED <<balance, history>>

\* Fault: idempotencyKey is not unique in the database.
WriteNotUnique(p) ==
    /\ call[p].at = "writing"
    /\ history' = Append(history, call[p].req)
    /\ balance' = Overwrite(balance, call[p].next)
    /\ call' = [call EXCEPT ![p] = Idle]

\* Fault: the write increments the rows by the amounts checked earlier.
WriteIncrementing(p) ==
    /\ call[p].at = "writing"
    /\ ~Posted(call[p].req.key)
    /\ history' = Append(history, call[p].req)
    /\ balance' = Overwrite(balance, NextBalances(call[p].req.posting, balance))
    /\ call' = [call EXCEPT ![p] = Idle]

\* The transaction: the row of the unique key, its entries, the new balances.
Write(p) ==
    /\ call[p].at = "writing"
    /\ ~Posted(call[p].req.key)
    /\ history' = Append(history, call[p].req)
    /\ balance' = Overwrite(balance, call[p].next)
    /\ call' = [call EXCEPT ![p] = Idle]

\* Fault: the balances are not part of the transaction of the entries.
AbortHalfway(p) ==
    /\ call[p].at = "writing"
    /\ balance' = Overwrite(balance, call[p].next)
    /\ call' = [call EXCEPT ![p] = Idle]
    /\ UNCHANGED history

\* A 404, 400 or 409 after the read, a unique-key violation, a lost
\* connection, a crash, or a rollback of the caller's transaction.
Abort(p) ==
    /\ call[p] # Idle
    /\ call' = [call EXCEPT ![p] = Idle]
    /\ UNCHANGED <<balance, history>>

\* The accounts that a call has read and is about to write.
InHand(p) == IF call[p].at = "writing" THEN DOMAIN call[p].req.posting ELSE {}
Shared(p, q) == IF p = q THEN {} ELSE InHand(p) \cap InHand(q)

\* What a step adds to the history.
Recorded ==
    /\ crossed' = {p \in Posters : /\ call'[p].at = "writing"
                                   /\ \/ p \in crossed
                                      \/ \E q \in Posters : Shared(p, q)' # {}}
    /\ contended' = contended \cup UNION {Shared(p, q)' : p, q \in Posters}

Step == \/ \E a \in Account : Open(a)
        \/ \E p \in Posters : \/ \E r \in Mine[p] : Lookup(p, r)
                              \/ Load(p)
                              \/ Write(p)
                              \/ Abort(p)

Next == Step /\ Recorded

Spec == Init /\ [][Next]_vars
-------------------------------------------------------------------------------
\* Sum of all posted entries of an account.
EntrySum(a) ==
    SumFunction([i \in {j \in DOMAIN history : a \in DOMAIN history[j].posting} |->
                    history[i].posting[a].amount])

(* "User-owned balances may not go negative" (ledger.service.js:145), even *)
(* though the check and the write are separate steps and the balances may  *)
(* have changed in between.                                                *)
UserBalancesNonNegative ==
    \A a \in DOMAIN balance : IsUserOwned(a) => balance[a] >= 0

(* "Retries of the same business event must not post the same money        *)
(* movement twice" (ledger.service.js:74): two calls that both missed the  *)
(* key at their lookup do not both write.                                  *)
KeyPostedOnce ==
    \A i, j \in 1..Len(history) : history[i].key = history[j].key => i = j

(* The inductive form of the two invariants above: a call that is about to *)
(* write carries balances that passed the check when they were simulated,  *)
(* and the write sets exactly those.                                       *)
CheckedBalances ==
    \A p \in Posters : call[p].at = "writing" => ~Overdraws(call[p].next)

SafetyInv == TypeOK /\ UserBalancesNonNegative /\ KeyPostedOnce /\ CheckedBalances

(* Over the whole journal the entries of each asset sum to zero: no        *)
(* posting creates or destroys value, and none offsets one asset against   *)
(* another.                                                                *)
JournalConserves ==
    \A asset \in Assets :
        SumFunction([i \in DOMAIN history |-> AssetTotal(history[i].posting, asset)]) = 0

(* The journal is append-only, and the balance of an existing account      *)
(* changes only in the step that appends an entry for that account:        *)
(* opening an account again never resets it.                               *)
MovementsAreJournaled ==
    [][/\ Len(history') >= Len(history)
       /\ SubSeq(history', 1, Len(history)) = history
       /\ \A a \in DOMAIN balance :
             balance'[a] # balance[a] =>
                 /\ Len(history') = Len(history) + 1
                 /\ a \in DOMAIN history'[Len(history')].posting]_vars

(* A balance snapshot is the sum of its account's entries (README:139,     *)
(* "balances explainable and auditable"), and stays so as long as no two   *)
(* calls have the account in hand at once: overlap there, and nothing else *)
(* (no abort, no reuse of a key, no interleaving elsewhere), loses money.  *)
BalancesExplained == \A a \in DOMAIN balance \ contended : balance[a] = EntrySum(a)

(* "users cannot spend funds they do not have" (ledger.service.js:127):    *)
(* the entries of a user account never sum below zero.                     *)
UsersNeverOverspend ==
    \A a \in DOMAIN balance : IsUserOwned(a) => EntrySum(a) >= 0

(* The callers who cannot overlap: no two ever name the same account.      *)
Isolated ==
    \A p, q \in Posters : p # q =>
        \A r \in Mine[p], s \in Mine[q] : DOMAIN r.posting \cap DOMAIN s.posting = {}

Books == INSTANCE Accounting

(* The argument for it: what a call has read of an account is current,     *)
(* unless the call has overlapped with another one and the account is one  *)
(* that calls overlapped on.                                               *)
ReadsStayCurrent ==
    \A p \in Posters : call[p].at = "writing" =>
        /\ PointsAtAccounts(call[p].req.posting, balance)
        /\ \A a \in DOMAIN call[p].req.posting : p \notin crossed \/ a \notin contended =>
              call[p].next[a] = balance[a] + call[p].req.posting[a].amount

(* Read-then-write in separate steps is indistinguishable from the         *)
(* indivisible posting of Accounting, whatever else is interleaved, but    *)
(* for the write of a call that had an account in hand together with       *)
(* another one.                                                            *)
ImplementsAccounting ==
    /\ Books!Init
    /\ [][\/ Books!Next \/ UNCHANGED books
          \/ \E p \in crossed : Write(p)]_vars
===============================================================================
