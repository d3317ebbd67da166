----------------------------- MODULE LedgerProofs -----------------------------
(***************************************************************************)
(* Proofs about Ledger for any users, assets, requests and number of       *)
(* concurrent posters.                                                     *)
(***************************************************************************)
EXTENDS Ledger, DoubleEntryProofs

(* Ledger rows, balance rows and the calls in flight keep their types in   *)
(* every reachable state.                                                  *)
THEOREM TypeCorrect == Spec => []TypeOK
<1>1. Init => TypeOK
  BY DEF Init, TypeOK, RowsTyped, IsBalances, IsCall
<1>2. TypeOK /\ [Next]_vars => RowsTyped'
  <2> SUFFICES ASSUME TypeOK, [Next]_vars PROVE RowsTyped'
    OBVIOUS
  <2> USE RequestsAssumption, MineAssumption
  <2>1. ASSUME NEW a \in Account, Open(a) PROVE RowsTyped'
    <3>1. IsBalances(balance')
      BY <2>1 DEF TypeOK, RowsTyped, Open, IsBalances
    <3> QED BY <2>1, <3>1 DEF TypeOK, RowsTyped, Open, IsCall
  <2>2. ASSUME NEW p \in Posters, NEW r \in Mine[p], Lookup(p, r) PROVE RowsTyped'
    <3>1. r \in Requests
      OBVIOUS
    <3>2. call' = [call EXCEPT ![p] = [at |-> "loading", req |-> r]]
      BY <2>2 DEF Lookup
    <3>3. \A q \in Posters : IsCall(call'[q])
      BY <3>1, <3>2 DEF TypeOK, RowsTyped, IsCall
    <3> QED BY <2>2, <3>2, <3>3 DEF TypeOK, RowsTyped, Lookup, IsBalances
  <2>3. ASSUME NEW p \in Posters, Load(p) PROVE RowsTyped'
    <3> DEFINE r == call[p].req
               next == NextBalances(r.posting, balance)
    <3>1. r \in Requests
      BY <2>3 DEF TypeOK, RowsTyped, Load, IsCall, Idle
    <3>2. next \in [DOMAIN r.posting -> Int]
      BY <2>3, <3>1, NextBalancesType DEF TypeOK, RowsTyped, Load
    <3>3. call' = [call EXCEPT ![p] = [at |-> "writing", req |-> r, next |-> next]]
      BY <2>3 DEF Load
    <3>4. IsCall([at |-> "writing", req |-> r, next |-> next])
      BY <3>1, <3>2 DEF IsCall
    <3>5. \A q \in Posters : IsCall(call'[q])
      BY <3>3, <3>4 DEF TypeOK, RowsTyped
    <3> QED BY <2>3, <3>3, <3>5 DEF TypeOK, RowsTyped, Load, IsBalances
  <2>4. ASSUME NEW p \in Posters, Write(p) PROVE RowsTyped'
    <3>1. call[p].req \in Requests /\ call[p].next \in [DOMAIN call[p].req.posting -> Int]
      BY <2>4 DEF TypeOK, RowsTyped, Write, IsCall, Idle
    <3>2. IsBalances(balance')
      BY <2>4, <3>1, OverwriteType DEF TypeOK, RowsTyped, Write
    <3>3. history' \in Seq(Requests)
      BY <2>4, <3>1 DEF TypeOK, RowsTyped, Write
    <3>4. DOMAIN call' = Posters /\ \A q \in Posters : IsCall(call'[q])
      BY <2>4 DEF TypeOK, RowsTyped, Write, IsCall
    <3> QED BY <3>2, <3>3, <3>4 DEF TypeOK, RowsTyped
  <2>5. ASSUME NEW p \in Posters, Abort(p) PROVE RowsTyped'
    BY <2>5 DEF TypeOK, RowsTyped, Abort, IsCall, IsBalances
  <2>6. CASE UNCHANGED vars
    BY <2>6 DEF TypeOK, RowsTyped, vars, IsCall, IsBalances
  <2> QED BY <2>1, <2>2, <2>3, <2>4, <2>5, <2>6 DEF Next, Step
<1>3. TypeOK /\ RowsTyped' /\ [Next]_vars => TypeOK'
  <2> SUFFICES ASSUME TypeOK, RowsTyped', Next PROVE TypeOK'
    BY DEF TypeOK, vars
  <2>1. crossed' \subseteq Posters
    BY DEF Next, Recorded
  <2>2. ASSUME NEW p \in Posters PROVE InHand(p)' \subseteq Account
    <3>1. IsCall(call'[p])
      BY DEF RowsTyped
    <3> QED BY <3>1, RequestsAssumption DEF InHand, IsCall, Idle, IsPosting
  <2>3. contended' \subseteq Account
    BY <2>2 DEF Next, Recorded, Shared, TypeOK
  <2> QED BY <2>1, <2>3 DEF TypeOK
<1> QED BY <1>1, <1>2, <1>3, PTL DEF Spec

(* The strengthened invariant: types, non-negative user balances, one      *)
(* posting per key, and checked values in every pending write.             *)
THEOREM SafetyInvariant == Spec => []SafetyInv
<1>1. Init => SafetyInv
  BY DEF Init, SafetyInv, TypeOK, RowsTyped, IsBalances, IsCall, UserBalancesNonNegative,
         KeyPostedOnce, CheckedBalances, Idle
<1>2. SafetyInv /\ TypeOK' /\ [Next]_vars => SafetyInv'
  <2> SUFFICES ASSUME SafetyInv, TypeOK', [Next]_vars
               PROVE  UserBalancesNonNegative' /\ KeyPostedOnce' /\ CheckedBalances'
    BY DEF SafetyInv
  <2> USE DEF SafetyInv
  <2>1. ASSUME NEW a \in Account, Open(a)
        PROVE  UserBalancesNonNegative' /\ KeyPostedOnce' /\ CheckedBalances'
    <3>1. UserBalancesNonNegative'
      BY <2>1 DEF Open, UserBalancesNonNegative
    <3> QED BY <2>1, <3>1 DEF Open, KeyPostedOnce, CheckedBalances
  <2>2. ASSUME NEW p \in Posters, NEW r \in Mine[p], Lookup(p, r)
        PROVE  UserBalancesNonNegative' /\ KeyPostedOnce' /\ CheckedBalances'
    <3>1. CheckedBalances'
      BY <2>2 DEF Lookup, CheckedBalances, TypeOK, RowsTyped
    <3> QED BY <2>2, <3>1 DEF Lookup, UserBalancesNonNegative, KeyPostedOnce
  <2>3. ASSUME NEW p \in Posters, Load(p)
        PROVE  UserBalancesNonNegative' /\ KeyPostedOnce' /\ CheckedBalances'
    <3>1. CheckedBalances'
      BY <2>3 DEF Load, CheckedBalances, TypeOK, RowsTyped
    <3> QED BY <2>3, <3>1 DEF Load, UserBalancesNonNegative, KeyPostedOnce
  <2>4. ASSUME NEW p \in Posters, Write(p)
        PROVE  UserBalancesNonNegative' /\ KeyPostedOnce' /\ CheckedBalances'
    <3>1. ~Overdraws(call[p].next)
      BY <2>4 DEF Write, CheckedBalances
    <3>2. call[p].next \in [DOMAIN call[p].req.posting -> Int]
      BY <2>4 DEF TypeOK, RowsTyped, Write, IsCall, Idle
    <3>3. UserBalancesNonNegative'
      BY <2>4, <3>1, <3>2
      DEF Write, Overwrite, Overdraws, UserBalancesNonNegative, TypeOK, RowsTyped, IsBalances
    <3>4. KeyPostedOnce'
      <4>1. history \in Seq(Requests) /\ call[p].req \in Requests
        BY <2>4 DEF TypeOK, RowsTyped, Write, IsCall, Idle
      <4>2. history' = Append(history, call[p].req)
        BY <2>4 DEF Write
      <4>3. \A i \in 1..Len(history) : history[i].key # call[p].req.key
        BY <2>4 DEF Write, Posted
      <4> QED BY <4>1, <4>2, <4>3 DEF KeyPostedOnce
    <3>5. CheckedBalances'
      BY <2>4 DEF Write, CheckedBalances, TypeOK, RowsTyped, Idle
    <3> QED BY <3>3, <3>4, <3>5
  <2>5. ASSUME NEW p \in Posters, Abort(p)
        PROVE  UserBalancesNonNegative' /\ KeyPostedOnce' /\ CheckedBalances'
    <3>1. CheckedBalances'
      BY <2>5 DEF Abort, CheckedBalances, TypeOK, RowsTyped, Idle
    <3> QED BY <2>5, <3>1 DEF Abort, UserBalancesNonNegative, KeyPostedOnce
  <2>6. CASE UNCHANGED vars
    BY <2>6 DEF vars, UserBalancesNonNegative, KeyPostedOnce, CheckedBalances
  <2> QED BY <2>1, <2>2, <2>3, <2>4, <2>5, <2>6 DEF Next, Step
<1> QED BY <1>1, <1>2, TypeCorrect, PTL DEF Spec

(* "User-owned balances may not go negative" (ledger.service.js:145),      *)
(* whatever the interleaving of reads and writes.                          *)
THEOREM NoNegativeUserBalance == Spec => []UserBalancesNonNegative
<1>1. SafetyInv => UserBalancesNonNegative
  BY DEF SafetyInv
<1> QED BY <1>1, SafetyInvariant, PTL

(* "Retries of the same business event must not post the same money        *)
(* movement twice" (ledger.service.js:74).                                 *)
THEOREM AtMostOncePerKey == Spec => []KeyPostedOnce
<1>1. SafetyInv => KeyPostedOnce
  BY DEF SafetyInv
<1> QED BY <1>1, SafetyInvariant, PTL

(* The journal only grows, and no balance changes without an entry for its *)
(* account in the same step (ledger.service.js:158).                       *)
THEOREM NoSilentMovement == Spec => MovementsAreJournaled
<1> DEFINE Journaled ==
      /\ Len(history') >= Len(history)
      /\ SubSeq(history', 1, Len(history)) = history
      /\ \A a \in DOMAIN balance :
            balance'[a] # balance[a] =>
                /\ Len(history') = Len(history) + 1
                /\ a \in DOMAIN history'[Len(history')].posting
<1>1. TypeOK /\ [Next]_vars => [Journaled]_vars
  <2> SUFFICES ASSUME TypeOK, Next PROVE Journaled
    OBVIOUS
  <2>1. history \in Seq(Requests)
    BY DEF TypeOK, RowsTyped
  <2>2. CASE UNCHANGED history
    <3>1. \A a \in DOMAIN balance : balance'[a] = balance[a]
      <4>1. ASSUME NEW a \in Account, Open(a)
            PROVE  \A b \in DOMAIN balance : balance'[b] = balance[b]
        BY <4>1 DEF Open
      <4>2. ASSUME NEW p \in Posters, NEW r \in Mine[p], Lookup(p, r)
            PROVE  balance' = balance
        BY <4>2 DEF Lookup
      <4>3. ASSUME NEW p \in Posters, Load(p) PROVE balance' = balance
        BY <4>3 DEF Load
      <4>4. ASSUME NEW p \in Posters, Write(p) PROVE FALSE
        <5>1. call[p].req \in Requests
          BY <4>4 DEF TypeOK, RowsTyped, Write, IsCall, Idle
        <5> QED BY <2>1, <2>2, <4>4, <5>1 DEF Write
      <4>5. ASSUME NEW p \in Posters, Abort(p) PROVE balance' = balance
        BY <4>5 DEF Abort
      <4> QED BY <4>1, <4>2, <4>3, <4>4, <4>5 DEF Next, Step
    <3> QED BY <2>1, <2>2, <3>1
  <2>3. ASSUME NEW p \in Posters, Write(p) PROVE Journaled
    <3>1. /\ call[p].req \in Requests
          /\ call[p].next \in [DOMAIN call[p].req.posting -> Int]
      BY <2>3 DEF TypeOK, RowsTyped, Write, IsCall, Idle
    <3>2. history' = Append(history, call[p].req)
      BY <2>3 DEF Write
    <3>3. /\ Len(history') = Len(history) + 1
          /\ SubSeq(history', 1, Len(history)) = history
          /\ history'[Len(history')] = call[p].req
      BY <2>1, <3>1, <3>2
    <3>4. \A a \in DOMAIN balance :
             balance'[a] # balance[a] => a \in DOMAIN call[p].req.posting
      BY <2>3, <3>1 DEF Write, Overwrite
    <3> QED BY <2>1, <3>3, <3>4
  <2> QED BY <2>2, <2>3 DEF Next, Step, Open, Lookup, Load, Abort
<1> QED BY <1>1, TypeCorrect, PTL DEF Spec, MovementsAreJournaled
-------------------------------------------------------------------------------
\* A call in flight passed validation and is one its poster makes.
CallsAccepted ==
    \A p \in Posters : call[p] # Idle => /\ call[p].req \in Mine[p]
                                         /\ WellFormed(call[p].req.posting)
                                         /\ Balanced(call[p].req.posting)

(* The calls in flight have been through the checks of                     *)
(* ledger.service.js:18-72.                                                *)
LEMMA AcceptedInvariant == Spec => []CallsAccepted
<1>1. Init => CallsAccepted
  BY DEF Init, CallsAccepted
<1>2. TypeOK /\ CallsAccepted /\ [Next]_vars => CallsAccepted'
  <2> SUFFICES ASSUME TypeOK, CallsAccepted, [Next]_vars PROVE CallsAccepted'
    OBVIOUS
  <2>1. ASSUME NEW a \in Account, Open(a) PROVE CallsAccepted'
    BY <2>1 DEF Open, CallsAccepted
  <2>2. ASSUME NEW p \in Posters, NEW r \in Mine[p], Lookup(p, r)
        PROVE  CallsAccepted'
    BY <2>2 DEF Lookup, CallsAccepted, TypeOK, RowsTyped, Idle
  <2>3. ASSUME NEW p \in Posters, Load(p) PROVE CallsAccepted'
    BY <2>3 DEF Load, CallsAccepted, TypeOK, RowsTyped, Idle
  <2>4. ASSUME NEW p \in Posters, Write(p) PROVE CallsAccepted'
    BY <2>4 DEF Write, CallsAccepted, TypeOK, RowsTyped, Idle
  <2>5. ASSUME NEW p \in Posters, Abort(p) PROVE CallsAccepted'
    BY <2>5 DEF Abort, CallsAccepted, TypeOK, RowsTyped, Idle
  <2>6. CASE UNCHANGED vars
    BY <2>6 DEF vars, CallsAccepted
  <2> QED BY <2>1, <2>2, <2>3, <2>4, <2>5, <2>6 DEF Next, Step
<1> QED BY <1>1, <1>2, TypeCorrect, PTL DEF Spec

\* Two calls that have an account in hand are both recorded, and so is it.
CrossingsSeen ==
    \A p, q \in Posters : \A a \in Shared(p, q) :
        p \in crossed /\ q \in crossed /\ a \in contended

(* What the history variables remember of a step: every overlap there is   *)
(* now, and every earlier one of a call that goes on writing.              *)
LEMMA OverlapsRecorded ==
  ASSUME Recorded
  PROVE  /\ CrossingsSeen' /\ contended \subseteq contended'
         /\ \A p \in Posters : p \in crossed /\ call'[p].at = "writing" => p \in crossed'
<1>1. ASSUME NEW p \in Posters, NEW q \in Posters, NEW a \in Shared(p, q)'
      PROVE  p \in crossed' /\ q \in crossed' /\ a \in contended'
  <2>1. a \in InHand(p)' /\ a \in InHand(q)' /\ p # q
    BY <1>1 DEF Shared
  <2>2. call'[p].at = "writing" /\ call'[q].at = "writing"
    BY <2>1 DEF InHand
  <2>3. a \in Shared(q, p)'
    BY <2>1 DEF Shared
  <2> QED BY <1>1, <2>2, <2>3 DEF Recorded
<1>2. CrossingsSeen'
  BY <1>1 DEF CrossingsSeen
<1> QED BY <1>2 DEF Recorded

(* What a call has read of an account is current, unless the call is one   *)
(* that overlapped and the account one that calls overlapped on            *)
(* (ledger.service.js:98 and 180).                                         *)
LEMMA CurrentInvariant == Spec => [](CrossingsSeen /\ ReadsStayCurrent)
<1>1. Init => CrossingsSeen /\ ReadsStayCurrent
  BY DEF Init, CrossingsSeen, ReadsStayCurrent, Shared, InHand, Idle
<1>2. TypeOK /\ CrossingsSeen /\ ReadsStayCurrent /\ [Next]_vars
      => (CrossingsSeen /\ ReadsStayCurrent)'
  <2> SUFFICES ASSUME TypeOK, CrossingsSeen, ReadsStayCurrent, Next
               PROVE  CrossingsSeen' /\ ReadsStayCurrent'
    BY DEF vars, CrossingsSeen, ReadsStayCurrent, Shared, InHand
  <2>1. /\ CrossingsSeen' /\ contended \subseteq contended'
        /\ \A p \in Posters : p \in crossed /\ call'[p].at = "writing" => p \in crossed'
    BY OverlapsRecorded DEF Next
  <2> DEFINE Current(q) ==
        /\ PointsAtAccounts(call'[q].req.posting, balance')
        /\ \A a \in DOMAIN call'[q].req.posting : q \notin crossed' \/ a \notin contended' =>
              call'[q].next[a] = balance'[a] + call'[q].req.posting[a].amount
  <2> SUFFICES ASSUME NEW q \in Posters, call'[q].at = "writing" PROVE Current(q)
    BY <2>1 DEF ReadsStayCurrent
  <2>2. ASSUME call'[q] = call[q],
               \A a \in DOMAIN balance :
                  /\ a \in DOMAIN balance'
                  /\ a \in DOMAIN call[q].req.posting =>
                        balance'[a] = balance[a] \/ (q \in crossed /\ a \in contended)
        PROVE  Current(q)
    <3>1. /\ PointsAtAccounts(call[q].req.posting, balance)
          /\ \A a \in DOMAIN call[q].req.posting : q \notin crossed \/ a \notin contended =>
                call[q].next[a] = balance[a] + call[q].req.posting[a].amount
      BY <2>2 DEF ReadsStayCurrent
    <3> QED BY <2>1, <2>2, <3>1 DEF PointsAtAccounts
  <2> HIDE DEF Current
  <2>3. ASSUME NEW b \in Account, Open(b) PROVE Current(q)
    BY <2>2, <2>3 DEF Open
  <2>4. ASSUME NEW p \in Posters, NEW r \in Mine[p], Lookup(p, r) PROVE Current(q)
    <3>1. q # p /\ call'[q] = call[q] /\ balance' = balance
      BY <2>4 DEF Lookup, TypeOK, RowsTyped
    <3> QED BY <2>2, <3>1
  <2>5. ASSUME NEW p \in Posters, Load(p) PROVE Current(q)
    <3>1. CASE q = p
      BY <2>5, <3>1 DEF Load, Current, NextBalances, TypeOK, RowsTyped
    <3>2. CASE q # p
      <4>1. call'[q] = call[q] /\ balance' = balance
        BY <2>5, <3>2 DEF Load, TypeOK, RowsTyped
      <4> QED BY <2>2, <4>1
    <3> QED BY <3>1, <3>2
  <2>6. ASSUME NEW p \in Posters, Write(p) PROVE Current(q)
    <3>1. q # p /\ call'[q] = call[q]
      BY <2>6 DEF Write, TypeOK, RowsTyped, Idle
    <3>2. DOMAIN call[p].next = DOMAIN call[p].req.posting
      BY <2>6 DEF Write, TypeOK, RowsTyped, IsCall, Idle
    <3>3. ASSUME NEW a \in DOMAIN balance
          PROVE  /\ a \in DOMAIN balance'
                 /\ a \in DOMAIN call[q].req.posting =>
                        balance'[a] = balance[a] \/ (q \in crossed /\ a \in contended)
      <4>1. a \in DOMAIN balance'
        BY <2>6 DEF Write, Overwrite
      <4>2. CASE a \in DOMAIN call[p].req.posting /\ a \in DOMAIN call[q].req.posting
        <5>1. a \in Shared(p, q)
          BY <2>6, <3>1, <4>2 DEF Write, Shared, InHand
        <5> QED BY <4>1, <5>1 DEF CrossingsSeen
      <4>3. CASE a \notin DOMAIN call[p].req.posting
        BY <2>6, <3>2, <4>1, <4>3 DEF Write, Overwrite
      <4> QED BY <4>1, <4>2, <4>3
    <3> QED BY <2>2, <3>1, <3>3
  <2>7. ASSUME NEW p \in Posters, Abort(p) PROVE Current(q)
    <3>1. q # p /\ call'[q] = call[q] /\ balance' = balance
      BY <2>7 DEF Abort, TypeOK, RowsTyped, Idle
    <3> QED BY <2>2, <3>1
  <2> QED BY <2>3, <2>4, <2>5, <2>6, <2>7 DEF Next, Step
<1> QED BY <1>1, <1>2, TypeCorrect, PTL DEF Spec

(* Nobody overwrites an account between a call's read of it and its write, *)
(* but another call that has read it too: a call that overlapped with none *)
(* and an account that calls never overlapped on are written as if posting *)
(* were indivisible.                                                       *)
THEOREM OnlyOverlapsGoStale == Spec => []ReadsStayCurrent
<1> QED BY CurrentInvariant, PTL

(* The rules of bookkeeping are the same in both modules.                  *)
LEMMA SameRules ==
  /\ Books!Account = Account
  /\ \A x : Books!WellFormed(x) <=> WellFormed(x)
  /\ \A x : Books!Balanced(x) <=> Balanced(x)
  /\ \A x, b : Books!PointsAtAccounts(x, b) <=> PointsAtAccounts(x, b)
  /\ \A x, b : Books!NextBalances(x, b) = NextBalances(x, b)
  /\ \A n : Books!Overdraws(n) <=> Overdraws(n)
  /\ \A b, n : Books!Overwrite(b, n) = Overwrite(b, n)
<1>1. Books!Account = Account
  BY DEF Account, Books!Account, UserAccount, Books!UserAccount,
         SystemAccount, Books!SystemAccount
<1>2. \A x : Books!WellFormed(x) <=> WellFormed(x)
  BY DEF WellFormed, Books!WellFormed
<1>3. \A x : Books!Balanced(x) <=> Balanced(x)
  BY DEF Balanced, Books!Balanced, AssetTotal, Books!AssetTotal,
         SumFunctionOnSet, Books!SumFunctionOnSet,
         FoldFunctionOnSet, Books!FoldFunctionOnSet,
         MapThenFoldSet, Books!MapThenFoldSet
<1>4. \A x, b : Books!PointsAtAccounts(x, b) <=> PointsAtAccounts(x, b)
  BY DEF PointsAtAccounts, Books!PointsAtAccounts, AssetOf, Books!AssetOf
<1>5. \A x, b : Books!NextBalances(x, b) = NextBalances(x, b)
  BY DEF NextBalances, Books!NextBalances
<1>6. \A n : Books!Overdraws(n) <=> Overdraws(n)
  BY DEF Overdraws, Books!Overdraws, IsUserOwned, Books!IsUserOwned
<1>7. \A b, n : Books!Overwrite(b, n) = Overwrite(b, n)
  BY DEF Overwrite, Books!Overwrite
<1> QED BY <1>1, <1>2, <1>3, <1>4, <1>5, <1>6, <1>7

(* The write of a call that overlapped with no other one posts it as       *)
(* Accounting does.                                                        *)
LEMMA WritePosts ==
  ASSUME SafetyInv, CallsAccepted, ReadsStayCurrent,
         NEW p \in Posters, p \notin crossed, Write(p)
  PROVE  Books!Next
<1> DEFINE r == call[p].req
<1>1. r \in Requests /\ call[p].next \in [DOMAIN r.posting -> Int]
  BY DEF SafetyInv, TypeOK, RowsTyped, Write, IsCall, Idle
<1>2. WellFormed(r.posting) /\ Balanced(r.posting)
  BY DEF Write, CallsAccepted, Idle
<1>3. PointsAtAccounts(r.posting, balance)
      /\ call[p].next = NextBalances(r.posting, balance)
  BY <1>1 DEF Write, ReadsStayCurrent, NextBalances
<1>4. ~Overdraws(NextBalances(r.posting, balance))
  BY <1>3 DEF Write, SafetyInv, CheckedBalances
<1>5. ~Books!Posted(r.key)
  BY DEF Write, Posted, Books!Posted
<1>6. /\ history' = Append(history, r)
      /\ balance' = Overwrite(balance, NextBalances(r.posting, balance))
  BY <1>3 DEF Write
<1>7. Books!Post(r)
  BY <1>2, <1>3, <1>4, <1>5, <1>6, SameRules DEF Books!Post
<1> QED BY <1>1, <1>7 DEF Books!Next

(* Whatever is interleaved, each step is a step of the indivisible posting *)
(* of Accounting, or invisible to it, or the write of a call that had an   *)
(* account in hand together with another call.                             *)
THEOREM LedgerImplementsAccounting == Spec => ImplementsAccounting
<1>1. Init => Books!Init
  BY DEF Init, Books!Init
<1>2. /\ SafetyInv /\ CallsAccepted /\ ReadsStayCurrent
      /\ [Next]_vars
      => [\/ Books!Next \/ UNCHANGED books
          \/ \E p \in crossed : Write(p)]_vars
  <2> SUFFICES ASSUME SafetyInv, CallsAccepted, ReadsStayCurrent, Next
               PROVE  Books!Next \/ UNCHANGED books \/ \E p \in crossed : Write(p)
    OBVIOUS
  <2>1. ASSUME NEW a \in Account, Open(a) PROVE Books!Next
    BY <2>1, SameRules DEF Open, Books!Next, Books!Open
  <2>2. ASSUME NEW p \in Posters, Write(p)
        PROVE  Books!Next \/ \E q \in crossed : Write(q)
    BY <2>2, WritePosts
  <2>3. ASSUME NEW p \in Posters, \/ \E r \in Mine[p] : Lookup(p, r)
                                  \/ Load(p)
                                  \/ Abort(p)
        PROVE  UNCHANGED books
    BY <2>3 DEF Lookup, Load, Abort, books
  <2> QED BY <2>1, <2>2, <2>3 DEF Next, Step
<1> QED BY <1>1, <1>2, SafetyInvariant, AcceptedInvariant, OnlyOverlapsGoStale, PTL
        DEF Spec, ImplementsAccounting
-------------------------------------------------------------------------------
(* Callers who never name the same account never overlap.                  *)
LEMMA IsolatedNeverCross == ASSUME Isolated PROVE Spec => [](crossed = {} /\ contended = {})
<1>1. Init => crossed = {} /\ contended = {}
  BY DEF Init
<1>2. TypeOK' /\ CallsAccepted' /\ crossed = {} /\ contended = {} /\ [Next]_vars
      => (crossed = {} /\ contended = {})'
  <2> SUFFICES ASSUME CallsAccepted', crossed = {}, contended = {}, Next
               PROVE  crossed' = {} /\ contended' = {}
    BY DEF vars
  <2>1. ASSUME NEW p \in Posters, NEW q \in Posters PROVE Shared(p, q)' = {}
    <3>1. ASSUME NEW k \in Posters, InHand(k)' # {}
          PROVE  call'[k].req \in Mine[k] /\ InHand(k)' = DOMAIN call'[k].req.posting
      BY <3>1 DEF InHand, CallsAccepted, Idle
    <3> QED BY <3>1 DEF Shared, Isolated
  <2> QED BY <2>1 DEF Next, Recorded
<1> QED BY <1>1, <1>2, TypeCorrect, AcceptedInvariant, PTL DEF Spec

(* Callers who never name the same account cannot be told from the         *)
(* indivisible posting of Accounting: with nobody to overlap with, the     *)
(* read and the write of a call are one step.                              *)
THEOREM IsolatedImplementsAccounting == ASSUME Isolated PROVE Spec => Books!Spec
<1>1. Init => Books!Init
  BY DEF Init, Books!Init
<1>2. /\ SafetyInv /\ CallsAccepted /\ ReadsStayCurrent /\ crossed = {}
      /\ [Next]_vars
      => [Books!Next]_(Books!vars)
  <2> SUFFICES ASSUME SafetyInv, CallsAccepted, ReadsStayCurrent, crossed = {}, [Next]_vars
               PROVE  Books!Next \/ UNCHANGED Books!vars
    OBVIOUS
  <2>1. ASSUME NEW a \in Account, Open(a) PROVE Books!Next
    BY <2>1, SameRules DEF Open, Books!Next, Books!Open
  <2>2. ASSUME NEW p \in Posters, Write(p) PROVE Books!Next
    BY <2>2, WritePosts
  <2>3. ASSUME NEW p \in Posters, \/ \E r \in Mine[p] : Lookup(p, r)
                                  \/ Load(p)
                                  \/ Abort(p)
        PROVE  UNCHANGED Books!vars
    BY <2>3 DEF Lookup, Load, Abort, Books!vars
  <2>4. CASE UNCHANGED vars
    BY <2>4 DEF vars, Books!vars
  <2> QED BY <2>1, <2>2, <2>3, <2>4 DEF Next, Step
<1> QED BY <1>1, <1>2, SafetyInvariant, AcceptedInvariant, OnlyOverlapsGoStale,
           IsolatedNeverCross, PTL
        DEF Spec, Books!Spec
-------------------------------------------------------------------------------
\* What was posted passed the double-entry rule.
JournalBalanced == \A i \in DOMAIN history : Balanced(history[i].posting)

(* Over the whole journal the entries of each asset sum to zero            *)
(* (validateLedgerEntries, ledger.service.js:18-72, before every write).   *)
THEOREM JournalIsConserved == Spec => []JournalConserves
<1>1. Init => JournalBalanced
  BY DEF Init, JournalBalanced
<1>2. TypeOK /\ CallsAccepted /\ JournalBalanced /\ [Next]_vars => JournalBalanced'
  <2> SUFFICES ASSUME TypeOK, CallsAccepted, JournalBalanced, [Next]_vars
               PROVE  JournalBalanced'
    OBVIOUS
  <2>1. ASSUME NEW p \in Posters, Write(p) PROVE JournalBalanced'
    <3>1. /\ history \in Seq(Requests) /\ call[p].req \in Requests
          /\ history' = Append(history, call[p].req)
          /\ Balanced(call[p].req.posting)
      BY <2>1 DEF Write, TypeOK, RowsTyped, IsCall, Idle, CallsAccepted
    <3>2. \A i \in DOMAIN history' : history'[i] = IF i \in DOMAIN history THEN history[i]
                                                   ELSE call[p].req
      BY <3>1
    <3> QED BY <3>1, <3>2 DEF JournalBalanced
  <2>2. CASE UNCHANGED history
    BY <2>2 DEF JournalBalanced
  <2> QED BY <2>1, <2>2 DEF Next, Step, vars, Open, Lookup, Load, Abort
<1>3. TypeOK /\ JournalBalanced => JournalConserves
  <2> SUFFICES ASSUME TypeOK, JournalBalanced, NEW asset \in Assets
               PROVE  SumFunction([i \in DOMAIN history |->
                                      AssetTotal(history[i].posting, asset)]) = 0
    BY DEF JournalConserves
  <2> DEFINE total == [i \in DOMAIN history |-> AssetTotal(history[i].posting, asset)]
  <2>1. IsFiniteSet(DOMAIN history)
    <3>1. DOMAIN history = 1..Len(history) /\ Len(history) \in Int
      BY DEF TypeOK, RowsTyped
    <3> QED BY <3>1, FS_Interval
  <2>2. \A i \in DOMAIN history : total[i] = 0
    BY DEF JournalBalanced, Balanced
  <2>3. DOMAIN total = DOMAIN history
    OBVIOUS
  <2> HIDE DEF total
  <2>4. SumFunctionOnSet(total, DOMAIN history) = 0
    BY <2>1, <2>2, SumOfZeros
  <2>5. SumFunction(total) = 0
    BY <2>3, <2>4 DEF SumFunction
  <2> QED BY <2>5 DEF total
<1> QED BY <1>1, <1>2, <1>3, TypeCorrect, AcceptedInvariant, PTL DEF Spec
-------------------------------------------------------------------------------
\* The rows of a journal that have an entry for an account, and its amount.
EntriesOf(a, rows) == {j \in DOMAIN rows : a \in DOMAIN rows[j].posting}
AmountsOf(a, rows) == [i \in EntriesOf(a, rows) |-> rows[i].posting[a].amount]
SumOf(a, rows) == SumFunctionOnSet(AmountsOf(a, rows), EntriesOf(a, rows))

(* The entries of an account are finitely many integers.                   *)
LEMMA EntriesTyped ==
  ASSUME NEW rows \in Seq(Requests), NEW a
  PROVE  /\ IsFiniteSet(EntriesOf(a, rows))
         /\ \A i \in EntriesOf(a, rows) : AmountsOf(a, rows)[i] \in Int
         /\ SumOf(a, rows) \in Int
<1>1. IsFiniteSet(EntriesOf(a, rows))
  <2>1. DOMAIN rows = 1..Len(rows) /\ Len(rows) \in Int
    OBVIOUS
  <2>2. EntriesOf(a, rows) \in SUBSET DOMAIN rows
    BY DEF EntriesOf
  <2> QED BY <2>1, <2>2, FS_Interval, FS_Subset
<1>2. \A i \in EntriesOf(a, rows) : AmountsOf(a, rows)[i] \in Int
  <2>1. \A i \in DOMAIN rows : rows[i] \in Requests
    OBVIOUS
  <2> QED BY <2>1, RequestsAssumption DEF AmountsOf, EntriesOf, IsPosting
<1>3. SumOf(a, rows) \in Int
  BY <1>1, <1>2, SumType DEF SumOf
<1> QED BY <1>1, <1>2, <1>3

(* A posted request adds its entry to the account's sum, if it has one.    *)
LEMMA SumAppended ==
  ASSUME NEW rows \in Seq(Requests), NEW r \in Requests, NEW a
  PROVE  SumOf(a, Append(rows, r)) =
            SumOf(a, rows) + (IF a \in DOMAIN r.posting THEN r.posting[a].amount ELSE 0)
<1> DEFINE n == Len(rows) + 1
           longer == Append(rows, r)
           S == EntriesOf(a, rows)
           f == AmountsOf(a, rows)
           g == AmountsOf(a, longer)
<1>1. /\ n \notin DOMAIN rows /\ DOMAIN longer = DOMAIN rows \cup {n}
      /\ longer[n] = r /\ \A i \in DOMAIN rows : longer[i] = rows[i]
      /\ longer \in Seq(Requests)
  OBVIOUS
<1> HIDE DEF n, longer
<1>2. /\ IsFiniteSet(S) /\ \A i \in S : f[i] \in Int
      /\ SumFunctionOnSet(f, S) \in Int
  BY EntriesTyped DEF SumOf
<1>3. \A i \in EntriesOf(a, longer) : g[i] \in Int
  BY <1>1, EntriesTyped
<1>4. \A i \in S : g[i] = f[i] /\ i \in EntriesOf(a, longer)
  BY <1>1 DEF EntriesOf, AmountsOf
<1>5. CASE a \in DOMAIN r.posting
  <2>1. EntriesOf(a, longer) = S \cup {n} /\ n \notin S /\ g[n] = r.posting[a].amount
    BY <1>1, <1>5 DEF EntriesOf, AmountsOf
  <2>2. g[n] \in Int /\ \A i \in S : g[i] \in Int
    BY <1>3, <2>1
  <2> HIDE DEF S, f, g
  <2>3. SumFunctionOnSet(g, S \cup {n}) = SumFunctionOnSet(g, S) + g[n]
    <3>1. IsFiniteSet(S) /\ n \notin S /\ g[n] \in Int /\ \A i \in S : g[i] \in Int
      BY <1>2, <2>1, <2>2
    <3> QED BY <3>1, SumAdds
  <2>4. SumFunctionOnSet(g, S) = SumFunctionOnSet(f, S)
    <3>1. IsFiniteSet(S) /\ \A i \in S : f[i] \in Int /\ g[i] = f[i]
      BY <1>2, <1>4
    <3> QED BY <3>1, SumOfEqual
  <2>5. SumFunctionOnSet(g, EntriesOf(a, longer)) = SumFunctionOnSet(f, S) + r.posting[a].amount
    BY <2>1, <2>3, <2>4
  <2> QED BY <1>5, <2>5 DEF SumOf, S, f, g, longer
<1>6. CASE a \notin DOMAIN r.posting
  <2>1. EntriesOf(a, longer) = S
    BY <1>1, <1>6 DEF EntriesOf
  <2> HIDE DEF S, f, g
  <2>2. SumFunctionOnSet(g, S) = SumFunctionOnSet(f, S)
    BY <1>2, <1>4, SumOfEqual
  <2>3. SumFunctionOnSet(g, EntriesOf(a, longer)) = SumFunctionOnSet(f, S) + 0
    BY <1>2, <2>1, <2>2
  <2> QED BY <1>6, <2>3 DEF SumOf, S, f, g, longer
<1> QED BY <1>5, <1>6

(* The sum of the entries of an account, as the journal states it, is the  *)
(* sum over the postings that FiniteSums reasons about.                    *)
LEMMA EntrySumIsSumOf == \A a : EntrySum(a) = SumOf(a, history)
<1> SUFFICES ASSUME NEW a PROVE EntrySum(a) = SumOf(a, history)
  OBVIOUS
<1>1. EntrySum(a) = SumFunction(AmountsOf(a, history))
  BY DEF EntrySum, AmountsOf, EntriesOf
<1>2. DOMAIN AmountsOf(a, history) = EntriesOf(a, history)
  BY DEF AmountsOf
<1> QED BY <1>1, <1>2 DEF SumFunction, SumOf

\* The inductive form of BalancesExplained: no row names an account that has
\* not been opened, so an account opened later starts with the sum it has.
ExplainedInv ==
  /\ \A i \in DOMAIN history : DOMAIN history[i].posting \subseteq DOMAIN balance
  /\ \A a \in DOMAIN balance \ contended : balance[a] = SumOf(a, history)

(* The balance of an account is the sum of its entries (README:139) as     *)
(* long as no two calls have had the account in hand at once.              *)
THEOREM ExplainedUnlessContended == Spec => []BalancesExplained
<1>1. Init => ExplainedInv
  BY DEF Init, ExplainedInv
<1>2. TypeOK /\ ReadsStayCurrent /\ ExplainedInv /\ [Next]_vars => ExplainedInv'
  <2> SUFFICES ASSUME TypeOK, ReadsStayCurrent, ExplainedInv, Next PROVE ExplainedInv'
    BY DEF vars, ExplainedInv
  <2>0. contended \subseteq contended'
    BY OverlapsRecorded DEF Next
  <2>1. ASSUME NEW b \in Account, Open(b) PROVE ExplainedInv'
    <3>1. \A a \in DOMAIN balance : a \in DOMAIN balance' /\ balance'[a] = balance[a]
      BY <2>1 DEF Open
    <3>2. b \notin DOMAIN balance => balance'[b] = SumOf(b, history)
      <4> SUFFICES ASSUME b \notin DOMAIN balance PROVE balance'[b] = SumOf(b, history)
        OBVIOUS
      <4>1. balance'[b] = 0
        BY <2>1 DEF Open
      <4>2. EntriesOf(b, history) = {}
        BY DEF EntriesOf, ExplainedInv
      <4> QED BY <4>1, <4>2, SumOfNothing DEF SumOf
    <3> QED BY <2>0, <2>1, <3>1, <3>2 DEF Open, ExplainedInv
  <2>2. ASSUME NEW p \in Posters, Write(p) PROVE ExplainedInv'
    <3> DEFINE r == call[p].req
    <3>1. /\ history \in Seq(Requests) /\ r \in Requests
          /\ history' = Append(history, r)
          /\ balance' = Overwrite(balance, call[p].next)
          /\ PointsAtAccounts(r.posting, balance)
          /\ DOMAIN call[p].next = DOMAIN r.posting
          /\ \A a \in DOMAIN r.posting : a \notin contended =>
                call[p].next[a] = balance[a] + r.posting[a].amount
      BY <2>2 DEF Write, TypeOK, RowsTyped, IsCall, Idle, ReadsStayCurrent
    <3> HIDE DEF r
    <3>2. DOMAIN balance' = DOMAIN balance /\ DOMAIN r.posting \subseteq DOMAIN balance
      BY <3>1 DEF Overwrite, PointsAtAccounts
    <3>3. \A i \in DOMAIN history' : DOMAIN history'[i].posting \subseteq DOMAIN balance'
      <4>1. ASSUME NEW i \in DOMAIN history'
            PROVE  history'[i] = r \/ (i \in DOMAIN history /\ history'[i] = history[i])
        BY <3>1
      <4> QED BY <3>2, <4>1 DEF ExplainedInv
    <3>4. ASSUME NEW a \in DOMAIN balance' \ contended' PROVE balance'[a] = SumOf(a, history')
      <4>1. /\ a \notin contended
            /\ balance[a] = SumOf(a, history) /\ SumOf(a, history) \in Int
        BY <2>0, <3>1, <3>2, EntriesTyped DEF ExplainedInv
      <4>2. SumOf(a, history') = SumOf(a, history) +
               (IF a \in DOMAIN r.posting THEN r.posting[a].amount ELSE 0)
        BY <3>1, SumAppended
      <4>3. balance'[a] = IF a \in DOMAIN r.posting THEN balance[a] + r.posting[a].amount
                          ELSE balance[a]
        BY <3>1, <3>2, <4>1 DEF Overwrite
      <4> QED BY <4>1, <4>2, <4>3
    <3> QED BY <3>3, <3>4 DEF ExplainedInv
  <2>3. CASE UNCHANGED <<balance, history>>
    BY <2>0, <2>3 DEF ExplainedInv
  <2> QED BY <2>1, <2>2, <2>3 DEF Next, Step, Lookup, Load, Abort
<1>3. ExplainedInv => BalancesExplained
  BY EntrySumIsSumOf DEF ExplainedInv, BalancesExplained
<1> QED BY <1>1, <1>2, <1>3, TypeCorrect, OnlyOverlapsGoStale, PTL DEF Spec

(* While no two posters name one account, "users cannot spend funds they   *)
(* do not have" (ledger.service.js:127); the run ledger_overspend shows    *)
(* what happens otherwise.                                                 *)
THEOREM IsolatedNeverOverspend == ASSUME Isolated PROVE Spec => []UsersNeverOverspend
<1>1. contended = {} /\ BalancesExplained /\ UserBalancesNonNegative => UsersNeverOverspend
  BY DEF BalancesExplained, UserBalancesNonNegative, UsersNeverOverspend
<1> QED BY <1>1, IsolatedNeverCross, ExplainedUnlessContended, NoNegativeUserBalance, PTL
===============================================================================
