------------------------------ MODULE OutboxProofs ------------------------------
(***************************************************************************)
(* Proofs about Outbox for any events, any number of workers and any       *)
(* number of faults, and about Candles, which reads what Outbox has sent.  *)
(***************************************************************************)
EXTENDS EventPipeline, FiniteSums

\* What a row of the outbox says is true of the topic, and its attempts are
\* paid for by failures; the one extra attempt ends when the row is pending.
RowSound(e) ==
    /\ outbox[e].status = "ABSENT" => outbox[e] = Absent
    /\ outbox[e].status = "PUBLISHED" => Copies(e) > 0
    /\ Copies(e) <= outbox[e].attempts
    /\ outbox[e].attempts <= 1 + logFaults
    /\ outbox[e].status = "PENDING" => outbox[e].attempts <= logFaults

\* A worker that is at work has a batch, and the row it holds is claimed:
\* attempted once more than sent until it is sent, sent before it is marked,
\* and postponed only after a failure.
HolderSound(w) ==
    /\ worker[w].pc # "idle" => worker[w].batch # << >>
    /\ worker[w].pc \in {"publish", "mark"} => outbox[Row(w)].status = "PUBLISHING"
    /\ worker[w].pc = "publish" => Copies(Row(w)) < outbox[Row(w)].attempts
    /\ worker[w].pc = "mark" => Copies(Row(w)) > 0
    /\ worker[w].pc = "postpone" => /\ outbox[Row(w)].status \in {"PUBLISHING", "PUBLISHED"}
                                    /\ outbox[Row(w)].attempts <= logFaults

HoldersExclude ==
    \A e \in DomainEvents, v, w \in OutboxWorkers : Holds(v, e) /\ Holds(w, e) => v = w

\* The rows and the workers agree.
WorkInv == /\ OutboxTypeOK
           /\ \A e \in DomainEvents : RowSound(e)
           /\ \A w \in OutboxWorkers : HolderSound(w)
           /\ HoldersExclude

\* The rows that nobody will look at again, and the changes without a row.
StrandedRows == {e \in DomainEvents : Stranded(e)}
MissedEvents == {e \in happened \ emitting : outbox[e] = Absent}

\* Each of them was paid for by a failure, and no trade is missed.
LossesPaid == /\ IsFiniteSet(StrandedRows) /\ Cardinality(StrandedRows) <= logFaults
              /\ IsFiniteSet(MissedEvents) /\ Cardinality(MissedEvents) <= logFaults
              /\ MissedEvents \cap TradeEvents = {}

OutboxInv == WorkInv /\ LossesPaid

(* A batch is made of rows of the outbox, whatever is due.                 *)
LEMMA DueBatchType ==
  ASSUME created \in Seq(DomainEvents)
  PROVE  DueBatch \in Seq(DomainEvents)
<1> DEFINE N == Len(created)
           Row1(r, n) == IF Due(created[n]) /\ Len(r) < OUTBOX_BATCH_SIZE
                         THEN Append(r, created[n]) ELSE r
           Scan(r, n) == r = [k \in 0..n |-> IF k = 0 THEN << >> ELSE Row1(r[k - 1], k)]
<1>1. N \in Nat /\ \A n \in 1..N : created[n] \in DomainEvents
  OBVIOUS
<1> HIDE DEF N, Row1
<1>2. \E r : Scan(r, N)
  <2> DEFINE F == {n \in 0..N : \E r : Scan(r, n)}
  <2>1. 0 \in F
    <3>1. Scan([k \in 0..0 |-> << >>], 0)
      OBVIOUS
    <3>2. \E r : Scan(r, 0)
      BY <3>1
    <3>3. 0 \in 0..N
      BY <1>1
    <3> HIDE DEF Scan
    <3> QED BY <3>2, <3>3
  <2>2. ASSUME NEW n \in 0..(N - 1), n \in F PROVE n + 1 \in F
    <3>1. n \in Nat /\ n + 1 \in 0..N
      BY <1>1
    <3>2. PICK r : Scan(r, n)
      BY <2>2
    <3> DEFINE s == [k \in 0..(n + 1) |-> IF k = n + 1 THEN Row1(r[n], k) ELSE r[k]]
    <3>3. ASSUME NEW k \in 0..(n + 1)
          PROVE  s[k] = IF k = 0 THEN << >> ELSE Row1(s[k - 1], k)
      <4>1. CASE k = n + 1
        <5>1. k # 0 /\ k - 1 = n /\ n \in 0..(n + 1) /\ n # n + 1
          BY <3>1, <4>1
        <5>2. s[n] = r[n]
          BY <5>1
        <5> QED BY <4>1, <5>1, <5>2
      <4>2. CASE k # n + 1
        <5>1. k \in 0..n
          BY <3>1, <4>2
        <5>2. s[k] = r[k] /\ (k # 0 => s[k - 1] = r[k - 1])
          BY <3>1, <5>1
        <5>3. r[k] = IF k = 0 THEN << >> ELSE Row1(r[k - 1], k)
          BY <3>2, <5>1
        <5> QED BY <5>2, <5>3
      <4> QED BY <4>1, <4>2
    <3>4. Scan(s, n + 1)
      <4>1. s = [k \in 0..(n + 1) |-> s[k]]
        OBVIOUS
      <4> HIDE DEF s
      <4> QED BY <3>3, <4>1
    <3> QED BY <3>1, <3>4
  <2> HIDE DEF F
  <2>3. N \in F
    BY <1>1, <2>1, <2>2, IntervalInduction
  <2> QED BY <2>3 DEF F
<1> DEFINE rows == CHOOSE r : Scan(r, N)
<1>3. Scan(rows, N)
  BY <1>2
<1>4. DueBatch = rows[N]
  BY DEF DueBatch, N, Row1
<1> HIDE DEF rows
<1>5. rows[N] \in Seq(DomainEvents)
  <2> DEFINE F == {n \in 0..N : rows[n] \in Seq(DomainEvents)}
  <2>1. 0 \in F
    BY <1>1, <1>3
  <2>2. ASSUME NEW n \in 0..(N - 1), n \in F PROVE n + 1 \in F
    <3>1. n + 1 \in 1..N /\ n + 1 # 0 /\ (n + 1) - 1 = n
      BY <1>1
    <3>2. rows[n + 1] = Row1(rows[n], n + 1)
      BY <1>1, <1>3, <3>1
    <3>3. created[n + 1] \in DomainEvents
      BY <1>1, <3>1
    <3>4. Row1(rows[n], n + 1) \in Seq(DomainEvents)
      BY <2>2, <3>3 DEF Row1
    <3> QED BY <3>1, <3>2, <3>4
  <2> HIDE DEF F
  <2>3. N \in F
    BY <1>1, <2>1, <2>2, IntervalInduction
  <2> QED BY <2>3 DEF F
<1> QED BY <1>4, <1>5

(* The places of a message in a log are finitely many.                     *)
LEMMA CountedCopies ==
  ASSUME NEW D, NEW s \in Seq(D), NEW f
  PROVE  /\ IsFiniteSet({i \in DOMAIN s : s[i] = f})
         /\ Cardinality({i \in DOMAIN s : s[i] = f}) \in Nat
<1> DEFINE C == {i \in DOMAIN s : s[i] = f}
<1>1. IsFiniteSet(1..Len(s))
  BY FS_Interval
<1>2. C \in SUBSET (1..Len(s))
  OBVIOUS
<1> HIDE DEF C
<1>3. IsFiniteSet(C)
  BY <1>1, <1>2, FS_Subset
<1>4. Cardinality(C) \in Nat
  BY <1>3, FS_CardinalityType
<1> QED BY <1>3, <1>4 DEF C

(* A message that is appended is one more copy of itself and of no other.  *)
LEMMA AppendedCopies ==
  ASSUME NEW D, NEW s \in Seq(D), NEW e \in D, NEW f \in D
  PROVE  Cardinality({i \in DOMAIN Append(s, e) : Append(s, e)[i] = f})
            = Cardinality({i \in DOMAIN s : s[i] = f}) + (IF f = e THEN 1 ELSE 0)
<1> DEFINE C == {i \in DOMAIN s : s[i] = f}
           E == {i \in DOMAIN Append(s, e) : Append(s, e)[i] = f}
           n == Len(s) + 1
<1>1. IsFiniteSet(C) /\ Cardinality(C) \in Nat
  BY CountedCopies
<1>2. n \notin C
  OBVIOUS
<1>3. f = e => E = C \cup {n}
  OBVIOUS
<1>4. f # e => E = C
  OBVIOUS
<1> HIDE DEF C, E, n
<1>5. Cardinality(C \cup {n}) = Cardinality(C) + 1
  BY <1>1, <1>2, FS_AddElement
<1>6. Cardinality(E) = Cardinality(C) + (IF f = e THEN 1 ELSE 0)
  <2>1. CASE f = e
    <3>1. E = C \cup {n}
      BY <1>3, <2>1
    <3> QED BY <1>5, <2>1, <3>1
  <2>2. CASE f # e
    BY <1>1, <1>4, <2>2
  <2> QED BY <2>1, <2>2
<1> QED BY <1>6 DEF C, E

(* Copies counts the messages of the topic.                                *)
LEMMA CopiesType ==
  ASSUME OutboxTypeOK, NEW e \in DomainEvents
  PROVE  Copies(e) \in Nat
<1>1. log[PartitionOf[e]] \in Seq(DomainEvents)
  BY LogAssumption DEF OutboxTypeOK
<1> DEFINE s == log[PartitionOf[e]]
<1> HIDE DEF s
<1>2. s \in Seq(DomainEvents)
  BY <1>1 DEF s
<1>3. Cardinality({i \in DOMAIN s : s[i] = e}) \in Nat
  BY <1>2, CountedCopies
<1> QED BY <1>3 DEF Copies, s

(* A message that is sent is one more copy of its event.                   *)
LEMMA SendCounts ==
  ASSUME OutboxTypeOK, NEW e \in DomainEvents, Send(e)
  PROVE  /\ log' \in [Partitions -> Seq(DomainEvents)]
         /\ \A f \in DomainEvents : Copies(f)' = Copies(f) + (IF f = e THEN 1 ELSE 0)
<1> USE LogAssumption
<1>1. log \in [Partitions -> Seq(DomainEvents)] /\ PartitionOf[e] \in Partitions
  BY DEF OutboxTypeOK
<1>2. log' = [log EXCEPT ![PartitionOf[e]] = Append(log[PartitionOf[e]], e)]
  BY DEF Send
<1>3. log' \in [Partitions -> Seq(DomainEvents)]
  BY <1>1, <1>2
<1>4. ASSUME NEW f \in DomainEvents
      PROVE  Copies(f)' = Copies(f) + (IF f = e THEN 1 ELSE 0)
  <2> DEFINE s == log[PartitionOf[f]]
             t == log'[PartitionOf[f]]
  <2>1. s \in Seq(DomainEvents)
    BY <1>1
  <2>2. Copies(f) = Cardinality({i \in DOMAIN s : s[i] = f})
        /\ Copies(f)' = Cardinality({i \in DOMAIN t : t[i] = f})
    BY DEF Copies
  <2>3. CASE PartitionOf[f] = PartitionOf[e]
    <3>1. t = Append(s, e)
      BY <1>1, <1>2, <2>3
    <3> HIDE DEF s, t
    <3>2. Cardinality({i \in DOMAIN t : t[i] = f})
            = Cardinality({i \in DOMAIN s : s[i] = f}) + (IF f = e THEN 1 ELSE 0)
      BY <2>1, <3>1, AppendedCopies
    <3> QED BY <2>2, <3>2
  <2>4. CASE PartitionOf[f] # PartitionOf[e]
    <3>1. t = s /\ f # e
      BY <1>1, <1>2, <2>4
    <3> HIDE DEF s, t
    <3>2. Cardinality({i \in DOMAIN s : s[i] = f}) \in Nat
      BY <2>1, CountedCopies
    <3> QED BY <2>2, <3>1, <3>2
  <2> QED BY <2>3, <2>4
<1> QED BY <1>3, <1>4

(* A batch of more than one row has a next row.                            *)
LEMMA BatchGoesOn ==
  ASSUME NEW D, NEW b \in Seq(D), b # << >>, Len(b) # 1
  PROVE  Tail(b) \in Seq(D) /\ Tail(b) # << >>
<1>1. Len(b) \in Nat /\ Len(b) # 0
  OBVIOUS
<1>2. Tail(b) \in Seq(D) /\ Len(Tail(b)) = Len(b) - 1
  OBVIOUS
<1>3. Len(Tail(b)) # 0
  <2> DEFINE n == Len(b)
  <2>1. n \in Nat /\ n # 0 /\ n # 1
    BY <1>1
  <2> HIDE DEF n
  <2>2. n - 1 # 0
    BY <2>1
  <2> QED BY <1>2, <2>2 DEF n
<1>4. Tail(b) # << >>
  <2>1. Len(<< >>) = 0
    OBVIOUS
  <2> QED BY <1>3, <2>1, Zenon
<1> QED BY <1>2, <1>4

(* The workers' moves keep their records, and change nobody else.          *)
LEMMA WorkerMoves ==
  ASSUME OutboxTypeOK, NEW w \in OutboxWorkers, HolderSound(w), worker[w].pc # "idle"
  PROVE  /\ Row(w) \in DomainEvents
         /\ \A pc \in {"claim", "publish", "mark", "postpone"} :
              Goto(w, pc) => /\ worker' \in [OutboxWorkers ->
                                  [pc : {"idle", "claim", "publish", "mark", "postpone"},
                                   batch : Seq(DomainEvents)]]
                             /\ worker'[w].pc = pc /\ worker'[w].batch = worker[w].batch
                             /\ \A v \in OutboxWorkers \ {w} : worker'[v] = worker[v]
         /\ Stop(w) \/ NextRow(w) =>
              /\ worker' \in [OutboxWorkers ->
                                  [pc : {"idle", "claim", "publish", "mark", "postpone"},
                                   batch : Seq(DomainEvents)]]
              /\ worker'[w].pc \in {"idle", "claim"}
              /\ worker'[w].pc = "claim" => worker'[w].batch # << >>
              /\ \A v \in OutboxWorkers \ {w} : worker'[v] = worker[v]
<1>1. worker[w] \in [pc : {"idle", "claim", "publish", "mark", "postpone"},
                     batch : Seq(DomainEvents)]
      /\ worker[w].batch # << >>
  BY DEF OutboxTypeOK, HolderSound
<1>2. Row(w) \in DomainEvents
  BY <1>1 DEF Row
<1>3. IdleWorker \in [pc : {"idle", "claim", "publish", "mark", "postpone"},
                      batch : Seq(DomainEvents)]
      /\ IdleWorker.pc = "idle"
  BY DEF IdleWorker
<1>4. Len(worker[w].batch) # 1 => /\ Tail(worker[w].batch) \in Seq(DomainEvents)
                                  /\ Tail(worker[w].batch) # << >>
  BY <1>1, BatchGoesOn
<1>5. ASSUME NEW pc \in {"claim", "publish", "mark", "postpone"}, Goto(w, pc)
      PROVE  /\ worker' \in [OutboxWorkers ->
                                  [pc : {"idle", "claim", "publish", "mark", "postpone"},
                                   batch : Seq(DomainEvents)]]
             /\ worker'[w].pc = pc /\ worker'[w].batch = worker[w].batch
             /\ \A v \in OutboxWorkers \ {w} : worker'[v] = worker[v]
  BY <1>1, <1>5 DEF Goto, OutboxTypeOK
<1>6. ASSUME Stop(w) \/ NextRow(w)
      PROVE  /\ worker' \in [OutboxWorkers ->
                                  [pc : {"idle", "claim", "publish", "mark", "postpone"},
                                   batch : Seq(DomainEvents)]]
             /\ worker'[w].pc \in {"idle", "claim"}
             /\ worker'[w].pc = "claim" => worker'[w].batch # << >>
             /\ \A v \in OutboxWorkers \ {w} : worker'[v] = worker[v]
  <2>1. PICK r \in [pc : {"idle", "claim"}, batch : Seq(DomainEvents)] :
          /\ worker' = [worker EXCEPT ![w] = r]
          /\ r.pc = "claim" => r.batch # << >>
    <3>1. CASE Stop(w) \/ Len(worker[w].batch) = 1
      <4>1. worker' = [worker EXCEPT ![w] = IdleWorker]
        BY <1>6, <3>1 DEF Stop, NextRow
      <4>2. /\ IdleWorker \in [pc : {"idle", "claim"}, batch : Seq(DomainEvents)]
            /\ IdleWorker.pc # "claim"
        BY DEF IdleWorker
      <4> QED BY <4>1, <4>2
    <3>2. CASE ~(Stop(w) \/ Len(worker[w].batch) = 1)
      <4> DEFINE r == [pc |-> "claim", batch |-> Tail(worker[w].batch)]
      <4>1. worker' = [worker EXCEPT ![w] = r] /\ r.batch # << >> /\ r.batch \in Seq(DomainEvents)
        BY <1>4, <1>6, <3>2 DEF Stop, NextRow
      <4> QED BY <4>1
    <3> QED BY <3>1, <3>2
  <2>2. r \in [pc : {"idle", "claim", "publish", "mark", "postpone"}, batch : Seq(DomainEvents)]
    OBVIOUS
  <2>3. worker \in [OutboxWorkers -> [pc : {"idle", "claim", "publish", "mark", "postpone"},
                                       batch : Seq(DomainEvents)]]
    BY DEF OutboxTypeOK
  <2> QED BY <2>1, <2>2, <2>3
<1> QED BY <1>2, <1>5, <1>6

(* A held row is a row, and a step that leaves the row and the worker      *)
(* alone leaves what the invariant says of the worker.                     *)
LEMMA HolderStays ==
  ASSUME OutboxTypeOK, OutboxTypeOK', NEW v \in OutboxWorkers, HolderSound(v),
         worker'[v] = worker[v], logFaults' >= logFaults,
         \A f \in DomainEvents : Holds(v, f) => /\ outbox'[f] = outbox[f]
                                                /\ Copies(f)' = Copies(f)
  PROVE  HolderSound(v)' /\ \A f : Holds(v, f)' = Holds(v, f)
<1>1. Row(v)' = Row(v) /\ \A f : Holds(v, f)' = Holds(v, f)
  BY DEF Holds, Row
<1>2. worker[v].pc # "idle" => Row(v) \in DomainEvents
  BY WorkerMoves
<1>3. worker[v].pc \in {"publish", "mark", "postpone"} =>
         outbox'[Row(v)] = outbox[Row(v)] /\ Copies(Row(v))' = Copies(Row(v))
  BY <1>1, <1>2 DEF Holds
<1>4. worker[v].pc \in {"publish", "mark", "postpone"} =>
         outbox[Row(v)].attempts \in Nat
  BY <1>2 DEF OutboxTypeOK
<1>5. logFaults \in Nat /\ logFaults' \in Nat
  BY LogAssumption DEF OutboxTypeOK
<1> QED BY <1>1, <1>3, <1>4, <1>5 DEF HolderSound

(* A row that no step touches stays sound, whatever else fails.            *)
LEMMA RowStays ==
  ASSUME OutboxTypeOK, OutboxTypeOK', NEW f \in DomainEvents, RowSound(f),
         outbox'[f] = outbox[f], Copies(f)' = Copies(f), logFaults' >= logFaults
  PROVE  RowSound(f)'
<1>1. outbox[f].attempts \in Nat /\ logFaults \in Nat /\ logFaults' \in Nat
  BY LogAssumption DEF OutboxTypeOK
<1>2. Absent' = Absent
  BY DEF Absent
<1> QED BY <1>1, <1>2 DEF RowSound

(* A worker's step concerns its own row: when it leaves the row sound and  *)
(* takes no row that another worker holds, the rows and the workers agree  *)
(* again, and no other row is stranded by it.                              *)
LEMMA WorkerAgrees ==
  ASSUME WorkInv, OutboxTypeOK', NEW w \in OutboxWorkers, NEW e \in DomainEvents,
         logFaults' >= logFaults,
         \A f \in DomainEvents \ {e} : outbox'[f] = outbox[f] /\ Copies(f)' = Copies(f),
         \A v \in OutboxWorkers \ {w} : worker'[v] = worker[v],
         \A v \in OutboxWorkers \ {w} : Holds(v, e) => /\ outbox'[e] = outbox[e]
                                                       /\ Copies(e)' = Copies(e),
         \A f \in DomainEvents : Holds(w, f) => f = e,
         RowSound(e)', HolderSound(w)',
         \A f \in DomainEvents : Holds(w, f)' => f = e,
         Holds(w, e)' => \A v \in OutboxWorkers \ {w} : ~Holds(v, e)
  PROVE  /\ WorkInv'
         /\ \A f \in DomainEvents :
              Stranded(f)' /\ outbox'[f] = outbox[f] /\ ~Holds(w, f) => Stranded(f)
<1>1. ASSUME NEW v \in OutboxWorkers \ {w}
      PROVE  HolderSound(v)' /\ \A f : Holds(v, f)' = Holds(v, f)
  <2>1. HolderSound(v) /\ OutboxTypeOK /\ worker'[v] = worker[v]
    BY DEF WorkInv
  <2>2. ASSUME NEW f \in DomainEvents, Holds(v, f)
        PROVE  outbox'[f] = outbox[f] /\ Copies(f)' = Copies(f)
    <3>1. CASE f = e
      BY <2>2, <3>1
    <3>2. CASE f # e
      BY <3>2
    <3> QED BY <3>1, <3>2
  <2> QED BY <2>1, <2>2, HolderStays
<1>2. \A v \in OutboxWorkers : HolderSound(v)'
  BY <1>1
<1>3. ASSUME NEW f \in DomainEvents PROVE RowSound(f)'
  <2>1. CASE f = e
    BY <2>1
  <2>2. CASE f # e
    <3>1. RowSound(f) /\ OutboxTypeOK
      BY DEF WorkInv
    <3>2. outbox'[f] = outbox[f] /\ Copies(f)' = Copies(f)
      BY <2>2
    <3> QED BY <3>1, <3>2, RowStays
  <2> QED BY <2>1, <2>2
<1>4. HoldersExclude'
  <2> SUFFICES ASSUME NEW f \in DomainEvents, NEW u \in OutboxWorkers, NEW v \in OutboxWorkers,
                      Holds(u, f)', Holds(v, f)'
               PROVE  u = v
    BY DEF HoldersExclude
  <2>1. CASE u # w /\ v # w
    <3>1. Holds(u, f) /\ Holds(v, f)
      BY <1>1, <2>1
    <3> QED BY <3>1 DEF WorkInv, HoldersExclude
  <2>2. CASE u = w /\ v # w
    <3>1. f = e /\ ~Holds(v, e) /\ Holds(v, f)
      BY <1>1, <2>2
    <3> QED BY <3>1
  <2>3. CASE u # w /\ v = w
    <3>1. f = e /\ ~Holds(u, e) /\ Holds(u, f)
      BY <1>1, <2>3
    <3> QED BY <3>1
  <2> QED BY <2>1, <2>2, <2>3
<1>5. ASSUME NEW f \in DomainEvents, Stranded(f)', outbox'[f] = outbox[f], ~Holds(w, f)
      PROVE  Stranded(f)
  <2>1. outbox[f].status = "PUBLISHING" /\ ~Held(f)'
    BY <1>5 DEF Stranded
  <2>2. ASSUME NEW v \in OutboxWorkers, Holds(v, f) PROVE FALSE
    <3>1. v # w
      BY <1>5, <2>2
    <3>2. Holds(v, f)'
      BY <1>1, <2>2, <3>1
    <3> QED BY <2>1, <3>2 DEF Held
  <2> QED BY <2>1, <2>2 DEF Stranded, Held
<1> QED BY <1>2, <1>3, <1>4, <1>5 DEF WorkInv

(* A service's step, or the passing of time, concerns a row that nobody    *)
(* holds.                                                                  *)
LEMMA ServiceAgrees ==
  ASSUME WorkInv, OutboxTypeOK', NEW e \in DomainEvents,
         worker' = worker, log' = log, logFaults' >= logFaults,
         \A f \in DomainEvents \ {e} : outbox'[f] = outbox[f],
         \A v \in OutboxWorkers : Holds(v, e) => outbox'[e] = outbox[e],
         RowSound(e)'
  PROVE  /\ WorkInv'
         /\ \A f \in DomainEvents : Stranded(f)' /\ outbox'[f] = outbox[f] => Stranded(f)
<1>1. \A f \in DomainEvents : Copies(f)' = Copies(f)
  BY DEF Copies
<1>2. ASSUME NEW v \in OutboxWorkers
      PROVE  HolderSound(v)' /\ \A f : Holds(v, f)' = Holds(v, f)
  <2>1. HolderSound(v) /\ OutboxTypeOK
    BY DEF WorkInv
  <2>2. ASSUME NEW f \in DomainEvents, Holds(v, f)
        PROVE  outbox'[f] = outbox[f] /\ Copies(f)' = Copies(f)
    <3>1. CASE f = e
      BY <1>1, <2>2, <3>1
    <3>2. CASE f # e
      BY <1>1, <3>2
    <3> QED BY <3>1, <3>2
  <2> QED BY <2>1, <2>2, HolderStays
<1>3. ASSUME NEW f \in DomainEvents PROVE RowSound(f)'
  <2>1. CASE f = e
    BY <2>1
  <2>2. CASE f # e
    <3>1. RowSound(f) /\ OutboxTypeOK
      BY DEF WorkInv
    <3>2. outbox'[f] = outbox[f] /\ Copies(f)' = Copies(f)
      BY <1>1, <2>2
    <3> QED BY <3>1, <3>2, RowStays
  <2> QED BY <2>1, <2>2
<1>4. HoldersExclude'
  <2> SUFFICES ASSUME NEW f \in DomainEvents, NEW u \in OutboxWorkers, NEW v \in OutboxWorkers,
                      Holds(u, f)', Holds(v, f)'
               PROVE  u = v
    BY DEF HoldersExclude
  <2>1. Holds(u, f) /\ Holds(v, f)
    BY <1>2
  <2> QED BY <2>1 DEF WorkInv, HoldersExclude
<1>5. ASSUME NEW f \in DomainEvents, Stranded(f)', outbox'[f] = outbox[f] PROVE Stranded(f)
  <2>1. outbox[f].status = "PUBLISHING" /\ ~Held(f)'
    BY <1>5 DEF Stranded
  <2>2. ASSUME NEW v \in OutboxWorkers, Holds(v, f) PROVE FALSE
    <3>1. Holds(v, f)'
      BY <1>2, <2>2
    <3> QED BY <2>1, <3>1 DEF Held
  <2> QED BY <2>1, <2>2 DEF Stranded, Held
<1> QED BY <1>2, <1>3, <1>4, <1>5 DEF WorkInv

(* A worker holds one row and nobody else holds it.                        *)
LEMMA RowInHand ==
  ASSUME WorkInv, NEW w \in OutboxWorkers, worker[w].pc # "idle"
  PROVE  /\ Row(w) \in DomainEvents /\ RowSound(Row(w)) /\ HolderSound(w)
         /\ outbox[Row(w)] \in [status : OutboxStatus, due : BOOLEAN, attempts : Nat]
         /\ Copies(Row(w)) \in Nat /\ logFaults \in 0..MaxLogFaults
         /\ \A f \in DomainEvents : Holds(w, f) => f = Row(w)
         /\ worker[w].pc \in {"publish", "mark", "postpone"} =>
              /\ Holds(w, Row(w))
              /\ \A v \in OutboxWorkers \ {w} : ~Holds(v, Row(w))
<1>1. Row(w) \in DomainEvents /\ HolderSound(w) /\ OutboxTypeOK
  BY WorkerMoves DEF WorkInv
<1>2. Copies(Row(w)) \in Nat
  BY <1>1, CopiesType
<1>3. \A f \in DomainEvents : Holds(w, f) => f = Row(w)
  BY DEF Holds
<1>4. worker[w].pc \in {"publish", "mark", "postpone"} => Holds(w, Row(w))
  BY DEF Holds
<1>5. Holds(w, Row(w)) => \A v \in OutboxWorkers \ {w} : ~Holds(v, Row(w))
  BY <1>1 DEF WorkInv, HoldersExclude
<1>6. RowSound(Row(w))
  BY <1>1 DEF WorkInv
<1>7. outbox[Row(w)] \in [status : OutboxStatus, due : BOOLEAN, attempts : Nat]
      /\ logFaults \in 0..MaxLogFaults
  BY <1>1 DEF OutboxTypeOK
<1> QED BY <1>1, <1>2, <1>3, <1>4, <1>5, <1>6, <1>7

\* A row is claimed: the update of the claim.
Claimed(e) == outbox' = [outbox EXCEPT ![e].status = "PUBLISHING", ![e].attempts = @ + 1]

(* The three updates of a worker keep the table and the other rows.        *)
LEMMA RowMoves ==
  ASSUME OutboxTypeOK, NEW e \in DomainEvents, NEW s \in OutboxStatus, NEW d \in BOOLEAN,
         NEW n \in Nat,
         outbox' = [outbox EXCEPT ![e] = [status |-> s, due |-> d, attempts |-> n]]
  PROVE  /\ outbox' \in [DomainEvents -> [status : OutboxStatus, due : BOOLEAN, attempts : Nat]]
         /\ outbox'[e].status = s /\ outbox'[e].attempts = n
         /\ \A f \in DomainEvents \ {e} : outbox'[f] = outbox[f]
         /\ s # "ABSENT" => outbox'[e] # Absent
<1> DEFINE r == [status |-> s, due |-> d, attempts |-> n]
<1>1. r \in [status : OutboxStatus, due : BOOLEAN, attempts : Nat]
      /\ r.status = s /\ r.attempts = n
  OBVIOUS
<1> HIDE DEF r
<1>2. outbox' = [outbox EXCEPT ![e] = r]
  BY DEF r
<1>3. Absent.status = "ABSENT"
  BY DEF Absent
<1> QED BY <1>1, <1>2, <1>3 DEF OutboxTypeOK

(* The updates, written as whole rows.                                     *)
LEMMA RowUpdates ==
  ASSUME OutboxTypeOK, NEW w \in OutboxWorkers, Row(w) \in DomainEvents
  PROVE  LET e == Row(w) IN
         /\ Claimed(e) => outbox' = [outbox EXCEPT ![e] =
              [status |-> "PUBLISHING", due |-> outbox[e].due,
               attempts |-> outbox[e].attempts + 1]]
         /\ Published(w) => outbox' = [outbox EXCEPT ![e] =
              [status |-> "PUBLISHED", due |-> outbox[e].due,
               attempts |-> outbox[e].attempts]]
         /\ Postponed(w) => outbox' = [outbox EXCEPT ![e] =
              [status |-> "PENDING", due |-> FALSE, attempts |-> outbox[e].attempts]]
<1> DEFINE e == Row(w)
<1>1. outbox[e] \in [status : OutboxStatus, due : BOOLEAN, attempts : Nat]
      /\ outbox \in [DomainEvents -> [status : OutboxStatus, due : BOOLEAN, attempts : Nat]]
  BY DEF OutboxTypeOK
<1>2. Claimed(e) => outbox' = [outbox EXCEPT ![e] =
         [status |-> "PUBLISHING", due |-> outbox[e].due, attempts |-> outbox[e].attempts + 1]]
  BY <1>1 DEF Claimed
<1>3. Published(w) => outbox' = [outbox EXCEPT ![e] =
         [status |-> "PUBLISHED", due |-> outbox[e].due, attempts |-> outbox[e].attempts]]
  BY <1>1 DEF Published
<1>4. Postponed(w) => outbox' = [outbox EXCEPT ![e] =
         [status |-> "PENDING", due |-> FALSE, attempts |-> outbox[e].attempts]]
  BY <1>1 DEF Postponed
<1> QED BY <1>2, <1>3, <1>4

(* Losses stay paid for when a step that loses something is a failure.     *)
LEMMA LossesFollow ==
  ASSUME OutboxTypeOK, LossesPaid, NEW s, NEW m,
         StrandedRows' \subseteq StrandedRows \cup {s},
         MissedEvents' \subseteq MissedEvents \cup {m},
         m \notin TradeEvents \/ MissedEvents' \subseteq MissedEvents,
         \/ logFaults' = logFaults + 1
         \/ /\ logFaults' = logFaults
            /\ StrandedRows' \subseteq StrandedRows /\ MissedEvents' \subseteq MissedEvents
  PROVE  LossesPaid'
<1>1. logFaults \in Nat
  BY LogAssumption DEF OutboxTypeOK
<1>2. MissedEvents' \cap TradeEvents = {}
  BY DEF LossesPaid
<1>3. CASE logFaults' = logFaults + 1
  <2>1. IsFiniteSet(StrandedRows') /\ Cardinality(StrandedRows') <= logFaults + 1
    BY <1>1, GrowsByOne DEF LossesPaid
  <2>2. IsFiniteSet(MissedEvents') /\ Cardinality(MissedEvents') <= logFaults + 1
    BY <1>1, GrowsByOne DEF LossesPaid
  <2> QED BY <1>2, <1>3, <2>1, <2>2 DEF LossesPaid
<1>4. CASE /\ logFaults' = logFaults
           /\ StrandedRows' \subseteq StrandedRows /\ MissedEvents' \subseteq MissedEvents
  <2>1. IsFiniteSet(StrandedRows') /\ Cardinality(StrandedRows') <= logFaults
    BY <1>1, <1>4, Shrinks DEF LossesPaid
  <2>2. IsFiniteSet(MissedEvents') /\ Cardinality(MissedEvents') <= logFaults
    BY <1>1, <1>4, Shrinks DEF LossesPaid
  <2> QED BY <1>2, <1>4, <2>1, <2>2 DEF LossesPaid
<1> QED BY <1>3, <1>4

(* A worker's step that agrees with the rows, loses nothing but its own    *)
(* row, and that only by a failure, keeps the invariant.                   *)
LEMMA WorkerKeeps ==
  ASSUME OutboxInv, WorkInv', NEW w \in OutboxWorkers, NEW e \in DomainEvents,
         \A f \in DomainEvents :
            Stranded(f)' /\ outbox'[f] = outbox[f] /\ ~Holds(w, f) => Stranded(f),
         \A f \in DomainEvents \ {e} : outbox'[f] = outbox[f],
         \A f \in DomainEvents : Holds(w, f) => f = e,
         UNCHANGED <<happened, emitting>>,
         outbox'[e] = Absent => outbox[e] = Absent,
         \/ logFaults' = logFaults + 1
         \/ logFaults' = logFaults /\ (Stranded(e)' => Stranded(e))
  PROVE  OutboxInv'
<1>1. \A f \in DomainEvents \ {e} : Stranded(f)' => Stranded(f)
  OBVIOUS
<1>2. StrandedRows' \subseteq StrandedRows \cup {e}
  BY <1>1 DEF StrandedRows
<1>3. (Stranded(e)' => Stranded(e)) => StrandedRows' \subseteq StrandedRows
  BY <1>1 DEF StrandedRows
<1>4. MissedEvents' \subseteq MissedEvents
  <2>1. happened \subseteq DomainEvents /\ Absent' = Absent
    BY DEF OutboxInv, WorkInv, OutboxTypeOK, Absent
  <2>2. \A f \in DomainEvents : outbox'[f] = Absent => outbox[f] = Absent
    OBVIOUS
  <2> QED BY <2>1, <2>2 DEF MissedEvents
<1>5. OutboxTypeOK /\ LossesPaid
  BY DEF OutboxInv, WorkInv
<1>6. LossesPaid'
  BY <1>2, <1>3, <1>4, <1>5, LossesFollow
<1> QED BY <1>6 DEF OutboxInv

(* An idle worker takes a batch and holds nothing of it yet.               *)
LEMMA FetchKeeps ==
  ASSUME OutboxInv, NEW w \in OutboxWorkers, Fetch(w)
  PROVE  OutboxInv'
<1>1. WorkInv /\ OutboxTypeOK
  BY DEF OutboxInv, WorkInv
<1>2. DueBatch \in Seq(DomainEvents) /\ DueBatch # << >>
  BY <1>1, DueBatchType DEF OutboxTypeOK, Fetch
<1>3. PICK e \in DomainEvents : e = Head(DueBatch)
  BY <1>2
<1>4. /\ worker[w].pc = "idle" /\ outbox' = outbox /\ log' = log /\ logFaults' = logFaults
      /\ happened' = happened /\ emitting' = emitting /\ created' = created
      /\ worker' = [worker EXCEPT ![w] = [pc |-> "claim", batch |-> DueBatch]]
  BY DEF Fetch, tables
<1>5. OutboxTypeOK'
  <2> DEFINE b == DueBatch
  <2> HIDE DEF b
  <2>1. b \in Seq(DomainEvents) /\ worker' = [worker EXCEPT ![w] = [pc |-> "claim", batch |-> b]]
    BY <1>2, <1>4 DEF b
  <2>2. worker' \in [OutboxWorkers ->
                      [pc : {"idle", "claim", "publish", "mark", "postpone"},
                       batch : Seq(DomainEvents)]]
    BY <1>1, <2>1 DEF OutboxTypeOK
  <2> QED BY <1>1, <1>4, <2>2 DEF OutboxTypeOK
<1>6. worker'[w] = [pc |-> "claim", batch |-> DueBatch]
      /\ \A v \in OutboxWorkers \ {w} : worker'[v] = worker[v]
  BY <1>1, <1>4 DEF OutboxTypeOK
<1>7. \A f \in DomainEvents : ~Holds(w, f) /\ ~Holds(w, f)'
  BY <1>4, <1>6 DEF Holds
<1>8. HolderSound(w)'
  BY <1>2, <1>6 DEF HolderSound
<1>9. \A f \in DomainEvents : Copies(f)' = Copies(f)
  BY <1>4 DEF Copies
<1>10. logFaults \in Nat
  BY <1>1, LogAssumption DEF OutboxTypeOK
<1>11. RowSound(e)'
  BY <1>1, <1>3, <1>4, <1>5, <1>9, <1>10, RowStays DEF WorkInv
<1>12. /\ WorkInv'
       /\ \A f \in DomainEvents :
            Stranded(f)' /\ outbox'[f] = outbox[f] /\ ~Holds(w, f) => Stranded(f)
  BY <1>1, <1>3, <1>4, <1>5, <1>6, <1>7, <1>8, <1>9, <1>10, <1>11, WorkerAgrees
<1>13. Stranded(e)' => Stranded(e)
  BY <1>3, <1>4, <1>7, <1>12
<1> QED BY <1>3, <1>4, <1>7, <1>12, <1>13, WorkerKeeps

(* A worker leaves its batch or its row, and the row as it is: at a claim  *)
(* it does not win, or by a failure.                                       *)
LEMMA LeavingKeeps ==
  ASSUME OutboxInv, NEW w \in OutboxWorkers, worker[w].pc # "idle",
         Stop(w) \/ NextRow(w),
         UNCHANGED <<happened, emitting, created, outbox, log>>,
         \/ worker[w].pc = "claim" /\ logFaults' = logFaults
         \/ LogFault
  PROVE  OutboxInv'
<1>1. WorkInv /\ OutboxTypeOK
  BY DEF OutboxInv, WorkInv
<1>2. PICK e \in DomainEvents :
      /\ e = Row(w) /\ RowSound(e) /\ HolderSound(w) /\ logFaults \in 0..MaxLogFaults
      /\ \A f \in DomainEvents : Holds(w, f) => f = e
  BY <1>1, RowInHand
<1>3. /\ worker' \in [OutboxWorkers ->
                       [pc : {"idle", "claim", "publish", "mark", "postpone"},
                        batch : Seq(DomainEvents)]]
      /\ worker'[w].pc \in {"idle", "claim"}
      /\ worker'[w].pc = "claim" => worker'[w].batch # << >>
      /\ \A v \in OutboxWorkers \ {w} : worker'[v] = worker[v]
  BY <1>1, <1>2, WorkerMoves
<1>4. logFaults' \in 0..MaxLogFaults /\ logFaults' >= logFaults
      /\ (logFaults' = logFaults \/ logFaults' = logFaults + 1)
  BY <1>2, LogAssumption DEF LogFault
<1>5. OutboxTypeOK'
  BY <1>1, <1>3, <1>4 DEF OutboxTypeOK
<1>6. \A f \in DomainEvents : ~Holds(w, f)'
  BY <1>3 DEF Holds
<1>7. HolderSound(w)'
  BY <1>3 DEF HolderSound
<1>8. \A f \in DomainEvents : Copies(f)' = Copies(f)
  BY DEF Copies
<1>9. RowSound(e)'
  BY <1>1, <1>2, <1>4, <1>5, <1>8, RowStays
<1>10. /\ WorkInv'
       /\ \A f \in DomainEvents :
            Stranded(f)' /\ outbox'[f] = outbox[f] /\ ~Holds(w, f) => Stranded(f)
  BY <1>1, <1>2, <1>3, <1>4, <1>5, <1>6, <1>7, <1>8, <1>9, WorkerAgrees
<1>11. \/ logFaults' = logFaults + 1
       \/ logFaults' = logFaults /\ (Stranded(e)' => Stranded(e))
  <2>1. CASE LogFault
    BY <2>1 DEF LogFault
  <2>2. CASE worker[w].pc = "claim" /\ logFaults' = logFaults
    <3>1. ~Holds(w, e)
      BY <2>2 DEF Holds
    <3> QED BY <1>2, <1>10, <2>2, <3>1
  <2> QED BY <2>1, <2>2
<1> QED BY <1>2, <1>10, <1>11, WorkerKeeps

(* A worker that holds its row alone, or claims it, may change it as long  *)
(* as it stays sound; without a failure it does not leave it claimed.      *)
LEMMA RowWorkKeeps ==
  ASSUME OutboxInv, NEW w \in OutboxWorkers, worker[w].pc # "idle",
         NEW e \in DomainEvents, e = Row(w),
         worker[w].pc = "claim" => outbox[e].status = "PENDING",
         UNCHANGED <<happened, emitting, created>>,
         outbox' \in [DomainEvents -> [status : OutboxStatus, due : BOOLEAN, attempts : Nat]],
         \A f \in DomainEvents \ {e} : outbox'[f] = outbox[f] /\ Copies(f)' = Copies(f),
         log' \in [Partitions -> Seq(DomainEvents)],
         worker' \in [OutboxWorkers ->
                         [pc : {"idle", "claim", "publish", "mark", "postpone"},
                          batch : Seq(DomainEvents)]],
         \A v \in OutboxWorkers \ {w} : worker'[v] = worker[v],
         RowSound(e)', HolderSound(w)', outbox'[e].status # "ABSENT",
         worker'[w].pc \in {"publish", "mark", "postpone"} => worker'[w].batch = worker[w].batch,
         \/ LogFault
         \/ /\ logFaults' = logFaults
            /\ \/ outbox'[e].status # "PUBLISHING"
               \/ worker'[w].pc \in {"publish", "mark", "postpone"}
  PROVE  OutboxInv'
<1>1. WorkInv /\ OutboxTypeOK
  BY DEF OutboxInv, WorkInv
<1>2. /\ RowSound(e) /\ HolderSound(w) /\ logFaults \in 0..MaxLogFaults
      /\ \A f \in DomainEvents : Holds(w, f) => f = e
      /\ worker[w].pc \in {"publish", "mark", "postpone"} =>
           \A v \in OutboxWorkers \ {w} : ~Holds(v, e)
  BY <1>1, RowInHand
<1>3. logFaults' \in 0..MaxLogFaults /\ logFaults' >= logFaults
      /\ (logFaults' = logFaults \/ logFaults' = logFaults + 1)
  BY <1>2, LogAssumption DEF LogFault
<1>4. OutboxTypeOK'
  BY <1>1, <1>3 DEF OutboxTypeOK
<1>5. \A v \in OutboxWorkers \ {w} : ~Holds(v, e)
  <2>1. CASE worker[w].pc = "claim"
    <3>1. SUFFICES ASSUME NEW v \in OutboxWorkers, Holds(v, e) PROVE FALSE
      OBVIOUS
    <3>2. HolderSound(v)
      BY <1>1 DEF WorkInv
    <3> QED BY <2>1, <3>1, <3>2 DEF HolderSound, Holds
  <2>2. worker[w].pc \in {"idle", "claim", "publish", "mark", "postpone"}
    BY <1>1 DEF OutboxTypeOK
  <2> QED BY <1>2, <2>1, <2>2
<1>6. Row(w)' = e \/ worker'[w].pc \notin {"publish", "mark", "postpone"}
  BY DEF Row
<1>7. \A f \in DomainEvents : Holds(w, f)' => f = e
  BY <1>6 DEF Holds
<1>8. /\ WorkInv'
      /\ \A f \in DomainEvents :
           Stranded(f)' /\ outbox'[f] = outbox[f] /\ ~Holds(w, f) => Stranded(f)
  BY <1>1, <1>2, <1>3, <1>4, <1>5, <1>7, WorkerAgrees
<1>9. outbox'[e] # Absent
  BY DEF Absent
<1>10. \/ logFaults' = logFaults + 1
       \/ logFaults' = logFaults /\ (Stranded(e)' => Stranded(e))
  <2>1. CASE LogFault
    BY <2>1 DEF LogFault
  <2>2. CASE logFaults' = logFaults /\ outbox'[e].status # "PUBLISHING"
    BY <2>2 DEF Stranded
  <2>3. CASE logFaults' = logFaults /\ worker'[w].pc \in {"publish", "mark", "postpone"}
    <3>1. Holds(w, e)'
      BY <1>6, <2>3 DEF Holds
    <3>2. Held(e)'
      BY <3>1 DEF Held
    <3> QED BY <2>3, <3>2 DEF Stranded
  <2> QED BY <2>1, <2>2, <2>3
<1> QED BY <1>2, <1>8, <1>9, <1>10, WorkerKeeps

(* The update of the claim, made by a worker that goes on or dies of it.   *)
LEMMA ClaimingKeeps ==
  ASSUME OutboxInv, NEW w \in OutboxWorkers, worker[w].pc = "claim",
         outbox[Row(w)].status = "PENDING", Claimed(Row(w)),
         UNCHANGED <<happened, emitting, created, log>>,
         \/ Goto(w, "publish") /\ logFaults' = logFaults
         \/ Stop(w) /\ LogFault
  PROVE  OutboxInv'
<1>1. WorkInv /\ OutboxTypeOK
  BY DEF OutboxInv, WorkInv
<1>2. PICK e \in DomainEvents :
      /\ e = Row(w) /\ RowSound(e) /\ HolderSound(w) /\ logFaults \in Nat
      /\ outbox[e] \in [status : OutboxStatus, due : BOOLEAN, attempts : Nat]
      /\ Copies(e) \in Nat
  BY <1>1, RowInHand
<1>3. outbox' = [outbox EXCEPT ![e] = [status |-> "PUBLISHING", due |-> outbox[e].due,
                                       attempts |-> outbox[e].attempts + 1]]
  BY <1>1, <1>2, RowUpdates
<1>4. PICK d \in BOOLEAN, n \in Nat : d = outbox[e].due /\ n = outbox[e].attempts + 1
  BY <1>2
<1>5. /\ outbox' \in [DomainEvents -> [status : OutboxStatus, due : BOOLEAN, attempts : Nat]]
      /\ outbox'[e].status = "PUBLISHING" /\ outbox'[e].attempts = n
      /\ \A f \in DomainEvents \ {e} : outbox'[f] = outbox[f]
  <2>1. "PUBLISHING" \in OutboxStatus
    BY DEF OutboxStatus
  <2>2. outbox' = [outbox EXCEPT ![e] = [status |-> "PUBLISHING", due |-> d, attempts |-> n]]
    BY <1>3, <1>4
  <2> QED BY <1>1, <2>1, <2>2, RowMoves
<1>6. \A f \in DomainEvents : Copies(f)' = Copies(f)
  BY DEF Copies
<1>7. log' \in [Partitions -> Seq(DomainEvents)]
  BY <1>1 DEF OutboxTypeOK
<1>8. RowSound(e)'
  <2>1. outbox[e].attempts <= logFaults /\ Copies(e) <= outbox[e].attempts
    BY <1>2 DEF RowSound
  <2>2. logFaults' \in Nat /\ logFaults' >= logFaults
    BY <1>2 DEF LogFault
  <2> QED BY <1>2, <1>4, <1>5, <1>6, <2>1, <2>2 DEF RowSound
<1>9. CASE Goto(w, "publish") /\ logFaults' = logFaults
  <2>1. /\ worker' \in [OutboxWorkers ->
                               [pc : {"idle", "claim", "publish", "mark", "postpone"},
                                batch : Seq(DomainEvents)]]
        /\ worker'[w].pc = "publish" /\ worker'[w].batch = worker[w].batch
        /\ \A v \in OutboxWorkers \ {w} : worker'[v] = worker[v]
    BY <1>1, <1>2, <1>9, WorkerMoves
  <2>2. Row(w)' = e /\ worker'[w].batch # << >>
    BY <1>2, <2>1 DEF Row, HolderSound
  <2>3. Copies(e)' < outbox'[e].attempts
    BY <1>2, <1>4, <1>5, <1>6 DEF RowSound
  <2>4. HolderSound(w)'
    BY <1>5, <2>1, <2>2, <2>3 DEF HolderSound
  <2> QED BY <1>2, <1>5, <1>6, <1>7, <1>8, <1>9, <2>1, <2>4, RowWorkKeeps
<1>10. CASE Stop(w) /\ LogFault
  <2>1. /\ worker' \in [OutboxWorkers ->
                               [pc : {"idle", "claim", "publish", "mark", "postpone"},
                                batch : Seq(DomainEvents)]]
        /\ worker'[w].pc \in {"idle", "claim"}
        /\ worker'[w].pc = "claim" => worker'[w].batch # << >>
        /\ \A v \in OutboxWorkers \ {w} : worker'[v] = worker[v]
    BY <1>1, <1>2, <1>10, WorkerMoves
  <2>2. HolderSound(w)'
    BY <2>1 DEF HolderSound
  <2> QED BY <1>2, <1>5, <1>6, <1>7, <1>8, <1>10, <2>1, <2>2, RowWorkKeeps
<1> QED BY <1>9, <1>10

(* The message is sent, or may have been when the send throws.             *)
LEMMA SendingKeeps ==
  ASSUME OutboxInv, NEW w \in OutboxWorkers, worker[w].pc = "publish",
         \/ Send(Row(w)) /\ Goto(w, "mark") /\ logFaults' = logFaults
         \/ (Send(Row(w)) \/ UNCHANGED log) /\ Goto(w, "postpone") /\ LogFault,
         UNCHANGED <<happened, emitting, created, outbox>>
  PROVE  OutboxInv'
<1>1. WorkInv /\ OutboxTypeOK
  BY DEF OutboxInv, WorkInv
<1>2. PICK e \in DomainEvents :
      /\ e = Row(w) /\ RowSound(e) /\ HolderSound(w) /\ logFaults \in Nat
      /\ outbox[e] \in [status : OutboxStatus, due : BOOLEAN, attempts : Nat]
      /\ Copies(e) \in Nat
  BY <1>1, RowInHand
<1>3. /\ log' \in [Partitions -> Seq(DomainEvents)]
      /\ \A f \in DomainEvents \ {e} : Copies(f)' = Copies(f)
      /\ Copies(e)' \in {Copies(e), Copies(e) + 1}
      /\ Send(e) => Copies(e)' = Copies(e) + 1
  <2>1. CASE Send(e)
    <3>1. /\ log' \in [Partitions -> Seq(DomainEvents)]
          /\ \A f \in DomainEvents : Copies(f)' = Copies(f) + (IF f = e THEN 1 ELSE 0)
      BY <1>1, <2>1, SendCounts
    <3>2. \A f \in DomainEvents : Copies(f) \in Nat
      BY <1>1, CopiesType
    <3>3. \A f \in DomainEvents \ {e} : Copies(f)' = Copies(f)
      BY <3>1, <3>2
    <3> QED BY <3>1, <3>3
  <2>2. CASE UNCHANGED log /\ ~Send(e)
    <3>1. \A f \in DomainEvents : Copies(f)' = Copies(f)
      BY <2>2 DEF Copies
    <3> QED BY <1>1, <2>2, <3>1 DEF OutboxTypeOK
  <2> QED BY <1>2, <2>1, <2>2
<1>4. PICK pc \in {"mark", "postpone"} :
         /\ Goto(w, pc)
         /\ pc = "mark" => Send(e) /\ logFaults' = logFaults
         /\ pc = "postpone" => LogFault
  BY <1>2
<1>5. /\ worker' \in [OutboxWorkers ->
                             [pc : {"idle", "claim", "publish", "mark", "postpone"},
                              batch : Seq(DomainEvents)]]
      /\ worker'[w].pc = pc /\ worker'[w].batch = worker[w].batch
      /\ \A v \in OutboxWorkers \ {w} : worker'[v] = worker[v]
  BY <1>1, <1>2, <1>4, WorkerMoves
<1>6. Row(w)' = e /\ worker'[w].batch # << >>
  BY <1>2, <1>5 DEF Row, HolderSound
<1>7. outbox[e].status = "PUBLISHING" /\ Copies(e) < outbox[e].attempts
      /\ outbox[e].attempts <= 1 + logFaults
  BY <1>2 DEF HolderSound, RowSound
<1>8. PICK n \in Nat, c \in Nat : n = outbox[e].attempts /\ c = Copies(e)
  BY <1>2
<1>9. Copies(e)' \in Nat /\ Copies(e)' <= n
  BY <1>3, <1>7, <1>8
<1>10. logFaults' \in Nat /\ logFaults' >= logFaults
       /\ (LogFault => logFaults' = logFaults + 1)
  BY <1>2, <1>4 DEF LogFault
<1>11. RowSound(e)'
  BY <1>2, <1>7, <1>8, <1>9, <1>10 DEF RowSound
<1>12. HolderSound(w)'
  <2>1. pc = "mark" => Copies(e)' > 0
    BY <1>3, <1>4, <1>8
  <2>2. pc = "postpone" => outbox[e].attempts <= logFaults'
    BY <1>2, <1>4, <1>7, <1>8, <1>10
  <2> QED BY <1>5, <1>6, <1>7, <2>1, <2>2 DEF HolderSound
<1>13. /\ outbox' \in [DomainEvents -> [status : OutboxStatus, due : BOOLEAN, attempts : Nat]]
       /\ \A f \in DomainEvents \ {e} : outbox'[f] = outbox[f]
       /\ outbox'[e].status # "ABSENT"
       /\ worker[w].pc # "idle" /\ worker[w].pc # "claim"
  BY <1>1, <1>7 DEF OutboxTypeOK
<1>14. \/ LogFault
       \/ logFaults' = logFaults /\ worker'[w].pc \in {"publish", "mark", "postpone"}
  BY <1>4, <1>5
<1> QED BY <1>2, <1>3, <1>5, <1>11, <1>12, <1>13, <1>14, RowWorkKeeps

(* The row is marked as published, or may have been when the update        *)
(* throws; it was sent before.                                             *)
LEMMA MarkingKeeps ==
  ASSUME OutboxInv, NEW w \in OutboxWorkers, worker[w].pc = "mark",
         \/ Published(w) /\ NextRow(w) /\ logFaults' = logFaults
         \/ (Published(w) \/ UNCHANGED outbox) /\ Goto(w, "postpone") /\ LogFault,
         UNCHANGED <<happened, emitting, created, log>>
  PROVE  OutboxInv'
<1>1. WorkInv /\ OutboxTypeOK
  BY DEF OutboxInv, WorkInv
<1>2. PICK e \in DomainEvents :
      /\ e = Row(w) /\ RowSound(e) /\ HolderSound(w) /\ logFaults \in Nat
      /\ outbox[e] \in [status : OutboxStatus, due : BOOLEAN, attempts : Nat]
      /\ Copies(e) \in Nat
  BY <1>1, RowInHand
<1>3. /\ outbox[e].status = "PUBLISHING" /\ Copies(e) > 0 /\ Copies(e) <= outbox[e].attempts
      /\ outbox[e].attempts <= 1 + logFaults
  BY <1>2 DEF HolderSound, RowSound
<1>4. PICK d \in BOOLEAN, n \in Nat : d = outbox[e].due /\ n = outbox[e].attempts
  BY <1>2
<1>5. /\ outbox' \in [DomainEvents -> [status : OutboxStatus, due : BOOLEAN, attempts : Nat]]
      /\ outbox'[e].status \in {"PUBLISHING", "PUBLISHED"} /\ outbox'[e].attempts = n
      /\ Published(w) => outbox'[e].status = "PUBLISHED"
      /\ \A f \in DomainEvents \ {e} : outbox'[f] = outbox[f]
  <2>1. CASE Published(w)
    <3>1. outbox' = [outbox EXCEPT ![e] = [status |-> "PUBLISHED", due |-> outbox[e].due,
                                           attempts |-> outbox[e].attempts]]
      BY <1>1, <1>2, <2>1, RowUpdates
    <3>2. outbox' = [outbox EXCEPT ![e] = [status |-> "PUBLISHED", due |-> d, attempts |-> n]]
      BY <1>4, <3>1
    <3>3. "PUBLISHED" \in OutboxStatus
      BY DEF OutboxStatus
    <3> QED BY <1>1, <3>2, <3>3, RowMoves
  <2>2. CASE UNCHANGED outbox /\ ~Published(w)
    BY <1>1, <1>3, <1>4, <2>2 DEF OutboxTypeOK
  <2> QED BY <2>1, <2>2
<1>6. \A f \in DomainEvents : Copies(f)' = Copies(f)
  BY DEF Copies
<1>7. log' \in [Partitions -> Seq(DomainEvents)]
  BY <1>1 DEF OutboxTypeOK
<1>8. logFaults' \in Nat /\ logFaults' >= logFaults
      /\ (LogFault => logFaults' = logFaults + 1)
  BY <1>2 DEF LogFault
<1>9. RowSound(e)'
  BY <1>2, <1>3, <1>4, <1>5, <1>6, <1>8 DEF RowSound
<1>10. CASE Published(w) /\ NextRow(w) /\ logFaults' = logFaults
  <2>1. /\ worker' \in [OutboxWorkers ->
                               [pc : {"idle", "claim", "publish", "mark", "postpone"},
                                batch : Seq(DomainEvents)]]
        /\ worker'[w].pc \in {"idle", "claim"}
        /\ worker'[w].pc = "claim" => worker'[w].batch # << >>
        /\ \A v \in OutboxWorkers \ {w} : worker'[v] = worker[v]
    BY <1>1, <1>2, <1>10, WorkerMoves
  <2>2. HolderSound(w)'
    BY <2>1 DEF HolderSound
  <2> QED BY <1>2, <1>5, <1>6, <1>7, <1>9, <1>10, <2>1, <2>2, RowWorkKeeps
<1>11. CASE Goto(w, "postpone") /\ LogFault
  <2>1. /\ worker' \in [OutboxWorkers ->
                               [pc : {"idle", "claim", "publish", "mark", "postpone"},
                                batch : Seq(DomainEvents)]]
        /\ worker'[w].pc = "postpone" /\ worker'[w].batch = worker[w].batch
        /\ \A v \in OutboxWorkers \ {w} : worker'[v] = worker[v]
    BY <1>1, <1>2, <1>11, WorkerMoves
  <2>2. Row(w)' = e /\ worker'[w].batch # << >>
    BY <1>2, <2>1 DEF Row, HolderSound
  <2>3. outbox'[e].attempts <= logFaults'
    BY <1>2, <1>3, <1>4, <1>5, <1>8, <1>11
  <2>4. HolderSound(w)'
    BY <1>5, <2>1, <2>2, <2>3 DEF HolderSound
  <2> QED BY <1>2, <1>5, <1>6, <1>7, <1>9, <1>11, <2>1, <2>4, RowWorkKeeps
<1> QED BY <1>10, <1>11

(* A row is put back for a later attempt, paid for by the failure before.  *)
LEMMA PostponingKeeps ==
  ASSUME OutboxInv, NEW w \in OutboxWorkers, worker[w].pc = "postpone", Postponed(w),
         \/ NextRow(w) /\ logFaults' = logFaults
         \/ Stop(w) /\ LogFault,
         UNCHANGED <<happened, emitting, created, log>>
  PROVE  OutboxInv'
<1>1. WorkInv /\ OutboxTypeOK
  BY DEF OutboxInv, WorkInv
<1>2. PICK e \in DomainEvents :
      /\ e = Row(w) /\ RowSound(e) /\ HolderSound(w) /\ logFaults \in Nat
      /\ outbox[e] \in [status : OutboxStatus, due : BOOLEAN, attempts : Nat]
      /\ Copies(e) \in Nat
  BY <1>1, RowInHand
<1>3. Copies(e) <= outbox[e].attempts /\ outbox[e].attempts <= logFaults
  BY <1>2 DEF HolderSound, RowSound
<1>4. PICK n \in Nat : n = outbox[e].attempts
  BY <1>2
<1>5. /\ outbox' \in [DomainEvents -> [status : OutboxStatus, due : BOOLEAN, attempts : Nat]]
      /\ outbox'[e].status = "PENDING" /\ outbox'[e].attempts = n
      /\ \A f \in DomainEvents \ {e} : outbox'[f] = outbox[f]
  <2>1. outbox' = [outbox EXCEPT ![e] = [status |-> "PENDING", due |-> FALSE,
                                         attempts |-> outbox[e].attempts]]
    BY <1>1, <1>2, RowUpdates
  <2>2. outbox' = [outbox EXCEPT ![e] = [status |-> "PENDING", due |-> FALSE, attempts |-> n]]
    BY <1>4, <2>1
  <2>3. "PENDING" \in OutboxStatus /\ FALSE \in BOOLEAN
    BY DEF OutboxStatus
  <2> QED BY <1>1, <2>2, <2>3, RowMoves
<1>6. \A f \in DomainEvents : Copies(f)' = Copies(f)
  BY DEF Copies
<1>7. log' \in [Partitions -> Seq(DomainEvents)]
  BY <1>1 DEF OutboxTypeOK
<1>8. logFaults' \in Nat /\ logFaults' >= logFaults
  BY <1>2 DEF LogFault
<1>9. RowSound(e)'
  BY <1>2, <1>3, <1>4, <1>5, <1>6, <1>8 DEF RowSound
<1>10. /\ worker' \in [OutboxWorkers ->
                              [pc : {"idle", "claim", "publish", "mark", "postpone"},
                               batch : Seq(DomainEvents)]]
       /\ worker'[w].pc \in {"idle", "claim"}
       /\ worker'[w].pc = "claim" => worker'[w].batch # << >>
       /\ \A v \in OutboxWorkers \ {w} : worker'[v] = worker[v]
  BY <1>1, <1>2, WorkerMoves
<1>11. HolderSound(w)'
  BY <1>10 DEF HolderSound
<1> QED BY <1>2, <1>5, <1>6, <1>7, <1>9, <1>10, <1>11, RowWorkKeeps

(* The services insert each row once and nothing they leave out is a       *)
(* trade; time makes a waiting row due.                                    *)
LEMMA ServiceKeeps ==
  ASSUME OutboxInv, NEW e \in DomainEvents,
         OutboxTypeOK', worker' = worker, log' = log,
         \A f \in DomainEvents \ {e} : outbox'[f] = outbox[f],
         \/ outbox'[e] = outbox[e]
         \/ outbox[e].status \in {"ABSENT", "PENDING"} /\ outbox'[e].status = "PENDING"
            /\ outbox'[e].attempts = outbox[e].attempts,
         MissedEvents' \subseteq MissedEvents \cup {e},
         \/ LogFault /\ e \notin TradeEvents
         \/ logFaults' = logFaults /\ MissedEvents' \subseteq MissedEvents
  PROVE  OutboxInv'
<1>1. /\ WorkInv /\ OutboxTypeOK /\ LossesPaid
      /\ outbox[e] \in [status : OutboxStatus, due : BOOLEAN, attempts : Nat]
      /\ logFaults \in Nat /\ RowSound(e) /\ Copies(e) \in Nat
  <2>1. WorkInv /\ OutboxTypeOK /\ LossesPaid /\ RowSound(e)
    BY DEF OutboxInv, WorkInv
  <2>2. Copies(e) \in Nat
    BY <2>1, CopiesType
  <2>3. /\ outbox[e] \in [status : OutboxStatus, due : BOOLEAN, attempts : Nat]
        /\ logFaults \in Nat
    BY <2>1, LogAssumption DEF OutboxTypeOK
  <2> QED BY <2>1, <2>2, <2>3
<1>2. logFaults' \in Nat /\ logFaults' >= logFaults
      /\ (logFaults' = logFaults \/ logFaults' = logFaults + 1)
  BY <1>1 DEF LogFault
<1>3. Copies(e)' = Copies(e)
  BY DEF Copies
<1>4. CASE outbox'[e] = outbox[e]
  <2>1. RowSound(e)'
    BY <1>1, <1>2, <1>3, <1>4, RowStays
  <2>2. /\ WorkInv'
        /\ \A f \in DomainEvents : Stranded(f)' /\ outbox'[f] = outbox[f] => Stranded(f)
    BY <1>1, <1>2, <1>4, <2>1, ServiceAgrees
  <2>3. StrandedRows' \subseteq StrandedRows
    BY <1>4, <2>2 DEF StrandedRows
  <2>4. LossesPaid'
    BY <1>1, <1>2, <2>3, LossesFollow DEF LogFault
  <2> QED BY <2>2, <2>4 DEF OutboxInv
<1>5. CASE /\ outbox[e].status \in {"ABSENT", "PENDING"} /\ outbox'[e].status = "PENDING"
           /\ outbox'[e].attempts = outbox[e].attempts
  <2>1. outbox[e].attempts <= logFaults /\ Copies(e) <= outbox[e].attempts
    BY <1>1, <1>5 DEF RowSound, Absent
  <2>2. RowSound(e)'
    BY <1>1, <1>2, <1>3, <1>5, <2>1 DEF RowSound
  <2>3. \A v \in OutboxWorkers : ~Holds(v, e)
    <3>1. SUFFICES ASSUME NEW v \in OutboxWorkers, Holds(v, e) PROVE FALSE
      OBVIOUS
    <3>2. HolderSound(v)
      BY <1>1 DEF WorkInv
    <3> QED BY <1>5, <3>1, <3>2 DEF HolderSound, Holds
  <2>4. /\ WorkInv'
        /\ \A f \in DomainEvents : Stranded(f)' /\ outbox'[f] = outbox[f] => Stranded(f)
    BY <1>1, <1>2, <2>2, <2>3, ServiceAgrees
  <2>5. ~Stranded(e)'
    BY <1>5 DEF Stranded
  <2>6. StrandedRows' \subseteq StrandedRows
    BY <2>4, <2>5 DEF StrandedRows
  <2>7. LossesPaid'
    BY <1>1, <1>2, <2>6, LossesFollow DEF LogFault
  <2> QED BY <2>4, <2>7 DEF OutboxInv
<1> QED BY <1>4, <1>5

(* The upsert inserts a pending row, or leaves the one there is.           *)
LEMMA UpsertInserts ==
  ASSUME OutboxTypeOK, NEW e \in DomainEvents, Upsert(e)
  PROVE  /\ created' \in Seq(DomainEvents)
         /\ outbox' \in [DomainEvents -> [status : OutboxStatus, due : BOOLEAN, attempts : Nat]]
         /\ \A f \in DomainEvents \ {e} : outbox'[f] = outbox[f]
         /\ outbox'[e] # Absent
         /\ \/ outbox'[e] = outbox[e]
            \/ outbox[e].status \in {"ABSENT", "PENDING"} /\ outbox'[e].status = "PENDING"
               /\ outbox'[e].attempts = outbox[e].attempts
<1>1. CASE outbox[e] = Absent
  <2>1. /\ created' = Append(created, e)
        /\ outbox' = [outbox EXCEPT ![e] = [status |-> "PENDING", due |-> TRUE, attempts |-> 0]]
    BY <1>1 DEF Upsert
  <2>2. created' \in Seq(DomainEvents)
    BY <2>1 DEF OutboxTypeOK
  <2>3. "PENDING" \in OutboxStatus /\ TRUE \in BOOLEAN /\ 0 \in Nat /\ "PENDING" # "ABSENT"
    BY DEF OutboxStatus
  <2>4. /\ outbox' \in [DomainEvents -> [status : OutboxStatus, due : BOOLEAN, attempts : Nat]]
        /\ outbox'[e].status = "PENDING" /\ outbox'[e].attempts = 0
        /\ \A f \in DomainEvents \ {e} : outbox'[f] = outbox[f]
        /\ outbox'[e] # Absent
    BY <2>1, <2>3, RowMoves
  <2>5. outbox[e].status = "ABSENT" /\ outbox[e].attempts = 0
    BY <1>1 DEF Absent
  <2> QED BY <2>2, <2>4, <2>5
<1>2. CASE outbox[e] # Absent
  BY <1>2 DEF Upsert, tables, OutboxTypeOK
<1> QED BY <1>1, <1>2

(* What the services and the passing time do keeps the invariant.          *)
LEMMA ServicesKeep ==
  ASSUME OutboxInv, NEW e \in DomainEvents,
         SettleTrade(e) \/ ChangeWithdrawal(e) \/ Emit(e) \/ EmitFails(e) \/ BecomeDue(e)
  PROVE  OutboxInv'
<1> USE OutboxAssumption
<1>1. OutboxTypeOK /\ Absent' = Absent
  BY DEF OutboxInv, WorkInv, Absent
<1>2. CASE SettleTrade(e)
  <2>1. /\ e \in TradeEvents /\ happened' = happened \cup {e} /\ Upsert(e)
        /\ UNCHANGED <<emitting, worker, log, logFaults>>
    BY <1>2 DEF SettleTrade
  <2>2. /\ created' \in Seq(DomainEvents)
        /\ outbox' \in [DomainEvents -> [status : OutboxStatus, due : BOOLEAN, attempts : Nat]]
        /\ \A f \in DomainEvents \ {e} : outbox'[f] = outbox[f]
        /\ outbox'[e] # Absent
        /\ \/ outbox'[e] = outbox[e]
           \/ outbox[e].status \in {"ABSENT", "PENDING"} /\ outbox'[e].status = "PENDING"
              /\ outbox'[e].attempts = outbox[e].attempts
    BY <1>1, <2>1, UpsertInserts
  <2>3. OutboxTypeOK'
    BY <1>1, <2>1, <2>2 DEF OutboxTypeOK
  <2>4. MissedEvents' \subseteq MissedEvents
    BY <1>1, <2>1, <2>2 DEF MissedEvents, OutboxTypeOK
  <2> QED BY <2>1, <2>2, <2>3, <2>4, ServiceKeeps
<1>3. CASE ChangeWithdrawal(e)
  <2>1. /\ e \notin TradeEvents /\ happened' = happened \cup {e} /\ emitting' = emitting \cup {e}
        /\ UNCHANGED <<created, outbox, worker, log, logFaults>>
    BY <1>3 DEF ChangeWithdrawal, tables
  <2>2. OutboxTypeOK'
    BY <1>1, <2>1 DEF OutboxTypeOK
  <2>3. MissedEvents' \subseteq MissedEvents
    BY <1>1, <2>1 DEF MissedEvents
  <2> QED BY <2>1, <2>2, <2>3, ServiceKeeps
<1>4. CASE Emit(e)
  <2>1. /\ Upsert(e) /\ emitting' = emitting \ {e}
        /\ UNCHANGED <<happened, worker, log, logFaults>>
    BY <1>4 DEF Emit
  <2>2. /\ created' \in Seq(DomainEvents)
        /\ outbox' \in [DomainEvents -> [status : OutboxStatus, due : BOOLEAN, attempts : Nat]]
        /\ \A f \in DomainEvents \ {e} : outbox'[f] = outbox[f]
        /\ outbox'[e] # Absent
        /\ \/ outbox'[e] = outbox[e]
           \/ outbox[e].status \in {"ABSENT", "PENDING"} /\ outbox'[e].status = "PENDING"
              /\ outbox'[e].attempts = outbox[e].attempts
    BY <1>1, <2>1, UpsertInserts
  <2>3. OutboxTypeOK'
    BY <1>1, <2>1, <2>2 DEF OutboxTypeOK
  <2>4. MissedEvents' \subseteq MissedEvents
    BY <1>1, <2>1, <2>2 DEF MissedEvents, OutboxTypeOK
  <2> QED BY <2>1, <2>2, <2>3, <2>4, ServiceKeeps
<1>5. CASE EmitFails(e)
  <2>1. /\ e \in emitting /\ LogFault /\ emitting' = emitting \ {e}
        /\ UNCHANGED <<happened, created, outbox, worker, log>>
    BY <1>5 DEF EmitFails, tables
  <2>2. OutboxTypeOK'
    BY <1>1, <2>1, LogAssumption DEF OutboxTypeOK, LogFault
  <2>3. MissedEvents' \subseteq MissedEvents \cup {e} /\ e \notin TradeEvents
    BY <1>1, <2>1 DEF MissedEvents, OutboxTypeOK
  <2> QED BY <2>1, <2>2, <2>3, ServiceKeeps
<1>6. CASE BecomeDue(e)
  <2>1. /\ outbox[e].status = "PENDING" /\ outbox' = [outbox EXCEPT ![e].due = TRUE]
        /\ UNCHANGED <<happened, emitting, created, worker, log, logFaults>>
    BY <1>6 DEF BecomeDue
  <2>2. /\ outbox' \in [DomainEvents -> [status : OutboxStatus, due : BOOLEAN, attempts : Nat]]
        /\ \A f \in DomainEvents \ {e} : outbox'[f] = outbox[f]
        /\ outbox'[e].status = "PENDING" /\ outbox'[e].attempts = outbox[e].attempts
    BY <1>1, <2>1 DEF OutboxTypeOK
  <2>3. OutboxTypeOK'
    BY <1>1, <2>1, <2>2 DEF OutboxTypeOK
  <2>4. MissedEvents' \subseteq MissedEvents
    BY <1>1, <2>1, <2>2 DEF MissedEvents, OutboxTypeOK, Absent
  <2> QED BY <2>1, <2>2, <2>3, <2>4, ServiceKeeps
<1> QED BY <1>2, <1>3, <1>4, <1>5, <1>6

(* Every step of a worker keeps the invariant.                             *)
LEMMA WorkersKeep ==
  ASSUME OutboxInv, NEW w \in OutboxWorkers,
         WorkerStep(w) \/ PublishFails(w) \/ MarkFails(w) \/ BatchFails(w) \/ WorkerCrash(w)
  PROVE  OutboxInv'
<1>1. CASE Fetch(w)
  BY <1>1, FetchKeeps
<1>2. CASE Claim(w)
  <2>1. CASE outbox[Row(w)].status = "PENDING"
    <3>1. /\ worker[w].pc = "claim" /\ Claimed(Row(w)) /\ Goto(w, "publish")
          /\ UNCHANGED <<happened, emitting, created, log, logFaults>>
      BY <1>2, <2>1 DEF Claim, Claimed
    <3> QED BY <2>1, <3>1, ClaimingKeeps
  <2>2. CASE outbox[Row(w)].status # "PENDING"
    <3>1. /\ worker[w].pc = "claim" /\ NextRow(w)
          /\ UNCHANGED <<happened, emitting, created, outbox, log, logFaults>>
      BY <1>2, <2>2 DEF Claim
    <3> QED BY <3>1, LeavingKeeps
  <2> QED BY <2>1, <2>2
<1>3. CASE Publish(w)
  <2>1. /\ worker[w].pc = "publish" /\ Send(Row(w)) /\ Goto(w, "mark")
        /\ UNCHANGED <<happened, emitting, created, outbox, logFaults>>
    BY <1>3 DEF Publish, tables
  <2> QED BY <2>1, SendingKeeps
<1>4. CASE PublishFails(w)
  <2>1. /\ worker[w].pc = "publish" /\ LogFault /\ Goto(w, "postpone")
        /\ Send(Row(w)) \/ UNCHANGED log
        /\ UNCHANGED <<happened, emitting, created, outbox>>
    BY <1>4 DEF PublishFails, tables
  <2> QED BY <2>1, SendingKeeps
<1>5. CASE Mark(w)
  <2>1. /\ worker[w].pc = "mark" /\ Published(w) /\ NextRow(w)
        /\ UNCHANGED <<happened, emitting, created, log, logFaults>>
    BY <1>5 DEF Mark
  <2> QED BY <2>1, MarkingKeeps
<1>6. CASE MarkFails(w)
  <2>1. /\ worker[w].pc = "mark" /\ LogFault /\ Goto(w, "postpone")
        /\ Published(w) \/ UNCHANGED outbox
        /\ UNCHANGED <<happened, emitting, created, log>>
    BY <1>6 DEF MarkFails
  <2> QED BY <2>1, MarkingKeeps
<1>7. CASE Postpone(w)
  <2>1. /\ worker[w].pc = "postpone" /\ Postponed(w) /\ NextRow(w)
        /\ UNCHANGED <<happened, emitting, created, log, logFaults>>
    BY <1>7 DEF Postpone
  <2> QED BY <2>1, PostponingKeeps
<1>8. CASE BatchFails(w)
  <2>1. /\ worker[w].pc \in {"claim", "postpone"} /\ LogFault /\ Stop(w)
        /\ UNCHANGED <<happened, emitting, created, log>>
    BY <1>8 DEF BatchFails
  <2>2. CASE UNCHANGED outbox
    BY <2>1, <2>2, LeavingKeeps
  <2>3. CASE worker[w].pc = "postpone" /\ Postponed(w)
    BY <2>1, <2>3, PostponingKeeps
  <2>4. CASE /\ worker[w].pc = "claim" /\ outbox[Row(w)].status = "PENDING"
             /\ Claimed(Row(w))
    BY <2>1, <2>4, ClaimingKeeps
  <2> QED BY <1>8, <2>2, <2>3, <2>4 DEF BatchFails, Claimed
<1>9. CASE WorkerCrash(w)
  <2>1. /\ worker[w].pc # "idle" /\ LogFault /\ Stop(w)
        /\ UNCHANGED <<happened, emitting, created, outbox, log>>
    BY <1>9 DEF WorkerCrash, tables
  <2> QED BY <2>1, LeavingKeeps
<1> QED BY <1>1, <1>2, <1>3, <1>4, <1>5, <1>6, <1>7, <1>8, <1>9 DEF WorkerStep

(* Nothing has happened, nothing is lost.                                  *)
LEMMA OutboxStarts == OutboxInit => OutboxInv
<1> SUFFICES ASSUME OutboxInit PROVE OutboxInv
  OBVIOUS
<1> USE LogAssumption, OutboxAssumption
<1>1. OutboxTypeOK
  BY DEF OutboxInit, LogInit, OutboxTypeOK, Absent, IdleWorker, OutboxStatus
<1>2. ASSUME NEW e \in DomainEvents PROVE RowSound(e)
  <2>1. log[PartitionOf[e]] = << >> /\ outbox[e] = Absent /\ logFaults = 0
    BY DEF OutboxInit, LogInit
  <2>2. {i \in DOMAIN << >> : << >>[i] = e} = {}
    OBVIOUS
  <2>3. Copies(e) = 0
    BY <2>1, <2>2, FS_EmptySet DEF Copies
  <2> QED BY <2>1, <2>3 DEF RowSound, Absent
<1>3. \A w \in OutboxWorkers : worker[w].pc = "idle"
  BY DEF OutboxInit, IdleWorker
<1>4. (\A w \in OutboxWorkers : HolderSound(w)) /\ HoldersExclude
  BY <1>3 DEF HolderSound, HoldersExclude, Holds
<1>5. StrandedRows = {} /\ MissedEvents = {} /\ logFaults = 0
  BY DEF OutboxInit, LogInit, StrandedRows, Stranded, MissedEvents, Absent
<1>6. IsFiniteSet({}) /\ Cardinality({}) = 0
  BY FS_EmptySet
<1>7. LossesPaid
  BY <1>5, <1>6 DEF LossesPaid
<1> QED BY <1>1, <1>2, <1>4, <1>7 DEF OutboxInv, WorkInv

(* A step that changes nothing keeps the invariant.                        *)
LEMMA OutboxRests == OutboxInv /\ UNCHANGED outboxVars => OutboxInv'
<1> SUFFICES ASSUME OutboxInv, UNCHANGED outboxVars PROVE OutboxInv'
  OBVIOUS
<1>1. UNCHANGED <<happened, emitting, created, outbox, worker, log, logFaults>>
  BY DEF outboxVars
<1>2. OutboxTypeOK'
  BY <1>1 DEF OutboxInv, WorkInv, OutboxTypeOK
<1>3. (\A e : Copies(e)' = Copies(e)) /\ Absent' = Absent
      /\ (\A w, e : Holds(w, e)' = Holds(w, e)) /\ \A w : Row(w)' = Row(w)
  BY <1>1 DEF Copies, Absent, Holds, Row
<1>4. \A e \in DomainEvents : RowSound(e)'
  BY <1>1, <1>3 DEF OutboxInv, WorkInv, RowSound
<1>5. \A w \in OutboxWorkers : HolderSound(w)'
  BY <1>1, <1>3 DEF OutboxInv, WorkInv, HolderSound
<1>6. HoldersExclude'
  BY <1>3 DEF OutboxInv, WorkInv, HoldersExclude
<1>7. StrandedRows' = StrandedRows /\ MissedEvents' = MissedEvents
  BY <1>1, <1>3 DEF StrandedRows, Stranded, Held, MissedEvents
<1>8. LossesPaid'
  BY <1>1, <1>7 DEF OutboxInv, LossesPaid
<1> QED BY <1>2, <1>4, <1>5, <1>6, <1>8 DEF OutboxInv, WorkInv

(* The rows, the workers and the topic agree in every reachable state, and *)
(* every stranded row and every missed event was paid for by a failure.    *)
THEOREM OutboxInvariant == OutboxSpec => []OutboxInv
<1>1. OutboxInit => OutboxInv
  BY OutboxStarts
<1>2. OutboxInv /\ [OutboxNext]_outboxVars => OutboxInv'
  <2> SUFFICES ASSUME OutboxInv, [OutboxNext]_outboxVars PROVE OutboxInv'
    OBVIOUS
  <2>1. CASE OutboxNext
    BY <2>1, ServicesKeep, WorkersKeep DEF OutboxNext
  <2>2. CASE UNCHANGED outboxVars
    BY <2>2, OutboxRests
  <2> QED BY <2>1, <2>2
<1> QED BY <1>1, <1>2, PTL DEF OutboxSpec

(* The tables of the outbox, the workers and the topic keep their types.   *)
THEOREM OutboxTypeCorrect == OutboxSpec => []OutboxTypeOK
<1>1. OutboxInv => OutboxTypeOK
  BY DEF OutboxInv, WorkInv
<1> QED BY <1>1, OutboxInvariant, PTL

(* The invariant says that everything is accounted for.                    *)
LEMMA OutboxAccounts == OutboxInv => EventsAccounted
<1> SUFFICES ASSUME OutboxInv PROVE EventsAccounted
  OBVIOUS
<1>1. ClaimsAreExclusive
  BY DEF OutboxInv, WorkInv, HoldersExclude, RowSound, ClaimsAreExclusive, Sent
<1>2. CopiesAreAttempts
  BY DEF OutboxInv, WorkInv, RowSound, CopiesAreAttempts
<1>3. StrandedByFaults
  BY DEF OutboxInv, LossesPaid, StrandedRows, StrandedByFaults
<1>4. OnlyInsertsAreLost
  BY DEF OutboxInv, WorkInv, OutboxTypeOK, LossesPaid, MissedEvents, OnlyInsertsAreLost
<1> QED BY <1>1, <1>2, <1>3, <1>4 DEF EventsAccounted

(* Everything from the outbox row to Kafka is accounted for: an event is    *)
(* held by one worker at a time, sent no more often than it was attempted, *)
(* attempted again only after a failure, and stranded no more often than   *)
(* something failed (domainEventOutbox.worker.js, processOutboxBatch).  A  *)
(* trade always has its row; the events of withdrawals do not keep         *)
(* CommittedIsEmitted, and are lost no more often than something failed.   *)
THEOREM OutboxEventsAccounted == OutboxSpec => []EventsAccounted
BY OutboxAccounts, OutboxInvariant, PTL
-------------------------------------------------------------------------------
(***************************************************************************)
(* Proofs about Candles and the pipeline for any trades, any intervals,    *)
(* any partitions, any number of workers and any number of faults.         *)
(***************************************************************************)
\* Messages lie in the partition of their key.
LogPlaced ==
    /\ log \in [Partitions -> Seq(DomainEvents)]
    /\ \A p \in Partitions : \A n \in 1..Len(log[p]) : PartitionOf[log[p][n]] = p

Shaped(row) == /\ row.low <= row.open /\ row.open <= row.high
               /\ row.low <= row.close /\ row.close <= row.high

\* A row that was read is still there and still has its opening price; nobody
\* has changed it since, unless another worker had read it too.
SeenSound(c) ==
    /\ job[c].seen # NoCandle => /\ candle[InHand(c)] # NoCandle
                                 /\ Shaped(job[c].seen)
                                 /\ job[c].seen.open = candle[InHand(c)].open
    /\ InHand(c) \notin shared => job[c].seen = candle[InHand(c)]

\* A worker has a message of the partition it came from in hand, the next one
\* while the partition is its own, and that message is in the shorter
\* intervals already.
JobSound(c) ==
    job[c] # IdleJob =>
       /\ PartitionOf[job[c].e] = job[c].from
       /\ Owns(c) => /\ position[job[c].from] < Len(log[job[c].from])
                     /\ log[job[c].from][position[job[c].from] + 1] = job[c].e
       /\ \A i \in Intervals : i < job[c].i => applied[i][job[c].e] > 0
       /\ job[c].pc = "write" => SeenSound(c)

\* Workers that have read the same candle are known to have.
HandsShared ==
    \A c, d \in CandleWorkers :
       c # d /\ job[c].pc = "write" /\ job[d].pc = "write" /\ InHand(c) = InHand(d) =>
          InHand(c) \in shared

Ones == [e \in Messages |-> 1]
Quantities == [e \in Messages |-> Trade[e].quantity]
Volume(k) == IF candle[k] = NoCandle THEN 0 ELSE candle[k].volume

\* A row holds what was folded into it.
RowFolded(k) ==
    /\ candle[k].tradeCount = Folded(k, Ones)
    /\ k \notin shared => Volume(k) = Folded(k, Quantities)
    /\ candle[k] # NoCandle => Shaped(candle[k])

\* The workers that have yet to write a message into an interval, and how often
\* it will have been written there if none of them fails.
Waiting(i, e) == {c \in CandleWorkers : job[c] # IdleJob /\ job[c].e = e /\ job[c].i <= i}
DueTimes(i, e) == applied[i][e] + Cardinality(Waiting(i, e))

\* The copies of a message that were delivered since the group last went back:
\* those it has moved past and the one its owner has in hand.
InWork(p) == job[owner[p]] # IdleJob /\ job[owner[p]].from = p
Delivered(e) == {n \in DOMAIN log[PartitionOf[e]] :
               /\ log[PartitionOf[e]][n] = e
               /\ \/ n <= position[PartitionOf[e]]
                  \/ n = position[PartitionOf[e]] + 1 /\ InWork(PartitionOf[e])}

\* How often a trade was written into an interval.
TimesApplied(i, e) ==
    /\ \A n \in 1..position[PartitionOf[e]] : log[PartitionOf[e]][n] = e => applied[i][e] > 0
    /\ DueTimes(i, e) <= Copies(e) * redeliveries + Cardinality(Delivered(e))
    /\ i > 1 => DueTimes(i, e) <= DueTimes(i - 1, e)

CandleInv == /\ LogPlaced /\ CandleTypeOK /\ HandsShared
             /\ \A c \in CandleWorkers : JobSound(c)
             /\ \A k \in Keys : RowFolded(k)
             /\ \A i \in Intervals, e \in Messages : TimesApplied(i, e)

(* The start of the longer interval is found from the start of the shorter *)
(* one inside it as well as from the time itself.                          *)
LEMMA StartsNest ==
  ASSUME NEW a \in Nat, a > 0, NEW b \in Nat, b > 0, b % a = 0, NEW t \in Nat
  PROVE  ((t \div a) * a) \div b = t \div b
<1>1. PICK u, x : u = t \div a /\ x = t % a
  OBVIOUS
<1>2. u \in Nat /\ x \in 0..(a - 1) /\ t = u * a + x
  BY <1>1
<1>3. PICK v, y : v = t \div b /\ y = t % b
  OBVIOUS
<1>4. v \in Nat /\ y \in 0..(b - 1) /\ t = v * b + y
  BY <1>3
<1>5. PICK m \in Nat : b = m * a
  <2>1. PICK m : m = b \div a
    OBVIOUS
  <2>2. m \in Nat /\ b = m * a
    BY <2>1
  <2> QED BY <2>2
<1>6. PICK s : s = u * a
  OBVIOUS
<1>7. s \in Nat
  BY <1>2, <1>6
<1>8. PICK w, z : w = s \div b /\ z = s % b
  OBVIOUS
<1>9. w \in Nat /\ z \in 0..(b - 1) /\ s = w * b + z
  BY <1>7, <1>8
<1>10. ASSUME w < v PROVE FALSE
  <2>1. PICK k \in Nat : v = w + 1 + k
    <3>1. v - (w + 1) \in Nat /\ v = w + 1 + (v - (w + 1))
      BY <1>4, <1>9, <1>10
    <3> QED BY <3>1
  <2>2. v * b = w * b + b + k * b /\ k * b \in Nat /\ w * b \in Nat
    BY <1>9, <2>1
  <2>3. PICK r : r = v * m
    OBVIOUS
  <2>4. r \in Nat /\ r * a = v * b
    BY <1>4, <1>5, <2>3
  <2>5. u * a < r * a
    BY <1>6, <1>9, <2>2, <2>4
  <2>6. u < r
    <3>1. ASSUME u >= r PROVE FALSE
      <4>1. PICK j \in Nat : u = r + j
        <5>1. u - r \in Nat /\ u = r + (u - r)
          BY <1>2, <2>4, <3>1
        <5> QED BY <5>1
      <4>2. u * a = r * a + j * a /\ j * a \in Nat /\ r * a \in Nat
        BY <2>4, <4>1
      <4> QED BY <2>5, <4>2
    <3> QED BY <1>2, <2>4, <3>1
  <2>7. PICK j \in Nat : r = u + 1 + j
    <3>1. r - (u + 1) \in Nat /\ r = u + 1 + (r - (u + 1))
      BY <1>2, <2>4, <2>6
    <3> QED BY <3>1
  <2>8. r * a = u * a + a + j * a /\ j * a \in Nat /\ u * a \in Nat
    BY <1>2, <2>7
  <2>9. t < r * a
    BY <1>2, <2>8
  <2> QED BY <1>4, <2>2, <2>4, <2>9
<1>11. ASSUME w > v PROVE FALSE
  <2>1. PICK k \in Nat : w = v + 1 + k
    <3>1. w - (v + 1) \in Nat /\ w = v + 1 + (w - (v + 1))
      BY <1>4, <1>9, <1>11
    <3> QED BY <3>1
  <2>2. w * b = v * b + b + k * b /\ k * b \in Nat /\ v * b \in Nat
    BY <1>4, <2>1
  <2>3. s <= t
    BY <1>2, <1>6, <1>7
  <2> QED BY <1>4, <1>9, <2>2, <2>3
<1>12. w = v
  BY <1>4, <1>9, <1>10, <1>11
<1> QED BY <1>1, <1>3, <1>6, <1>8, <1>12

(* The intervals are numbered from 1 and have a length.                    *)
LEMMA IntervalFacts ==
  /\ Len(CandleInterval) \in Nat /\ Len(CandleInterval) > 0
  /\ Intervals = 1..Len(CandleInterval)
  /\ \A i \in Intervals : CandleInterval[i] \in Nat /\ CandleInterval[i] > 0
<1>1. CandleInterval \in Seq(Nat \ {0}) /\ CandleInterval # << >>
  BY CandleAssumption
<1>2. Len(CandleInterval) \in Nat /\ DOMAIN CandleInterval = 1..Len(CandleInterval)
      /\ \A i \in 1..Len(CandleInterval) : CandleInterval[i] \in Nat \ {0}
  BY <1>1
<1> QED BY <1>1, <1>2 DEF Intervals

(* The candle of a trade and an interval.                                  *)
LEMMA KeyFacts ==
  /\ \A e \in Messages, i \in Intervals :
        /\ Key(e, i) \in Keys /\ Key(e, i)[1] = i
        /\ Key(e, i)[2] = OpenTime(Trade[e].time, i)
  /\ \A k \in Keys : \E e \in Messages, i \in Intervals : k = Key(e, i)
  /\ \A k \in Keys : k[1] \in Intervals
<1>1. \A e \in Messages, i \in Intervals :
         /\ Key(e, i) \in Keys /\ Key(e, i)[1] = i
         /\ Key(e, i)[2] = OpenTime(Trade[e].time, i)
  BY DEF Keys, Key
<1>2. \A k \in Keys : \E e \in Messages, i \in Intervals : k = Key(e, i)
  BY DEF Keys
<1>3. ASSUME NEW k \in Keys PROVE k[1] \in Intervals
  <2>1. PICK e \in Messages, i \in Intervals : k = Key(e, i)
    BY <1>2
  <2> QED BY <1>1, <2>1
<1> QED BY <1>1, <1>2, <1>3

(* The messages are events, and their partitions are those of the topic.   *)
LEMMA MessageFacts ==
  /\ IsFiniteSet(Messages) /\ Messages \subseteq DomainEvents
  /\ \A e \in Messages : /\ PartitionOf[e] \in TradePartitions /\ PartitionOf[e] \in Partitions
                         /\ Trade[e].price \in Nat /\ Trade[e].quantity \in Nat
                         /\ Trade[e].time \in Nat
<1>1. Trade \in [Messages -> [price : Nat, quantity : Nat, time : Nat]]
  BY TradeAssumption
<1>2. \A e \in Messages : e \in DomainEvents /\ PartitionOf[e] \in TradePartitions
  BY DEF Messages
<1>3. TradePartitions \subseteq Partitions
  BY CandleAssumption
<1> QED BY <1>1, <1>2, <1>3, TradeAssumption

(* The copies of a message, and those delivered of them, are finitely many. *)
LEMMA DeliveredFacts ==
  ASSUME LogPlaced, NEW e \in Messages
  PROVE  /\ Copies(e) \in Nat
         /\ IsFiniteSet(Delivered(e)) /\ Cardinality(Delivered(e)) \in Nat
         /\ Cardinality(Delivered(e)) <= Copies(e)
<1> DEFINE s == log[PartitionOf[e]]
           C == {n \in DOMAIN s : s[n] = e}
<1>1. s \in Seq(DomainEvents)
  BY MessageFacts DEF LogPlaced
<1>2. Delivered(e) \in SUBSET C
  BY DEF Delivered
<1>3. IsFiniteSet(C) /\ Cardinality(C) \in Nat /\ Copies(e) = Cardinality(C)
  <2> HIDE DEF s
  <2>1. IsFiniteSet(C) /\ Cardinality(C) \in Nat
    BY <1>1, CountedCopies
  <2> QED BY <2>1 DEF Copies, s
<1> HIDE DEF C, s
<1> QED BY <1>2, <1>3, FS_Subset, FS_CardinalityType

(* So are those delivered after a step.                                    *)
LEMMA DeliveredStays ==
  ASSUME LogPlaced', NEW e \in Messages
  PROVE  IsFiniteSet(Delivered(e)') /\ Cardinality(Delivered(e)') \in Nat
<1> DEFINE s == log'[PartitionOf[e]]
           C == {n \in DOMAIN s : s[n] = e}
<1>1. s \in Seq(DomainEvents)
  BY MessageFacts DEF LogPlaced
<1>2. Delivered(e)' \in SUBSET C
  BY DEF Delivered
<1> HIDE DEF s
<1>3. IsFiniteSet(C)
  BY <1>1, CountedCopies
<1> HIDE DEF C
<1> QED BY <1>2, <1>3, FS_Subset, FS_CardinalityType

(* Those who have yet to write a message are finitely many, now and after  *)
(* a step, and more for a longer interval.                                 *)
LEMMA WaitingFacts ==
  ASSUME CandleTypeOK, NEW i \in Intervals, NEW e \in Messages
  PROVE  /\ IsFiniteSet(Waiting(i, e)) /\ Cardinality(Waiting(i, e)) \in Nat
         /\ IsFiniteSet(Waiting(i, e)') /\ Cardinality(Waiting(i, e)') \in Nat
         /\ applied[i][e] \in Nat /\ DueTimes(i, e) \in Nat
         /\ i > 1 => /\ i - 1 \in Intervals
                     /\ Cardinality(Waiting(i - 1, e)) <= Cardinality(Waiting(i, e))
<1>1. IsFiniteSet(CandleWorkers)
  BY CandleAssumption
<1>2. Waiting(i, e) \in SUBSET CandleWorkers /\ Waiting(i, e)' \in SUBSET CandleWorkers
  BY DEF Waiting
<1>3. /\ IsFiniteSet(Waiting(i, e)) /\ Cardinality(Waiting(i, e)) \in Nat
      /\ IsFiniteSet(Waiting(i, e)') /\ Cardinality(Waiting(i, e)') \in Nat
  BY <1>1, <1>2, FS_Subset, FS_CardinalityType
<1>4. applied[i][e] \in Nat
  BY DEF CandleTypeOK
<1>5. ASSUME i > 1
      PROVE  /\ i - 1 \in Intervals
             /\ Cardinality(Waiting(i - 1, e)) <= Cardinality(Waiting(i, e))
  <2>1. i - 1 \in Intervals /\ i \in Nat
    BY <1>5, IntervalFacts
  <2>2. \A c \in CandleWorkers : job[c] # IdleJob => job[c].i \in Nat
    BY IntervalFacts DEF CandleTypeOK
  <2>3. Waiting(i - 1, e) \in SUBSET Waiting(i, e)
    BY <2>1, <2>2 DEF Waiting
  <2> QED BY <1>3, <2>1, <2>3, FS_Subset
<1> QED BY <1>3, <1>4, <1>5 DEF DueTimes

(* A trade is in no interval more often than in the shorter one.           *)
LEMMA ShorterFirst ==
  ASSUME CandleInv, NEW i \in Intervals, i > 1, NEW e \in Messages
  PROVE  applied[i][e] <= applied[i - 1][e]
<1>1. CandleTypeOK /\ DueTimes(i, e) <= DueTimes(i - 1, e)
  BY DEF CandleInv, TimesApplied
<1>2. i - 1 \in Intervals
  BY <1>1, WaitingFacts
<1>3. PICK a, b, v, w : /\ a = applied[i][e] /\ b = applied[i - 1][e]
                        /\ v = Cardinality(Waiting(i, e)) /\ w = Cardinality(Waiting(i - 1, e))
  OBVIOUS
<1>4. a \in Nat /\ b \in Nat /\ v \in Nat /\ w \in Nat /\ w <= v
  BY <1>1, <1>2, <1>3, WaitingFacts
<1>5. a + v <= b + w
  BY <1>1, <1>3 DEF DueTimes
<1> QED BY <1>3, <1>4, <1>5

(* Times that open the same shorter candle open the same longer one.       *)
LEMMA OpeningsNest ==
  ASSUME NEW i \in Intervals, i > 1, NEW t \in Nat
  PROVE  OpenTime(OpenTime(t, i - 1), i) = OpenTime(t, i)
<1>1. i - 1 \in Intervals /\ i \in 2..Len(CandleInterval)
  BY IntervalFacts
<1>2. PICK a, b : a = CandleInterval[i - 1] /\ b = CandleInterval[i]
  OBVIOUS
<1>3. a \in Nat /\ a > 0 /\ b \in Nat /\ b > 0 /\ b % a = 0
  BY <1>1, <1>2, IntervalFacts, CandleAssumption
<1>4. ((t \div a) * a) \div b = t \div b
  BY <1>3, StartsNest
<1> QED BY <1>2, <1>4 DEF OpenTime

(* What is folded into a candle is a natural number, summed over finitely  *)
(* many messages.                                                          *)
LEMMA FoldedFacts ==
  ASSUME CandleTypeOK, NEW i \in Intervals, NEW k,
         NEW weight, \A e \in Messages : weight[e] \in Nat
  PROVE  /\ IsFiniteSet({e \in Messages : Key(e, i) = k})
         /\ \A e \in Messages : /\ applied[i][e] \in Nat
                                /\ applied[i][e] * weight[e] \in Nat
         /\ k[1] = i => Folded(k, weight) \in Nat
<1>1. IsFiniteSet({e \in Messages : Key(e, i) = k})
  BY MessageFacts, FS_Subset
<1>2. \A e \in Messages : applied[i][e] \in Nat
  BY DEF CandleTypeOK
<1>3. ASSUME NEW e \in Messages PROVE applied[i][e] * weight[e] \in Nat
  <2>1. PICK x, y : x = applied[i][e] /\ y = weight[e]
    OBVIOUS
  <2>2. x \in Nat /\ y \in Nat
    BY <1>2, <2>1
  <2>3. x * y \in Nat
    BY <2>2
  <2> QED BY <2>1, <2>3
<1>4. ASSUME k[1] = i PROVE Folded(k, weight) \in Nat
  <2> DEFINE S == {e \in Messages : Key(e, i) = k}
             f == [e \in Messages |-> applied[i][e] * weight[e]]
  <2>1. \A e \in S : f[e] \in Nat
    BY <1>3
  <2>2. Folded(k, weight) = SumFunctionOnSet(f, S)
    BY <1>4 DEF Folded
  <2>3. IsFiniteSet(S)
    BY <1>1
  <2> HIDE DEF S, f
  <2> QED BY <2>1, <2>2, <2>3, SumAtLeast
<1> QED BY <1>1, <1>2, <1>3, <1>4

(* A candle counts no more trades than the shorter candles inside it.      *)
LEMMA ShorterLead == CandleInv => ShorterIntervalsLead
<1> SUFFICES ASSUME CandleInv, NEW k \in Keys, k[1] > 1
             PROVE  candle[k].tradeCount <=
                       SumFunctionOnSet([s \in Keys |-> candle[s].tradeCount],
                          {s \in Keys : s[1] = k[1] - 1 /\ OpenTime(s[2], k[1]) = k[2]})
  BY DEF ShorterIntervalsLead
<1>1. PICK i \in Intervals : i = k[1] /\ i > 1 /\ i - 1 \in Intervals
  BY KeyFacts, IntervalFacts
<1>2. CandleTypeOK
  BY DEF CandleInv
<1> DEFINE S == {e \in Messages : Key(e, i) = k}
           f == [e \in Messages |-> applied[i][e] * Ones[e]]
           h == [e \in Messages |-> applied[i - 1][e] * Ones[e]]
           name == [e \in S |-> Key(e, i - 1)]
           g == [s \in Keys |-> candle[s].tradeCount]
           N == {s \in Keys : s[1] = k[1] - 1 /\ OpenTime(s[2], k[1]) = k[2]}
<1>3. \A e \in Messages : Ones[e] = 1
  BY DEF Ones
<1>4. \A e \in Messages : applied[i][e] \in Nat /\ applied[i - 1][e] \in Nat
                          /\ applied[i][e] <= applied[i - 1][e]
  BY <1>1, <1>2, ShorterFirst DEF CandleTypeOK
<1>5. \A e \in Messages : f[e] = applied[i][e] /\ h[e] = applied[i - 1][e]
  <2> SUFFICES ASSUME NEW e \in Messages
               PROVE  f[e] = applied[i][e] /\ h[e] = applied[i - 1][e]
    OBVIOUS
  <2>1. f[e] = applied[i][e] * 1 /\ h[e] = applied[i - 1][e] * 1
    BY <1>3
  <2>2. applied[i][e] \in Nat /\ applied[i - 1][e] \in Nat
    BY <1>4
  <2> QED BY <2>1, <2>2
<1>6. IsFiniteSet(S) /\ S \subseteq Messages
  BY <1>1, MessageFacts, FS_Subset
<1>7. candle[k].tradeCount = SumFunctionOnSet(f, S)
  BY <1>1 DEF CandleInv, RowFolded, Folded
<1>8. \A e \in Messages : Key(e, i) = k <=> /\ Key(e, i - 1) \in N
  <2> SUFFICES ASSUME NEW e \in Messages PROVE Key(e, i) = k <=> Key(e, i - 1) \in N
    OBVIOUS
  <2>1. Trade[e].time \in Nat
    BY MessageFacts
  <2>2. OpenTime(OpenTime(Trade[e].time, i - 1), i) = OpenTime(Trade[e].time, i)
    BY <1>1, <2>1, OpeningsNest
  <2>3. /\ Key(e, i - 1) \in Keys /\ Key(e, i - 1)[1] = i - 1
        /\ Key(e, i - 1)[2] = OpenTime(Trade[e].time, i - 1)
    BY <1>1, KeyFacts
  <2>4. k = <<k[1], k[2]>>
    BY DEF Keys, Key
  <2>5. Key(e, i - 1) \in N <=> OpenTime(Trade[e].time, i) = k[2]
    BY <1>1, <2>2, <2>3
  <2>6. Key(e, i) = k <=> OpenTime(Trade[e].time, i) = k[2]
    BY <1>1, <2>4 DEF Key
  <2> QED BY <2>5, <2>6
<1>9. {name[e] : e \in S} = N
  <2>1. \A e \in S : name[e] \in N
    BY <1>8
  <2>2. ASSUME NEW s \in N PROVE \E e \in S : s = name[e]
    <3>1. PICK e \in Messages, j \in Intervals : s = Key(e, j)
      BY KeyFacts
    <3>2. j = i - 1
      BY <1>1, <3>1, KeyFacts
    <3>3. e \in S
      BY <1>8, <3>1, <3>2
    <3> QED BY <3>1, <3>2, <3>3
  <2> QED BY <2>1, <2>2
<1>10. \A s \in {name[e] : e \in S} : g[s] = SumFunctionOnSet(h, {e \in S : name[e] = s})
  <2> SUFFICES ASSUME NEW s \in N PROVE g[s] = SumFunctionOnSet(h, {e \in S : name[e] = s})
    BY <1>9
  <2>1. s[1] = i - 1 /\ s \in Keys
    BY <1>1
  <2>2. g[s] = Folded(s, Ones)
    BY <2>1 DEF CandleInv, RowFolded
  <2>3. {e \in S : name[e] = s} = {e \in Messages : Key(e, i - 1) = s}
    BY <1>8
  <2> QED BY <2>1, <2>2, <2>3 DEF Folded
<1>11. \A e \in S : f[e] \in Int /\ h[e] \in Int /\ f[e] <= h[e]
  BY <1>4, <1>5, <1>6
<1>12. name = [e \in S |-> name[e]]
  OBVIOUS
<1> HIDE DEF S, f, h, name, g, N
<1>13. SumFunctionOnSet(f, S) <= SumFunctionOnSet(h, S)
  BY <1>6, <1>11, SumIsMonotone
<1>14. SumFunctionOnSet(h, S) = SumFunctionOnSet(g, {name[e] : e \in S})
  <2>1. IsFiniteSet(S) /\ \A e \in S : h[e] \in Int
    BY <1>6, <1>11
  <2> QED BY <1>10, <1>12, <2>1, SumByGroups
<1>15. candle[k].tradeCount <= SumFunctionOnSet(g, N)
  BY <1>7, <1>9, <1>13, <1>14
<1> QED BY <1>15 DEF g, N

(* What the candles show is accounted for.                                 *)
LEMMA InvAccounts == CandleInv => CandlesAccounted
<1> SUFFICES ASSUME CandleInv PROVE CandlesAccounted
  OBVIOUS
<1>1. CandleTypeOK /\ LogPlaced /\ \A c \in CandleWorkers : JobSound(c)
  BY DEF CandleInv
<1>2. CandlesAddUp
  BY DEF CandleInv, RowFolded, CandlesAddUp, Ones, Quantities, Volume
<1>3. CandleShape
  BY DEF CandleInv, RowFolded, CandleShape, Shaped
<1>4. NoTradeSkipped
  <2> SUFFICES ASSUME NEW i \in Intervals, NEW e \in Messages
               PROVE  applied[i][e] <= Copies(e) * (1 + redeliveries)
    BY DEF CandleInv, TimesApplied, NoTradeSkipped
  <2>1. PICK a, w, c, r, t : /\ a = applied[i][e] /\ w = Cardinality(Waiting(i, e))
                             /\ c = Copies(e) /\ r = redeliveries
                             /\ t = Cardinality(Delivered(e))
    OBVIOUS
  <2>2. a \in Nat /\ w \in Nat /\ r \in Nat
    BY <1>1, <2>1, WaitingFacts DEF CandleTypeOK
  <2>3. c \in Nat /\ t \in Nat /\ t <= c
    BY <1>1, <2>1, DeliveredFacts
  <2>4. a + w <= c * r + t
    BY <2>1 DEF CandleInv, TimesApplied, DueTimes
  <2>5. c * (1 + r) = c * r + c /\ c * r \in Nat
    BY <2>2, <2>3
  <2> QED BY <2>1, <2>2, <2>3, <2>4, <2>5
<1>5. ShorterIntervalsLead
  BY ShorterLead
<1> QED BY <1>2, <1>3, <1>4, <1>5 DEF CandlesAccounted

(* The message a worker has in hand.                                       *)
LEMMA InHandFacts ==
  ASSUME CandleInv, NEW c \in CandleWorkers, job[c].pc # "idle"
  PROVE  /\ job[c] # IdleJob /\ job[c].pc \in {"read", "write"}
         /\ job[c] \in [pc : {"read", "write"}, from : TradePartitions, e : Messages,
                        i : Intervals, seen : Candle \cup {NoCandle}]
         /\ InHand(c) \in Keys /\ InHand(c) = Key(job[c].e, job[c].i)
         /\ PartitionOf[job[c].e] = job[c].from /\ job[c].from \in Partitions
         /\ position[job[c].from] \in Nat /\ Len(log[job[c].from]) \in Nat
         /\ Owns(c) => /\ position[job[c].from] < Len(log[job[c].from])
                       /\ log[job[c].from][position[job[c].from] + 1] = job[c].e
<1>1. CandleTypeOK /\ LogPlaced /\ JobSound(c)
  BY DEF CandleInv
<1>2. job[c] # IdleJob
  BY DEF IdleJob
<1>3. job[c] \in [pc : {"read", "write"}, from : TradePartitions, e : Messages,
                  i : Intervals, seen : Candle \cup {NoCandle}]
  BY <1>1, <1>2 DEF CandleTypeOK
<1>4. InHand(c) \in Keys /\ InHand(c) = Key(job[c].e, job[c].i)
  BY <1>3, KeyFacts DEF InHand
<1>5. /\ job[c].from \in Partitions
      /\ position[job[c].from] \in Nat /\ Len(log[job[c].from]) \in Nat
  BY <1>1, <1>3, CandleAssumption DEF CandleTypeOK, LogPlaced
<1> QED BY <1>1, <1>2, <1>3, <1>4, <1>5 DEF JobSound

\* What is true of a row when a worker writes the trade it has in hand.
Writes(c) == job[c].pc = "write" /\ ~Conflict(c) /\ WriteRow(c)

(* The row that is written, and the trade it is counted for.               *)
LEMMA WriteRowFacts ==
  ASSUME CandleInv, NEW c \in CandleWorkers, Writes(c)
  PROVE  /\ candle' \in [Keys -> Candle \cup {NoCandle}]
         /\ \A k \in Keys : k # InHand(c) => candle'[k] = candle[k]
         /\ \A k \in Keys : candle[k] # NoCandle =>
               candle'[k] # NoCandle /\ candle'[k].open = candle[k].open
         /\ candle'[InHand(c)] # NoCandle /\ Shaped(candle'[InHand(c)])
         /\ candle'[InHand(c)].tradeCount = candle[InHand(c)].tradeCount + 1
         /\ \A k \in Keys : k = InHand(c) /\ k \notin shared =>
               Volume(k)' = Volume(k) + Trade[job[c].e].quantity
         /\ applied' \in [Intervals -> [Messages -> Nat]]
         /\ \A i \in Intervals, e \in Messages :
               applied'[i][e] = applied[i][e] + (IF i = job[c].i /\ e = job[c].e THEN 1 ELSE 0)
<1>1. /\ job[c] # IdleJob
      /\ job[c] \in [pc : {"read", "write"}, from : TradePartitions, e : Messages,
                     i : Intervals, seen : Candle \cup {NoCandle}]
      /\ InHand(c) \in Keys
  BY InHandFacts DEF Writes
<1>2. SeenSound(c)
  BY <1>1 DEF Writes, CandleInv, JobSound
<1>3. PICK k0, e0, i0, seen, cur :
         /\ k0 = InHand(c) /\ e0 = job[c].e /\ i0 = job[c].i
         /\ seen = job[c].seen /\ cur = candle[k0]
  OBVIOUS
<1>4. /\ k0 \in Keys /\ e0 \in Messages /\ i0 \in Intervals
      /\ seen \in Candle \cup {NoCandle} /\ cur \in Candle \cup {NoCandle}
      /\ candle \in [Keys -> Candle \cup {NoCandle}]
      /\ applied \in [Intervals -> [Messages -> Nat]]
  BY <1>1, <1>3 DEF CandleInv, CandleTypeOK
<1>5. PICK new : new = IF seen = NoCandle THEN FirstCandle(e0) ELSE NextCandle(seen, cur, e0)
  OBVIOUS
<1>6. candle' = [candle EXCEPT ![k0] = new]
  BY <1>3, <1>4, <1>5 DEF Writes, WriteRow
<1>7. applied' = [applied EXCEPT ![i0] = [applied[i0] EXCEPT ![e0] = applied[i0][e0] + 1]]
  BY <1>3, <1>4 DEF Writes, WriteRow
<1>8. PICK price, quantity : /\ price = Trade[e0].price /\ price \in Nat
                             /\ quantity = Trade[e0].quantity /\ quantity \in Nat
  BY <1>4, MessageFacts
<1>9. CASE seen = NoCandle
  <2>1. cur = NoCandle
    BY <1>3, <1>9 DEF Writes, Conflict
  <2>2. new = [open |-> price, high |-> price, low |-> price, close |-> price,
               volume |-> quantity, tradeCount |-> 1]
    BY <1>5, <1>8, <1>9 DEF FirstCandle
  <2>3. new \in Candle /\ new # NoCandle /\ Shaped(new)
        /\ new.tradeCount = cur.tradeCount + 1 /\ new.volume = quantity
    BY <1>8, <2>1, <2>2 DEF Candle, NoCandle, Shaped
  <2>4. candle' \in [Keys -> Candle \cup {NoCandle}]
        /\ candle'[k0] = new /\ \A k \in Keys : k # k0 => candle'[k] = candle[k]
    BY <1>4, <1>6, <2>3
  <2>5. \A k \in Keys : k = InHand(c) =>
           Volume(k)' = Volume(k) + Trade[job[c].e].quantity
    <3> SUFFICES ASSUME NEW k \in Keys, k = k0 PROVE Volume(k)' = Volume(k) + quantity
      BY <1>3, <1>8
    <3>1. Volume(k)' = quantity /\ Volume(k) = 0
      BY <1>3, <2>1, <2>3, <2>4 DEF Volume
    <3> QED BY <1>8, <3>1
  <2>6. /\ applied' \in [Intervals -> [Messages -> Nat]]
        /\ \A i \in Intervals, e \in Messages :
              applied'[i][e] = applied[i][e] + (IF i = i0 /\ e = e0 THEN 1 ELSE 0)
    BY <1>4, <1>7
  <2>7. /\ \A k \in Keys : k # k0 => candle'[k] = candle[k]
        /\ \A k \in Keys : candle[k] # NoCandle =>
              candle'[k] # NoCandle /\ candle'[k].open = candle[k].open
        /\ candle'[k0] # NoCandle /\ Shaped(candle'[k0])
        /\ candle'[k0].tradeCount = candle[k0].tradeCount + 1
    BY <1>3, <2>1, <2>3, <2>4
  <2> QED BY <1>3, <2>4, <2>5, <2>6, <2>7
<1>10. CASE seen # NoCandle
  <2>1. cur # NoCandle /\ Shaped(seen) /\ seen.open = cur.open
    BY <1>2, <1>3, <1>10 DEF SeenSound
  <2>2. seen \in Candle /\ cur \in Candle
    BY <1>4, <1>10, <2>1
  <2>3. PICK high, low, volume, count :
           /\ high = (IF price > seen.high THEN price ELSE seen.high)
           /\ low = (IF price < seen.low THEN price ELSE seen.low)
           /\ volume = seen.volume + quantity /\ count = cur.tradeCount + 1
    OBVIOUS
  <2>4. /\ new \in Candle /\ new.open = cur.open /\ new.close = price
        /\ new.high = high /\ new.low = low /\ new.volume = volume /\ new.tradeCount = count
    <3>1. high \in Nat /\ low \in Nat /\ volume \in Nat /\ count \in Nat \ {0}
      BY <1>8, <2>2, <2>3 DEF Candle
    <3>2. new = [cur EXCEPT !.high = high, !.low = low, !.close = price, !.volume = volume,
                            !.tradeCount = count]
      BY <1>5, <1>8, <1>10, <2>2, <2>3 DEF NextCandle, Candle
    <3>3. cur = [open |-> cur.open, high |-> cur.high, low |-> cur.low, close |-> cur.close,
                 volume |-> cur.volume, tradeCount |-> cur.tradeCount]
          /\ cur.open \in Nat
      BY <2>2 DEF Candle
    <3>4. new = [open |-> cur.open, high |-> high, low |-> low, close |-> price,
                 volume |-> volume, tradeCount |-> count]
      BY <3>2, <3>3
    <3> QED BY <1>8, <3>1, <3>3, <3>4 DEF Candle
  <2>5. new # NoCandle
    BY <2>4 DEF Candle, NoCandle
  <2>6. Shaped(new)
    <3>1. seen.low \in Nat /\ seen.high \in Nat /\ seen.open \in Nat
      BY <2>2 DEF Candle
    <3> QED BY <1>8, <2>1, <2>3, <2>4, <3>1 DEF Shaped
  <2>7. candle' \in [Keys -> Candle \cup {NoCandle}]
        /\ candle'[k0] = new /\ \A k \in Keys : k # k0 => candle'[k] = candle[k]
    BY <1>4, <1>6, <2>4
  <2>8. \A k \in Keys : k = InHand(c) /\ k \notin shared =>
           Volume(k)' = Volume(k) + Trade[job[c].e].quantity
    <3> SUFFICES ASSUME NEW k \in Keys, k = k0, k \notin shared
                 PROVE  Volume(k)' = Volume(k) + quantity
      BY <1>3, <1>8
    <3>1. seen = cur
      BY <1>2, <1>3 DEF SeenSound
    <3>2. Volume(k)' = seen.volume + quantity /\ Volume(k) = cur.volume
      BY <1>3, <2>1, <2>3, <2>4, <2>5, <2>7 DEF Volume
    <3> QED BY <3>1, <3>2
  <2>9. /\ applied' \in [Intervals -> [Messages -> Nat]]
        /\ \A i \in Intervals, e \in Messages :
              applied'[i][e] = applied[i][e] + (IF i = i0 /\ e = e0 THEN 1 ELSE 0)
    BY <1>4, <1>7
  <2>10. /\ \A k \in Keys : k # k0 => candle'[k] = candle[k]
         /\ \A k \in Keys : candle[k] # NoCandle =>
               candle'[k] # NoCandle /\ candle'[k].open = candle[k].open
    BY <1>3, <2>4, <2>5, <2>7
  <2>11. /\ candle'[k0] # NoCandle /\ Shaped(candle'[k0])
         /\ candle'[k0].tradeCount = candle[k0].tradeCount + 1
    BY <1>3, <2>3, <2>4, <2>5, <2>6, <2>7
  <2> QED BY <1>3, <2>7, <2>8, <2>9, <2>10, <2>11
<1> QED BY <1>9, <1>10

(* A trade that is written into a candle adds its weight to what is folded *)
(* into that candle, and to nothing else.                                  *)
LEMMA WriteFolds ==
  ASSUME CandleInv, NEW c \in CandleWorkers, Writes(c), NEW k \in Keys,
         NEW weight, \A e \in Messages : weight[e] \in Nat
  PROVE  Folded(k, weight)' =
            Folded(k, weight) + (IF k = InHand(c) THEN weight[job[c].e] ELSE 0)
<1>1. PICK i \in Intervals : i = k[1] /\ \E e \in Messages : k = Key(e, i)
  BY KeyFacts
<1>2. PICK e0, i0 : e0 = job[c].e /\ i0 = job[c].i
  OBVIOUS
<1>3. e0 \in Messages /\ i0 \in Intervals /\ InHand(c) = Key(e0, i0)
  BY <1>2, InHandFacts DEF Writes
<1>4. CandleTypeOK
  BY DEF CandleInv
<1> DEFINE T == {e \in Messages : Key(e, i) = k}
           f == [e \in Messages |-> applied[i][e] * weight[e]]
           g == [e \in Messages |-> applied'[i][e] * weight[e]]
           d == IF i = i0 THEN weight[e0] ELSE 0
<1>5. Folded(k, weight) = SumFunctionOnSet(f, T) /\ Folded(k, weight)' = SumFunctionOnSet(g, T)
  BY <1>1 DEF Folded, Key, OpenTime, Messages
<1>6. IsFiniteSet(T) /\ d \in Int
  <2>1. IsFiniteSet(T)
    BY <1>4, FoldedFacts
  <2>2. weight[e0] \in Nat
    BY <1>3
  <2> QED BY <2>1, <2>2
<1>7. ASSUME NEW e \in Messages
      PROVE  f[e] \in Int /\ g[e] \in Int /\ g[e] = f[e] + (IF e = e0 THEN d ELSE 0)
  <2>1. PICK x, y, w : x = applied[i][e] /\ y = applied'[i][e] /\ w = weight[e]
    OBVIOUS
  <2>2. x \in Nat /\ w \in Nat
    BY <1>4, <2>1, FoldedFacts
  <2>3. y = x + (IF i = i0 /\ e = e0 THEN 1 ELSE 0)
    BY <1>2, <2>1, WriteRowFacts
  <2>4. x * w \in Nat /\ (x + 1) * w = x * w + w
    BY <2>2
  <2>5. f[e] = x * w /\ g[e] = y * w
    BY <2>1
  <2> HIDE DEF f, g
  <2>6. CASE i = i0 /\ e = e0
    <3>1. g[e] = f[e] + w /\ d = w
      BY <2>1, <2>3, <2>4, <2>5, <2>6
    <3> QED BY <2>2, <2>4, <2>5, <2>6, <3>1
  <2>7. CASE ~(i = i0 /\ e = e0)
    <3>1. g[e] = f[e] /\ (e = e0 => d = 0)
      BY <2>2, <2>3, <2>5, <2>7
    <3> QED BY <2>4, <2>5, <2>7, <3>1
  <2> QED BY <2>6, <2>7
<1>8. (IF e0 \in T THEN d ELSE 0) = IF k = InHand(c) THEN weight[job[c].e] ELSE 0
  <2>1. e0 \in T /\ i = i0 <=> k = Key(e0, i0)
    <3>1. Key(e0, i0)[1] = i0
      BY <1>3, KeyFacts
    <3>2. e0 \in T <=> Key(e0, i) = k
      BY <1>3
    <3>3. k[1] = i
      BY <1>1
    <3> QED BY <3>1, <3>2, <3>3
  <2> HIDE DEF T
  <2> QED BY <1>2, <1>3, <2>1
<1>9. /\ \A e \in T : f[e] \in Int /\ g[e] \in Int
      /\ \A e \in T \ {e0} : g[e] = f[e]
      /\ e0 \in T => g[e0] = f[e0] + d
  <2> HIDE DEF f, g, d
  <2>1. \A e \in Messages : f[e] \in Int /\ g[e] \in Int
    BY <1>7
  <2>2. \A e \in Messages : e # e0 => g[e] = f[e]
    BY <1>7
  <2>3. g[e0] = f[e0] + d
    BY <1>3, <1>7
  <2> QED BY <2>1, <2>2, <2>3
<1> HIDE DEF T, f, g, d
<1>10. SumFunctionOnSet(g, T) = SumFunctionOnSet(f, T) + (IF e0 \in T THEN d ELSE 0)
  BY <1>6, <1>9, SumGrows
<1> QED BY <1>5, <1>8, <1>10

(* A write keeps every row what was folded into it.                        *)
LEMMA WriteKeepsRows ==
  ASSUME CandleInv, NEW c \in CandleWorkers, Writes(c), shared' = shared
  PROVE  \A k \in Keys : RowFolded(k)'
<1> SUFFICES ASSUME NEW k \in Keys PROVE RowFolded(k)'
  OBVIOUS
<1>1. RowFolded(k) /\ CandleTypeOK
  BY DEF CandleInv
<1>2. PICK e0 \in Messages : e0 = job[c].e
  BY InHandFacts DEF Writes
<1>3. (\A e \in Messages : Ones[e] \in Nat /\ Ones[e] = 1 /\ Quantities[e] \in Nat)
      /\ Quantities[e0] = Trade[e0].quantity
  BY MessageFacts DEF Ones, Quantities
<1>4. Folded(k, Ones)' = Folded(k, Ones) + (IF k = InHand(c) THEN Ones[e0] ELSE 0)
  BY <1>2, <1>3, WriteFolds
<1>5. Folded(k, Quantities)'
        = Folded(k, Quantities) + (IF k = InHand(c) THEN Quantities[e0] ELSE 0)
  BY <1>2, <1>3, WriteFolds
<1>6. Folded(k, Ones) \in Nat /\ Folded(k, Quantities) \in Nat
  <2>1. PICK i \in Intervals : i = k[1]
    BY KeyFacts
  <2>2. \A e \in Messages : Ones[e] \in Nat
    BY <1>3
  <2>3. \A e \in Messages : Quantities[e] \in Nat
    BY <1>3
  <2>4. Folded(k, Ones) \in Nat
    BY <1>1, <2>1, <2>2, FoldedFacts
  <2>5. Folded(k, Quantities) \in Nat
    BY <1>1, <2>1, <2>3, FoldedFacts
  <2> QED BY <2>4, <2>5
<1>7. CASE k = InHand(c)
  <2>1. candle'[k].tradeCount = candle[k].tradeCount + 1 /\ Shaped(candle'[k])
        /\ (k \notin shared => Volume(k)' = Volume(k) + Quantities[e0])
    BY <1>2, <1>3, <1>7, WriteRowFacts
  <2>2. candle'[k].tradeCount = Folded(k, Ones)'
    BY <1>1, <1>2, <1>3, <1>4, <1>6, <1>7, <2>1 DEF RowFolded
  <2>3. k \notin shared => Volume(k)' = Folded(k, Quantities)'
    BY <1>1, <1>5, <1>6, <1>7, <2>1 DEF RowFolded
  <2> QED BY <2>1, <2>2, <2>3 DEF RowFolded, Shaped
<1>8. CASE k # InHand(c)
  <2>1. candle'[k] = candle[k]
    BY <1>8, WriteRowFacts
  <2>2. Volume(k)' = Volume(k)
    BY <2>1 DEF Volume
  <2>3. Folded(k, Ones)' = Folded(k, Ones) /\ Folded(k, Quantities)' = Folded(k, Quantities)
    BY <1>4, <1>5, <1>6, <1>8
  <2> QED BY <1>1, <2>1, <2>2, <2>3 DEF RowFolded, Shaped
<1> QED BY <1>7, <1>8

(* A worker's step leaves the messages the others have in hand as they     *)
(* are: a candle it writes was read by none of them, or is known to be     *)
(* shared.                                                                 *)
LEMMA OthersKeep ==
  ASSUME CandleInv, NEW c \in CandleWorkers, NEW d \in CandleWorkers, c # d,
         job'[d] = job[d], UNCHANGED <<owner, log>>, shared \subseteq shared',
         \A p \in TradePartitions : owner[p] # c => position'[p] = position[p],
         UNCHANGED <<candle, applied>> \/ Writes(c)
  PROVE  JobSound(d)'
<1> SUFFICES ASSUME job[d] # IdleJob PROVE JobSound(d)'
  BY DEF JobSound, IdleJob
<1>1. job[d].pc # "idle"
  BY DEF CandleInv, CandleTypeOK, IdleJob
<1>2. PICK j, p, e, i : j = job[d] /\ p = job[d].from /\ e = job[d].e /\ i = job[d].i
  OBVIOUS
<1>3. /\ p \in TradePartitions /\ e \in Messages /\ i \in Intervals
      /\ InHand(d) \in Keys /\ InHand(d) = Key(e, i) /\ PartitionOf[e] = p
      /\ owner[p] = d => position[p] < Len(log[p]) /\ log[p][position[p] + 1] = e
  BY <1>1, <1>2, InHandFacts DEF Owns
<1>4. JobSound(d) /\ CandleTypeOK
  BY DEF CandleInv
<1>5. owner'[p] = d => /\ position'[p] < Len(log'[p])
                       /\ log'[p][position'[p] + 1] = e
  <2>1. owner'[p] = d => position'[p] = position[p] /\ owner[p] = d
    BY <1>3
  <2> QED BY <1>3, <2>1
<1>6. \A k \in Intervals : applied[k][e] > 0 => applied'[k][e] > 0
  <2>1. CASE UNCHANGED <<candle, applied>>
    BY <2>1
  <2>2. CASE Writes(c)
    <3> SUFFICES ASSUME NEW k \in Intervals, applied[k][e] > 0 PROVE applied'[k][e] > 0
      OBVIOUS
    <3>1. applied'[k][e] = applied[k][e] + (IF k = job[c].i /\ e = job[c].e THEN 1 ELSE 0)
      BY <1>3, <2>2, WriteRowFacts
    <3>2. applied[k][e] \in Nat
      BY <1>3, <1>4, WaitingFacts
    <3> QED BY <3>1, <3>2
  <2> QED BY <2>1, <2>2
<1>7. ASSUME j.pc = "write" PROVE SeenSound(d)'
  <2>1. PICK k : k = Key(e, i)
    OBVIOUS
  <2>2. InHand(d) = k /\ InHand(d)' = k /\ k \in Keys
    BY <1>2, <1>3, <2>1 DEF InHand, Key, OpenTime
  <2>3. SeenSound(d)
    BY <1>2, <1>4, <1>7 DEF JobSound
  <2>4. CASE UNCHANGED <<candle, applied>>
    BY <1>2, <2>2, <2>3, <2>4 DEF SeenSound, Shaped
  <2>5. CASE Writes(c)
    <3>1. candle[k] # NoCandle => candle'[k] # NoCandle /\ candle'[k].open = candle[k].open
      BY <2>2, <2>5, WriteRowFacts
    <3>2. k \notin shared => candle'[k] = candle[k]
      <4>1. InHand(c) = k => k \in shared
        BY <1>2, <1>7, <2>2, <2>5 DEF Writes, CandleInv, HandsShared
      <4> QED BY <2>2, <2>5, <4>1, WriteRowFacts
    <3> QED BY <1>2, <2>2, <2>3, <3>1, <3>2 DEF SeenSound, Shaped
  <2> QED BY <2>4, <2>5
<1>8. \A k \in Intervals : k < i => applied'[k][e] > 0
  BY <1>2, <1>4, <1>6 DEF JobSound
<1> QED BY <1>2, <1>3, <1>5, <1>7, <1>8 DEF JobSound, Owns

(* Workers that write nothing new in hand are still known to have read the *)
(* same candle.                                                            *)
LEMMA HandsStay ==
  ASSUME CandleInv, shared \subseteq shared',
         \A d \in CandleWorkers : job'[d] = job[d] \/ job'[d].pc # "write"
  PROVE  HandsShared'
<1> SUFFICES ASSUME NEW c \in CandleWorkers, NEW d \in CandleWorkers, c # d,
                    job'[c].pc = "write", job'[d].pc = "write", InHand(c)' = InHand(d)'
             PROVE  InHand(c)' \in shared'
  BY DEF HandsShared
<1>1. job'[c] = job[c] /\ job'[d] = job[d]
  OBVIOUS
<1>2. InHand(c)' = InHand(c) /\ InHand(d)' = InHand(d)
  BY <1>1 DEF InHand, Key, OpenTime
<1>3. InHand(c) \in shared
  BY <1>1, <1>2 DEF CandleInv, HandsShared
<1> QED BY <1>2, <1>3

(* Rows nobody writes hold what was folded into them.                      *)
LEMMA RowsRest ==
  ASSUME CandleInv, UNCHANGED <<candle, applied>>, shared \subseteq shared'
  PROVE  \A k \in Keys : RowFolded(k)'
<1> SUFFICES ASSUME NEW k \in Keys PROVE RowFolded(k)'
  OBVIOUS
<1>1. RowFolded(k)
  BY DEF CandleInv
<1>2. Folded(k, Ones)' = Folded(k, Ones) /\ Folded(k, Quantities)' = Folded(k, Quantities)
  BY DEF Folded
<1>3. Volume(k)' = Volume(k) /\ Shaped(candle[k])' = Shaped(candle[k])
  BY DEF Volume, Shaped
<1> QED BY <1>1, <1>2, <1>3 DEF RowFolded, Shaped

(* A message that was delivered once more is due once more.                *)
LEMMA TimesFollow ==
  ASSUME CandleInv, NEW i \in Intervals, NEW e \in Messages, LogPlaced',
         redeliveries' = redeliveries, Copies(e)' \in Nat, Copies(e)' >= Copies(e),
         Delivered(e) \subseteq Delivered(e)', NEW x,
         \/ DueTimes(i, e)' = DueTimes(i, e)
         \/ /\ DueTimes(i, e)' = DueTimes(i, e) + 1
            /\ x \notin Delivered(e) /\ x \in Delivered(e)'
  PROVE  DueTimes(i, e)' <= Copies(e)' * redeliveries' + Cardinality(Delivered(e)')
<1>1. PICK T, U : T = Delivered(e) /\ U = Delivered(e)'
  OBVIOUS
<1>2. /\ Copies(e) \in Nat /\ IsFiniteSet(T) /\ Cardinality(T) \in Nat
      /\ IsFiniteSet(U) /\ Cardinality(U) \in Nat
  BY <1>1, DeliveredFacts, DeliveredStays DEF CandleInv
<1>3. PICK a, b, r, k : /\ a = DueTimes(i, e) /\ b = DueTimes(i, e)' /\ r = redeliveries
                        /\ k = Copies(e)
  OBVIOUS
<1>4. PICK m : m = Copies(e)'
  OBVIOUS
<1>5. a \in Nat /\ r \in Nat /\ k \in Nat /\ m \in Nat /\ k <= m
  <2>1. CandleTypeOK
    BY DEF CandleInv
  <2>2. a \in Nat /\ r \in Nat
    BY <1>3, <2>1, WaitingFacts DEF CandleTypeOK
  <2> QED BY <1>2, <1>3, <1>4, <2>2
<1>6. a <= k * r + Cardinality(T)
  BY <1>1, <1>3 DEF CandleInv, TimesApplied
<1>7. k * r \in Nat /\ m * r \in Nat /\ k * r <= m * r
  <2>1. PICK d \in Nat : m = k + d
    <3>1. m - k \in Nat /\ m = k + (m - k)
      BY <1>5
    <3> QED BY <3>1
  <2>2. m * r = k * r + d * r /\ d * r \in Nat /\ k * r \in Nat
    BY <1>5, <2>1
  <2> QED BY <2>2
<1>8. b <= m * r + Cardinality(U)
  <2>1. CASE b = a
    <3>1. Cardinality(T) <= Cardinality(U)
      BY <1>1, <1>2, FS_Subset
    <3> QED BY <1>2, <1>5, <1>6, <1>7, <2>1, <3>1
  <2>2. CASE b = a + 1 /\ x \notin T /\ x \in U
    <3>1. Cardinality(T \cup {x}) = Cardinality(T) + 1
      BY <1>2, <2>2, FS_AddElement
    <3>2. T \cup {x} \in SUBSET U
      BY <1>1, <2>2
    <3>3. Cardinality(T \cup {x}) <= Cardinality(U)
      BY <1>2, <3>2, FS_Subset
    <3> QED BY <1>2, <1>5, <1>6, <1>7, <2>2, <3>1, <3>3
  <2> QED BY <1>1, <1>3, <2>1, <2>2
<1> QED BY <1>1, <1>3, <1>4, <1>8

(* Messages that are handed back pay for their next delivery.              *)
LEMMA TimesPaid ==
  ASSUME CandleInv, NEW i \in Intervals, NEW e \in Messages, log' = log,
         redeliveries' = redeliveries + 1,
         DueTimes(i, e)' \in Int, DueTimes(i, e)' <= DueTimes(i, e)
  PROVE  DueTimes(i, e)' <= Copies(e)' * redeliveries' + Cardinality(Delivered(e)')
<1>1. LogPlaced' /\ Copies(e)' = Copies(e) /\ CandleTypeOK /\ LogPlaced
  BY DEF CandleInv, LogPlaced, Copies
<1>2. PICK a, b, r, k, t : /\ a = DueTimes(i, e) /\ b = DueTimes(i, e)' /\ r = redeliveries
                           /\ k = Copies(e) /\ t = Cardinality(Delivered(e))
  OBVIOUS
<1>3. PICK u : u = Cardinality(Delivered(e)')
  OBVIOUS
<1>4. a \in Nat /\ r \in Nat /\ k \in Nat /\ t \in Nat /\ t <= k /\ u \in Nat
  BY <1>1, <1>2, <1>3, DeliveredFacts, DeliveredStays, WaitingFacts DEF CandleTypeOK
<1>5. a <= k * r + t
  BY <1>2 DEF CandleInv, TimesApplied
<1>6. k * (r + 1) = k * r + k /\ k * r \in Nat
  BY <1>4
<1>7. b \in Int /\ b <= a
  BY <1>2
<1>8. b <= k * (r + 1) + u
  BY <1>4, <1>5, <1>6, <1>7
<1> QED BY <1>1, <1>2, <1>3, <1>8

(* A step that leaves the topic alone leaves the messages in their places. *)
LEMMA LogRests ==
  ASSUME CandleInv, log' = log
  PROVE  LogPlaced' /\ \A e \in Messages : Copies(e)' = Copies(e) /\ Copies(e) \in Nat
<1>1. LogPlaced'
  BY DEF CandleInv, LogPlaced
<1>2. \A e \in Messages : Copies(e)' = Copies(e)
  BY DEF Copies
<1>3. ASSUME NEW e \in Messages PROVE Copies(e) \in Nat
  BY DeliveredFacts DEF CandleInv
<1> QED BY <1>1, <1>2, <1>3

(* Where nobody takes a message, writes it or gives it up, it is due as    *)
(* often as it was.                                                        *)
LEMMA DueRests ==
  ASSUME NEW i, NEW e, applied' = applied,
         \A c \in CandleWorkers : \/ job'[c] = job[c]
                                  \/ /\ job[c] # IdleJob /\ job'[c] # IdleJob
                                     /\ job'[c].e = job[c].e /\ job'[c].i = job[c].i
  PROVE  DueTimes(i, e)' = DueTimes(i, e)
<1>1. Waiting(i, e)' = Waiting(i, e)
  BY DEF Waiting
<1> QED BY <1>1 DEF DueTimes

(* A received message is one of the trades, is in no interval yet and is   *)
(* due in all of them.                                                     *)
LEMMA ReceiveKeeps ==
  ASSUME CandleInv, NEW c \in CandleWorkers, NEW p \in TradePartitions, Receive(c, p)
  PROVE  CandleInv'
<1>1. UNCHANGED <<candle, owner, committed, position, applied, redeliveries, shared,
                  log, logFaults>>
  BY DEF Receive, offsets
<1>2. CandleTypeOK /\ LogPlaced
  BY DEF CandleInv
<1>3. PICK e, x : x = position[p] + 1 /\ e = log[p][x]
  OBVIOUS
<1>4. /\ position[p] \in Nat /\ p \in Partitions /\ Len(log[p]) \in Nat
      /\ position[p] < Len(log[p]) /\ owner[p] = c /\ job[c].pc = "idle"
      /\ log[p] \in Seq(DomainEvents)
  BY <1>2, CandleAssumption DEF CandleTypeOK, LogPlaced, Receive
<1>5. x \in 1..Len(log[p]) /\ x \in DOMAIN log[p] /\ PartitionOf[e] = p /\ e \in Messages
  <2>1. x \in 1..Len(log[p]) /\ log[p][x] = e
    BY <1>3, <1>4
  <2>2. PartitionOf[e] = p /\ e \in DomainEvents
    BY <1>2, <1>4, <2>1 DEF LogPlaced
  <2> QED BY <1>4, <2>1, <2>2 DEF Messages
<1>6. PICK new : new = [pc |-> "read", from |-> p, i |-> 1, e |-> e, seen |-> NoCandle]
  OBVIOUS
<1>7. job' = [job EXCEPT ![c] = new]
  BY <1>3, <1>6 DEF Receive
<1>8. job[c] = IdleJob
  BY <1>2, <1>4 DEF CandleTypeOK
<1>9. new \in [pc : {"read", "write"}, from : TradePartitions, e : Messages,
               i : Intervals, seen : Candle \cup {NoCandle}]
  BY <1>5, <1>6, IntervalFacts
<1>10. job'[c] = new /\ new # IdleJob /\ new.i = 1 /\ new.pc = "read" /\ new.from = p
       /\ new.e = e /\ \A d \in CandleWorkers : d # c => job'[d] = job[d]
  BY <1>2, <1>6, <1>7 DEF CandleTypeOK, IdleJob
<1>11. CandleTypeOK'
  BY <1>1, <1>2, <1>7, <1>9 DEF CandleTypeOK
<1>12. ASSUME NEW d \in CandleWorkers PROVE JobSound(d)'
  <2>1. CASE d # c
    BY <1>1, <1>10, <2>1, OthersKeep
  <2>2. CASE d = c
    <3>1. \A i \in Intervals : ~(i < 1)
      BY IntervalFacts
    <3> QED BY <1>1, <1>3, <1>4, <1>5, <1>10, <2>2, <3>1 DEF JobSound
  <2> QED BY <2>1, <2>2
<1>13. LogPlaced' /\ \A f \in Messages : Copies(f)' = Copies(f) /\ Copies(f) \in Nat
  BY <1>1, LogRests
<1>14. \A k \in Keys : RowFolded(k)'
  BY <1>1, RowsRest
<1>15. HandsShared'
  BY <1>1, <1>10, HandsStay
<1>16. ASSUME NEW i \in Intervals, NEW f \in Messages
       PROVE  DueTimes(i, f)' = DueTimes(i, f) + (IF f = e THEN 1 ELSE 0)
  <2>1. IsFiniteSet(Waiting(i, f)) /\ Cardinality(Waiting(i, f)) \in Nat /\ applied[i][f] \in Nat
    BY <1>2, WaitingFacts
  <2>2. c \notin Waiting(i, f) /\ 1 <= i
    BY <1>8, IntervalFacts DEF Waiting
  <2>3. Waiting(i, f)' = IF f = e THEN Waiting(i, f) \cup {c} ELSE Waiting(i, f)
    BY <1>8, <1>10, <2>2 DEF Waiting
  <2>4. PICK S, T : S = Waiting(i, f) /\ T = Waiting(i, f)'
    OBVIOUS
  <2>5. Cardinality(T) = Cardinality(S) + (IF f = e THEN 1 ELSE 0)
    <3>1. Cardinality(S \cup {c}) = Cardinality(S) + 1
      BY <2>1, <2>2, <2>4, FS_AddElement
    <3> QED BY <2>1, <2>3, <2>4, <3>1
  <2>6. DueTimes(i, f) = applied[i][f] + Cardinality(S)
        /\ DueTimes(i, f)' = applied[i][f] + Cardinality(T)
    BY <1>1, <2>4 DEF DueTimes
  <2> QED BY <2>1, <2>4, <2>5, <2>6
<1>17. ASSUME NEW i \in Intervals, NEW f \in Messages PROVE TimesApplied(i, f)'
  <2>1. Delivered(f) \subseteq Delivered(f)'
    <3>1. ASSUME InWork(PartitionOf[f]) PROVE InWork(PartitionOf[f])'
      <4>1. PICK d : d = owner[PartitionOf[f]]
        OBVIOUS
      <4>2. d \in CandleWorkers /\ d # c
        BY <1>2, <1>8, <3>1, <4>1, MessageFacts DEF CandleTypeOK, InWork
      <4> QED BY <1>1, <1>10, <3>1, <4>1, <4>2 DEF InWork
    <3> QED BY <1>1, <3>1 DEF Delivered
  <2>2. f = e => x \notin Delivered(f) /\ x \in Delivered(f)'
    <3>1. ~InWork(p) /\ InWork(p)'
      BY <1>1, <1>4, <1>8, <1>10 DEF InWork
    <3>2. ~(x <= position[p]) /\ x = position'[p] + 1
      BY <1>1, <1>3, <1>4
    <3> QED BY <1>1, <1>3, <1>5, <3>1, <3>2 DEF Delivered
  <2>3. DueTimes(i, f)' <= Copies(f)' * redeliveries' + Cardinality(Delivered(f)')
    <3>1. Copies(f)' \in Nat /\ Copies(f)' >= Copies(f)
      BY <1>13
    <3>2. \/ DueTimes(i, f)' = DueTimes(i, f)
          \/ /\ DueTimes(i, f)' = DueTimes(i, f) + 1
             /\ x \notin Delivered(f) /\ x \in Delivered(f)'
      <4>1. DueTimes(i, f) \in Nat
        BY <1>2, WaitingFacts
      <4> QED BY <1>16, <2>2, <4>1
    <3> QED BY <1>1, <1>13, <2>1, <3>1, <3>2, TimesFollow
  <2>4. i > 1 => DueTimes(i, f)' <= DueTimes(i - 1, f)'
    <3> SUFFICES ASSUME i > 1 PROVE DueTimes(i, f)' <= DueTimes(i - 1, f)'
      OBVIOUS
    <3>1. i - 1 \in Intervals
      BY <1>2, WaitingFacts
    <3>2. DueTimes(i, f) \in Nat /\ DueTimes(i - 1, f) \in Nat
          /\ DueTimes(i, f) <= DueTimes(i - 1, f)
      BY <1>2, <3>1, WaitingFacts DEF CandleInv, TimesApplied
    <3> QED BY <1>16, <3>1, <3>2
  <2>5. \A n \in 1..position'[PartitionOf[f]] :
           log'[PartitionOf[f]][n] = f => applied'[i][f] > 0
    BY <1>1 DEF CandleInv, TimesApplied
  <2> QED BY <2>3, <2>4, <2>5 DEF TimesApplied
<1> QED BY <1>11, <1>12, <1>13, <1>14, <1>15, <1>17 DEF CandleInv

(* What a worker reads is the row as it is; if another one has read it     *)
(* too, the candle is shared from now on.                                  *)
LEMMA ReadKeeps ==
  ASSUME CandleInv, NEW c \in CandleWorkers, ReadCandle(c)
  PROVE  CandleInv'
<1>1. UNCHANGED <<candle, owner, committed, position, applied, redeliveries, log, logFaults>>
  BY DEF ReadCandle, offsets
<1>2. CandleTypeOK /\ LogPlaced
  BY DEF CandleInv
<1>3. PICK j, k : j = job[c] /\ k = InHand(c)
  OBVIOUS
<1>4. /\ j # IdleJob /\ j.pc = "read" /\ k \in Keys /\ k = Key(j.e, j.i)
      /\ j \in [pc : {"read", "write"}, from : TradePartitions, e : Messages,
                i : Intervals, seen : Candle \cup {NoCandle}]
  BY <1>3, InHandFacts DEF ReadCandle
<1>5. PICK new : new = [j EXCEPT !.pc = "write", !.seen = candle[k]]
  OBVIOUS
<1>6. job' = [job EXCEPT ![c] = new]
  BY <1>2, <1>3, <1>4, <1>5 DEF ReadCandle, CandleTypeOK
<1>7. candle[k] \in Candle \cup {NoCandle}
  BY <1>2, <1>4 DEF CandleTypeOK
<1>8. /\ new \in [pc : {"read", "write"}, from : TradePartitions, e : Messages,
                  i : Intervals, seen : Candle \cup {NoCandle}]
      /\ new.pc = "write" /\ new.from = j.from /\ new.e = j.e /\ new.i = j.i
      /\ new.seen = candle[k]
  BY <1>4, <1>5, <1>7
<1>9. new # IdleJob
  BY <1>8 DEF IdleJob
<1>10. job'[c] = new /\ \A d \in CandleWorkers : d # c => job'[d] = job[d]
  BY <1>2, <1>6 DEF CandleTypeOK
<1>11. shared' = shared \cup ({k} \cap {InHand(d) : d \in {d \in CandleWorkers :
                                                         job[d].pc = "write"}})
  BY <1>3 DEF ReadCandle
<1>12. CandleTypeOK'
  <2>1. shared' \subseteq Keys
    BY <1>2, <1>4, <1>11 DEF CandleTypeOK
  <2> QED BY <1>1, <1>2, <1>6, <1>8, <2>1 DEF CandleTypeOK
<1>13. InHand(c)' = k
  BY <1>4, <1>8, <1>10 DEF InHand, Key, OpenTime
<1>14. ASSUME NEW d \in CandleWorkers PROVE JobSound(d)'
  <2>1. CASE d # c
    BY <1>1, <1>10, <1>11, <2>1, OthersKeep
  <2>2. CASE d = c
    <3>1. candle[k] # NoCandle => Shaped(candle[k])
      BY <1>4 DEF CandleInv, RowFolded
    <3>2. SeenSound(c)'
      BY <1>1, <1>8, <1>10, <1>13, <3>1 DEF SeenSound, Shaped
    <3>3. JobSound(c)
      BY DEF CandleInv
    <3> QED BY <1>1, <1>3, <1>4, <1>8, <1>10, <2>2, <3>2, <3>3 DEF JobSound, Owns
  <2> QED BY <2>1, <2>2
<1>15. LogPlaced' /\ \A f \in Messages : Copies(f)' = Copies(f) /\ Copies(f) \in Nat
  BY <1>1, LogRests
<1>16. \A q \in Keys : RowFolded(q)'
  BY <1>1, <1>11, RowsRest
<1>17. HandsShared'
  <2>1. ASSUME NEW a \in CandleWorkers, NEW b \in CandleWorkers, a # b,
               job'[a].pc = "write", job'[b].pc = "write", InHand(a)' = InHand(b)'
        PROVE  InHand(a)' \in shared'
    <3>1. \A d \in CandleWorkers : d # c => InHand(d)' = InHand(d)
      BY <1>10 DEF InHand, Key, OpenTime
    <3>2. CASE a # c /\ b # c
      <4>1. InHand(a) \in shared
        BY <1>10, <2>1, <3>1, <3>2 DEF CandleInv, HandsShared
      <4> QED BY <1>11, <3>1, <3>2, <4>1
    <3>3. ASSUME NEW d \in CandleWorkers, d # c, job'[d].pc = "write", InHand(d)' = k
          PROVE  k \in shared'
      BY <1>10, <1>11, <3>1, <3>3
    <3> QED BY <1>13, <2>1, <3>2, <3>3
  <2> QED BY <2>1 DEF HandsShared
<1>18. ASSUME NEW i \in Intervals, NEW f \in Messages PROVE TimesApplied(i, f)'
  <2>1. Delivered(f)' = Delivered(f)
    <3>1. InWork(PartitionOf[f])' <=> InWork(PartitionOf[f])
      <4>1. PICK d : d = owner[PartitionOf[f]]
        OBVIOUS
      <4>2. d \in CandleWorkers
        BY <1>2, <4>1, MessageFacts DEF CandleTypeOK
      <4> QED BY <1>1, <1>3, <1>4, <1>8, <1>9, <1>10, <4>1, <4>2 DEF InWork
    <3> QED BY <1>1, <3>1 DEF Delivered
  <2>2. ASSUME NEW m PROVE DueTimes(m, f)' = DueTimes(m, f)
    <3>1. \A d \in CandleWorkers : \/ job'[d] = job[d]
                                   \/ /\ job[d] # IdleJob /\ job'[d] # IdleJob
                                      /\ job'[d].e = job[d].e /\ job'[d].i = job[d].i
      BY <1>3, <1>4, <1>8, <1>9, <1>10
    <3> QED BY <1>1, <3>1, DueRests
  <2> QED BY <1>1, <1>15, <2>1, <2>2 DEF CandleInv, TimesApplied
<1> QED BY <1>12, <1>14, <1>15, <1>16, <1>17, <1>18 DEF CandleInv

(* A commit moves no worker.                                               *)
LEMMA CommitKeeps ==
  ASSUME CandleInv, NEW p \in TradePartitions, CommitOffset(p)
  PROVE  CandleInv'
<1>1. UNCHANGED <<candle, owner, position, job, applied, redeliveries, shared, log, logFaults>>
  BY DEF CommitOffset
<1>2. committed' = [committed EXCEPT ![p] = position[p]] /\ CandleTypeOK
  BY DEF CommitOffset, CandleInv
<1>3. CandleTypeOK'
  BY <1>1, <1>2 DEF CandleTypeOK
<1>4. ASSUME NEW d \in CandleWorkers PROVE JobSound(d)'
  <2>1. JobSound(d)
    BY DEF CandleInv
  <2> QED BY <1>1, <2>1 DEF JobSound, SeenSound, InHand, Key, Owns, Shaped
<1>5. LogPlaced' /\ \A f \in Messages : Copies(f)' = Copies(f)
  BY <1>1, LogRests
<1>6. (\A k \in Keys : RowFolded(k)') /\ HandsShared'
  BY <1>1, RowsRest, HandsStay
<1>7. ASSUME NEW i \in Intervals, NEW f \in Messages PROVE TimesApplied(i, f)'
  <2>1. Delivered(f)' = Delivered(f)
    BY <1>1 DEF Delivered, InWork
  <2>2. \A m : DueTimes(m, f)' = DueTimes(m, f)
    BY <1>1 DEF DueTimes, Waiting
  <2> QED BY <1>1, <1>5, <2>1, <2>2 DEF CandleInv, TimesApplied
<1> QED BY <1>3, <1>4, <1>5, <1>6, <1>7 DEF CandleInv

(* A trade that is written is no longer due from its worker, and is due as *)
(* often as before; a message whose owner wrote the last interval has been *)
(* moved past.                                                             *)
LEMMA WriteKeeps ==
  ASSUME CandleInv, NEW c \in CandleWorkers, WriteCandle(c)
  PROVE  CandleInv'
<1>1. UNCHANGED <<owner, committed, redeliveries, shared, log, logFaults>> /\ Writes(c)
  BY DEF WriteCandle, offsets, Writes
<1>2. CandleTypeOK /\ LogPlaced /\ JobSound(c)
  BY DEF CandleInv
<1>3. PICK j, p, e, i, N : /\ j = job[c] /\ p = job[c].from /\ e = job[c].e /\ i = job[c].i
                           /\ N = Len(CandleInterval)
  OBVIOUS
<1>4. PICK x : x = position[p] + 1
  OBVIOUS
<1>5. /\ j # IdleJob /\ p \in TradePartitions /\ p \in Partitions /\ e \in Messages
      /\ i \in Intervals /\ i \in 1..N /\ N \in Nat /\ PartitionOf[e] = p
      /\ position[p] \in Nat /\ Len(log[p]) \in Nat
      /\ owner[p] = c => x \in 1..Len(log[p]) /\ log[p][x] = e
      /\ j \in [pc : {"read", "write"}, from : TradePartitions, e : Messages,
                i : Intervals, seen : Candle \cup {NoCandle}]
  <2>1. job[c].pc # "idle"
    BY <1>1 DEF Writes
  <2> QED BY <1>3, <1>4, <2>1, InHandFacts, IntervalFacts DEF Owns
<1>6. /\ candle' \in [Keys -> Candle \cup {NoCandle}]
      /\ applied' \in [Intervals -> [Messages -> Nat]]
      /\ \A k \in Intervals, f \in Messages :
            applied'[k][f] = applied[k][f] + (IF k = i /\ f = e THEN 1 ELSE 0)
  BY <1>1, <1>3, WriteRowFacts
<1>7. \A k \in Intervals, f \in Messages : applied[k][f] \in Nat
  BY <1>2 DEF CandleTypeOK
<1>8. /\ \A d \in CandleWorkers : d # c => job'[d] = job[d]
      /\ \A q \in TradePartitions : q # p => position'[q] = position[q]
      /\ position' \in [TradePartitions -> Nat]
      /\ \/ /\ i < N /\ position' = position /\ job'[c] # IdleJob /\ job'[c].pc = "read"
            /\ job'[c].from = p /\ job'[c].e = e /\ job'[c].i = i + 1
         \/ /\ i = N /\ job'[c] = IdleJob
            /\ position'[p] = IF owner[p] = c THEN x ELSE position[p]
      /\ job' \in [CandleWorkers ->
                     {IdleJob} \cup [pc : {"read", "write"}, from : TradePartitions, e : Messages,
                                     i : Intervals, seen : Candle \cup {NoCandle}]]
  <2>1. job \in [CandleWorkers ->
                   {IdleJob} \cup [pc : {"read", "write"}, from : TradePartitions, e : Messages,
                                   i : Intervals, seen : Candle \cup {NoCandle}]]
        /\ position \in [TradePartitions -> Nat]
    BY <1>2 DEF CandleTypeOK
  <2>2. CASE i < N
    <3>1. PICK new : new = [j EXCEPT !.pc = "read", !.i = i + 1, !.seen = NoCandle]
      OBVIOUS
    <3>2. job' = [job EXCEPT ![c] = new] /\ position' = position
      BY <1>3, <1>5, <2>1, <2>2, <3>1 DEF WriteCandle
    <3>3. i + 1 \in Intervals
      BY <1>3, <1>5, <2>2, IntervalFacts
    <3>4. /\ new \in [pc : {"read", "write"}, from : TradePartitions, e : Messages,
                      i : Intervals, seen : Candle \cup {NoCandle}]
          /\ new.pc = "read" /\ new.from = p /\ new.e = e /\ new.i = i + 1
      BY <1>3, <1>5, <3>1, <3>3
    <3>5. new # IdleJob
      BY <3>4 DEF IdleJob
    <3> QED BY <2>1, <2>2, <3>2, <3>4, <3>5
  <2>3. CASE ~(i < N)
    <3>1. job' = [job EXCEPT ![c] = IdleJob] /\ i = N
          /\ position' = IF owner[p] = c THEN [position EXCEPT ![p] = x] ELSE position
      BY <1>3, <1>4, <1>5, <2>3 DEF WriteCandle, Owns
    <3> QED BY <1>4, <1>5, <2>1, <3>1
  <2> QED BY <2>2, <2>3
<1>9. CandleTypeOK'
  <2>1. \A q \in TradePartitions : committed[q] <= position'[q] /\ position'[q] <= Len(log[q])
    <3> SUFFICES ASSUME NEW q \in TradePartitions
                 PROVE  committed[q] <= position'[q] /\ position'[q] <= Len(log[q])
      OBVIOUS
    <3>1. committed[q] <= position[q] /\ position[q] <= Len(log[q]) /\ committed[q] \in Nat
      BY <1>2 DEF CandleTypeOK
    <3> QED BY <1>4, <1>5, <1>8, <3>1
  <2> QED BY <1>1, <1>2, <1>6, <1>8, <2>1 DEF CandleTypeOK
<1>10. LogPlaced' /\ \A f \in Messages : Copies(f)' = Copies(f) /\ Copies(f) \in Nat
  BY <1>1, LogRests
<1>11. \A k \in Keys : RowFolded(k)'
  BY <1>1, WriteKeepsRows
<1>12. HandsShared'
  <2>1. job'[c].pc # "write"
    BY <1>8 DEF IdleJob
  <2> QED BY <1>1, <1>8, <2>1, HandsStay
<1>13. ASSUME NEW d \in CandleWorkers PROVE JobSound(d)'
  <2>1. CASE d # c
    <3>1. \A q \in TradePartitions : owner[q] # c => position'[q] = position[q]
      BY <1>5, <1>8
    <3> QED BY <1>1, <1>8, <2>1, <3>1, OthersKeep
  <2>2. CASE d = c /\ job'[c] # IdleJob
    <3>1. /\ i < N /\ position' = position /\ job'[c].pc = "read"
          /\ job'[c].from = p /\ job'[c].e = e /\ job'[c].i = i + 1
      BY <1>8, <2>2
    <3>2. \A k \in Intervals : k < i + 1 => applied'[k][e] > 0
      <4> SUFFICES ASSUME NEW k \in Intervals, k < i + 1 PROVE applied'[k][e] > 0
        OBVIOUS
      <4>1. k \in Nat /\ applied[k][e] \in Nat
        BY <1>5, <1>7, IntervalFacts
      <4>2. k < i => applied[k][e] > 0
        BY <1>2, <1>3, <1>5 DEF JobSound
      <4>3. applied'[k][e] = applied[k][e] + (IF k = i THEN 1 ELSE 0)
        BY <1>5, <1>6
      <4> QED BY <1>5, <4>1, <4>2, <4>3
    <3>3. owner'[p] = c => position'[p] < Len(log'[p]) /\ log'[p][position'[p] + 1] = e
      BY <1>1, <1>4, <1>5, <3>1
    <3> QED BY <1>5, <2>2, <3>1, <3>2, <3>3 DEF JobSound, Owns
  <2>3. CASE d = c /\ job'[c] = IdleJob
    BY <2>3 DEF JobSound, IdleJob
  <2> QED BY <2>1, <2>2, <2>3
<1>14. ASSUME NEW k \in Intervals, NEW f \in Messages
       PROVE  DueTimes(k, f)' = DueTimes(k, f)
  <2>1. IsFiniteSet(Waiting(k, f)) /\ Cardinality(Waiting(k, f)) \in Nat /\ applied[k][f] \in Nat
    BY <1>2, WaitingFacts
  <2>2. /\ c \in Waiting(k, f) <=> f = e /\ i <= k
        /\ c \in Waiting(k, f)' <=> f = e /\ i < k
    <3>1. k \in 1..N
      BY <1>3, IntervalFacts
    <3>2. c \in Waiting(k, f) <=> f = e /\ i <= k
      BY <1>3, <1>5 DEF Waiting
    <3>3. c \in Waiting(k, f)' <=> f = e /\ i < k
      BY <1>5, <1>8, <3>1 DEF Waiting
    <3> QED BY <3>2, <3>3
  <2>3. \A d \in CandleWorkers : d # c => (d \in Waiting(k, f)' <=> d \in Waiting(k, f))
    BY <1>8 DEF Waiting
  <2>4. Waiting(k, f) \subseteq CandleWorkers /\ Waiting(k, f)' \subseteq CandleWorkers
    BY DEF Waiting
  <2>5. k \in Nat /\ i \in Nat
    BY <1>5, IntervalFacts
  <2>6. CASE k = i /\ f = e
    <3>1. Waiting(k, f)' = Waiting(k, f) \ {c} /\ c \in Waiting(k, f)
      BY <2>2, <2>3, <2>4, <2>5, <2>6
    <3>2. Cardinality(Waiting(k, f)') = Cardinality(Waiting(k, f)) - 1
      BY <2>1, <3>1, FS_RemoveElement
    <3>3. applied'[k][f] = applied[k][f] + 1
      BY <1>6, <2>6
    <3> QED BY <2>1, <3>2, <3>3 DEF DueTimes
  <2>7. CASE ~(k = i /\ f = e)
    <3>1. Waiting(k, f)' = Waiting(k, f)
      BY <2>2, <2>3, <2>4, <2>5, <2>7
    <3>2. applied'[k][f] = applied[k][f]
      BY <1>6, <2>1, <2>7
    <3> QED BY <3>1, <3>2 DEF DueTimes
  <2> QED BY <2>6, <2>7
<1>15. ASSUME NEW f \in Messages PROVE Delivered(f) \subseteq Delivered(f)'
  <2> SUFFICES ASSUME NEW n \in Delivered(f) PROVE n \in Delivered(f)'
    OBVIOUS
  <2>1. PICK q : q = PartitionOf[f]
    OBVIOUS
  <2>2. /\ q \in TradePartitions /\ position[q] \in Nat /\ position'[q] \in Nat
        /\ owner[q] \in CandleWorkers
    BY <1>2, <1>8, <2>1, MessageFacts DEF CandleTypeOK
  <2>3. n \in DOMAIN log[q] /\ log[q][n] = f /\ n \in Int
    BY <1>2, <2>1, MessageFacts DEF Delivered, LogPlaced
  <2>4. CASE n <= position[q]
    <3>1. n <= position'[q]
      BY <1>4, <1>5, <1>8, <2>2, <2>3, <2>4
    <3> QED BY <1>1, <2>1, <2>3, <3>1 DEF Delivered
  <2>5. CASE ~(n <= position[q])
    <3>1. n = position[q] + 1 /\ InWork(q)
      BY <2>1, <2>5 DEF Delivered
    <3>2. CASE owner[q] # c
      <4>1. job'[owner[q]] = job[owner[q]] /\ position'[q] = position[q]
        BY <1>5, <1>8, <2>2, <3>2
      <4> QED BY <1>1, <2>1, <2>3, <3>1, <4>1 DEF Delivered, InWork
    <3>3. CASE owner[q] = c /\ i < N
      <4>1. q = p /\ position' = position /\ job'[c] # IdleJob /\ job'[c].from = p
        BY <1>3, <1>5, <1>8, <3>1, <3>3 DEF InWork
      <4> QED BY <1>1, <2>1, <2>3, <3>1, <3>3, <4>1 DEF Delivered, InWork
    <3>4. CASE owner[q] = c /\ ~(i < N)
      <4>1. q = p /\ position'[q] = x
        BY <1>3, <1>5, <1>8, <3>1, <3>4 DEF InWork
      <4>2. n <= position'[q]
        BY <1>4, <2>3, <3>1, <4>1
      <4> QED BY <1>1, <2>1, <2>3, <4>2 DEF Delivered
    <3> QED BY <3>2, <3>3, <3>4
  <2> QED BY <2>4, <2>5
<1>16. ASSUME NEW k \in Intervals, NEW f \in Messages PROVE TimesApplied(k, f)'
  <2>1. PICK q : q = PartitionOf[f]
    OBVIOUS
  <2>2. q \in TradePartitions /\ position[q] \in Nat /\ position'[q] \in Nat
    BY <1>2, <1>8, <2>1, MessageFacts DEF CandleTypeOK
  <2>3. DueTimes(k, f)' <= Copies(f)' * redeliveries' + Cardinality(Delivered(f)')
    <3>1. Copies(f)' \in Nat /\ Copies(f)' >= Copies(f)
      BY <1>10
    <3> QED BY <1>1, <1>10, <1>14, <1>15, <3>1, TimesFollow
  <2>4. k > 1 => DueTimes(k, f)' <= DueTimes(k - 1, f)'
    <3>1. k > 1 => k - 1 \in Intervals
      BY <1>2, WaitingFacts
    <3> QED BY <1>14, <3>1 DEF CandleInv, TimesApplied
  <2>5. ASSUME NEW n \in 1..position'[q], log'[q][n] = f PROVE applied'[k][f] > 0
    <3>1. applied'[k][f] = applied[k][f] + (IF k = i /\ f = e THEN 1 ELSE 0)
          /\ applied[k][f] \in Nat
      BY <1>6, <1>7
    <3>2. CASE n <= position[q]
      <4>1. applied[k][f] > 0
        BY <1>1, <2>1, <2>2, <2>5, <3>2 DEF CandleInv, TimesApplied
      <4> QED BY <3>1, <4>1
    <3>3. CASE ~(n <= position[q])
      <4>1. q = p /\ n = x /\ i = N /\ owner[p] = c
        BY <1>4, <1>5, <1>8, <2>2, <2>5, <3>3
      <4>2. f = e
        BY <1>1, <1>5, <2>5, <4>1
      <4>3. k \in 1..N
        BY <1>3, IntervalFacts
      <4>4. CASE k = i
        BY <3>1, <4>2, <4>4
      <4>5. CASE k # i
        <5>1. k < i
          BY <1>5, <4>1, <4>3, <4>5
        <5>2. applied[k][e] > 0
          BY <1>2, <1>3, <1>5, <5>1 DEF JobSound
        <5> QED BY <3>1, <4>2, <5>2
      <4> QED BY <4>4, <4>5
    <3> QED BY <3>2, <3>3
  <2> QED BY <2>1, <2>3, <2>4, <2>5 DEF TimesApplied
<1> QED BY <1>9, <1>10, <1>11, <1>12, <1>13, <1>16 DEF CandleInv

(* A worker that gives up its message, after a conflict, a failure or a    *)
(* crash, and goes back in its own partitions, pays for it.                *)
LEMMA GiveBackKeeps ==
  ASSUME CandleInv, NEW c \in CandleWorkers,
         job' = [job EXCEPT ![c] = IdleJob], redeliveries' = redeliveries + 1,
         UNCHANGED <<owner, committed, shared, log>>, position' \in [TradePartitions -> Nat],
         \A p \in TradePartitions : /\ committed[p] <= position'[p]
                                    /\ position'[p] <= position[p]
                                    /\ owner[p] # c => position'[p] = position[p],
         UNCHANGED <<candle, applied>> \/ Writes(c)
  PROVE  CandleInv'
<1>1. CandleTypeOK /\ LogPlaced
  BY DEF CandleInv
<1>2. job'[c] = IdleJob /\ \A d \in CandleWorkers : d # c => job'[d] = job[d]
  BY <1>1 DEF CandleTypeOK
<1>3. /\ candle' \in [Keys -> Candle \cup {NoCandle}]
      /\ applied' \in [Intervals -> [Messages -> Nat]]
  BY <1>1, WriteRowFacts DEF CandleTypeOK
<1>4. CandleTypeOK'
  <2>1. \A p \in TradePartitions : position'[p] <= Len(log[p])
    <3> SUFFICES ASSUME NEW p \in TradePartitions PROVE position'[p] <= Len(log[p])
      OBVIOUS
    <3>1. position[p] \in Nat /\ position'[p] \in Nat /\ position[p] <= Len(log[p])
      BY <1>1 DEF CandleTypeOK
    <3>2. Len(log[p]) \in Nat
      BY <1>1, CandleAssumption DEF LogPlaced
    <3> QED BY <3>1, <3>2
  <2> QED BY <1>1, <1>3, <2>1 DEF CandleTypeOK
<1>5. LogPlaced'
  BY LogRests
<1>6. \A k \in Keys : RowFolded(k)'
  BY RowsRest, WriteKeepsRows
<1>7. HandsShared'
  BY <1>2, HandsStay DEF IdleJob
<1>8. ASSUME NEW d \in CandleWorkers PROVE JobSound(d)'
  <2>1. CASE d # c
    BY <1>2, <2>1, OthersKeep
  <2>2. CASE d = c
    BY <1>2, <2>2 DEF JobSound, IdleJob
  <2> QED BY <2>1, <2>2
<1> DEFINE Wrote(i, e) == Writes(c) /\ i = job[c].i /\ e = job[c].e
           Gave(i, e) == job[c] # IdleJob /\ job[c].e = e /\ job[c].i <= i
<1>9. ASSUME NEW i \in Intervals, NEW e \in Messages
      PROVE  /\ applied[i][e] \in Nat
             /\ applied'[i][e] = applied[i][e] + (IF Wrote(i, e) THEN 1 ELSE 0)
             /\ Wrote(i, e) => Gave(i, e)
  <2>1. applied[i][e] \in Nat
    BY <1>1, WaitingFacts
  <2>2. Writes(c) => /\ job[c] # IdleJob
                     /\ applied'[i][e] = applied[i][e]
                           + (IF i = job[c].i /\ e = job[c].e THEN 1 ELSE 0)
    BY InHandFacts, WriteRowFacts DEF Writes
  <2> QED BY <2>1, <2>2, IntervalFacts
<1>10. ASSUME NEW i \in Intervals, NEW e \in Messages
       PROVE  Cardinality(Waiting(i, e)')
                 = Cardinality(Waiting(i, e)) - (IF Gave(i, e) THEN 1 ELSE 0)
  <2>1. IsFiniteSet(Waiting(i, e)) /\ Cardinality(Waiting(i, e)) \in Nat
    BY <1>1, WaitingFacts
  <2>2. Waiting(i, e)' = Waiting(i, e) \ {c} /\ (c \in Waiting(i, e) <=> Gave(i, e))
    BY <1>2 DEF Waiting
  <2>3. PICK S, T : S = Waiting(i, e) /\ T = Waiting(i, e)'
    OBVIOUS
  <2> HIDE DEF Gave
  <2>4. Cardinality(S \ {c}) = Cardinality(S) - (IF Gave(i, e) THEN 1 ELSE 0)
    <3>1. Cardinality(S \ {c}) = IF c \in S THEN Cardinality(S) - 1 ELSE Cardinality(S)
      BY <2>1, <2>3, FS_RemoveElement
    <3> QED BY <2>1, <2>2, <2>3, <3>1
  <2> QED BY <2>2, <2>3, <2>4
<1>11. ASSUME NEW i \in Intervals, NEW e \in Messages
       PROVE  /\ DueTimes(i, e) \in Nat /\ DueTimes(i, e)' \in Int
              /\ DueTimes(i, e)' = DueTimes(i, e) + (IF Wrote(i, e) THEN 1 ELSE 0)
                                                  - (IF Gave(i, e) THEN 1 ELSE 0)
  <2> HIDE DEF Wrote, Gave
  <2>1. Cardinality(Waiting(i, e)) \in Nat /\ DueTimes(i, e) \in Nat
    BY <1>1, WaitingFacts
  <2> QED BY <1>9, <1>10, <2>1 DEF DueTimes
<1>12. ASSUME NEW i \in Intervals, NEW e \in Messages PROVE TimesApplied(i, e)'
  <2>1. DueTimes(i, e)' <= Copies(e)' * redeliveries' + Cardinality(Delivered(e)')
    <3>1. DueTimes(i, e)' \in Int /\ DueTimes(i, e)' <= DueTimes(i, e)
      BY <1>9, <1>11
    <3> QED BY <3>1, TimesPaid
  <2>2. i > 1 => DueTimes(i, e)' <= DueTimes(i - 1, e)'
    <3> SUFFICES ASSUME i > 1 PROVE DueTimes(i, e)' <= DueTimes(i - 1, e)'
      OBVIOUS
    <3>1. i - 1 \in Intervals
      BY <1>1, WaitingFacts
    <3>2. DueTimes(i, e) <= DueTimes(i - 1, e)
      BY DEF CandleInv, TimesApplied
    <3>3. Gave(i - 1, e) => Gave(i, e) /\ ~Wrote(i, e)
      <4>1. i \in Nat /\ (job[c] # IdleJob => job[c].i \in Nat)
        BY <1>1, IntervalFacts DEF CandleTypeOK
      <4> QED BY <4>1
    <3>4. Wrote(i - 1, e) => Gave(i - 1, e)
      BY <1>9, <3>1
    <3> HIDE DEF Wrote, Gave
    <3> QED BY <1>9, <1>11, <3>1, <3>2, <3>3, <3>4
  <2>3. ASSUME NEW n \in 1..position'[PartitionOf[e]], log'[PartitionOf[e]][n] = e
        PROVE  applied'[i][e] > 0
    <3>1. n \in 1..position[PartitionOf[e]] /\ log[PartitionOf[e]][n] = e
      <4>1. PICK p \in TradePartitions : p = PartitionOf[e]
        BY MessageFacts
      <4>2. position'[p] \in Nat /\ position[p] \in Nat /\ position'[p] <= position[p]
        BY <1>1, <4>1 DEF CandleTypeOK
      <4> QED BY <2>3, <4>1, <4>2
    <3>2. applied[i][e] > 0
      BY <3>1 DEF CandleInv, TimesApplied
    <3> HIDE DEF Wrote, Gave
    <3> QED BY <1>9, <3>2
  <2> QED BY <2>1, <2>2, <2>3 DEF TimesApplied
<1> QED BY <1>4, <1>5, <1>6, <1>7, <1>8, <1>12 DEF CandleInv

(* A rebalance takes its partition from every worker that is in a handler, *)
(* and pays for the messages that are delivered again.                     *)
LEMMA RebalanceKeeps ==
  ASSUME CandleInv, Rebalance
  PROVE  CandleInv'
<1>1. UNCHANGED <<candle, committed, job, applied, shared, log>>
      /\ redeliveries' = redeliveries + 1 /\ position' = committed
      /\ owner' \in [TradePartitions -> {c \in CandleWorkers : job[c].pc = "idle"}]
  BY DEF Rebalance
<1>2. CandleTypeOK /\ LogPlaced
  BY DEF CandleInv
<1>3. LogPlaced' /\ \A f \in Messages : Copies(f)' = Copies(f) /\ Copies(f) \in Nat
  BY <1>1, LogRests
<1>4. CandleTypeOK'
  <2>1. \A p \in TradePartitions : /\ committed[p] <= committed[p]
                                   /\ committed[p] <= Len(log[p])
    <3> SUFFICES ASSUME NEW p \in TradePartitions
                 PROVE  committed[p] <= committed[p] /\ committed[p] <= Len(log[p])
      OBVIOUS
    <3>1. /\ committed[p] \in Nat /\ position[p] \in Nat /\ Len(log[p]) \in Nat
          /\ committed[p] <= position[p] /\ position[p] <= Len(log[p])
      BY <1>2, CandleAssumption DEF CandleTypeOK, LogPlaced
    <3> QED BY <3>1
  <2>2. owner' \in [TradePartitions -> CandleWorkers]
    BY <1>1
  <2> QED BY <1>1, <1>2, <2>1, <2>2 DEF CandleTypeOK
<1>5. (\A k \in Keys : RowFolded(k)') /\ HandsShared'
  BY <1>1, RowsRest, HandsStay
<1>6. ASSUME NEW d \in CandleWorkers PROVE JobSound(d)'
  <2> SUFFICES ASSUME job[d] # IdleJob PROVE JobSound(d)'
    BY <1>1 DEF JobSound, IdleJob
  <2>1. JobSound(d) /\ job[d].pc # "idle" /\ job[d].from \in TradePartitions
    BY <1>2 DEF CandleInv, CandleTypeOK, IdleJob
  <2>2. ~Owns(d)'
    BY <1>1, <2>1 DEF Owns
  <2>3. SeenSound(d) => SeenSound(d)'
    BY <1>1 DEF SeenSound, InHand, Key, OpenTime, Shaped
  <2> QED BY <1>1, <2>1, <2>2, <2>3 DEF JobSound
<1>7. ASSUME NEW i \in Intervals, NEW f \in Messages PROVE TimesApplied(i, f)'
  <2>1. \A m : DueTimes(m, f)' = DueTimes(m, f)
    BY <1>1 DEF DueTimes, Waiting
  <2>2. DueTimes(i, f)' <= Copies(f)' * redeliveries' + Cardinality(Delivered(f)')
    <3>1. DueTimes(i, f) \in Nat
      BY <1>2, WaitingFacts
    <3> QED BY <1>1, <2>1, <3>1, TimesPaid
  <2>3. ASSUME NEW n \in 1..position'[PartitionOf[f]], log'[PartitionOf[f]][n] = f
        PROVE  applied'[i][f] > 0
    <3>1. PICK p \in TradePartitions : p = PartitionOf[f]
      BY MessageFacts
    <3>2. position[p] \in Nat /\ committed[p] \in Nat /\ committed[p] <= position[p]
      BY <1>2 DEF CandleTypeOK
    <3>3. n \in 1..position[p]
      BY <1>1, <2>3, <3>1, <3>2
    <3> QED BY <1>1, <2>3, <3>1, <3>3 DEF CandleInv, TimesApplied
  <2> QED BY <2>1, <2>2, <2>3 DEF CandleInv, TimesApplied
<1> QED BY <1>3, <1>4, <1>5, <1>6, <1>7 DEF CandleInv

(* A message that is sent lies behind everything the workers have seen.    *)
LEMMA LogGrows ==
  ASSUME CandleInv, UNCHANGED candleOwn, log' = log \/ \E e \in DomainEvents : Send(e)
  PROVE  CandleInv'
<1>1. UNCHANGED <<candle, owner, committed, position, job, applied, redeliveries, shared>>
  BY DEF candleOwn, offsets
<1>2. CandleTypeOK /\ LogPlaced
  BY DEF CandleInv
<1>3. LogPlaced' /\ \A p \in Partitions : /\ Len(log[p]) \in Nat /\ Len(log'[p]) \in Nat
                                          /\ Len(log[p]) <= Len(log'[p])
                                          /\ \A n \in 1..Len(log[p]) : log'[p][n] = log[p][n]
  <2>1. CASE log' = log
    BY <1>2, <2>1 DEF LogPlaced
  <2>2. ASSUME NEW e \in DomainEvents, Send(e)
        PROVE  /\ LogPlaced'
               /\ \A p \in Partitions : /\ Len(log[p]) \in Nat /\ Len(log'[p]) \in Nat
                                        /\ Len(log[p]) <= Len(log'[p])
                                        /\ \A n \in 1..Len(log[p]) : log'[p][n] = log[p][n]
    <3>1. PICK q \in Partitions : q = PartitionOf[e]
      BY LogAssumption
    <3>2. log \in [Partitions -> Seq(DomainEvents)]
          /\ log' = [log EXCEPT ![q] = Append(log[q], e)]
      BY <1>2, <2>2, <3>1 DEF LogPlaced, Send
    <3>3. \A p \in Partitions : /\ Len(log[p]) \in Nat
                                /\ log'[p] = IF p = q THEN Append(log[q], e) ELSE log[p]
      BY <3>2
    <3>4. /\ Len(Append(log[q], e)) = Len(log[q]) + 1
          /\ \A n \in 1..Len(log[q]) : Append(log[q], e)[n] = log[q][n]
          /\ Append(log[q], e)[Len(log[q]) + 1] = e
          /\ Append(log[q], e) \in Seq(DomainEvents)
      BY <3>2
    <3>5. \A p \in Partitions : /\ Len(log[p]) \in Nat /\ Len(log'[p]) \in Nat
                                /\ Len(log[p]) <= Len(log'[p])
                                /\ \A n \in 1..Len(log[p]) : log'[p][n] = log[p][n]
      <4> SUFFICES ASSUME NEW p \in Partitions
                   PROVE  /\ Len(log[p]) \in Nat /\ Len(log'[p]) \in Nat
                          /\ Len(log[p]) <= Len(log'[p])
                          /\ \A n \in 1..Len(log[p]) : log'[p][n] = log[p][n]
        OBVIOUS
      <4>1. PICK m \in Nat : m = Len(log[p])
        BY <3>3
      <4>2. CASE p = q
        <5>1. log'[p] = Append(log[q], e)
          BY <3>3, <4>2
        <5>2. Len(log'[p]) = m + 1
          BY <3>4, <4>1, <4>2, <5>1
        <5> QED BY <3>4, <4>1, <4>2, <5>1, <5>2
      <4>3. CASE p # q
        BY <3>3, <4>1, <4>3
      <4> QED BY <4>2, <4>3
    <3>6. log' \in [Partitions -> Seq(DomainEvents)]
      BY <3>2, <3>4
    <3>7. ASSUME NEW p \in Partitions, NEW n \in 1..Len(log'[p])
          PROVE  PartitionOf[log'[p][n]] = p
      <4>1. CASE n \in 1..Len(log[p])
        <5>1. log'[p][n] = log[p][n]
          BY <3>5, <4>1
        <5>2. PartitionOf[log[p][n]] = p
          BY <1>2, <4>1 DEF LogPlaced
        <5> QED BY <5>1, <5>2
      <4>2. CASE n \notin 1..Len(log[p])
        <5>1. PICK m \in Nat : m = Len(log[p])
          BY <3>3
        <5>2. p = q
          BY <3>3, <4>2
        <5>3. n = m + 1
          <6>1. log'[p] = Append(log[q], e) /\ Len(log'[p]) = m + 1
            BY <3>3, <3>4, <5>1, <5>2
          <6>2. n \in 1..(m + 1) /\ n \notin 1..m
            BY <4>2, <5>1, <6>1
          <6> QED BY <6>2
        <5>4. log'[p][n] = e
          BY <3>3, <3>4, <5>1, <5>2, <5>3
        <5> QED BY <3>1, <5>2, <5>4
      <4> QED BY <4>1, <4>2
    <3> QED BY <3>5, <3>6, <3>7 DEF LogPlaced
  <2> QED BY <2>1, <2>2
<1>4. \A p \in TradePartitions : /\ p \in Partitions /\ position[p] \in Nat
                                 /\ committed[p] <= position[p] /\ position[p] <= Len(log[p])
  BY <1>2, CandleAssumption DEF CandleTypeOK
<1>5. CandleTypeOK'
  <2>1. \A p \in TradePartitions : committed[p] <= position[p] /\ position[p] <= Len(log'[p])
    BY <1>3, <1>4
  <2> QED BY <1>1, <1>2, <2>1 DEF CandleTypeOK
<1>6. ASSUME NEW d \in CandleWorkers PROVE JobSound(d)'
  <2>1. JobSound(d)
    BY DEF CandleInv
  <2>2. job[d] # IdleJob => job[d].from \in TradePartitions
    BY <1>2 DEF CandleTypeOK
  <2>3. ASSUME job[d] # IdleJob, Owns(d)
        PROVE  /\ position[job[d].from] < Len(log'[job[d].from])
               /\ log'[job[d].from][position[job[d].from] + 1]
                     = log[job[d].from][position[job[d].from] + 1]
    <3>1. PICK p \in TradePartitions : p = job[d].from
      BY <2>2, <2>3
    <3>2. position[p] < Len(log[p])
      BY <2>1, <2>3, <3>1 DEF JobSound
    <3>3. PICK m \in Nat, n \in Nat : m = Len(log[p]) /\ n = Len(log'[p])
      BY <1>3, <1>4
    <3>4. PICK x \in Nat : x = position[p]
      BY <1>4
    <3>5. x + 1 \in 1..m /\ m <= n /\ log'[p][x + 1] = log[p][x + 1]
      BY <1>3, <1>4, <3>2, <3>3, <3>4
    <3> QED BY <3>1, <3>3, <3>4, <3>5
  <2>4. SeenSound(d) => SeenSound(d)'
    BY <1>1 DEF SeenSound, InHand, Key, OpenTime, Shaped
  <2>5. Owns(d)' <=> Owns(d)
    BY <1>1 DEF Owns
  <2> QED BY <1>1, <2>1, <2>3, <2>4, <2>5 DEF JobSound, IdleJob
<1>7. (\A k \in Keys : RowFolded(k)') /\ HandsShared'
  BY <1>1, RowsRest, HandsStay
<1>8. ASSUME NEW i \in Intervals, NEW f \in Messages PROVE TimesApplied(i, f)'
  <2>1. PICK q : q = PartitionOf[f]
    OBVIOUS
  <2>2. q \in TradePartitions /\ q \in Partitions
    BY <2>1, MessageFacts
  <2>3. Delivered(f) \subseteq Delivered(f)'
    <3>1. \A n \in DOMAIN log[q] : n \in DOMAIN log'[q] /\ log'[q][n] = log[q][n]
      <4>1. DOMAIN log[q] = 1..Len(log[q]) /\ DOMAIN log'[q] = 1..Len(log'[q])
        BY <1>2, <1>3, <2>2 DEF LogPlaced
      <4> QED BY <1>3, <2>2, <4>1
    <3> QED BY <1>1, <2>1, <3>1 DEF Delivered, InWork
  <2>4. Copies(f) \in Nat /\ Copies(f)' \in Nat /\ Copies(f)' >= Copies(f)
    <3> DEFINE C == {n \in DOMAIN log[q] : log[q][n] = f}
               D == {n \in DOMAIN log'[q] : log'[q][n] = f}
    <3>1. log[q] \in Seq(DomainEvents) /\ log'[q] \in Seq(DomainEvents)
      BY <1>2, <1>3, <2>2 DEF LogPlaced
    <3>2. PICK s, t : s = log[q] /\ t = log'[q]
      OBVIOUS
    <3>3. C \in SUBSET D
      BY <1>3, <2>2, <3>1
    <3>4. IsFiniteSet(C) /\ Cardinality(C) \in Nat /\ IsFiniteSet(D) /\ Cardinality(D) \in Nat
      BY <3>1, <3>2, CountedCopies
    <3>5. Copies(f) = Cardinality(C) /\ Copies(f)' = Cardinality(D)
      BY <2>1 DEF Copies
    <3> HIDE DEF C, D
    <3> QED BY <3>3, <3>4, <3>5, FS_Subset
  <2>5. \A m : DueTimes(m, f)' = DueTimes(m, f)
    BY <1>1 DEF DueTimes, Waiting
  <2>6. DueTimes(i, f)' <= Copies(f)' * redeliveries' + Cardinality(Delivered(f)')
    BY <1>1, <1>3, <2>3, <2>4, <2>5, TimesFollow
  <2>7. ASSUME NEW n \in 1..position'[q], log'[q][n] = f PROVE applied'[i][f] > 0
    <3>1. n \in 1..position[q] /\ n \in 1..Len(log[q])
      BY <1>1, <1>3, <1>4, <2>2, <2>7
    <3>2. log[q][n] = f
      BY <1>3, <2>2, <2>7, <3>1
    <3> QED BY <1>1, <2>1, <3>1, <3>2 DEF CandleInv, TimesApplied
  <2> QED BY <1>1, <2>1, <2>5, <2>6, <2>7 DEF CandleInv, TimesApplied
<1> QED BY <1>3, <1>5, <1>6, <1>7, <1>8 DEF CandleInv

(* The candle workers take their faults from the same budget and leave the *)
(* outbox alone.                                                           *)
LEMMA FaultsKeep ==
  ASSUME OutboxInv, UNCHANGED outboxOwn, log' = log,
         logFaults' \in 0..MaxLogFaults, logFaults <= logFaults'
  PROVE  OutboxInv'
<1>1. UNCHANGED <<happened, emitting, created, outbox, worker, log>>
  BY DEF outboxOwn, tables
<1>2. OutboxTypeOK' /\ logFaults \in Nat /\ logFaults' \in Nat
  BY <1>1, LogAssumption DEF OutboxInv, WorkInv, OutboxTypeOK
<1>3. (\A e : Copies(e)' = Copies(e)) /\ Absent' = Absent
      /\ (\A w, e : Holds(w, e)' = Holds(w, e)) /\ \A w : Row(w)' = Row(w)
  BY <1>1 DEF Copies, Absent, Holds, Row
<1>4. ASSUME NEW e \in DomainEvents PROVE RowSound(e)'
  <2>1. RowSound(e) /\ outbox[e].attempts \in Nat
    BY DEF OutboxInv, WorkInv, OutboxTypeOK
  <2> QED BY <1>1, <1>2, <1>3, <2>1 DEF RowSound
<1>5. ASSUME NEW w \in OutboxWorkers PROVE HolderSound(w)'
  <2>1. HolderSound(w)
    BY DEF OutboxInv, WorkInv
  <2>2. worker[w].pc # "idle" => outbox[Row(w)].attempts \in Nat
    BY RowInHand DEF OutboxInv
  <2> QED BY <1>1, <1>2, <1>3, <2>1, <2>2 DEF HolderSound
<1>6. HoldersExclude'
  BY <1>3 DEF OutboxInv, WorkInv, HoldersExclude
<1>7. StrandedRows' = StrandedRows /\ MissedEvents' = MissedEvents
  BY <1>1, <1>3 DEF StrandedRows, Stranded, Held, MissedEvents
<1>8. LossesPaid'
  <2>1. PICK s, m : s = Cardinality(StrandedRows) /\ m = Cardinality(MissedEvents)
    OBVIOUS
  <2>2. s \in Nat /\ m \in Nat /\ s <= logFaults /\ m <= logFaults
    BY <2>1, FS_CardinalityType DEF OutboxInv, LossesPaid
  <2> QED BY <1>1, <1>2, <1>7, <2>1, <2>2 DEF OutboxInv, LossesPaid
<1> QED BY <1>2, <1>4, <1>5, <1>6, <1>8 DEF OutboxInv, WorkInv

(* What the outbox does to the topic: it sends an event, or nothing.       *)
LEMMA OutboxSends ==
  ASSUME OutboxInv, [OutboxNext]_outboxVars
  PROVE  log' = log \/ \E e \in DomainEvents : Send(e)
<1>1. ASSUME NEW w \in OutboxWorkers, Publish(w) \/ PublishFails(w)
      PROVE  log' = log \/ \E e \in DomainEvents : Send(e)
  <2>1. worker[w].pc = "publish" /\ (Send(Row(w)) \/ log' = log)
    BY <1>1 DEF Publish, PublishFails
  <2>2. Row(w) \in DomainEvents
    BY <2>1, RowInHand DEF OutboxInv
  <2> QED BY <2>1, <2>2
<1>2. ASSUME NEW w \in OutboxWorkers,
             \/ Fetch(w) \/ Claim(w) \/ Mark(w) \/ Postpone(w)
             \/ MarkFails(w) \/ BatchFails(w) \/ WorkerCrash(w)
      PROVE  log' = log
  BY <1>2 DEF Fetch, Claim, Mark, Postpone, MarkFails, BatchFails, WorkerCrash
<1>3. ASSUME NEW e \in DomainEvents,
             \/ SettleTrade(e) \/ ChangeWithdrawal(e)
             \/ Emit(e) \/ EmitFails(e) \/ BecomeDue(e)
      PROVE  log' = log
  BY <1>3 DEF SettleTrade, ChangeWithdrawal, Emit, EmitFails, BecomeDue
<1>4. CASE OutboxNext
  BY <1>1, <1>2, <1>3, <1>4 DEF OutboxNext, WorkerStep
<1>5. CASE UNCHANGED outboxVars
  BY <1>5 DEF outboxVars
<1> QED BY <1>4, <1>5

(* Every step of the candle workers keeps the invariant and spends a fault *)
(* of the budget at most.                                                  *)
LEMMA CandlesKeep ==
  ASSUME CandleInv, logFaults \in 0..MaxLogFaults, CandleNext
  PROVE  /\ CandleInv' /\ log' = log
         /\ logFaults' \in 0..MaxLogFaults /\ logFaults <= logFaults'
<1> USE LogAssumption
<1>1. CandleTypeOK
  BY DEF CandleInv
<1>2. ASSUME NEW c \in CandleWorkers, NEW p \in TradePartitions, Receive(c, p)
      PROVE  CandleInv' /\ UNCHANGED <<log, logFaults>>
  BY <1>2, ReceiveKeeps DEF Receive
<1>3. ASSUME NEW c \in CandleWorkers, ReadCandle(c)
      PROVE  CandleInv' /\ UNCHANGED <<log, logFaults>>
  BY <1>3, ReadKeeps DEF ReadCandle
<1>4. ASSUME NEW c \in CandleWorkers, WriteCandle(c)
      PROVE  CandleInv' /\ UNCHANGED <<log, logFaults>>
  <2>1. UNCHANGED <<log, logFaults>>
    BY <1>4 DEF WriteCandle
  <2> QED BY <1>4, <2>1, WriteKeeps
<1>5. \A p \in TradePartitions : /\ committed[p] \in Nat /\ committed[p] <= position[p]
                                 /\ position[p] \in Nat
  BY <1>1 DEF CandleTypeOK
<1>6. position \in [TradePartitions -> Nat]
  BY <1>1 DEF CandleTypeOK
<1>7. \A p \in TradePartitions : position[p] <= position[p]
  BY <1>5
<1>8. ASSUME NEW c \in CandleWorkers, WriteConflicts(c)
      PROVE  CandleInv' /\ UNCHANGED <<log, logFaults>>
  <2>1. /\ job' = [job EXCEPT ![c] = IdleJob] /\ redeliveries' = redeliveries + 1
        /\ UNCHANGED <<candle, applied, owner, committed, shared, log, position, logFaults>>
    BY <1>8 DEF WriteConflicts, HandBack, offsets
  <2> QED BY <1>5, <1>6, <1>7, <2>1, GiveBackKeeps
<1>9. ASSUME NEW c \in CandleWorkers, CandleFails(c)
      PROVE  CandleInv' /\ log' = log /\ LogFault
  <2>1. /\ job' = [job EXCEPT ![c] = IdleJob] /\ redeliveries' = redeliveries + 1
        /\ UNCHANGED <<owner, committed, shared, log, position>> /\ LogFault
    BY <1>9 DEF CandleFails, HandBack, offsets
  <2>2. UNCHANGED <<candle, applied>> \/ Writes(c)
    BY <1>9 DEF CandleFails, Writes
  <2> QED BY <1>5, <1>6, <1>7, <2>1, <2>2, GiveBackKeeps
<1>10. ASSUME NEW c \in CandleWorkers, ConsumerCrash(c)
       PROVE  CandleInv' /\ log' = log /\ LogFault
  <2>1. /\ job' = [job EXCEPT ![c] = IdleJob] /\ redeliveries' = redeliveries + 1
        /\ UNCHANGED <<candle, applied, owner, committed, shared, log>> /\ LogFault
        /\ position' = [p \in TradePartitions |-> IF owner[p] = c THEN committed[p]
                                                  ELSE position[p]]
    BY <1>10 DEF ConsumerCrash, offsets
  <2>2. /\ position' \in [TradePartitions -> Nat]
        /\ \A p \in TradePartitions : /\ committed[p] <= position'[p]
                                      /\ position'[p] <= position[p]
                                      /\ owner[p] # c => position'[p] = position[p]
    BY <1>5, <2>1
  <2> QED BY <2>1, <2>2, GiveBackKeeps
<1>11. ASSUME NEW p \in TradePartitions, CommitOffset(p)
       PROVE  CandleInv' /\ UNCHANGED <<log, logFaults>>
  BY <1>11, CommitKeeps DEF CommitOffset
<1>12. Rebalance => CandleInv' /\ log' = log /\ LogFault
  BY RebalanceKeeps DEF Rebalance
<1>13. logFaults \in Nat /\ logFaults <= logFaults
  OBVIOUS
<1>14. LogFault => logFaults' \in 0..MaxLogFaults /\ logFaults <= logFaults'
  BY DEF LogFault
<1> QED
  BY <1>2, <1>3, <1>4, <1>8, <1>9, <1>10, <1>11, <1>12, <1>13,
     <1>14 DEF CandleNext, ConsumerStep

(* No candle holds a trade at the start.                                   *)
LEMMA CandlesStart == LogInit /\ CandleInit => CandleInv
<1> SUFFICES ASSUME LogInit, CandleInit PROVE CandleInv
  OBVIOUS
<1> USE LogAssumption, CandleAssumption
<1>1. LogPlaced
  BY DEF LogInit, LogPlaced
<1>2. CandleTypeOK
  BY DEF LogInit, CandleInit, CandleTypeOK, IdleJob
<1>3. \A c \in CandleWorkers : JobSound(c)
  BY DEF CandleInit, JobSound
<1>4. ASSUME NEW k \in Keys PROVE RowFolded(k)
  <2>1. PICK i \in Intervals : i = k[1]
    BY KeyFacts
  <2>2. ASSUME NEW weight, \A e \in Messages : weight[e] \in Nat PROVE Folded(k, weight) = 0
    <3> DEFINE S == {e \in Messages : Key(e, i) = k}
               f == [e \in Messages |-> applied[i][e] * weight[e]]
    <3>1. IsFiniteSet(S) /\ S \subseteq Messages
      BY <1>2, <2>2, FoldedFacts
    <3>2. \A e \in S : f[e] = 0
      <4> SUFFICES ASSUME NEW e \in S PROVE f[e] = 0
        OBVIOUS
      <4>1. applied[i][e] = 0
        BY DEF CandleInit
      <4>2. PICK w \in Nat : w = weight[e]
        BY <2>2
      <4>3. 0 * w = 0
        OBVIOUS
      <4> QED BY <4>1, <4>2, <4>3
    <3>3. Folded(k, weight) = SumFunctionOnSet(f, S)
      BY <2>1 DEF Folded
    <3> HIDE DEF S, f
    <3> QED BY <3>1, <3>2, <3>3, SumOfZeros
  <2>3. Folded(k, Ones) = 0 /\ Folded(k, Quantities) = 0
    <3>1. \A e \in Messages : Ones[e] \in Nat /\ Quantities[e] \in Nat
      BY MessageFacts DEF Ones, Quantities
    <3> QED BY <2>2, <3>1
  <2>4. candle[k] = NoCandle
    BY DEF CandleInit
  <2> QED BY <2>3, <2>4 DEF RowFolded, Volume, NoCandle
<1>5. ASSUME NEW i \in Intervals, NEW e \in Messages PROVE TimesApplied(i, e)
  <2>1. /\ PartitionOf[e] \in TradePartitions /\ applied[i][e] = 0 /\ redeliveries = 0
        /\ position[PartitionOf[e]] = 0
    BY MessageFacts DEF CandleInit
  <2>2. Copies(e) \in Nat /\ Cardinality(Delivered(e)) \in Nat
    BY <1>1, DeliveredFacts
  <2>3. ASSUME NEW m \in Intervals PROVE DueTimes(m, e) = 0
    <3>1. Waiting(m, e) = {} /\ applied[m][e] = 0
      BY DEF CandleInit, Waiting
    <3> QED BY <3>1, FS_EmptySet DEF DueTimes
  <2>4. Copies(e) * 0 = 0
    BY <2>2
  <2>5. i > 1 => i - 1 \in Intervals
    BY IntervalFacts
  <2> QED BY <2>1, <2>2, <2>3, <2>4, <2>5 DEF TimesApplied
<1>6. HandsShared
  BY DEF CandleInit, IdleJob, HandsShared
<1> QED BY <1>1, <1>2, <1>3, <1>4, <1>5, <1>6 DEF CandleInv

(* The outbox, the topic, the workers and the candles agree in every       *)
(* reachable state.                                                        *)
THEOREM PipelineInvariant == PipelineSpec => [](OutboxInv /\ CandleInv)
<1>1. PipelineInit => OutboxInv /\ CandleInv
  BY OutboxStarts, CandlesStart DEF PipelineInit, OutboxInit
<1>2. OutboxInv /\ CandleInv /\ [PipelineNext]_pipelineVars => OutboxInv' /\ CandleInv'
  <2> SUFFICES ASSUME OutboxInv, CandleInv, [PipelineNext]_pipelineVars
               PROVE  OutboxInv' /\ CandleInv'
    OBVIOUS
  <2>1. ASSUME OutboxNext, UNCHANGED candleOwn PROVE OutboxInv' /\ CandleInv'
    <3>1. OutboxInv'
      BY <2>1, ServicesKeep, WorkersKeep DEF OutboxNext
    <3>2. log' = log \/ \E e \in DomainEvents : Send(e)
      BY <2>1, OutboxSends
    <3> QED BY <2>1, <3>1, <3>2, LogGrows
  <2>2. ASSUME CandleNext, UNCHANGED outboxOwn PROVE OutboxInv' /\ CandleInv'
    <3>1. logFaults \in 0..MaxLogFaults
      BY DEF OutboxInv, WorkInv, OutboxTypeOK
    <3>2. /\ CandleInv' /\ log' = log
          /\ logFaults' \in 0..MaxLogFaults /\ logFaults <= logFaults'
      BY <2>2, <3>1, CandlesKeep
    <3> QED BY <2>2, <3>2, FaultsKeep
  <2>3. CASE UNCHANGED pipelineVars
    <3>1. UNCHANGED outboxVars /\ UNCHANGED candleOwn /\ log' = log
      <4>1. UNCHANGED outboxVars /\ UNCHANGED candleVars
        BY <2>3 DEF pipelineVars
      <4> QED BY <4>1 DEF candleVars, candleOwn, offsets
    <3> QED BY <3>1, OutboxRests, LogGrows
  <2> QED BY <2>1, <2>2, <2>3 DEF PipelineNext
<1> QED BY <1>1, <1>2, PTL DEF PipelineSpec

(* The candles, the offsets and the workers keep their types.              *)
THEOREM CandlesTypeCorrect == PipelineSpec => []CandleTypeOK
<1>1. CandleInv => CandleTypeOK
  BY DEF CandleInv
<1> QED BY <1>1, PipelineInvariant, PTL

(* What the candles show is what the topic holds: each trade is in every   *)
(* interval the group has moved past it, at least once and no more often   *)
(* than it was delivered, also where a rebalance leaves the former owner   *)
(* of a partition at work; counts add up, volumes do unless two workers    *)
(* had read the candle at once, prices lie between low and high, and a     *)
(* shorter interval never lags behind (candle.service.js,                  *)
(* updateSingleCandleFromTrade).                                           *)
THEOREM CandlesAreAccounted == PipelineSpec => []CandlesAccounted
BY InvAccounts, PipelineInvariant, PTL

(* The outbox keeps its accounts while candle workers read the topic and   *)
(* fail on the same budget of faults (domainEventOutbox.worker.js).        *)
THEOREM PipelineEventsAccounted == PipelineSpec => []EventsAccounted
BY OutboxAccounts, PipelineInvariant, PTL
===============================================================================
