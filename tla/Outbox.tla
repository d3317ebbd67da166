-------------------------------- MODULE Outbox --------------------------------
(***************************************************************************)
(* The domain event outbox: services insert an event row                   *)
(* (event-service/domainEventOutbox.service.js), outbox workers claim the  *)
(* rows that are due, publish them to Kafka and mark them                  *)
(* (workers/domainEventOutbox.worker.js).                                  *)
(*                                                                         *)
(* A trade's row is inserted by the transaction that settles the trade; a  *)
(* withdrawal's row is inserted after the change it reports.  Every await  *)
(* of a worker is a step, and every await may throw before or after it     *)
(* took effect.  The flag isProcessingOutbox of a process is pc # "idle".  *)
(* Payloads are left out; availableAt is "due now" or not.                 *)
(***************************************************************************)
EXTENDS EventLog

CONSTANTS TradeEvents,       \* the trade.executed events of DomainEvents
          OutboxWorkers,     \* processes running the outbox worker
          OUTBOX_BATCH_SIZE

ASSUME OutboxAssumption == /\ TradeEvents \subseteq DomainEvents
                           /\ OUTBOX_BATCH_SIZE \in Nat \ {0}

VARIABLES happened,          \* events whose business change is committed
          emitting,          \* withdrawal events whose insert is under way
          created,           \* outbox rows in the order of createdAt
          outbox,            \* DomainEventOutbox by idempotency key
          worker             \* per process: where it is, rest of its batch

outboxVars == <<happened, emitting, created, outbox, worker, log, logFaults>>
tables == <<created, outbox>>

Absent == [status |-> "ABSENT", due |-> FALSE, attempts |-> 0]
IdleWorker == [pc |-> "idle", batch |-> << >>]
OutboxStatus == {"ABSENT", "PENDING", "PUBLISHING", "PUBLISHED"}

OutboxTypeOK ==
    /\ log \in [Partitions -> Seq(DomainEvents)] /\ logFaults \in 0..MaxLogFaults
    /\ happened \subseteq DomainEvents
    /\ emitting \subseteq happened \ TradeEvents
    /\ created \in Seq(DomainEvents)
    /\ outbox \in [DomainEvents -> [status : OutboxStatus, due : BOOLEAN, attempts : Nat]]
    /\ worker \in [OutboxWorkers ->
                      [pc : {"idle", "claim", "publish", "mark", "postpone"},
                       batch : Seq(DomainEvents)]]

OutboxInit ==
    /\ LogInit
    /\ happened = {} /\ emitting = {}
    /\ created = << >>
    /\ outbox = [e \in DomainEvents |-> Absent]
    /\ worker = [w \in OutboxWorkers |-> IdleWorker]
-------------------------------------------------------------------------------
(* Services.                                                               *)

\* createDomainEventOutboxEntry: upsert by idempotency key, update {}.
Upsert(e) ==
    IF outbox[e] = Absent
    THEN /\ created' = Append(created, e)
         /\ outbox' = [outbox EXCEPT ![e] = [status |-> "PENDING", due |-> TRUE,
                                             attempts |-> 0]]
    ELSE UNCHANGED tables

\* A match commits a trade and its event row in one transaction.
SettleTrade(e) ==
    /\ e \in TradeEvents \ happened
    /\ happened' = happened \cup {e}
    /\ Upsert(e)
    /\ UNCHANGED <<emitting, worker, log, logFaults>>

\* A withdrawal changes status; its caller, or a second job that makes the
\* same change, then inserts the event.
ChangeWithdrawal(e) ==
    /\ e \in DomainEvents \ (TradeEvents \cup emitting)
    /\ happened' = happened \cup {e}
    /\ emitting' = emitting \cup {e}
    /\ UNCHANGED <<tables, worker, log, logFaults>>

Emit(e) ==
    /\ e \in emitting
    /\ Upsert(e)
    /\ emitting' = emitting \ {e}
    /\ UNCHANGED <<happened, worker, log, logFaults>>

\* The insert throws, or the process dies before it: nobody repeats it.
EmitFails(e) ==
    /\ e \in emitting /\ LogFault
    /\ emitting' = emitting \ {e}
    /\ UNCHANGED <<happened, tables, worker, log>>

\* The 30 seconds of a postponed row pass.
BecomeDue(e) ==
    /\ outbox[e].status = "PENDING" /\ ~outbox[e].due
    /\ outbox' = [outbox EXCEPT ![e].due = TRUE]
    /\ UNCHANGED <<happened, emitting, created, worker, log, logFaults>>
-------------------------------------------------------------------------------
(* The worker: processOutboxBatch, started by a notification, by the poll  *)
(* timer or at start-up; it returns at once while a batch is running.      *)
Due(e) == outbox[e].status = "PENDING" /\ outbox[e].due

\* The oldest rows that are due, up to the batch size.
DueBatch ==
    LET rows[n \in 0..Len(created)] ==
          IF n = 0 THEN << >>
          ELSE IF Due(created[n]) /\ Len(rows[n - 1]) < OUTBOX_BATCH_SIZE
               THEN Append(rows[n - 1], created[n])
               ELSE rows[n - 1]
    IN  rows[Len(created)]

Row(w) == Head(worker[w].batch)
Goto(w, pc) == worker' = [worker EXCEPT ![w].pc = pc]
Stop(w) == worker' = [worker EXCEPT ![w] = IdleWorker]
NextRow(w) == worker' = [worker EXCEPT ![w] =
                 IF Len(@.batch) = 1 THEN IdleWorker
                 ELSE [pc |-> "claim", batch |-> Tail(@.batch)]]

Fetch(w) ==
    /\ worker[w].pc = "idle" /\ DueBatch # << >>
    /\ worker' = [worker EXCEPT ![w] = [pc |-> "claim", batch |-> DueBatch]]
    /\ UNCHANGED <<happened, emitting, tables, log, logFaults>>

\* Fault: the claim does not ask whether the row is still pending.
ClaimAnyway(w) ==
    /\ worker[w].pc = "claim"
    /\ outbox' = [outbox EXCEPT ![Row(w)].status = "PUBLISHING", ![Row(w)].attempts = @ + 1]
    /\ Goto(w, "publish")
    /\ UNCHANGED <<happened, emitting, created, log, logFaults>>

Claim(w) ==
    /\ worker[w].pc = "claim"
    /\ IF outbox[Row(w)].status = "PENDING"
       THEN /\ outbox' = [outbox EXCEPT ![Row(w)].status = "PUBLISHING",
                                        ![Row(w)].attempts = @ + 1]
            /\ Goto(w, "publish")
       ELSE NextRow(w) /\ UNCHANGED outbox
    /\ UNCHANGED <<happened, emitting, created, log, logFaults>>

Publish(w) ==
    /\ worker[w].pc = "publish"
    /\ Send(Row(w))
    /\ Goto(w, "mark")
    /\ UNCHANGED <<happened, emitting, tables, logFaults>>

\* The broker may have stored the message although send throws.
PublishFails(w) ==
    /\ worker[w].pc = "publish" /\ LogFault
    /\ Send(Row(w)) \/ UNCHANGED log
    /\ Goto(w, "postpone")
    /\ UNCHANGED <<happened, emitting, tables>>

Published(w) == outbox' = [outbox EXCEPT ![Row(w)].status = "PUBLISHED"]

Postponed(w) == outbox' = [outbox EXCEPT ![Row(w)].status = "PENDING",
                                         ![Row(w)].due = FALSE]
Mark(w) ==
    /\ worker[w].pc = "mark"
    /\ Published(w) /\ NextRow(w)
    /\ UNCHANGED <<happened, emitting, created, log, logFaults>>

MarkFails(w) ==
    /\ worker[w].pc = "mark" /\ LogFault
    /\ Published(w) \/ UNCHANGED outbox
    /\ Goto(w, "postpone")
    /\ UNCHANGED <<happened, emitting, created, log>>

Postpone(w) ==
    /\ worker[w].pc = "postpone"
    /\ Postponed(w) /\ NextRow(w)
    /\ UNCHANGED <<happened, emitting, created, log, logFaults>>

\* The claim, or the update in the catch block, throws: the batch is left.
BatchFails(w) ==
    /\ worker[w].pc \in {"claim", "postpone"} /\ LogFault
    /\ \/ UNCHANGED outbox
       \/ worker[w].pc = "postpone" /\ Postponed(w)
       \/ /\ worker[w].pc = "claim" /\ outbox[Row(w)].status = "PENDING"
          /\ outbox' = [outbox EXCEPT ![Row(w)].status = "PUBLISHING",
                                      ![Row(w)].attempts = @ + 1]
    /\ Stop(w)
    /\ UNCHANGED <<happened, emitting, created, log>>

WorkerCrash(w) ==
    /\ worker[w].pc # "idle" /\ LogFault
    /\ Stop(w)
    /\ UNCHANGED <<happened, emitting, tables, log>>

WorkerStep(w) == Fetch(w) \/ Claim(w) \/ Publish(w) \/ Mark(w) \/ Postpone(w)

OutboxNext ==
    \/ \E e \in DomainEvents : \/ SettleTrade(e) \/ ChangeWithdrawal(e)
                               \/ Emit(e) \/ EmitFails(e) \/ BecomeDue(e)
    \/ \E w \in OutboxWorkers : \/ WorkerStep(w) \/ PublishFails(w) \/ MarkFails(w)
                                \/ BatchFails(w) \/ WorkerCrash(w)

OutboxSpec == OutboxInit /\ [][OutboxNext]_outboxVars

\* A notification or the poll timer starts a batch again and again, and a
\* running worker goes on.
OutboxFairness ==
    /\ \A w \in OutboxWorkers : WF_outboxVars(WorkerStep(w))
    /\ \A e \in DomainEvents : /\ WF_outboxVars(Emit(e))
                               /\ WF_outboxVars(BecomeDue(e))
-------------------------------------------------------------------------------
Holds(w, e) == worker[w].pc \in {"publish", "mark", "postpone"} /\ Row(w) = e
Held(e) == \E w \in OutboxWorkers : Holds(w, e)

\* A row nobody works on and no worker will look at again.
Stranded(e) == outbox[e].status = "PUBLISHING" /\ ~Held(e)

\* Two workers never publish the same row at once, and a row that says
\* PUBLISHED is in Kafka, whichever awaits failed on the way there.
ClaimsAreExclusive ==
    \A e \in DomainEvents :
       /\ \A v, w \in OutboxWorkers : Holds(v, e) /\ Holds(w, e) => v = w
       /\ outbox[e].status = "PUBLISHED" => Sent(e)

\* The attempts column counts what it claims to: an event is never in Kafka
\* more often than it was attempted, and never attempted again without a
\* failure in between.
CopiesAreAttempts ==
    \A e \in DomainEvents : /\ Copies(e) <= outbox[e].attempts
                            /\ outbox[e].attempts <= 1 + logFaults

\* Nothing is stranded but the one row a failing worker was holding, so a
\* crash costs one row and not the batch.
StrandedByFaults ==
    Cardinality({e \in DomainEvents : Stranded(e)}) <= logFaults

\* What the README says of the pattern (README.md:287-298): the outbox row is
\* created in the business transaction, so that a committed change whose writer
\* is done has its event.  The events of withdrawals are inserted outside of it
\* (withdrawalDomainEvent.service.js:15), and one that fails there is lost.
CommittedIsEmitted == \A e \in happened \ emitting : outbox[e] # Absent

\* What is left of it: a trade and its row are one commit, and the event of a
\* withdrawal is lost only by a failure between its commit and the insert.
OnlyInsertsAreLost ==
    /\ \A e \in happened \cap TradeEvents : outbox[e] # Absent
    /\ Cardinality({e \in happened \ emitting : outbox[e] = Absent}) <= logFaults

\* Every row that waits to be published reaches Kafka, unless a failure
\* leaves it in PUBLISHING.
PendingIsSent ==
    \A e \in DomainEvents :
       outbox[e].status = "PENDING" ~> Sent(e) \/ Stranded(e)

\* From the outbox row to Kafka everything is accounted for: an event is held by
\* one worker at a time, published as often as it was attempted, and stranded
\* only where something failed.  Before the row, CommittedIsEmitted is what is
\* promised and does not hold; a trade keeps it, a withdrawal up to a failure.
EventsAccounted ==
    ClaimsAreExclusive /\ CopiesAreAttempts /\ StrandedByFaults /\ OnlyInsertsAreLost
===============================================================================
