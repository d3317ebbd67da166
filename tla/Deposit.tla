-------------------------------- MODULE Deposit --------------------------------
(***************************************************************************)
(* One transfer to a deposit address, from the BitGo webhooks that report  *)
(* it to the credit in the ledger: the webhook inbox                       *)
(* (custody-service/custodyWebhook.service.js), the queue worker and its   *)
(* recovery scan (custodyWebhookProcessor.service.js,                      *)
(* workers/custodyWebhook.worker.js), and the Deposit row                  *)
(* (wallet-ledger-service/deposit.service.js).                             *)
(*                                                                         *)
(* Several webhook events may report the transfer, so several workers may  *)
(* handle it at once, and the recovery scan runs beside them.  Each await  *)
(* of a worker is a step; rows are read in one and written in another.     *)
(* Transfers share only the worker slots, so one is modelled.  Outgoing    *)
(* transfers, which the same inbox reports, are in Withdrawal.             *)
(***************************************************************************)
EXTENDS Integers

CONSTANTS Events,            \* webhook events that report the transfer
          Workers,           \* concurrent job slots
          MinConfirmations,  \* of the asset on this network
          MaxAttempts,       \* attempts of a processing job (5 in the code)
          MaxFaults          \* bound: crashes and awaits that throw

ASSUME WorkersAssumption == "recovery" \notin Workers
ASSUME BoundsAssumption == /\ MinConfirmations \in Nat \ {0}
                           /\ MaxAttempts \in Nat \ {0} /\ MaxFaults \in Nat

VARIABLES transfer,          \* confirmations BitGo reports, or Gone
          event,             \* CustodyWebhookEvent.status
          inbox,             \* the HTTP handler of a webhook delivery
          job,               \* custody-webhook-<event>, kept when finished
          attempts,          \* attempts that job has used
          initial,           \* custody-webhook-finalize-deposit-<event>-initial
          followUp,          \* is a delayed finalizer of the event waiting?
          row,               \* the Deposit row
          credits,           \* postings under deposit-credit:<id>
          run,               \* per worker, and for the recovery scan
          faults

queue == <<job, attempts, initial, followUp>>
book == <<row, credits>>
vars == <<transfer, event, inbox, queue, book, run, faults>>

Runners == Workers \cup {"recovery"}
Free == [at |-> "free"]
Gone == -1

\* Fault: the first confirmation already counts as final.
StatusAfterFirst(confs) == IF confs <= 0 THEN "DETECTED" ELSE "CONFIRMED"

\* getDepositStatusFromConfirmations.
StatusOf(confs) == CASE confs <= 0 -> "DETECTED"
                     [] confs > 0 /\ confs < MinConfirmations -> "CONFIRMING"
                     [] OTHER -> "CONFIRMED"

DepositStatus == {"DETECTED", "CONFIRMING", "CONFIRMED", "CREDITED"}
NoRow == [status |-> "NONE", confs |-> 0]
Step == {"mark", "fetch", "reject", "find", "create", "read", "write", "credit",
         "lookup", "post", "close", "processed", "schedule", "catch"}
JobState == {"none", "waiting", "active", "over"}

TypeOK ==
    /\ transfer \in (0..MinConfirmations) \cup {Gone}
    /\ event \in [Events -> {"NONE", "RECEIVED", "PROCESSING", "PROCESSED",
                             "FAILED", "REJECTED"}]
    /\ inbox \in [Events -> {"idle", "enqueue"}]
    /\ job \in [Events -> JobState] /\ initial \in [Events -> JobState]
    /\ attempts \in [Events -> 0..MaxAttempts]
    /\ followUp \in [Events -> BOOLEAN]
    /\ \/ row = NoRow
       \/ row \in [status : DepositStatus, confs : 0..MinConfirmations]
    /\ credits \in Nat
    /\ DOMAIN run = Runners
    /\ \A k \in Runners :
          \/ run[k] = Free
          \/ run[k] \in [at : Step, kind : {"process", "initial", "followUp"},
                         e : Events, confs : 0..MinConfirmations,
                         credited : BOOLEAN]
          \/ run[k] \in [at : Step, kind : {"recover"}]
    /\ faults \in 0..MaxFaults

Init ==
    /\ transfer = 0
    /\ event = [e \in Events |-> "NONE"]
    /\ inbox = [e \in Events |-> "idle"]
    /\ job = [e \in Events |-> "none"]
    /\ attempts = [e \in Events |-> 0]
    /\ initial = [e \in Events |-> "none"]
    /\ followUp = [e \in Events |-> FALSE]
    /\ row = NoRow
    /\ credits = 0
    /\ run = [k \in Runners |-> Free]
    /\ faults = 0

Fault == faults < MaxFaults /\ faults' = faults + 1
-------------------------------------------------------------------------------
(* The webhook endpoint.  A delivery stores the event unless it is known;  *)
(* only one that still has to be processed is queued.                      *)
Receive(e) ==
    /\ inbox[e] = "idle"
    /\ \/ /\ event[e] = "NONE"
          /\ event' = [event EXCEPT ![e] = "RECEIVED"]
          /\ inbox' = [inbox EXCEPT ![e] = "enqueue"]
       \/ /\ event[e] = "NONE"                                \* a simulation
          /\ event' = [event EXCEPT ![e] = "REJECTED"]
          /\ UNCHANGED inbox
       \/ /\ event[e] \in {"RECEIVED", "FAILED"}
          /\ inbox' = [inbox EXCEPT ![e] = "enqueue"]
          /\ UNCHANGED event
    /\ UNCHANGED <<transfer, queue, book, run, faults>>

\* BullMQ ignores an id that it still knows, finished jobs included.
Add(jobs, e) == [jobs EXCEPT ![e] = IF @ = "none" THEN "waiting" ELSE @]

Enqueue(e) ==
    /\ inbox[e] = "enqueue"
    /\ job' = Add(job, e)
    /\ inbox' = [inbox EXCEPT ![e] = "idle"]
    /\ UNCHANGED <<transfer, event, attempts, initial, followUp, book, run, faults>>

\* The API process dies before it has queued the job.
HandlerCrash(e) ==
    /\ inbox[e] = "enqueue" /\ Fault
    /\ inbox' = [inbox EXCEPT ![e] = "idle"]
    /\ UNCHANGED <<transfer, event, queue, book, run>>
-------------------------------------------------------------------------------
(* Jobs: how each kind starts, and how it ends.                            *)
Start(k, at, kind, e) ==
    run' = [run EXCEPT ![k] = [at |-> at, kind |-> kind, e |-> e,
                               confs |-> 0, credited |-> FALSE]]
Goto(k, at) == run' = [run EXCEPT ![k].at = at]
Frees(k) == run' = [run EXCEPT ![k] = Free]

\* The runner's code throws and forgets what it has read; the recovery scan
\* notes the error and goes on.
Throws(k) ==
    run' = [run EXCEPT ![k] = IF @.kind = "recover" THEN Free
                              ELSE [@ EXCEPT !.at = "catch", !.confs = 0, !.credited = FALSE]]

\* Fault: the job is tried again without end.
AttemptFailsForever(e) ==
    /\ attempts' = [attempts EXCEPT ![e] = @ + 1]
    /\ job' = [job EXCEPT ![e] = "waiting"]

\* An attempt of the processing job throws: BullMQ tries again later.
AttemptFails(e) ==
    /\ attempts' = [attempts EXCEPT ![e] = @ + 1]
    /\ job' = [job EXCEPT ![e] = IF attempts'[e] = MaxAttempts THEN "over" ELSE "waiting"]

\* Fault: an event that FAILED in an earlier attempt is refused as well.
TakeJobOnce(k, e) ==
    /\ run[k] = Free /\ job[e] = "waiting"
    /\ \/ /\ event[e] = "RECEIVED"
          /\ Start(k, "mark", "process", e)
          /\ job' = [job EXCEPT ![e] = "active"] /\ UNCHANGED attempts
       \/ /\ event[e] # "RECEIVED"
          /\ AttemptFails(e) /\ UNCHANGED run
    /\ UNCHANGED <<transfer, event, inbox, initial, followUp, book, faults>>

\* Processing starts unless the event is in work, finished or rejected (409).
TakeJob(k, e) ==
    /\ run[k] = Free /\ job[e] = "waiting"
    /\ \/ /\ event[e] \in {"RECEIVED", "FAILED"}
          /\ Start(k, "mark", "process", e)
          /\ job' = [job EXCEPT ![e] = "active"] /\ UNCHANGED attempts
       \/ /\ event[e] \in {"PROCESSING", "PROCESSED", "REJECTED"}
          /\ AttemptFails(e) /\ UNCHANGED run
    /\ UNCHANGED <<transfer, event, inbox, initial, followUp, book, faults>>

\* A finalizer of a rejected event throws in all its attempts.
TakeInitial(k, e) ==
    /\ run[k] = Free /\ initial[e] = "waiting"
    /\ \/ /\ event[e] # "REJECTED"
          /\ Start(k, "fetch", "initial", e)
          /\ initial' = [initial EXCEPT ![e] = "active"]
       \/ /\ event[e] = "REJECTED" /\ UNCHANGED run
          /\ initial' = [initial EXCEPT ![e] = "over"]
    /\ UNCHANGED <<transfer, event, inbox, job, attempts, followUp, book, faults>>

TakeFollowUp(k, e) ==
    /\ run[k] = Free /\ followUp[e]
    /\ followUp' = [followUp EXCEPT ![e] = FALSE]
    /\ \/ event[e] # "REJECTED" /\ Start(k, "fetch", "followUp", e)
       \/ event[e] = "REJECTED" /\ UNCHANGED run
    /\ UNCHANGED <<transfer, event, inbox, job, attempts, initial, book, faults>>

\* processDetectedDeposit returns the deposit with this status.
Settled(k, status) ==
    IF run[k].kind = "recover" THEN Frees(k)
    ELSE run' = [run EXCEPT
            ![k].at = IF run[k].kind = "process" THEN "processed" ELSE "schedule",
            ![k].confs = 0,
            ![k].credited = (status = "CREDITED")]

ToCredit(k) == run' = [run EXCEPT ![k].at = "credit", ![k].confs = 0]

\* getCustodyTransfer; only a confirmed or unconfirmed transfer is accepted.
Fetched(k) ==
    run' = [run EXCEPT ![k] = IF transfer = Gone THEN [@ EXCEPT !.at = "reject"]
                              ELSE [@ EXCEPT !.at = "find", !.confs = transfer]]

(* processBitGoTransferWebhookEvent and finalizeBitGoDepositFromWebhook-   *)
(* Event up to the deposit.                                                *)
Mark(k) ==
    /\ run[k].at = "mark"
    /\ event' = [event EXCEPT ![run[k].e] = "PROCESSING"]
    /\ Fetched(k)
    /\ UNCHANGED <<transfer, inbox, queue, book, faults>>

Fetch(k) ==
    /\ run[k].at = "fetch"
    /\ Fetched(k)
    /\ UNCHANGED <<transfer, event, inbox, queue, book, faults>>

\* rejectWebhookEvent, which throws.
Reject(k) ==
    /\ run[k].at = "reject"
    /\ event' = [event EXCEPT ![run[k].e] = "REJECTED"]
    /\ Throws(k)
    /\ UNCHANGED <<transfer, inbox, queue, book, faults>>
-------------------------------------------------------------------------------
(* processDetectedDeposit: recordDetectedDeposit looks for the row ...     *)
Find(k) ==
    /\ run[k].at = "find"
    /\ Goto(k, IF row = NoRow THEN "create" ELSE "read")
    /\ UNCHANGED <<transfer, event, inbox, queue, book, faults>>

\* ... and creates it; networkId_txHash_eventIndex is unique.
Create(k) ==
    /\ run[k].at = "create"
    /\ \/ /\ row = NoRow
          /\ row' = [status |-> StatusOf(run[k].confs), confs |-> run[k].confs]
          /\ Goto(k, "read")
       \/ row # NoRow /\ UNCHANGED row /\ Throws(k)
    /\ UNCHANGED <<transfer, event, inbox, queue, credits, faults>>

\* updateDepositConfirmations reads the row ...
Read(k) ==
    /\ run[k].at = "read"
    /\ \/ row.status = "CREDITED" /\ Settled(k, "CREDITED")
       \/ /\ row.status # "CREDITED" /\ run[k].confs < row.confs
          /\ IF row.status = "CONFIRMED" THEN ToCredit(k)
                                         ELSE Settled(k, row.status)
       \/ /\ row.status # "CREDITED" /\ run[k].confs >= row.confs
          /\ Goto(k, "write")
    /\ UNCHANGED <<transfer, event, inbox, queue, book, faults>>

\* ... and writes it, whatever it holds by then.
Write(k) ==
    /\ run[k].at = "write"
    /\ row' = [status |-> StatusOf(run[k].confs), confs |-> run[k].confs]
    /\ IF row'.status = "CONFIRMED" THEN ToCredit(k) ELSE Settled(k, row'.status)
    /\ UNCHANGED <<transfer, event, inbox, queue, credits, faults>>

\* creditConfirmedDeposit reads the row again ...
Credit(k) ==
    /\ run[k].at = "credit"
    /\ \/ row.status = "CREDITED" /\ Settled(k, "CREDITED")
       \/ row.status = "CONFIRMED" /\ Goto(k, "lookup")
       \/ row.status \notin {"CONFIRMED", "CREDITED"} /\ Throws(k)
    /\ UNCHANGED <<transfer, event, inbox, queue, book, faults>>

\* ... asks the ledger for its key ...
Lookup(k) ==
    /\ run[k].at = "lookup"
    /\ Goto(k, IF credits > 0 THEN "close" ELSE "post")
    /\ UNCHANGED <<transfer, event, inbox, queue, book, faults>>

\* Fault: the key is not unique in the database.
PostAgain(k) ==
    /\ run[k].at = "post"
    /\ credits' = credits + 1 /\ Goto(k, "close")
    /\ UNCHANGED <<transfer, event, inbox, queue, row, faults>>

\* ... posts unless another runner has (unique key) ...
Post(k) ==
    /\ run[k].at = "post"
    /\ \/ credits = 0 /\ credits' = 1 /\ Goto(k, "close")
       \/ credits > 0 /\ UNCHANGED credits /\ Throws(k)
    /\ UNCHANGED <<transfer, event, inbox, queue, row, faults>>

\* ... and sets CREDITED.
Close(k) ==
    /\ run[k].at = "close"
    /\ row' = [row EXCEPT !.status = "CREDITED"]
    /\ Settled(k, "CREDITED")
    /\ UNCHANGED <<transfer, event, inbox, queue, credits, faults>>
-------------------------------------------------------------------------------
Processed(k) ==
    /\ run[k].at = "processed"
    /\ event' = [event EXCEPT ![run[k].e] = "PROCESSED"]
    /\ Goto(k, "schedule")
    /\ UNCHANGED <<transfer, inbox, queue, book, faults>>

JobOver(k) ==
    /\ job' = IF run[k].kind = "process" THEN [job EXCEPT ![run[k].e] = "over"] ELSE job
    /\ initial' = IF run[k].kind = "initial" THEN [initial EXCEPT ![run[k].e] = "over"]
                                             ELSE initial

\* Fault: no follow-up is scheduled for a deposit that is not yet credited.
ScheduleNone(k) ==
    /\ run[k].at = "schedule"
    /\ JobOver(k) /\ Frees(k)
    /\ UNCHANGED <<transfer, event, inbox, attempts, followUp, book, faults>>

\* scheduleDepositFinalizerIfNeeded; the job is complete.
Schedule(k) ==
    /\ run[k].at = "schedule"
    /\ followUp' = [followUp EXCEPT ![run[k].e] = @ \/ ~run[k].credited]
    /\ JobOver(k) /\ Frees(k)
    /\ UNCHANGED <<transfer, event, inbox, attempts, book, faults>>

\* The job waits for its next attempt.
Again(k) ==
    /\ job' = IF run[k].kind = "process" THEN [job EXCEPT ![run[k].e] = "waiting"] ELSE job
    /\ initial' = IF run[k].kind = "initial" THEN [initial EXCEPT ![run[k].e] = "waiting"]
                                             ELSE initial
    /\ followUp' = IF run[k].kind = "followUp" THEN [followUp EXCEPT ![run[k].e] = TRUE]
                                               ELSE followUp

\* A processing job marks its event FAILED unless it was rejected; then, as
\* for a finalizer, the job fails.
Catch(k) ==
    /\ run[k].at = "catch"
    /\ \/ /\ run[k].kind = "process"
          /\ event' = [event EXCEPT ![run[k].e] = IF @ = "REJECTED" THEN @ ELSE "FAILED"]
          /\ AttemptFails(run[k].e) /\ UNCHANGED <<initial, followUp>>
       \/ /\ run[k].kind # "process"
          /\ Again(k) /\ UNCHANGED <<event, attempts>>
    /\ Frees(k)
    /\ UNCHANGED <<transfer, inbox, book, faults>>

Working(k) == \/ Mark(k) \/ Fetch(k) \/ Reject(k) \/ Find(k) \/ Create(k)
              \/ Read(k) \/ Write(k) \/ Credit(k) \/ Lookup(k) \/ Post(k)
              \/ Close(k) \/ Processed(k) \/ Schedule(k) \/ Catch(k)

\* recoverPendingBitGoDepositFinalizations, at start-up and every 5 minutes:
\* a CONFIRMED deposit is credited, a younger one gets an initial finalizer.
Recover ==
    /\ run["recovery"] = Free
    /\ \/ /\ row.status = "CONFIRMED"
          /\ run' = [run EXCEPT !["recovery"] = [at |-> "credit", kind |-> "recover"]]
          /\ UNCHANGED initial
       \/ /\ row.status \in {"DETECTED", "CONFIRMING"}
          /\ \E e \in Events : /\ event[e] \notin {"NONE", "REJECTED"}
                               /\ initial' = Add(initial, e)
          /\ UNCHANGED run
    /\ UNCHANGED <<transfer, event, inbox, job, attempts, followUp, book, faults>>

\* An await throws.
Throw(k) ==
    /\ run[k].at \notin {"free", "mark", "reject", "catch"} /\ Fault
    /\ Throws(k)
    /\ UNCHANGED <<transfer, event, inbox, queue, book>>

\* The worker dies; BullMQ delivers its job again.
Crash(k) ==
    /\ run[k] # Free /\ Fault
    /\ Again(k) /\ Frees(k)
    /\ UNCHANGED <<transfer, event, inbox, attempts, book>>

\* The chain: one more confirmation, or the transfer is dropped.
Confirm ==
    /\ transfer \in 0..(MinConfirmations - 1)
    /\ transfer' = transfer + 1
    /\ UNCHANGED <<event, inbox, queue, book, run, faults>>

Drop ==
    /\ transfer \in 0..(MinConfirmations - 1)
    /\ transfer' = Gone
    /\ UNCHANGED <<event, inbox, queue, book, run, faults>>

Next == \/ \E e \in Events : \/ Receive(e) \/ Enqueue(e) \/ HandlerCrash(e)
                             \/ \E k \in Workers : \/ TakeJob(k, e)
                                                   \/ TakeInitial(k, e)
                                                   \/ TakeFollowUp(k, e)
        \/ \E k \in Runners : Working(k) \/ Throw(k) \/ Crash(k)
        \/ Recover \/ Confirm \/ Drop

Spec == Init /\ [][Next]_vars

(* Runners run on, waiting jobs are delivered, the recovery scan repeats.  *)
(* Nothing forces a webhook, a confirmation or a drop.                     *)
Fairness ==
    /\ \A k \in Runners : WF_vars(Working(k))
    /\ \A e \in Events :
          /\ WF_vars(Enqueue(e))
          /\ SF_vars(\E k \in Workers : TakeJob(k, e))
          /\ SF_vars(\E k \in Workers : TakeInitial(k, e))
          /\ SF_vars(\E k \in Workers : TakeFollowUp(k, e))
    /\ SF_vars(Recover)

FairSpec == Spec /\ Fairness
-------------------------------------------------------------------------------
(* The deposit is credited at most once, although several workers and the  *)
(* recovery scan may find it CONFIRMED at the same time, and a slow worker *)
(* may reset a CREDITED row (deposit.service.js:217).                      *)
CreditedOnce == credits <= 1

(* A row that says CREDITED is paid, and what is paid has the number of    *)
(* confirmations that the asset requires: no stale status, retry or        *)
(* recovery credits a younger transfer (deposit.service.js:194).           *)
CreditedMeansFinal ==
    /\ row.status = "CREDITED" => credits > 0
    /\ credits > 0 => transfer = MinConfirmations

(* The promise that every way of paying in shares: the transfer arrives    *)
(* once it has its confirmations, and then it is credited, once.           *)
Promise == INSTANCE CreditOnce
    WITH Payments <- {"transfer"},
         received <- IF transfer = MinConfirmations THEN {"transfer"} ELSE {},
         credits <- [p \in {"transfer"} |-> credits]

(* However webhooks, finalizers, retries and recoveries of one deposit     *)
(* interleave and fail, together they do nothing but keep that promise     *)
(* (deposit.service.js:176, 217).                                          *)
DepositImplementsCreditOnce == Promise!Spec

(* A processed event has left a deposit row, so nothing that was answered  *)
(* as done is unknown to the recovery scan.                                *)
ProcessedIsRecorded == \A e \in Events : event[e] = "PROCESSED" => row # NoRow

(* What the inbox and the row claim is true: an event said to be processed *)
(* is recorded, a deposit said to be credited is posted, once and final    *)
(* (deposit.service.js:194, 217).                                          *)
RecordedIsTrue == CreditedOnce /\ CreditedMeansFinal /\ ProcessedIsRecorded

(* A recorded deposit whose transfer becomes final is paid, whatever       *)
(* crashes and throws in between: each finalizer schedules the next, and   *)
(* the recovery scan starts a chain that was lost with its first job       *)
(* (custodyWebhookProcessor.service.js:278, 526).                          *)
DetectedIsPaid == row # NoRow /\ transfer = MinConfirmations ~> credits > 0

(* An event that was stored and queued is processed or rejected, unless    *)
(* something crashed or threw meanwhile.                                   *)
EventsAreHandled ==
    \A e \in Events : event[e] = "RECEIVED" ~> \/ event[e] \in {"PROCESSED", "REJECTED"}
                                               \/ faults > 0
-------------------------------------------------------------------------------
(* What the repository states and the code does not keep: "Recovery logic  *)
(* for deposits that were detected but not finalized" (README:175).  A     *)
(* worker that read the row earlier writes DETECTED over CREDITED and      *)
(* dies; the scan finds the row but its job id is taken.                   *)
DetectedIsCredited ==
    row # NoRow /\ transfer = MinConfirmations ~> [](row.status = "CREDITED")
===============================================================================
