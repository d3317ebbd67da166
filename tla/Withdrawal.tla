------------------------------ MODULE Withdrawal ------------------------------
(***************************************************************************)
(* A withdrawal from request to final state: the HTTP handler that creates *)
(* it (wallet-ledger-service/withdrawal.service.js), the queue workers     *)
(* that submit it to custody and follow the transfer                       *)
(* (withdrawalProcessor.service.js, workers/withdrawal.worker.js), and the *)
(* BitGo webhook worker, which runs the same finalizer.                    *)
(*                                                                         *)
(* None of these is one transaction.  Every await that reads or writes the *)
(* row, the ledger, the queue or the provider is a step of its own, and a  *)
(* process may stop, or the call may throw, between any two.  The ledger   *)
(* is the set of keys it has posted; what happens inside a posting is the  *)
(* subject of Ledger.  Audit rows and outbox events are left out.          *)
(***************************************************************************)
EXTENDS Integers, FiniteSets

CONSTANTS Withdrawals,   \* requests, one per idempotency key
          Runners,       \* concurrent job slots of the two workers
          Approvals,     \* BOOLEAN: custody may ask for an approval first
          MaxFaults,     \* bound: crashes, thrown awaits and lost replies
          MaxStalls      \* bound: running jobs that BullMQ delivers again

ASSUME BoundsAssumption ==
    /\ Approvals \in BOOLEAN
    /\ MaxFaults \in Nat /\ MaxStalls \in Nat

\* The workers run a fixed number of jobs at once (workers/withdrawal.worker.js:43).
ASSUME RunnersAssumption == IsFiniteSet(Runners)

VARIABLES status,        \* Withdrawal.status; "NONE" before the row exists
          ref,           \* what the row knows of the custody transfer
          posted,        \* ledger keys: withdrawal-lock, withdrawal-unlock
          handler,       \* createWithdrawalRequest
          job,           \* process-approved-withdrawal of the queue
          finalizer,     \* is a finalize-submitted-withdrawal job waiting?
                         \* (of several at once, all but one act as Webhook)
          run,           \* per runner: the job it executes and what it read
          sent,          \* transfers custody has accepted for a withdrawal
          chain,         \* state of the latest of them at the provider
          faults, stalls

row == <<status, ref>>
queue == <<job, finalizer>>
custody == <<sent, chain>>
bounds == <<faults, stalls>>
vars == <<row, posted, handler, queue, run, custody, bounds>>

Finalizable == {"SUBMITTED", "BROADCASTED", "CONFIRMED"}
Terminal == {"COMPLETED", "FAILED"}
Status == Finalizable \cup Terminal
          \cup {"NONE", "REQUESTED", "PENDING_REVIEW", "APPROVED", "PROCESSING"}

Free == [at |-> "free"]
Run == {Free}
    \cup [at : {"claim", "send", "announce", "fail", "mark", "unlock", "post"},
          w : Withdrawals]
    \cup [at : {"record"}, w : Withdrawals, ref : {"none", "request", "transfer"}]
    \cup [at : {"fetch"}, w : Withdrawals, old : Finalizable]
    \cup [at : {"save"}, w : Withdrawals, old : Finalizable, new : Status]
    \cup [at : {"follow"}, w : Withdrawals, now : Status]

TypeOK ==
    /\ status \in [Withdrawals -> Status]
    /\ ref \in [Withdrawals -> {"none", "request", "transfer"}]
    /\ posted \in [Withdrawals -> SUBSET {"lock", "unlock"}]
    /\ handler \in [Withdrawals -> {"start", "lock", "approve", "enqueue", "end"}]
    /\ job \in [Withdrawals -> {"none", "waiting", "active", "over"}]
    /\ finalizer \in [Withdrawals -> BOOLEAN]
    /\ run \in [Runners -> Run]
    /\ sent \in [Withdrawals -> Nat]
    /\ chain \in [Withdrawals -> {"none", "approval", "pending", "broadcast",
                                  "confirmed", "final", "failed"}]
    /\ faults \in 0..MaxFaults /\ stalls \in 0..MaxStalls

Init ==
    /\ status = [w \in Withdrawals |-> "NONE"]
    /\ ref = [w \in Withdrawals |-> "none"]
    /\ posted = [w \in Withdrawals |-> {}]
    /\ handler = [w \in Withdrawals |-> "start"]
    /\ job = [w \in Withdrawals |-> "none"]
    /\ finalizer = [w \in Withdrawals |-> FALSE]
    /\ run = [k \in Runners |-> Free]
    /\ sent = [w \in Withdrawals |-> 0]
    /\ chain = [w \in Withdrawals |-> "none"]
    /\ faults = 0 /\ stalls = 0

\* postLedgerTransaction with the key of this withdrawal: posted at most once.
PostOnce(w, key) == posted' = [posted EXCEPT ![w] = @ \cup {key}]

Fault == faults < MaxFaults /\ faults' = faults + 1 /\ UNCHANGED stalls
-------------------------------------------------------------------------------
(* createWithdrawalRequest.  A repeated request finds the row by its       *)
(* idempotency key and returns it: a stuttering step.                      *)
CreateRow(w) ==
    /\ handler[w] = "start"
    /\ status' = [status EXCEPT ![w] = "REQUESTED"]
    /\ handler' = [handler EXCEPT ![w] = "lock"]
    /\ UNCHANGED <<ref, posted, queue, run, custody, bounds>>

\* The ledger moves the funds to LOCKED, or refuses (409) and the call throws.
LockFunds(w) ==
    /\ handler[w] = "lock"
    /\ \/ PostOnce(w, "lock") /\ handler' = [handler EXCEPT ![w] = "approve"]
       \/ UNCHANGED posted /\ handler' = [handler EXCEPT ![w] = "end"]
    /\ UNCHANGED <<row, queue, run, custody, bounds>>

\* The amount decides whether someone has to review the withdrawal first.
Approve(w) ==
    /\ handler[w] = "approve"
    /\ \/ /\ status' = [status EXCEPT ![w] = "APPROVED"]
          /\ handler' = [handler EXCEPT ![w] = "enqueue"]
       \/ /\ status' = [status EXCEPT ![w] = "PENDING_REVIEW"]
          /\ handler' = [handler EXCEPT ![w] = "end"]
    /\ UNCHANGED <<ref, posted, queue, run, custody, bounds>>

Enqueue(w) ==
    /\ handler[w] = "enqueue"
    /\ job' = [job EXCEPT ![w] = "waiting"]
    /\ handler' = [handler EXCEPT ![w] = "end"]
    /\ UNCHANGED <<row, posted, finalizer, run, custody, bounds>>

\* The API process dies in the handler; a client's retry changes nothing.
HandlerCrash(w) ==
    /\ handler[w] \in {"lock", "approve", "enqueue"} /\ Fault
    /\ handler' = [handler EXCEPT ![w] = "end"]
    /\ UNCHANGED <<row, posted, queue, run, custody>>

Requesting(w) == CreateRow(w) \/ LockFunds(w) \/ Approve(w) \/ Enqueue(w)
-------------------------------------------------------------------------------
(* processApprovedWithdrawal, run by k.                                    *)
Goto(k, state) == run' = [run EXCEPT ![k] = state]

JobEnds(k, w) == Goto(k, Free) /\ job' = [job EXCEPT ![w] = "over"]

\* Fault: the job does not look at the status of the row.
TakeJobAnyStatus(k, w) ==
    /\ run[k] = Free /\ job[w] = "waiting"
    /\ Goto(k, [at |-> "claim", w |-> w]) /\ job' = [job EXCEPT ![w] = "active"]
    /\ UNCHANGED <<row, posted, handler, finalizer, custody, bounds>>

\* The job is delivered and reads the row; any status but APPROVED is skipped.
TakeJob(k, w) ==
    /\ run[k] = Free /\ job[w] = "waiting"
    /\ \/ /\ status[w] = "APPROVED"
          /\ Goto(k, [at |-> "claim", w |-> w]) /\ job' = [job EXCEPT ![w] = "active"]
       \/ status[w] # "APPROVED" /\ JobEnds(k, w)
    /\ UNCHANGED <<row, posted, handler, finalizer, custody, bounds>>

\* status: PROCESSING, written without looking at the row again.
Claim(k) ==
    /\ run[k].at = "claim"
    /\ status' = [status EXCEPT ![run[k].w] = "PROCESSING"]
    /\ Goto(k, [at |-> "send", w |-> run[k].w])
    /\ UNCHANGED <<ref, posted, handler, queue, custody, bounds>>

\* Custody accepts the transfer, at once or subject to an approval.
Accept(w, state) == /\ sent' = [sent EXCEPT ![w] = @ + 1]
                    /\ chain' = [chain EXCEPT ![w] = state]

\* sendCustodyWithdrawal: accepted, with or without an id of the transfer in
\* the reply, rejected, or accepted with the reply lost.
Send(k) ==
    /\ run[k].at = "send"
    /\ LET w == run[k].w IN
       \/ /\ Accept(w, "pending")
          /\ \E id \in {"none", "transfer"} :
                Goto(k, [at |-> "record", w |-> w, ref |-> id])
          /\ UNCHANGED bounds
       \/ /\ Approvals /\ Accept(w, "approval")
          /\ Goto(k, [at |-> "record", w |-> w, ref |-> "request"])
          /\ UNCHANGED bounds
       \/ /\ UNCHANGED <<custody, bounds>>
          /\ Goto(k, [at |-> "fail", w |-> w])
       \/ /\ Fault /\ Accept(w, "pending")
          /\ Goto(k, [at |-> "fail", w |-> w])
    /\ UNCHANGED <<row, posted, handler, queue>>

\* status: SUBMITTED together with the ids of the reply, whichever it has.
Record(k) ==
    /\ run[k].at = "record"
    /\ LET w == run[k].w IN
       /\ status' = [status EXCEPT ![w] = "SUBMITTED"]
       /\ ref' = [ref EXCEPT ![w] = run[k].ref]
       /\ Goto(k, [at |-> "announce", w |-> w])
    /\ UNCHANGED <<posted, handler, queue, custody, bounds>>

\* Fault: no finalizer is scheduled after the submission.
AnnounceOnly(k) ==
    /\ run[k].at = "announce"
    /\ JobEnds(k, run[k].w)
    /\ UNCHANGED <<row, posted, handler, finalizer, custody, bounds>>

\* The SUBMITTED event and the first finalizer job.
Announce(k) ==
    /\ run[k].at = "announce"
    /\ finalizer' = [finalizer EXCEPT ![run[k].w] = TRUE]
    /\ JobEnds(k, run[k].w)
    /\ UNCHANGED <<row, posted, handler, custody, bounds>>

\* An await of the try block throws: the catch block runs.
Throw(k) ==
    /\ run[k].at \in {"record", "announce"} /\ Fault
    /\ Goto(k, [at |-> "fail", w |-> run[k].w])
    /\ UNCHANGED <<row, posted, handler, queue, custody>>

\* failWithdrawalAndUnlockFunds reads the row ...
ReadToFail(k) ==
    /\ run[k].at = "fail"
    /\ LET w == run[k].w IN
       IF status[w] = "COMPLETED" THEN JobEnds(k, w)
       ELSE Goto(k, [at |-> "mark", w |-> w]) /\ UNCHANGED job
    /\ UNCHANGED <<row, posted, handler, finalizer, custody, bounds>>

\* ... and marks it FAILED.
MarkFailed(k) ==
    /\ run[k].at = "mark"
    /\ status' = [status EXCEPT ![run[k].w] = "FAILED"]
    /\ Goto(k, [at |-> "unlock", w |-> run[k].w])
    /\ UNCHANGED <<ref, posted, handler, queue, custody, bounds>>

\* Fault: the unlock does not ask whether a custody transfer is known.
ReadToUnlockBlindly(k) ==
    /\ run[k].at = "unlock"
    /\ Goto(k, [at |-> "post", w |-> run[k].w])
    /\ UNCHANGED <<row, posted, handler, queue, custody, bounds>>

\* unlockWithdrawalFunds reads the row again and refuses (409) an unsafe one.
ReadToUnlock(k) ==
    /\ run[k].at = "unlock"
    /\ LET w == run[k].w IN
       IF status[w] \in Finalizable \cup {"COMPLETED"} \/ ref[w] = "transfer"
       THEN JobEnds(k, w)
       ELSE Goto(k, [at |-> "post", w |-> w]) /\ UNCHANGED job
    /\ UNCHANGED <<row, posted, handler, finalizer, custody, bounds>>

PostUnlock(k) ==
    /\ run[k].at = "post"
    /\ PostOnce(run[k].w, "unlock")
    /\ JobEnds(k, run[k].w)
    /\ UNCHANGED <<row, handler, finalizer, custody, bounds>>

Processing(k) == \/ Claim(k) \/ Send(k) \/ Record(k) \/ Announce(k)
                 \/ ReadToFail(k) \/ MarkFailed(k) \/ ReadToUnlock(k) \/ PostUnlock(k)
-------------------------------------------------------------------------------
(* finalizeSubmittedWithdrawal, run by k from the queue or for a webhook.  *)
ReadToFinalize(k, w) ==
    \/ status[w] \notin Finalizable /\ UNCHANGED run /\ finalizer' = [finalizer EXCEPT ![w] = FALSE]
    \/ /\ status[w] \in Finalizable /\ ref[w] = "request"      \* asks again in 30 s
       /\ UNCHANGED run /\ finalizer' = [finalizer EXCEPT ![w] = TRUE]
    \/ /\ status[w] \in Finalizable /\ ref[w] = "none"         \* throws: retried
       /\ UNCHANGED run                                       \* or given up
       /\ \E retried \in BOOLEAN : finalizer' = [finalizer EXCEPT ![w] = retried]
    \/ /\ status[w] \in Finalizable /\ ref[w] = "transfer"
       /\ Goto(k, [at |-> "fetch", w |-> w, old |-> status[w]])
       /\ finalizer' = [finalizer EXCEPT ![w] = FALSE]

TakeFinalizer(k, w) ==
    /\ run[k] = Free /\ finalizer[w]
    /\ ReadToFinalize(k, w)
    /\ UNCHANGED <<row, posted, handler, job, custody, bounds>>

\* The send webhook of BitGo names the transfer id; the row must know it.
Webhook(k, w) ==
    /\ run[k] = Free /\ ref[w] = "transfer" /\ status[w] \in Finalizable
    /\ Goto(k, [at |-> "fetch", w |-> w, old |-> status[w]])
    /\ UNCHANGED <<row, posted, handler, queue, custody, bounds>>

\* Fault: the provider's state is written as it is.
NextStatusVerbatim(w, old) == chain[w]

\* getNextWithdrawalStatusFromTransfer.
NextStatus(w, old) ==
    CASE chain[w] = "failed" -> "FAILED"
      [] chain[w] = "final" -> "COMPLETED"
      [] chain[w] = "confirmed" -> "CONFIRMED"
      [] chain[w] = "broadcast" -> "BROADCASTED"
      [] OTHER -> old

Fetch(k) ==
    /\ run[k].at = "fetch"
    /\ Goto(k, [at |-> "save", w |-> run[k].w, old |-> run[k].old,
                new |-> NextStatus(run[k].w, run[k].old)])
    /\ UNCHANGED <<row, posted, handler, queue, custody, bounds>>

\* The status is written only when it differs from the one read at the start.
Save(k) ==
    /\ run[k].at = "save"
    /\ LET w == run[k].w IN
       /\ status' = [status EXCEPT ![w] =
                        IF run[k].new # run[k].old THEN run[k].new ELSE @]
       /\ Goto(k, [at |-> "follow", w |-> w, now |-> status'[w]])
    /\ UNCHANGED <<ref, posted, handler, queue, custody, bounds>>

\* scheduleWithdrawalFinalizerIfNeeded.
Follow(k) ==
    /\ run[k].at = "follow"
    /\ finalizer' = [finalizer EXCEPT ![run[k].w] = @ \/ run[k].now \notin Terminal]
    /\ Goto(k, Free)
    /\ UNCHANGED <<row, posted, handler, job, custody, bounds>>

Finalizing(k) == Fetch(k) \/ Save(k) \/ Follow(k)
-------------------------------------------------------------------------------
InProcess == {"claim", "send", "record", "announce", "fail", "mark", "unlock", "post"}
InFinalize == {"fetch", "save", "follow"}

\* The worker dies, or an await outside the try throws: BullMQ retries the job.
RunnerCrash(k) ==
    /\ run[k] # Free /\ Fault
    /\ Goto(k, Free)
    /\ \/ /\ run[k].at \in InProcess
          /\ job' = [job EXCEPT ![run[k].w] = "waiting"] /\ UNCHANGED finalizer
       \/ /\ run[k].at \in InFinalize
          /\ finalizer' = [finalizer EXCEPT ![run[k].w] = TRUE] /\ UNCHANGED job
    /\ UNCHANGED <<row, posted, handler, custody>>

\* The lock of a running job expires: BullMQ delivers it to another runner.
Stall(w) ==
    /\ job[w] = "active" /\ stalls < MaxStalls
    /\ job' = [job EXCEPT ![w] = "waiting"] /\ stalls' = stalls + 1
    /\ UNCHANGED <<row, posted, handler, finalizer, run, custody, faults>>

\* The provider: approval given, broadcast, confirmed, final, or failed.
Advance(w) ==
    /\ chain' = [chain EXCEPT ![w] =
          CASE chain[w] = "approval" -> "pending"
            [] chain[w] = "pending" -> "broadcast"
            [] chain[w] = "broadcast" -> "confirmed"
            [] chain[w] = "confirmed" -> "final"
            [] OTHER -> @]
    /\ UNCHANGED <<row, posted, handler, queue, run, sent, bounds>>

TransferFails(w) ==
    /\ chain[w] \in {"approval", "pending", "broadcast"}
    /\ chain' = [chain EXCEPT ![w] = "failed"]
    /\ UNCHANGED <<row, posted, handler, queue, run, sent, bounds>>

Next ==
    \/ \E w \in Withdrawals : \/ Requesting(w) \/ HandlerCrash(w) \/ Stall(w)
                              \/ Advance(w) \/ TransferFails(w)
    \/ \E k \in Runners : \/ Processing(k) \/ Throw(k)
                          \/ Finalizing(k) \/ RunnerCrash(k)
                          \/ \E w \in Withdrawals : \/ TakeJob(k, w)
                                                    \/ TakeFinalizer(k, w)
                                                    \/ Webhook(k, w)

Spec == Init /\ [][Next]_vars

(* A handler and a job run on; a waiting job is eventually delivered to    *)
(* some free runner; the provider settles an accepted transfer.  Nothing   *)
(* makes a webhook arrive.                                                 *)
Fairness ==
    /\ \A w \in Withdrawals : /\ WF_vars(Requesting(w)) /\ WF_vars(Advance(w))
                              /\ SF_vars(\E k \in Runners : TakeJob(k, w))
                              /\ SF_vars(\E k \in Runners : TakeFinalizer(k, w))
    /\ \A k \in Runners : WF_vars(Processing(k)) /\ WF_vars(Finalizing(k))

FairSpec == Spec /\ Fairness
-------------------------------------------------------------------------------
\* Nothing is executing for w.
AtRest(w) == /\ handler[w] = "end" /\ job[w] \in {"none", "over"}
             /\ ~finalizer[w]
             /\ \A k \in Runners : run[k] = Free \/ run[k].w # w

(* "Only mark the withdrawal approved/reviewable after funds are           *)
(* successfully locked" (withdrawal.service.js:334): no withdrawal is      *)
(* waiting, sent or completed without its lock in the ledger.              *)
LockBeforeSend ==
    \A w \in Withdrawals :
        status[w] \notin {"NONE", "REQUESTED"} \/ sent[w] > 0 => "lock" \in posted[w]

(* Custody is asked at most once per withdrawal, whatever crashes, lost    *)
(* replies and retries of the job come between; and at most once more for  *)
(* each time BullMQ runs the job twice at the same time.                   *)
SentOnce == \A w \in Withdrawals : sent[w] <= 1 + stalls

(* While no job runs twice at the same time, funds go back to the user     *)
(* only for a locked withdrawal that is FAILED for good and has no         *)
(* transfer id (withdrawal.service.js:398-411).                            *)
UnlockIsSafe ==
    stalls = 0 =>
        \A w \in Withdrawals :
            "unlock" \in posted[w] => /\ "lock" \in posted[w]
                                      /\ status[w] = "FAILED"
                                      /\ ref[w] # "transfer"

(* What the ledger does agrees with what the row knows of the transfer,    *)
(* through crashes, lost replies and retries: locked before it is sent,    *)
(* sent once, and unlocked only where the row knows of no transfer         *)
(* (withdrawalProcessor.service.js:88, withdrawal.service.js:398).  What   *)
(* the row does not know is the subject of NoUnlockAfterSend.              *)
FundsFollowTransfer == LockBeforeSend /\ SentOnce /\ UnlockIsSafe

Rank(s) == CASE s = "NONE" -> 0 [] s = "REQUESTED" -> 1
             [] s \in {"PENDING_REVIEW", "APPROVED"} -> 2
             [] s = "PROCESSING" -> 3 [] s = "SUBMITTED" -> 4
             [] s = "BROADCASTED" -> 5 [] s = "CONFIRMED" -> 6
             [] s \in Terminal -> 7

\* k is about to write a status that it derived from an outdated read.
Overtaken(k, w) ==
    /\ run[k] # Free /\ run[k].w = w
    /\ \/ run[k].at = "save" /\ run[k].old # status[w]
       \/ run[k].at = "mark" /\ status[w] = "COMPLETED"

(* Across crashes, retries and lost replies the status only moves forward  *)
(* and a final status stays.  The one exception needs two runners: the     *)
(* slower of two finalizers, or a failure path that a finalizer overtook,  *)
(* writes what follows from its older read.                                *)
ForwardOnly ==
    [][\A w \in Withdrawals :
          /\ stalls = 0 /\ status'[w] # status[w]
          /\ ~\E k \in Runners : Overtaken(k, w)
          => Rank(status'[w]) > Rank(status[w])]_vars

(* Although finalizers of the queue and of webhooks overwrite each other's *)
(* status, an approved withdrawal ends COMPLETED or FAILED and stays so,   *)
(* unless something crashed on the way, a job ran twice, or custody took   *)
(* the transfer without returning its id: it asked for an approval first,  *)
(* or named nothing at all.                                                *)
Settles ==
    \A w \in Withdrawals :
        status[w] = "APPROVED" ~> \/ [](status[w] \in Terminal)
                                  \/ faults > 0 \/ stalls > 0
                                  \/ status[w] = "SUBMITTED" /\ ref[w] # "transfer"
-------------------------------------------------------------------------------
(* What the repository states and the code does not keep.                  *)

(* "Cannot unlock funds after custody transfer was created"                *)
(* (withdrawal.service.js:410).                                            *)
NoUnlockAfterSend ==
    \A w \in Withdrawals : "unlock" \in posted[w] => sent[w] = 0

(* "Withdrawal fails: user locked moves back to user available"            *)
(* (README:145).                                                           *)
FailedReturnsFunds ==
    \A w \in Withdrawals : AtRest(w) /\ status[w] = "FAILED" => "unlock" \in posted[w]
===============================================================================
