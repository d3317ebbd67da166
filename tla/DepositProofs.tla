----------------------------- MODULE DepositProofs -----------------------------
(***************************************************************************)
(* Proofs about Deposit for any webhook events, any number of workers,     *)
(* confirmations, attempts and faults.                                     *)
(***************************************************************************)
EXTENDS Deposit, TLAPS

\* What a runner may hold: a job of a webhook event, or a deposit that the
\* recovery scan is crediting.
JobRun == [at : Step, kind : {"process", "initial", "followUp"},
           e : Events, confs : 0..MinConfirmations, credited : BOOLEAN]
RecoveryRun == [at : {"credit", "lookup", "post", "close"}, kind : {"recover"}]

Processes(k, e) == run[k] # Free /\ run[k].kind = "process" /\ run[k].e = e

RunsTyped == \A k \in Runners : run[k] \in {Free} \cup JobRun \cup RecoveryRun

\* A processing job is run by one runner at a time, and not after its last
\* attempt.
JobsInHand ==
    \A e \in Events :
       /\ job[e] # "over" => attempts[e] < MaxAttempts
       /\ \A k \in Runners : Processes(k, e) => job[e] = "active"
       /\ \A k, l \in Runners : Processes(k, e) /\ Processes(l, e) => k = l

TypeInv == TypeOK /\ RunsTyped /\ JobsInHand

(* Moving a runner on keeps what every runner holds well-typed.            *)
LEMMA RunnerMoves ==
  ASSUME TypeInv, NEW k \in Runners,
         NEW r \in {Free} \cup JobRun \cup RecoveryRun,
         run' = [run EXCEPT ![k] = r]
  PROVE  /\ RunsTyped' /\ DOMAIN run' = Runners
         /\ \A l \in Runners : \/ run'[l] = Free
                               \/ run'[l] \in JobRun
                               \/ run'[l] \in [at : Step, kind : {"recover"}]
         /\ run'[k] = r
         /\ \A l \in Runners \ {k} : run'[l] = run[l]
<1>1. DOMAIN run = Runners
  BY DEF TypeInv, TypeOK
<1>2. \A l \in Runners : run'[l] = IF l = k THEN r ELSE run[l]
  BY <1>1
<1>3. RunsTyped'
  BY <1>2 DEF TypeInv, RunsTyped
<1>4. RecoveryRun \subseteq [at : Step, kind : {"recover"}]
  BY DEF RecoveryRun, Step
<1> QED BY <1>1, <1>2, <1>3, <1>4 DEF RunsTyped

\* What a runner that holds r may hold after its next step: the same job, or
\* nothing.
Continues(r) == {Free} \cup {q \in JobRun : r \in JobRun /\ q.kind = r.kind /\ q.e = r.e}
                       \cup {q \in RecoveryRun : r \in RecoveryRun}

GoesOn(k) == \E r \in Continues(run[k]) : run' = [run EXCEPT ![k] = r]

(* A job of a webhook event keeps its event and kind when its step, the    *)
(* confirmations it read or the outcome it found change.                   *)
LEMMA JobContinues ==
  ASSUME NEW r \in JobRun, NEW at \in Step
  PROVE  /\ [r EXCEPT !.at = at] \in Continues(r)
         /\ \A confs \in 0..MinConfirmations :
               [r EXCEPT !.at = at, !.confs = confs] \in Continues(r)
         /\ \A confs \in 0..MinConfirmations, credited \in BOOLEAN :
               [r EXCEPT !.at = at, !.confs = confs, !.credited = credited] \in Continues(r)
BY DEF Continues, JobRun

(* So may a recovery that moves on, whose record has no confirmations.     *)
LEMMA RecoveryContinues ==
  ASSUME NEW r \in RecoveryRun, NEW at \in {"credit", "lookup", "post", "close"}
  PROVE  [r EXCEPT !.at = at] \in Continues(r)
BY DEF Continues, RecoveryRun

(* The ways a runner is moved on.                                          *)
LEMMA Moves ==
  ASSUME TypeInv, NEW k \in Runners, run[k] # Free
  PROVE  /\ \A at \in Step : run[k] \in JobRun /\ Goto(k, at) => GoesOn(k)
         /\ \A at \in {"credit", "lookup", "post", "close"} : Goto(k, at) => GoesOn(k)
         /\ Frees(k) => GoesOn(k)
         /\ Throws(k) => GoesOn(k)
         /\ run[k] \in JobRun /\ Fetched(k) => GoesOn(k)
         /\ run[k] \in JobRun /\ ToCredit(k) => GoesOn(k)
         /\ \A status : Settled(k, status) => GoesOn(k)
<1> DEFINE r == run[k]
<1> USE BoundsAssumption
<1>1. r \in JobRun \/ r \in RecoveryRun
  BY DEF TypeInv, RunsTyped
<1>0. 0 \in 0..MinConfirmations
  OBVIOUS
<1>2. ASSUME NEW at \in Step, r \in JobRun, Goto(k, at) PROVE GoesOn(k)
  <2>1. run' = [run EXCEPT ![k] = [r EXCEPT !.at = at]]
    BY <1>2 DEF Goto
  <2> QED BY <1>2, <2>1, JobContinues DEF GoesOn
<1>3. ASSUME NEW at \in {"credit", "lookup", "post", "close"}, Goto(k, at) PROVE GoesOn(k)
  <2>1. run' = [run EXCEPT ![k] = [r EXCEPT !.at = at]]
    BY <1>3 DEF Goto
  <2>2. at \in Step
    BY DEF Step
  <2> QED BY <1>1, <2>1, <2>2, JobContinues, RecoveryContinues DEF GoesOn
<1>4. Frees(k) => GoesOn(k)
  BY DEF Frees, GoesOn, Continues
<1>5. Throws(k) => GoesOn(k)
  <2>1. CASE r \in JobRun
    <3>1. r.kind # "recover"
      BY <2>1 DEF JobRun
    <3>2. [r EXCEPT !.at = "catch", !.confs = 0, !.credited = FALSE] \in Continues(r)
      BY <2>1, <1>0, JobContinues DEF Step
    <3>3. Throws(k) => run' = [run EXCEPT ![k] = [r EXCEPT !.at = "catch", !.confs = 0,
                                                           !.credited = FALSE]]
      BY <3>1 DEF Throws
    <3> QED BY <3>2, <3>3 DEF GoesOn
  <2>2. CASE r \in RecoveryRun
    <3>1. Throws(k) => run' = [run EXCEPT ![k] = Free]
      BY <2>2 DEF Throws, RecoveryRun
    <3> QED BY <3>1 DEF GoesOn, Continues
  <2> QED BY <1>1, <2>1, <2>2
<1>6. ASSUME r \in JobRun, Fetched(k) PROVE GoesOn(k)
  <2>1. CASE transfer = Gone
    <3>1. run' = [run EXCEPT ![k] = [r EXCEPT !.at = "reject"]]
      BY <1>6, <2>1 DEF Fetched
    <3>2. [r EXCEPT !.at = "reject"] \in Continues(r)
      BY <1>6, JobContinues DEF Step
    <3> QED BY <3>1, <3>2 DEF GoesOn
  <2>2. CASE transfer # Gone
    <3>1. run' = [run EXCEPT ![k] = [r EXCEPT !.at = "find", !.confs = transfer]]
      BY <1>6, <2>2 DEF Fetched
    <3>2. transfer \in 0..MinConfirmations
      BY <2>2 DEF TypeInv, TypeOK
    <3>3. [r EXCEPT !.at = "find", !.confs = transfer] \in Continues(r)
      BY <1>6, <3>2, JobContinues DEF Step
    <3> QED BY <3>1, <3>3 DEF GoesOn
  <2> QED BY <2>1, <2>2
<1>7. ASSUME r \in JobRun, ToCredit(k) PROVE GoesOn(k)
  <2>1. run' = [run EXCEPT ![k] = [r EXCEPT !.at = "credit", !.confs = 0]]
    BY <1>7 DEF ToCredit
  <2>2. [r EXCEPT !.at = "credit", !.confs = 0] \in Continues(r)
    BY <1>7, <1>0, JobContinues DEF Step
  <2> QED BY <2>1, <2>2 DEF GoesOn
<1>8. ASSUME NEW status, Settled(k, status) PROVE GoesOn(k)
  <2>1. CASE r \in JobRun
    <3> DEFINE at == IF r.kind = "process" THEN "processed" ELSE "schedule"
    <3>1. r.kind # "recover" /\ at \in Step /\ (status = "CREDITED") \in BOOLEAN
      BY <2>1 DEF JobRun, Step
    <3>2. run' = [run EXCEPT ![k] = [r EXCEPT !.at = at, !.confs = 0,
                                              !.credited = (status = "CREDITED")]]
      BY <1>8, <3>1 DEF Settled
    <3>3. [r EXCEPT !.at = at, !.confs = 0, !.credited = (status = "CREDITED")] \in Continues(r)
      BY <2>1, <3>1, <1>0, JobContinues
    <3> QED BY <3>2, <3>3 DEF GoesOn
  <2>2. CASE r \in RecoveryRun
    <3>1. run' = [run EXCEPT ![k] = Free]
      BY <1>8, <2>2 DEF Settled, Frees, RecoveryRun
    <3> QED BY <3>1 DEF GoesOn, Continues
  <2> QED BY <1>1, <2>1, <2>2
<1> QED BY <1>2, <1>3, <1>4, <1>5, <1>6, <1>7, <1>8
(* Whatever a runner does next, it goes on with its job or gives it up.    *)
LEMMA WorkingGoesOn ==
  ASSUME TypeInv, NEW k \in Runners, Working(k) \/ Throw(k) \/ Crash(k)
  PROVE  run[k] # Free /\ GoesOn(k)
<1>1. run[k] # Free
  BY DEF Working, Throw, Crash, Free, Mark, Fetch, Reject, Find, Create, Read, Write,
         Credit, Lookup, Post, Close, Processed, Schedule, Catch
<1>2. run[k] \in JobRun \/ run[k] \in RecoveryRun
  BY <1>1 DEF TypeInv, RunsTyped
<1>3. run[k].at \notin {"credit", "lookup", "post", "close"} => run[k] \in JobRun
  BY <1>2 DEF RecoveryRun
<1>4. CASE Mark(k) \/ Fetch(k)
  BY <1>1, <1>3, <1>4, Moves DEF Mark, Fetch
<1>5. CASE Reject(k) \/ Throw(k)
  BY <1>1, <1>5, Moves DEF Reject, Throw
<1>6. CASE Find(k)
  <2>1. Goto(k, "create") \/ Goto(k, "read")
    BY <1>6 DEF Find
  <2> QED BY <1>1, <1>3, <1>6, <2>1, Moves DEF Find, Step
<1>7. CASE Create(k)
  BY <1>1, <1>3, <1>7, Moves DEF Create, Step
<1>8. CASE Read(k)
  <2>1. ToCredit(k) \/ Goto(k, "write") \/ \E status : Settled(k, status)
    BY <1>8 DEF Read
  <2> QED BY <1>1, <1>3, <1>8, <2>1, Moves DEF Read, Step
<1>9. CASE Write(k)
  <2>1. ToCredit(k) \/ \E status : Settled(k, status)
    BY <1>9 DEF Write
  <2> QED BY <1>1, <1>3, <1>9, <2>1, Moves DEF Write
<1>10. CASE Credit(k)
  BY <1>1, <1>10, Moves DEF Credit
<1>11. CASE Lookup(k)
  <2>1. Goto(k, "close") \/ Goto(k, "post")
    BY <1>11 DEF Lookup
  <2> QED BY <1>1, <2>1, Moves
<1>12. CASE Post(k) \/ Close(k)
  BY <1>1, <1>12, Moves DEF Post, Close
<1>13. CASE Processed(k)
  BY <1>1, <1>3, <1>13, Moves DEF Processed, Step
<1>14. CASE Schedule(k) \/ Catch(k) \/ Crash(k)
  BY <1>1, <1>14, Moves DEF Schedule, Catch, Crash
<1> QED BY <1>1, <1>4, <1>5, <1>6, <1>7, <1>8, <1>9, <1>10, <1>11, <1>12, <1>13, <1>14
        DEF Working

(* Going on takes no processing job that the runner did not have.          *)
LEMMA NoJobTaken ==
  ASSUME TypeInv, NEW k \in Runners, run[k] # Free, GoesOn(k)
  PROVE  /\ RunsTyped' /\ DOMAIN run' = Runners
         /\ \A l \in Runners, e \in Events : Processes(l, e)' => Processes(l, e)
<1>1. PICK r \in Continues(run[k]) : run' = [run EXCEPT ![k] = r]
  BY DEF GoesOn
<1>2. r \in {Free} \cup JobRun \cup RecoveryRun
  BY DEF Continues
<1>3. ASSUME NEW e \in Events, Processes(k, e)' PROVE Processes(k, e)
  <2>1. r # Free /\ r.kind = "process" /\ r.e = e
    BY <1>1, <1>2, <1>3, RunnerMoves DEF Processes
  <2>2. r.kind = run[k].kind /\ r.e = run[k].e
    <3>1. r \notin RecoveryRun
      BY <2>1 DEF RecoveryRun
    <3> QED BY <1>1, <2>1, <3>1 DEF Continues
  <2> QED BY <2>1, <2>2 DEF Processes
<1>4. RunsTyped' /\ DOMAIN run' = Runners /\ \A l \in Runners \ {k} : run'[l] = run[l]
  BY <1>1, <1>2, RunnerMoves
<1> QED BY <1>3, <1>4 DEF Processes

(* A runner is free, processes an event or recovers: the fields it has,    *)
(* all together.                                                           *)
LEMMA RunsAreTyped ==
  ASSUME RunsTyped
  PROVE  \A k \in Runners :
            \/ run[k] = Free
            \/ run[k] \in [at : Step, kind : {"process", "initial", "followUp"},
                           e : Events, confs : 0..MinConfirmations, credited : BOOLEAN]
            \/ run[k] \in [at : Step, kind : {"recover"}]
BY DEF RunsTyped, JobRun, RecoveryRun, Step

(* The jobs that a step of k leaves waiting or gives up stay accounted     *)
(* for.                                                                    *)
LEMMA JobsStayInHand ==
  ASSUME TypeInv, NEW k \in Runners, Working(k) \/ Throw(k) \/ Crash(k)
  PROVE  /\ job' \in [Events -> JobState] /\ initial' \in [Events -> JobState]
         /\ attempts' \in [Events -> 0..MaxAttempts]
         /\ followUp' \in [Events -> BOOLEAN]
         /\ JobsInHand'
<1> USE BoundsAssumption
<1>1. /\ run[k] # Free
      /\ \A l \in Runners, e \in Events : Processes(l, e)' => Processes(l, e)
  BY WorkingGoesOn, NoJobTaken
<1>2. run[k].at \notin {"credit", "lookup", "post", "close"} => run[k] \in JobRun
  BY <1>1 DEF TypeInv, RunsTyped, RecoveryRun
<1>3. CASE UNCHANGED queue
  BY <1>1, <1>3 DEF queue, TypeInv, TypeOK, JobsInHand
<1>4. ASSUME NEW e \in Events, NEW state \in {"waiting", "over"},
             Processes(k, e), run'[k] = Free, job' = [job EXCEPT ![e] = state],
             attempts' \in [Events -> 0..MaxAttempts],
             \A c \in Events \ {e} : attempts'[c] = attempts[c],
             state = "waiting" => attempts'[e] < MaxAttempts
      PROVE  job' \in [Events -> JobState] /\ JobsInHand'
  <2>1. \A l \in Runners, c \in Events : Processes(l, c)' => c # e
    BY <1>1, <1>4 DEF Processes, TypeInv, JobsInHand
  <2> QED BY <1>1, <1>4, <2>1 DEF TypeInv, TypeOK, JobsInHand, JobState
<1>5. CASE Schedule(k)
  <2>1. run[k] \in JobRun /\ run'[k] = Free
    BY <1>2, <1>5 DEF Schedule, Frees, TypeInv, TypeOK
  <2>2. /\ initial' \in [Events -> JobState] /\ followUp' \in [Events -> BOOLEAN]
        /\ attempts' = attempts
    BY <1>5, <2>1 DEF Schedule, JobOver, TypeInv, TypeOK, JobState, JobRun
  <2>3. CASE run[k].kind = "process"
    <3>1. job' = [job EXCEPT ![run[k].e] = "over"] /\ Processes(k, run[k].e)
      BY <1>1, <1>5, <2>3 DEF Schedule, JobOver, Processes
    <3> QED BY <1>4, <2>1, <2>2, <3>1 DEF JobRun, TypeInv, TypeOK
  <2>4. CASE run[k].kind # "process"
    BY <1>1, <1>5, <2>2, <2>4 DEF Schedule, JobOver, TypeInv, TypeOK, JobsInHand
  <2> QED BY <2>2, <2>3, <2>4 DEF TypeInv, TypeOK
<1>6. CASE Catch(k)
  <2>1. run[k] \in JobRun /\ run'[k] = Free
    BY <1>2, <1>6 DEF Catch, Frees, TypeInv, TypeOK
  <2> DEFINE e == run[k].e
  <2>2. e \in Events
    BY <2>1 DEF JobRun
  <2>3. CASE run[k].kind = "process"
    <3>1. AttemptFails(e) /\ UNCHANGED <<initial, followUp>>
      BY <1>6, <2>3 DEF Catch
    <3>2. Processes(k, e) /\ attempts[e] < MaxAttempts
      BY <1>1, <2>2, <2>3 DEF Processes, TypeInv, JobsInHand
    <3>3. /\ attempts' \in [Events -> 0..MaxAttempts]
          /\ \A c \in Events \ {e} : attempts'[c] = attempts[c]
      BY <2>2, <3>1, <3>2 DEF AttemptFails, TypeInv, TypeOK
    <3> DEFINE state == IF attempts'[e] = MaxAttempts THEN "over" ELSE "waiting"
    <3>4. /\ state \in {"waiting", "over"} /\ job' = [job EXCEPT ![e] = state]
          /\ state = "waiting" => attempts'[e] < MaxAttempts
      BY <2>2, <3>1, <3>3 DEF AttemptFails
    <3>5. job' \in [Events -> JobState] /\ JobsInHand'
      BY <1>4, <2>1, <2>2, <3>2, <3>3, <3>4
    <3> QED BY <3>1, <3>3, <3>5 DEF TypeInv, TypeOK
  <2>4. CASE run[k].kind # "process"
    <3>1. /\ UNCHANGED <<job, attempts>>
          /\ initial' = initial \/ initial' = [initial EXCEPT ![e] = "waiting"]
          /\ followUp' = followUp \/ followUp' = [followUp EXCEPT ![e] = TRUE]
      BY <1>6, <2>4 DEF Catch, Again
    <3>2. JobsInHand'
      BY <1>1, <3>1 DEF TypeInv, JobsInHand
    <3> QED BY <2>2, <3>1, <3>2 DEF TypeInv, TypeOK, JobState
  <2> QED BY <2>3, <2>4
<1>7. CASE Crash(k)
  <2>1. run'[k] = Free /\ attempts' = attempts
    BY <1>7 DEF Crash, Frees, TypeInv, TypeOK
  <2>2. CASE run[k] \in RecoveryRun
    <3>1. UNCHANGED queue
      BY <1>7, <2>2 DEF Crash, Again, RecoveryRun, queue
    <3> QED BY <1>3, <3>1
  <2>3. CASE run[k] \in JobRun
    <3> DEFINE e == run[k].e
    <3>1. e \in Events
      BY <2>3 DEF JobRun
    <3>2. initial' \in [Events -> JobState] /\ followUp' \in [Events -> BOOLEAN]
      BY <1>7, <3>1 DEF Crash, Again, TypeInv, TypeOK, JobState
    <3>3. CASE run[k].kind = "process"
      <4>1. job' = [job EXCEPT ![e] = "waiting"] /\ Processes(k, e)
        BY <1>1, <1>7, <3>3 DEF Crash, Again, Processes
      <4>2. attempts[e] < MaxAttempts
        BY <3>1, <4>1 DEF TypeInv, JobsInHand
      <4> QED BY <1>4, <2>1, <3>1, <3>2, <4>1, <4>2 DEF TypeInv, TypeOK
    <3>4. CASE run[k].kind # "process"
      BY <1>1, <1>7, <2>1, <3>2, <3>4 DEF Crash, Again, TypeInv, TypeOK, JobsInHand
    <3> QED BY <3>3, <3>4
  <2> QED BY <1>1, <2>2, <2>3 DEF TypeInv, RunsTyped
<1> QED BY <1>3, <1>5, <1>6, <1>7
        DEF Working, Throw, Mark, Fetch, Reject, Find, Create, Read, Write,
            Credit, Lookup, Post, Close, Processed
(* A step of a runner keeps the types of what the deposit, its events and  *)
(* the ledger hold.                                                        *)
LEMMA RowsStayTyped ==
  ASSUME TypeInv, NEW k \in Runners, Working(k) \/ Throw(k) \/ Crash(k)
  PROVE  /\ transfer' = transfer /\ inbox' = inbox
         /\ event' \in [Events -> {"NONE", "RECEIVED", "PROCESSING", "PROCESSED",
                                   "FAILED", "REJECTED"}]
         /\ row' = NoRow \/ row' \in [status : DepositStatus, confs : 0..MinConfirmations]
         /\ credits' \in Nat /\ faults' \in 0..MaxFaults
<1> USE BoundsAssumption
<1>1. run[k] # Free /\ run[k] \in JobRun \cup RecoveryRun
  BY WorkingGoesOn DEF TypeInv, RunsTyped
<1>2. run[k].at \notin {"credit", "lookup", "post", "close"}
         => run[k].confs \in 0..MinConfirmations
  BY <1>1 DEF JobRun, RecoveryRun
<1>3. \A confs \in 0..MinConfirmations : StatusOf(confs) \in DepositStatus
  BY DEF StatusOf, DepositStatus
<1>4. CASE Create(k) \/ Write(k)
  <2>1. row' = row \/ row' = [status |-> StatusOf(run[k].confs), confs |-> run[k].confs]
    BY <1>4 DEF Create, Write
  <2> QED BY <1>2, <1>3, <1>4, <2>1 DEF Create, Write, TypeInv, TypeOK
<1>5. CASE Close(k)
  BY <1>5 DEF Close, TypeInv, TypeOK, DepositStatus, NoRow
<1>6. CASE Post(k)
  BY <1>6 DEF Post, TypeInv, TypeOK
<1>7. CASE Mark(k) \/ Reject(k) \/ Processed(k)
  BY <1>7 DEF Mark, Reject, Processed, book, TypeInv, TypeOK
<1>8. CASE Catch(k)
  BY <1>8 DEF Catch, book, TypeInv, TypeOK
<1>9. CASE Fetch(k) \/ Find(k) \/ Read(k) \/ Credit(k) \/ Lookup(k) \/ Schedule(k)
  BY <1>9 DEF Fetch, Find, Read, Credit, Lookup, Schedule, book, TypeInv, TypeOK
<1>10. CASE Throw(k) \/ Crash(k)
  BY <1>10 DEF Throw, Crash, Fault, book, TypeInv, TypeOK
<1> QED BY <1>4, <1>5, <1>6, <1>7, <1>8, <1>9, <1>10 DEF Working

(* Types, shapes of the running jobs, and one runner per processing job.   *)
THEOREM DepositTypeInvariant == Spec => []TypeInv
<1> USE BoundsAssumption
<1>1. Init => TypeInv
  BY DEF Init, TypeInv, TypeOK, RunsTyped, JobsInHand, Processes, JobState
<1>2. TypeInv /\ [Next]_vars => TypeInv'
  <2> SUFFICES ASSUME TypeInv, [Next]_vars PROVE TypeInv'
    OBVIOUS
  <2>1. ASSUME NEW e \in Events, Receive(e) \/ Enqueue(e) \/ HandlerCrash(e)
        PROVE  TypeInv'
    <3>1. UNCHANGED <<transfer, attempts, initial, followUp, book, run>>
      BY <2>1 DEF Receive, Enqueue, HandlerCrash, queue
    <3>2. job' = job \/ job' = [job EXCEPT ![e] = IF @ = "none" THEN "waiting" ELSE @]
      BY <2>1 DEF Receive, Enqueue, HandlerCrash, queue, Add
    <3>3. job' \in [Events -> JobState] /\ JobsInHand'
      BY <3>1, <3>2 DEF TypeInv, TypeOK, JobState, JobsInHand, Processes
    <3>4. /\ inbox' \in [Events -> {"idle", "enqueue"}] /\ faults' \in 0..MaxFaults
          /\ event' \in [Events -> {"NONE", "RECEIVED", "PROCESSING", "PROCESSED",
                                    "FAILED", "REJECTED"}]
      BY <2>1 DEF Receive, Enqueue, HandlerCrash, Fault, TypeInv, TypeOK
    <3> QED BY <3>1, <3>3, <3>4 DEF TypeInv, TypeOK, RunsTyped, book
  <2>2. ASSUME NEW e \in Events, NEW k \in Workers,
               TakeJob(k, e) \/ TakeInitial(k, e) \/ TakeFollowUp(k, e)
        PROVE  TypeInv'
    <3>1. k \in Runners /\ run[k] = Free
      BY <2>2 DEF Runners, TakeJob, TakeInitial, TakeFollowUp
    <3>2. ASSUME UNCHANGED run, UNCHANGED <<transfer, event, inbox, book, faults>>,
                 job' \in [Events -> JobState], initial' \in [Events -> JobState],
                 attempts' \in [Events -> 0..MaxAttempts],
                 followUp' \in [Events -> BOOLEAN], JobsInHand'
          PROVE  TypeInv'
      BY <3>2 DEF TypeInv, TypeOK, RunsTyped, book
    <3>3. ASSUME NEW at \in Step, NEW kind \in {"process", "initial", "followUp"},
                 Start(k, at, kind, e), UNCHANGED <<transfer, event, inbox, book, faults>>,
                 job' \in [Events -> JobState], initial' \in [Events -> JobState],
                 attempts' = attempts, followUp' \in [Events -> BOOLEAN],
                 \/ kind = "process" /\ job[e] = "waiting" /\ job' = [job EXCEPT ![e] = "active"]
                 \/ kind # "process" /\ job' = job
          PROVE  TypeInv'
      <4> DEFINE r == [at |-> at, kind |-> kind, e |-> e, confs |-> 0, credited |-> FALSE]
      <4>1. r \in JobRun /\ run' = [run EXCEPT ![k] = r]
        BY <3>3 DEF Start, JobRun
      <4>2. /\ RunsTyped' /\ DOMAIN run' = Runners /\ run'[k] = r
            /\ \A l \in Runners \ {k} : run'[l] = run[l]
        BY <3>1, <4>1, RunnerMoves
      <4>3. JobsInHand'
        <5>1. \A l \in Runners \ {k}, c \in Events : Processes(l, c)' <=> Processes(l, c)
          BY <4>2 DEF Processes
        <5>2. \A c \in Events : Processes(k, c)' => c = e /\ kind = "process"
          BY <4>2 DEF Processes
        <5>3. kind = "process" => \A l \in Runners : ~Processes(l, e)
          BY <3>3 DEF TypeInv, JobsInHand
        <5> QED BY <3>1, <3>3, <5>1, <5>2, <5>3 DEF TypeInv, TypeOK, JobsInHand
      <4> QED BY <3>3, <4>2, <4>3, RunsAreTyped DEF TypeInv, TypeOK, book, RunsTyped, JobRun,
                                                   RecoveryRun, Step
    <3>4. CASE TakeJob(k, e)
      <4>1. job[e] = "waiting" /\ attempts[e] < MaxAttempts
        BY <3>4 DEF TakeJob, TypeInv, JobsInHand
      <4>2. CASE /\ Start(k, "mark", "process", e)
                 /\ job' = [job EXCEPT ![e] = "active"] /\ UNCHANGED attempts
        BY <3>3, <3>4, <4>1, <4>2 DEF TakeJob, TypeInv, TypeOK, JobState, Step
      <4>3. CASE AttemptFails(e) /\ UNCHANGED run
        <5>1. /\ job' \in [Events -> JobState] /\ attempts' \in [Events -> 0..MaxAttempts]
              /\ JobsInHand'
          BY <4>1, <4>3 DEF AttemptFails, TypeInv, TypeOK, JobState, JobsInHand, Processes
        <5> QED BY <3>2, <3>4, <4>3, <5>1 DEF TakeJob, TypeInv, TypeOK
      <4> QED BY <3>4, <4>2, <4>3 DEF TakeJob
    <3>5. CASE TakeInitial(k, e)
      <4>1. initial' \in [Events -> JobState]
        BY <3>5 DEF TakeInitial, TypeInv, TypeOK, JobState
      <4>2. CASE Start(k, "fetch", "initial", e)
        BY <3>3, <3>5, <4>1, <4>2 DEF TakeInitial, TypeInv, TypeOK, Step
      <4>3. CASE UNCHANGED run
        BY <3>2, <3>5, <4>1, <4>3 DEF TakeInitial, TypeInv, TypeOK, JobsInHand, Processes
      <4> QED BY <3>5, <4>2, <4>3 DEF TakeInitial
    <3>6. CASE TakeFollowUp(k, e)
      <4>1. followUp' \in [Events -> BOOLEAN]
        BY <3>6 DEF TakeFollowUp, TypeInv, TypeOK
      <4>2. CASE Start(k, "fetch", "followUp", e)
        BY <3>3, <3>6, <4>1, <4>2 DEF TakeFollowUp, TypeInv, TypeOK, Step
      <4>3. CASE UNCHANGED run
        BY <3>2, <3>6, <4>1, <4>3 DEF TakeFollowUp, TypeInv, TypeOK, JobsInHand, Processes
      <4> QED BY <3>6, <4>2, <4>3 DEF TakeFollowUp
    <3> QED BY <2>2, <3>4, <3>5, <3>6
  <2>3. ASSUME NEW k \in Runners, Working(k) \/ Throw(k) \/ Crash(k) PROVE TypeInv'
    <3>1. RunsTyped' /\ DOMAIN run' = Runners
      BY <2>3, WorkingGoesOn, NoJobTaken
    <3> QED BY <2>3, <3>1, JobsStayInHand, RowsStayTyped
            DEF TypeInv, TypeOK, RunsTyped, JobRun, RecoveryRun, Step
  <2>4. CASE Recover
    <3>1. CASE run' = [run EXCEPT !["recovery"] = [at |-> "credit", kind |-> "recover"]]
      <4>1. /\ RunsTyped' /\ DOMAIN run' = Runners
            /\ \A l \in Runners, c \in Events : Processes(l, c)' => Processes(l, c)
        <5>1. "recovery" \in Runners /\ [at |-> "credit", kind |-> "recover"] \in RecoveryRun
          BY DEF Runners, RecoveryRun
        <5> QED BY <3>1, <5>1, RunnerMoves DEF Processes
      <4>2. UNCHANGED <<job, attempts, followUp>>
        BY <2>4 DEF Recover
      <4>3. JobsInHand'
        BY <4>1, <4>2 DEF TypeInv, JobsInHand
      <4>4. initial' \in [Events -> JobState]
        BY <2>4 DEF Recover, Add, TypeInv, TypeOK, JobState
      <4> QED BY <2>4, <4>1, <4>3, <4>4
              DEF Recover, book, TypeInv, TypeOK, RunsTyped, JobRun, RecoveryRun, Step
    <3>2. CASE UNCHANGED run
      <4>1. initial' \in [Events -> JobState]
        BY <2>4 DEF Recover, Add, TypeInv, TypeOK, JobState
      <4> QED BY <2>4, <3>2, <4>1
              DEF Recover, book, TypeInv, TypeOK, RunsTyped, JobsInHand, Processes
    <3> QED BY <2>4, <3>1, <3>2 DEF Recover
  <2>5. CASE Confirm \/ Drop
    BY <2>5 DEF Confirm, Drop, queue, book, Gone, TypeInv, TypeOK, RunsTyped, JobsInHand, Processes
  <2>6. CASE UNCHANGED vars
    BY <2>6 DEF vars, queue, book, TypeInv, TypeOK, RunsTyped, JobsInHand, Processes
  <2> QED BY <2>1, <2>2, <2>3, <2>4, <2>5, <2>6 DEF Next
<1> QED BY <1>1, <1>2, PTL DEF Spec

(* The rows, jobs and runners of a deposit keep their types in every       *)
(* reachable state.                                                        *)
THEOREM DepositTypeCorrect == Spec => []TypeOK
<1>1. TypeInv => TypeOK
  BY DEF TypeInv
<1> QED BY <1>1, DepositTypeInvariant, PTL
-------------------------------------------------------------------------------
\* The row and the ledger agree with the chain.
RowIsCurrent ==
    /\ row.status = "CONFIRMED" => transfer = MinConfirmations
    /\ row.status = "CREDITED" => credits > 0
    /\ credits <= 1
    /\ credits > 0 => transfer = MinConfirmations

\* What a runner has read is true still: enough confirmations stay enough, and
\* a row or a posting it has seen does not go away.
ReadIsCurrent(k) ==
    /\ run[k].at \in {"find", "create", "read", "write"} /\ run[k].confs = MinConfirmations
          => transfer = MinConfirmations
    /\ run[k].at \in {"lookup", "post", "close"} => transfer = MinConfirmations
    /\ run[k].at = "close" => credits > 0
    /\ run[k].at \in {"read", "write", "credit", "lookup", "post", "close", "processed"}
          => row # NoRow

ReadsAreCurrent == \A k \in Runners : ReadIsCurrent(k)

DepositInv == TypeInv /\ RowIsCurrent /\ ReadsAreCurrent /\ ProcessedIsRecorded

(* Only the confirmations that the asset requires make a deposit CONFIRMED *)
(* (getDepositStatusFromConfirmations).                                    *)
LEMMA ConfirmedIsFinal ==
  ASSUME NEW confs \in 0..MinConfirmations
  PROVE  /\ StatusOf(confs) = "CONFIRMED" => confs = MinConfirmations
         /\ StatusOf(confs) \notin {"CREDITED", "NONE"}
BY BoundsAssumption DEF StatusOf

(* A step of k leaves the other runners alone, and neither the row nor a   *)
(* posting goes away.                                                      *)
LEMMA RunnersAreApart ==
  ASSUME TypeInv, NEW k \in Runners, Working(k) \/ Throw(k) \/ Crash(k)
  PROVE  /\ \A l \in Runners \ {k} : run'[l] = run[l]
         /\ transfer' = transfer
         /\ row # NoRow => row' # NoRow
         /\ credits' >= credits
<1>1. \A l \in Runners \ {k} : run'[l] = run[l]
  <2>1. PICK r \in Continues(run[k]) : run' = [run EXCEPT ![k] = r]
    BY WorkingGoesOn DEF GoesOn
  <2> QED BY <2>1, RunnerMoves DEF Continues
<1>2. row # NoRow => row' # NoRow
  <2>1. run[k] \in JobRun \cup RecoveryRun
    BY WorkingGoesOn DEF TypeInv, RunsTyped
  <2>2. CASE Create(k) \/ Write(k)
    <3>1. run[k].confs \in 0..MinConfirmations
      BY <2>1, <2>2 DEF Create, Write, JobRun, RecoveryRun
    <3> QED BY <2>2, <3>1, ConfirmedIsFinal DEF Create, Write, NoRow
  <2>3. CASE Close(k)
    BY <2>3 DEF Close, NoRow, TypeInv, TypeOK, DepositStatus
  <2> QED BY <2>2, <2>3 DEF Working, Throw, Crash, Mark, Fetch, Reject, Find, Read, Credit,
              Lookup, Post, Processed, Schedule, Catch, book
<1>3. credits' >= credits
  BY DEF Working, Throw, Crash, Mark, Fetch, Reject, Find, Create, Read, Write, Credit,
         Lookup, Post, Close, Processed, Schedule, Catch, book, TypeInv, TypeOK
<1> QED BY <1>1, <1>2, <1>3, RowsStayTyped
(* A runner's step keeps what the row claims and what the runner has read  *)
(* true.                                                                   *)
LEMMA RunnerStaysCurrent ==
  ASSUME DepositInv, TypeInv', NEW k \in Runners, Working(k) \/ Throw(k) \/ Crash(k)
  PROVE  RowIsCurrent' /\ ReadIsCurrent(k)' /\ ProcessedIsRecorded'
<1> USE BoundsAssumption DEF DepositInv
<1>1. /\ run[k] # Free /\ run[k] \in JobRun \cup RecoveryRun /\ DOMAIN run = Runners
      /\ ReadIsCurrent(k) /\ transfer' = transfer
  BY WorkingGoesOn, RunnersAreApart DEF TypeInv, RunsTyped, TypeOK, ReadsAreCurrent
<1>throws. Throws(k) => run'[k].at \in {"free", "catch"}
  <2>1. CASE run[k] \in JobRun
    <3>1. run[k].kind # "recover" /\ {"at", "confs", "credited"} \subseteq DOMAIN run[k]
      BY <2>1 DEF JobRun
    <3> QED BY <1>1, <3>1 DEF Throws
  <2>2. CASE run[k] \in RecoveryRun
    BY <1>1, <2>2 DEF Throws, Free, RecoveryRun
  <2> QED BY <1>1, <2>1, <2>2
<1>2. CASE Mark(k) \/ Fetch(k)
  <2>1. run[k] \in JobRun
    BY <1>1, <1>2 DEF Mark, Fetch, RecoveryRun
  <2>2. run'[k].at = "reject" \/ (run'[k].at = "find" /\ run'[k].confs = transfer)
    <3>1. {"at", "confs"} \subseteq DOMAIN run[k]
      BY <2>1 DEF JobRun
    <3> QED BY <1>1, <1>2, <3>1 DEF Mark, Fetch, Fetched
  <2>3. RowIsCurrent' /\ ReadIsCurrent(k)'
    BY <1>1, <1>2, <2>2 DEF Mark, Fetch, book, RowIsCurrent, ReadIsCurrent
  <2> QED BY <1>2, <2>3 DEF Mark, Fetch, book, ProcessedIsRecorded, TypeInv, TypeOK
<1>3. CASE Reject(k) \/ Throw(k) \/ Crash(k) \/ Schedule(k) \/ Catch(k)
  <2>1. run'[k].at \in {"free", "catch"}
    <3>1. CASE Frees(k)
      BY <1>1, <3>1 DEF Frees, Free
    <3> QED BY <1>3, <1>throws, <3>1 DEF Reject, Throw, Crash, Schedule, Catch
  <2>2. RowIsCurrent' /\ ReadIsCurrent(k)'
    BY <1>1, <1>3, <2>1 DEF Reject, Throw, Crash, Schedule, Catch, book, RowIsCurrent,
                            ReadIsCurrent
  <2>3. row' = row /\ \A e \in Events : event'[e] = "PROCESSED" => event[e] = "PROCESSED"
    <3>1. CASE Reject(k)
      BY <3>1 DEF Reject, book, TypeInv, TypeOK
    <3>2. CASE Catch(k)
      BY <3>2 DEF Catch, book, TypeInv, TypeOK
    <3> QED BY <1>3, <3>1, <3>2 DEF Throw, Crash, Schedule, book
  <2> QED BY <2>2, <2>3 DEF ProcessedIsRecorded
<1>4. CASE Find(k)
  <2>1. run[k] \in JobRun
    BY <1>1, <1>4 DEF Find, RecoveryRun
  <2>2. /\ run'[k].confs = run[k].confs
        /\ run'[k].at = IF row = NoRow THEN "create" ELSE "read"
    BY <1>1, <1>4, <2>1 DEF Find, Goto, JobRun
  <2> QED BY <1>1, <1>4, <2>2 DEF Find, book, RowIsCurrent, ReadIsCurrent, ProcessedIsRecorded
<1>5. CASE Create(k)
  <2>1. run[k] \in JobRun /\ run[k].confs \in 0..MinConfirmations
    BY <1>1, <1>5 DEF Create, RecoveryRun, JobRun
  <2>2. CASE /\ row = NoRow /\ Goto(k, "read")
             /\ row' = [status |-> StatusOf(run[k].confs), confs |-> run[k].confs]
    <3>1. run'[k].at = "read" /\ run'[k].confs = run[k].confs
      BY <1>1, <2>1, <2>2 DEF Goto, JobRun
    <3>2. row'.status # "CREDITED" /\ row' # NoRow
          /\ (row'.status = "CONFIRMED" => transfer = MinConfirmations)
      BY <1>1, <1>5, <2>1, <2>2, ConfirmedIsFinal DEF Create, ReadIsCurrent, NoRow
    <3> QED BY <1>1, <1>5, <2>1, <2>2, <3>1, <3>2
            DEF Create, RowIsCurrent, ReadIsCurrent, ProcessedIsRecorded
  <2>3. CASE row # NoRow /\ UNCHANGED row /\ Throws(k)
    <3>1. run'[k].at \in {"free", "catch"}
      BY <1>throws, <2>3
    <3> QED BY <1>1, <1>5, <2>3, <3>1
            DEF Create, RowIsCurrent, ReadIsCurrent, ProcessedIsRecorded
  <2> QED BY <1>5, <2>2, <2>3 DEF Create
<1>6. ASSUME NEW status, Settled(k, status) PROVE run'[k].at \in {"free", "processed", "schedule"}
  BY <1>1, <1>6 DEF Settled, Frees, Free, JobRun, RecoveryRun
<1>7. CASE Read(k)
  <2>1. row # NoRow
    BY <1>1, <1>7 DEF Read, ReadIsCurrent
  <2>2. \/ run'[k].at \in {"free", "processed", "schedule", "credit"}
        \/ run'[k].at = "write" /\ run'[k].confs = run[k].confs
    <3>1. run[k] \in JobRun
      BY <1>1, <1>7 DEF Read, RecoveryRun
    <3>2. ToCredit(k) => run'[k].at = "credit"
      BY <1>1, <3>1 DEF ToCredit, JobRun
    <3>3. Goto(k, "write") => run'[k].at = "write" /\ run'[k].confs = run[k].confs
      BY <1>1, <3>1 DEF Goto, JobRun
    <3> QED BY <1>6, <1>7, <3>2, <3>3 DEF Read
  <2> QED BY <1>1, <1>7, <2>1, <2>2 DEF Read, book, RowIsCurrent, ReadIsCurrent,
                                       ProcessedIsRecorded
<1>8. CASE Write(k)
  <2>1. run[k] \in JobRun /\ run[k].confs \in 0..MinConfirmations
    BY <1>1, <1>8 DEF Write, RecoveryRun, JobRun
  <2>2. row'.status # "CREDITED" /\ row' # NoRow
        /\ (row'.status = "CONFIRMED" => transfer = MinConfirmations)
    BY <1>1, <1>8, <2>1, ConfirmedIsFinal DEF Write, ReadIsCurrent, NoRow
  <2>3. run'[k].at \in {"free", "processed", "schedule", "credit"}
    <3>1. ToCredit(k) => run'[k].at = "credit"
      BY <1>1, <2>1 DEF ToCredit, JobRun
    <3> QED BY <1>6, <1>8, <3>1 DEF Write
  <2> QED BY <1>1, <1>8, <2>2, <2>3 DEF Write, RowIsCurrent, ReadIsCurrent, ProcessedIsRecorded
<1>9. CASE Credit(k)
  <2>1. \/ run'[k].at \in {"free", "processed", "schedule", "catch"}
        \/ run'[k].at = "lookup" /\ row.status = "CONFIRMED"
    <3>1. Goto(k, "lookup") => run'[k].at = "lookup"
      BY <1>1 DEF Goto, JobRun, RecoveryRun
    <3> QED BY <1>6, <1>9, <1>throws, <3>1 DEF Credit
  <2> QED BY <1>1, <1>9, <2>1 DEF Credit, book, RowIsCurrent, ReadIsCurrent,
                                 ProcessedIsRecorded
<1>10. CASE Lookup(k)
  <2>1. run'[k].at = IF credits > 0 THEN "close" ELSE "post"
    BY <1>1, <1>10 DEF Lookup, Goto, JobRun, RecoveryRun
  <2> QED BY <1>1, <1>10, <2>1 DEF Lookup, book, RowIsCurrent, ReadIsCurrent,
                                  ProcessedIsRecorded
<1>11. CASE Post(k)
  <2>1. \/ credits' = 1 /\ run'[k].at = "close"
        \/ credits' = credits /\ run'[k].at \in {"free", "catch"}
    <3>1. Goto(k, "close") => run'[k].at = "close"
      BY <1>1 DEF Goto, JobRun, RecoveryRun
    <3> QED BY <1>11, <1>throws, <3>1 DEF Post
  <2> QED BY <1>1, <1>11, <2>1 DEF Post, RowIsCurrent, ReadIsCurrent, ProcessedIsRecorded
<1>12. CASE Close(k)
  <2>1. credits > 0 /\ row # NoRow
    BY <1>1, <1>12 DEF Close, ReadIsCurrent
  <2>2. row' # NoRow /\ row'.status = "CREDITED"
    BY <1>12, <2>1 DEF Close, NoRow, TypeInv, TypeOK
  <2>3. run'[k].at \in {"free", "processed", "schedule"}
    BY <1>6, <1>12 DEF Close
  <2> QED BY <1>1, <1>12, <2>1, <2>2, <2>3 DEF Close, RowIsCurrent, ReadIsCurrent,
                                              ProcessedIsRecorded
<1>13. CASE Processed(k)
  <2>1. run'[k].at = "schedule" /\ row # NoRow
    BY <1>1, <1>13 DEF Processed, Goto, JobRun, RecoveryRun, ReadIsCurrent
  <2>2. row' = row /\ credits' = credits
    BY <1>13 DEF Processed, book
  <2> QED BY <1>1, <2>1, <2>2 DEF RowIsCurrent, ReadIsCurrent, ProcessedIsRecorded
<1> QED BY <1>2, <1>3, <1>4, <1>5, <1>7, <1>8, <1>9, <1>10, <1>11, <1>12, <1>13 DEF Working
(* The strengthened invariant of a deposit.                                *)
THEOREM DepositInvariant == Spec => []DepositInv
<1>1. Init => RowIsCurrent /\ ReadsAreCurrent /\ ProcessedIsRecorded
  BY BoundsAssumption DEF Init, RowIsCurrent, ReadsAreCurrent, ReadIsCurrent,
     ProcessedIsRecorded, NoRow, Free
<1>2. DepositInv /\ TypeInv' /\ [Next]_vars => DepositInv'
  <2> SUFFICES ASSUME DepositInv, TypeInv', [Next]_vars
               PROVE  RowIsCurrent' /\ ReadsAreCurrent' /\ ProcessedIsRecorded'
    BY DEF DepositInv
  <2> USE DEF DepositInv
  <2>1. ASSUME NEW k \in Runners, Working(k) \/ Throw(k) \/ Crash(k)
        PROVE  RowIsCurrent' /\ ReadsAreCurrent' /\ ProcessedIsRecorded'
    <3>1. RowIsCurrent' /\ ReadIsCurrent(k)' /\ ProcessedIsRecorded'
      BY <2>1, RunnerStaysCurrent
    <3>2. ASSUME NEW l \in Runners \ {k} PROVE ReadIsCurrent(l)'
      <4>1. /\ run'[l] = run[l] /\ transfer' = transfer
            /\ row # NoRow => row' # NoRow
            /\ credits' \in Nat /\ credits \in Nat /\ credits' >= credits
        BY <2>1, RunnersAreApart DEF TypeInv, TypeOK
      <4> QED BY <4>1 DEF ReadsAreCurrent, ReadIsCurrent
    <3> QED BY <3>1, <3>2 DEF ReadsAreCurrent
  <2>2. ASSUME NEW e \in Events, Receive(e) \/ Enqueue(e) \/ HandlerCrash(e)
        PROVE  RowIsCurrent' /\ ReadsAreCurrent' /\ ProcessedIsRecorded'
    <3>1. UNCHANGED <<transfer, row, credits, run>>
      BY <2>2 DEF Receive, Enqueue, HandlerCrash, book
    <3>2. \A c \in Events : event'[c] = "PROCESSED" => event[c] = "PROCESSED"
      BY <2>2 DEF Receive, Enqueue, HandlerCrash, TypeInv, TypeOK
    <3> QED BY <3>1, <3>2 DEF RowIsCurrent, ReadsAreCurrent, ReadIsCurrent, ProcessedIsRecorded
  <2>3. ASSUME NEW e \in Events, NEW k \in Workers,
               TakeJob(k, e) \/ TakeInitial(k, e) \/ TakeFollowUp(k, e)
        PROVE  RowIsCurrent' /\ ReadsAreCurrent' /\ ProcessedIsRecorded'
    <3>1. UNCHANGED <<transfer, event, row, credits>>
      BY <2>3 DEF TakeJob, TakeInitial, TakeFollowUp, book
    <3>2. \A l \in Runners : run'[l] = run[l] \/ run'[l].at \in {"mark", "fetch"}
      <4>1. \/ UNCHANGED run
            \/ \E at \in {"mark", "fetch"}, kind \in {"process", "initial", "followUp"} :
                  Start(k, at, kind, e)
        BY <2>3 DEF TakeJob, TakeInitial, TakeFollowUp
      <4> QED BY <4>1 DEF Start, TypeInv, TypeOK
    <3> QED BY <3>1, <3>2 DEF RowIsCurrent, ReadsAreCurrent, ReadIsCurrent, ProcessedIsRecorded
  <2>4. CASE Recover
    <3>1. UNCHANGED <<transfer, event, row, credits>>
      BY <2>4 DEF Recover, book
    <3>2. \A l \in Runners :
             run'[l] = run[l] \/ (run'[l].at = "credit" /\ row.status = "CONFIRMED")
      BY <2>4 DEF Recover, TypeInv, TypeOK
    <3>3. row.status = "CONFIRMED" => row # NoRow
      BY DEF NoRow
    <3> QED BY <3>1, <3>2, <3>3 DEF RowIsCurrent, ReadsAreCurrent, ReadIsCurrent,
                                    ProcessedIsRecorded
  <2>5. CASE Confirm \/ Drop
    <3>1. UNCHANGED <<event, row, credits, run>> /\ transfer # MinConfirmations
      BY <2>5, BoundsAssumption DEF Confirm, Drop, book
    <3> QED BY <3>1 DEF RowIsCurrent, ReadsAreCurrent, ReadIsCurrent, ProcessedIsRecorded
  <2>6. CASE UNCHANGED vars
    BY <2>6 DEF vars, book, RowIsCurrent, ReadsAreCurrent, ReadIsCurrent, ProcessedIsRecorded
  <2> QED BY <2>1, <2>2, <2>3, <2>4, <2>5, <2>6 DEF Next
<1> QED BY <1>1, <1>2, DepositTypeInvariant, PTL DEF Spec, DepositInv

(* What the inbox and the row claim is true: a processed event is          *)
(* recorded, a deposit that says CREDITED is posted, once and final        *)
(* (deposit.service.js:194, 217).                                          *)
THEOREM DepositRecordIsTrue == Spec => []RecordedIsTrue
<1>1. DepositInv => RecordedIsTrue
  BY DEF DepositInv, RowIsCurrent, RecordedIsTrue, CreditedOnce, CreditedMeansFinal
<1> QED BY <1>1, DepositInvariant, PTL

(* However webhooks, finalizers, retries and recoveries interleave and     *)
(* fail, the last confirmation is the arrival of the payment, the posting  *)
(* is its one credit, and no other step changes either.                    *)
THEOREM DepositRefinesCreditOnce == Spec => DepositImplementsCreditOnce
<1> DEFINE received == IF transfer = MinConfirmations THEN {"transfer"} ELSE {}
           credited == [p \in {"transfer"} |-> credits]
<1>1. Init => Promise!Init
  BY BoundsAssumption DEF Init, Promise!Init
<1>2. DepositInv /\ DepositInv' /\ [Next]_vars => [Promise!Next]_<<received, credited>>
  <2> SUFFICES ASSUME DepositInv, DepositInv', [Next]_vars
               PROVE  Promise!Next \/ UNCHANGED <<received, credited>>
    OBVIOUS
  <2>1. ASSUME NEW k \in Runners, Post(k)
        PROVE  Promise!Next \/ UNCHANGED <<received, credited>>
    <3>1. transfer = MinConfirmations /\ transfer' = transfer
      BY <2>1 DEF Post, DepositInv, ReadsAreCurrent, ReadIsCurrent
    <3>2. CASE credits = 0 /\ credits' = 1
      <4>1. /\ "transfer" \in received /\ UNCHANGED received
            /\ credited["transfer"] = 0
            /\ credited' = [credited EXCEPT !["transfer"] = 1]
        BY <3>1, <3>2
      <4> QED BY <4>1 DEF Promise!Next, Promise!Credit
    <3>3. CASE UNCHANGED credits
      BY <3>1, <3>3
    <3> QED BY <2>1, <3>2, <3>3 DEF Post
  <2>2. CASE Confirm \/ Drop
    <3>1. UNCHANGED credited /\ received = {}
      BY <2>2, BoundsAssumption DEF Confirm, Drop, book
    <3>2. CASE transfer' = MinConfirmations
      <4>1. received' = received \cup {"transfer"}
        BY <3>1, <3>2
      <4> QED BY <3>1, <4>1 DEF Promise!Next, Promise!Arrive
    <3>3. CASE transfer' # MinConfirmations
      BY <3>1, <3>3
    <3> QED BY <3>2, <3>3
  <2>3. ASSUME NEW e \in Events,
               \/ Receive(e) \/ Enqueue(e) \/ HandlerCrash(e)
               \/ \E k \in Workers : TakeJob(k, e) \/ TakeInitial(k, e) \/ TakeFollowUp(k, e)
        PROVE  UNCHANGED <<received, credited>>
    BY <2>3 DEF Receive, Enqueue, HandlerCrash, TakeJob, TakeInitial, TakeFollowUp, book
  <2>4. ASSUME NEW k \in Runners, Working(k) \/ Throw(k) \/ Crash(k), ~Post(k)
        PROVE  UNCHANGED <<received, credited>>
    <3>1. UNCHANGED <<transfer, credits>>
      BY <2>4 DEF Working, Throw, Crash, Mark, Fetch, Reject, Find, Create, Read, Write,
         Credit, Lookup, Close, Processed, Schedule, Catch, book
    <3> QED BY <3>1
  <2>5. CASE Recover
    BY <2>5 DEF Recover, book
  <2>6. CASE UNCHANGED vars
    BY <2>6 DEF vars, book
  <2> QED BY <2>1, <2>2, <2>3, <2>4, <2>5, <2>6 DEF Next
<1> QED BY <1>1, <1>2, DepositInvariant, PTL
        DEF Spec, DepositImplementsCreditOnce, Promise!Spec
===============================================================================
