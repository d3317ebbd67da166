--------------------------- MODULE WithdrawalProofs ---------------------------
(***************************************************************************)
(* Proofs about Withdrawal for any withdrawals, runners, faults and        *)
(* stalls: types, the agreement of ledger and custody, and the direction   *)
(* in which a status moves.                                                *)
(***************************************************************************)
EXTENDS Withdrawal, TLAPS, FiniteSetTheorems

(* What a runner holds says which withdrawal it works on and what it read. *)
LEMMA RunFields ==
  ASSUME TypeOK, NEW k \in Runners, run[k] # Free
  PROVE  /\ run[k].w \in Withdrawals
         /\ run[k].at \in InProcess \cup InFinalize
         /\ run[k].at = "record" => run[k].ref \in {"none", "request", "transfer"}
         /\ run[k].at \in {"fetch", "save"} => run[k].old \in Finalizable
         /\ run[k].at = "save" => run[k].new \in Status
         /\ run[k].at = "follow" => run[k].now \in Status
BY DEF TypeOK, Run, InProcess, InFinalize

(* The records a runner may hold.                                          *)
LEMMA RunShapes ==
  ASSUME NEW w \in Withdrawals
  PROVE  /\ Free \in Run
         /\ \A at \in {"claim", "send", "announce", "fail", "mark", "unlock", "post"} :
               [at |-> at, w |-> w] \in Run
         /\ \A r \in {"none", "request", "transfer"} : [at |-> "record", w |-> w, ref |-> r] \in Run
         /\ \A old \in Finalizable : /\ [at |-> "fetch", w |-> w, old |-> old] \in Run
                                     /\ \A new \in Status :
                                           [at |-> "save", w |-> w, old |-> old, new |-> new] \in Run
         /\ \A now \in Status : [at |-> "follow", w |-> w, now |-> now] \in Run
BY DEF Run

(* A runner that moves on keeps the types, and leaves the others alone.    *)
LEMMA GotoKeepsRuns ==
  ASSUME TypeOK, NEW k \in Runners, NEW r \in Run, Goto(k, r)
  PROVE  /\ run' \in [Runners -> Run]
         /\ run'[k] = r
         /\ \A l \in Runners \ {k} : run'[l] = run[l]
BY DEF TypeOK, Goto

(* The provider's state names a status.                                    *)
LEMMA NextStatusType ==
  ASSUME NEW w \in Withdrawals, NEW old \in Finalizable
  PROVE  NextStatus(w, old) \in Status
BY DEF NextStatus, Status, Finalizable, Terminal

(* Every action of a runner at work keeps the runners' types.              *)
LEMMA RunnersMoveOn ==
  ASSUME TypeOK, NEW k \in Runners,
         \/ Processing(k) \/ Throw(k) \/ Finalizing(k) \/ RunnerCrash(k)
  PROVE  /\ run[k] # Free
         /\ run[k].w \in Withdrawals
         /\ run' \in [Runners -> Run]
         /\ run'[k] = Free \/ run'[k].w = run[k].w
         /\ \A l \in Runners \ {k} : run'[l] = run[l]
<1> DEFINE w == run[k].w
           Moved == /\ run' \in [Runners -> Run]
                    /\ run'[k] = Free \/ run'[k].w = w
                    /\ \A l \in Runners \ {k} : run'[l] = run[l]
<1>1. run[k] # Free
  BY DEF Processing, Finalizing, Claim, Send, Record, Announce, ReadToFail, MarkFailed,
         ReadToUnlock, PostUnlock, Throw, Fetch, Save, Follow, RunnerCrash, Free
<1>2. w \in Withdrawals
  BY <1>1, RunFields
<1>3. ASSUME NEW r \in Run, Goto(k, r), r = Free \/ r.w = w
      PROVE  Moved
  BY <1>3, GotoKeepsRuns
<1>4. ASSUME Goto(k, Free) PROVE Moved
  BY <1>3, <1>4, RunShapes, <1>2
<1>5. ASSUME NEW at \in {"claim", "send", "announce", "fail", "mark", "unlock", "post"},
             Goto(k, [at |-> at, w |-> w])
      PROVE  Moved
  <2>1. [at |-> at, w |-> w] \in Run
    BY <1>2, RunShapes
  <2> QED BY <1>3, <1>5, <2>1
<1>6. ASSUME NEW r \in {"none", "request", "transfer"}, Goto(k, [at |-> "record", w |-> w, ref |-> r])
      PROVE  Moved
  <2>1. [at |-> "record", w |-> w, ref |-> r] \in Run
    BY <1>2, RunShapes
  <2> QED BY <1>3, <1>6, <2>1
<1>7. CASE Claim(k) \/ MarkFailed(k) \/ Throw(k)
  BY <1>1, <1>2, <1>5, <1>7 DEF Claim, MarkFailed, Throw
<1>8. CASE Send(k)
  BY <1>1, <1>2, <1>5, <1>6, <1>8 DEF Send
<1>9. CASE Record(k) \/ Announce(k) \/ PostUnlock(k) \/ Follow(k) \/ RunnerCrash(k)
  BY <1>1, <1>2, <1>4, <1>5, <1>9 DEF Record, Announce, PostUnlock, Follow, RunnerCrash, JobEnds
<1>10. CASE ReadToFail(k) \/ ReadToUnlock(k)
  BY <1>1, <1>2, <1>4, <1>5, <1>10 DEF ReadToFail, ReadToUnlock, JobEnds
<1>11. CASE Fetch(k)
  <2> DEFINE r == [at |-> "save", w |-> w, old |-> run[k].old, new |-> NextStatus(w, run[k].old)]
  <2>1. run[k].old \in Finalizable
    BY <1>1, <1>11, RunFields DEF Fetch
  <2>2. r \in Run
    BY <1>2, <2>1, RunShapes, NextStatusType
  <2>3. Goto(k, r) /\ r.w = w
    BY <1>11 DEF Fetch
  <2> QED BY <1>1, <1>2, <1>3, <2>2, <2>3
<1>12. CASE Save(k)
  <2> DEFINE r == [at |-> "follow", w |-> w, now |-> status'[w]]
  <2>1. run[k].new \in Status
    BY <1>1, <1>12, RunFields DEF Save
  <2>2. status'[w] \in Status
    BY <1>2, <1>12, <2>1 DEF Save, TypeOK
  <2>3. r \in Run
    BY <1>2, <2>2, RunShapes
  <2>4. Goto(k, r) /\ r.w = w
    BY <1>12 DEF Save
  <2> QED BY <1>1, <1>2, <1>3, <2>3, <2>4
<1> QED BY <1>1, <1>2, <1>7, <1>8, <1>9, <1>10, <1>11, <1>12 DEF Processing, Finalizing

(* The rows, jobs and runners of withdrawals keep their types in every     *)
(* reachable state.                                                        *)
THEOREM WithdrawalTypeCorrect == Spec => []TypeOK
<1> USE BoundsAssumption
<1>1. Init => TypeOK
  BY DEF Init, TypeOK, Run, Free, Status
<1>2. TypeOK /\ [Next]_vars => TypeOK'
  <2> SUFFICES ASSUME TypeOK, [Next]_vars PROVE TypeOK'
    OBVIOUS
  <2> USE DEF row, queue, custody, bounds
  <2>1. ASSUME NEW w \in Withdrawals,
               CreateRow(w) \/ LockFunds(w) \/ Approve(w) \/ Enqueue(w) \/ HandlerCrash(w)
        PROVE  TypeOK'
    BY <2>1 DEF TypeOK, CreateRow, LockFunds, Approve, Enqueue, HandlerCrash, PostOnce, Fault, Status
  <2>2. ASSUME NEW w \in Withdrawals, Stall(w) \/ Advance(w) \/ TransferFails(w)
        PROVE  TypeOK'
    BY <2>2 DEF TypeOK, Stall, Advance, TransferFails
  <2>3. ASSUME NEW k \in Runners, NEW w \in Withdrawals, TakeJob(k, w)
        PROVE  TypeOK'
    <3>1. run' \in [Runners -> Run]
      BY <2>3, RunShapes, GotoKeepsRuns DEF TakeJob, JobEnds
    <3> QED BY <2>3, <3>1 DEF TypeOK, TakeJob, JobEnds
  <2>4. ASSUME NEW k \in Runners, NEW w \in Withdrawals, TakeFinalizer(k, w) \/ Webhook(k, w)
        PROVE  TypeOK'
    <3>1. run' \in [Runners -> Run]
      BY <2>4, RunShapes, GotoKeepsRuns DEF TypeOK, TakeFinalizer, ReadToFinalize, Webhook
    <3> QED BY <2>4, <3>1 DEF TypeOK, TakeFinalizer, ReadToFinalize, Webhook
  <2>5. ASSUME NEW k \in Runners, Processing(k) \/ Throw(k) \/ Finalizing(k) \/ RunnerCrash(k)
        PROVE  TypeOK'
    <3>1. run[k] # Free /\ run[k].w \in Withdrawals /\ run' \in [Runners -> Run]
      BY <2>5, RunnersMoveOn
    <3>2. CASE Claim(k) \/ MarkFailed(k) \/ PostUnlock(k)
      <4>1. CASE Claim(k)
        <5>1. status' \in [Withdrawals -> Status]
          <6>1. "PROCESSING" \in Status
            BY DEF Status
          <6> QED BY <3>1, <4>1, <6>1 DEF TypeOK, Claim
        <5>2. UNCHANGED <<ref, posted, handler, queue, custody, bounds>>
          BY <4>1 DEF Claim
        <5> QED BY <3>1, <5>1, <5>2 DEF TypeOK
      <4>2. CASE MarkFailed(k)
        <5>1. status' \in [Withdrawals -> Status]
          <6>1. "FAILED" \in Status
            BY DEF Status, Terminal
          <6> QED BY <3>1, <4>2, <6>1 DEF TypeOK, MarkFailed
        <5>2. UNCHANGED <<ref, posted, handler, queue, custody, bounds>>
          BY <4>2 DEF MarkFailed
        <5> QED BY <3>1, <5>1, <5>2 DEF TypeOK
      <4>3. CASE PostUnlock(k)
        BY <3>1, <4>3 DEF TypeOK, PostUnlock, PostOnce, JobEnds
      <4> QED BY <3>2, <4>1, <4>2, <4>3
    <3>3. CASE Send(k)
      BY <3>1, <3>3 DEF TypeOK, Send, Accept, Fault
    <3>4. CASE Record(k)
      <4>1. run[k].ref \in {"none", "request", "transfer"}
        BY <3>1, <3>4, RunFields DEF Record
      <4> QED BY <3>1, <3>4, <4>1 DEF TypeOK, Record, Status, Finalizable
    <3>5. CASE Announce(k) \/ ReadToFail(k) \/ ReadToUnlock(k)
      <4>1. CASE Announce(k)
        BY <3>1, <4>1 DEF TypeOK, Announce, JobEnds
      <4>2. CASE ReadToFail(k) \/ ReadToUnlock(k)
        BY <3>1, <4>2 DEF TypeOK, ReadToFail, ReadToUnlock, JobEnds
      <4> QED BY <3>5, <4>1, <4>2
    <3>6. CASE Throw(k) \/ RunnerCrash(k)
      <4>1. faults' \in 0..MaxFaults /\ UNCHANGED stalls
        BY <3>6 DEF TypeOK, Throw, RunnerCrash, Fault
      <4>2. CASE Throw(k)
        BY <3>1, <4>1, <4>2 DEF TypeOK, Throw
      <4>3. CASE RunnerCrash(k)
        BY <3>1, <4>1, <4>3 DEF TypeOK, RunnerCrash
      <4> QED BY <3>6, <4>2, <4>3
    <3>7. CASE Fetch(k) \/ Follow(k)
      BY <3>1, <3>7 DEF TypeOK, Fetch, Follow
    <3>8. CASE Save(k)
      <4>1. run[k].new \in Status
        BY <3>1, <3>8, RunFields DEF Save
      <4> QED BY <3>1, <3>8, <4>1 DEF TypeOK, Save
    <3> QED BY <2>5, <3>2, <3>3, <3>4, <3>5, <3>6, <3>7, <3>8 DEF Processing, Finalizing
  <2>6. CASE UNCHANGED vars
    BY <2>6 DEF TypeOK, vars
  <2> QED BY <2>1, <2>2, <2>3, <2>4, <2>5, <2>6 DEF Next, Requesting
<1> QED BY <1>1, <1>2, PTL DEF Spec
-------------------------------------------------------------------------------
(* A step is taken by a withdrawal, by a runner that takes up a job, or by *)
(* a runner at work, and touches one withdrawal.                           *)
WithdrawalSteps(w) ==
  Requesting(w) \/ HandlerCrash(w) \/ Stall(w) \/ Advance(w) \/ TransferFails(w)

RunnerStarts(k, w) == TakeJob(k, w) \/ TakeFinalizer(k, w) \/ Webhook(k, w)

RunnerSteps(k) == Processing(k) \/ Throw(k) \/ Finalizing(k) \/ RunnerCrash(k)

Same(w) ==
  /\ status'[w] = status[w] /\ ref'[w] = ref[w]
  /\ posted'[w] = posted[w] /\ handler'[w] = handler[w]
  /\ job'[w] = job[w] /\ finalizer'[w] = finalizer[w]
  /\ sent'[w] = sent[w] /\ chain'[w] = chain[w]

(* A step of the queue or of the chain concerns one withdrawal and no      *)
(* runner.                                                                 *)
LEMMA WithdrawalsStepAlone ==
  ASSUME TypeOK, NEW w \in Withdrawals, WithdrawalSteps(w)
  PROVE  /\ run' = run
         /\ \A v \in Withdrawals \ {w} : Same(v)
<1> USE DEF TypeOK, Same, row, queue, custody, bounds
<1>1. CASE CreateRow(w) \/ LockFunds(w) \/ Approve(w) \/ Enqueue(w) \/ HandlerCrash(w)
  BY <1>1 DEF CreateRow, LockFunds, Approve, Enqueue, HandlerCrash, PostOnce
<1>2. CASE Stall(w) \/ Advance(w) \/ TransferFails(w)
  BY <1>2 DEF Stall, Advance, TransferFails
<1> QED BY <1>1, <1>2 DEF WithdrawalSteps, Requesting

(* A runner that takes up work touches one withdrawal at most.             *)
LEMMA RunnersStartAlone ==
  ASSUME TypeOK, NEW k \in Runners, NEW w \in Withdrawals, RunnerStarts(k, w)
  PROVE  /\ run[k] = Free
         /\ run'[k] = Free \/ run'[k].w = w
         /\ run' \in [Runners -> Run]
         /\ \A l \in Runners \ {k} : run'[l] = run[l]
         /\ \A v \in Withdrawals \ {w} : Same(v)
         /\ UNCHANGED <<row, posted, handler, custody, bounds>>
<1> USE DEF row, queue, custody, bounds
<1> DEFINE Moved == /\ run'[k] = Free \/ run'[k].w = w
                    /\ run' \in [Runners -> Run]
                    /\ \A l \in Runners \ {k} : run'[l] = run[l]
<1>0. run[k] = Free
  BY DEF RunnerStarts, TakeJob, TakeFinalizer, Webhook
<1>1. ASSUME NEW r \in Run, Goto(k, r), r = Free \/ r.w = w
      PROVE  Moved
  BY <1>1, GotoKeepsRuns
<1>2. ASSUME run' = run \/ Goto(k, Free) PROVE Moved
  BY <1>0, <1>1, <1>2, RunShapes DEF TypeOK
<1>3. CASE TakeJob(k, w)
  <2> DEFINE r == [at |-> "claim", w |-> w]
  <2>1. r \in Run /\ r.w = w
    BY RunShapes
  <2>2. Goto(k, Free) \/ Goto(k, r)
    BY <1>3 DEF TakeJob, JobEnds
  <2>3. Moved
    BY <1>1, <1>2, <2>1, <2>2
  <2> QED BY <1>0, <1>3, <2>3 DEF TypeOK, TakeJob, JobEnds, Same
<1>4. CASE TakeFinalizer(k, w) \/ Webhook(k, w)
  <2> DEFINE r == [at |-> "fetch", w |-> w, old |-> status[w]]
  <2>1. status[w] \in Finalizable => r \in Run /\ r.w = w
    BY RunShapes
  <2>2. run' = run \/ (Goto(k, r) /\ status[w] \in Finalizable)
    <3>1. CASE TakeFinalizer(k, w)
      BY <3>1 DEF TakeFinalizer, ReadToFinalize
    <3>2. CASE Webhook(k, w)
      BY <3>2 DEF Webhook
    <3> QED BY <1>4, <3>1, <3>2
  <2>3. Moved
    <3>1. CASE run' = run
      BY <1>2, <3>1
    <3>2. CASE Goto(k, r) /\ status[w] \in Finalizable
      BY <1>1, <2>1, <3>2
    <3> QED BY <2>2, <3>1, <3>2
  <2> QED BY <1>0, <1>4, <2>3 DEF TypeOK, TakeFinalizer, ReadToFinalize, Webhook, Same
<1> QED BY <1>3, <1>4 DEF RunnerStarts

(* A runner at work touches no withdrawal but its own, and takes back no   *)
(* posting.                                                                *)
LEMMA RunnersWorkAlone ==
  ASSUME TypeOK, NEW k \in Runners, RunnerSteps(k)
  PROVE  /\ \A v \in Withdrawals \ {run[k].w} : Same(v)
         /\ UNCHANGED handler
         /\ \A v \in Withdrawals : posted[v] \subseteq posted'[v]
<1> USE DEF row, queue, custody, bounds
<1>0. run[k] # Free /\ run[k].w \in Withdrawals
  BY RunnersMoveOn DEF RunnerSteps
<1>1. CASE Claim(k) \/ MarkFailed(k) \/ PostUnlock(k)
  BY <1>0, <1>1 DEF TypeOK, Same, Claim, MarkFailed, PostUnlock, PostOnce, JobEnds
<1>2. CASE Send(k) \/ Record(k)
  BY <1>0, <1>2 DEF TypeOK, Same, Send, Accept, Record
<1>3. CASE Announce(k) \/ ReadToFail(k) \/ ReadToUnlock(k)
  BY <1>0, <1>3 DEF TypeOK, Same, Announce, ReadToFail, ReadToUnlock, JobEnds
<1>4. CASE Throw(k)
  BY <1>0, <1>4 DEF TypeOK, Same, Throw
<1>5. CASE RunnerCrash(k)
  BY <1>0, <1>5 DEF TypeOK, Same, RunnerCrash
<1>6. CASE Fetch(k) \/ Save(k) \/ Follow(k)
  BY <1>0, <1>6 DEF TypeOK, Same, Fetch, Save, Follow
<1> QED BY <1>1, <1>2, <1>3, <1>4, <1>5, <1>6 DEF RunnerSteps, Processing, Finalizing
-------------------------------------------------------------------------------
Early == {"NONE", "REQUESTED", "PENDING_REVIEW", "APPROVED"}

(* While the handler runs there is no job, and without a job nobody works  *)
(* on the withdrawal.  Wherever the handler, the queue or the row has got  *)
(* beyond the request, the lock is posted.                                 *)
Requested(w) ==
  /\ handler[w] = "start" => status[w] = "NONE"
  /\ handler[w] \in {"lock", "approve"} => status[w] = "REQUESTED"
  /\ handler[w] = "enqueue" => status[w] = "APPROVED"
  /\ handler[w] # "end" => job[w] = "none"
  /\ job[w] = "none" => /\ status[w] \in Early /\ ref[w] = "none"
                        /\ sent[w] = 0 /\ ~finalizer[w]
  /\ \/ handler[w] \in {"approve", "enqueue"} \/ job[w] # "none"
     \/ status[w] \notin {"NONE", "REQUESTED"}
     => "lock" \in posted[w]

InHand(k) == run[k] # Free => job[run[k].w] # "none"

RequestInv == /\ \A w \in Withdrawals : Requested(w)
              /\ \A k \in Runners : InHand(k)

(* A runner at work keeps the withdrawal out of the handler's hands.       *)
LEMMA RunnersKeepRequests ==
  ASSUME TypeOK, RequestInv, NEW k \in Runners, RunnerSteps(k)
  PROVE  RequestInv'
<1>0. PICK w \in Withdrawals : run[k].w = w
  BY RunnersMoveOn DEF RunnerSteps
<1>1. /\ run[k] # Free /\ run[k].w = w
      /\ run'[k] = Free \/ run'[k].w = w
      /\ \A l \in Runners \ {k} : run'[l] = run[l]
  BY <1>0, RunnersMoveOn DEF RunnerSteps
<1>2. job[w] # "none" /\ handler[w] = "end" /\ "lock" \in posted[w]
  BY <1>1 DEF RequestInv, InHand, Requested, TypeOK
<1>3. job'[w] # "none"
  <2> USE DEF row, queue, custody, bounds
  <2>1. CASE RunnerCrash(k)
    BY <1>1, <1>2, <2>1 DEF RunnerCrash, TypeOK
  <2>2. CASE Processing(k) \/ Throw(k) \/ Finalizing(k)
    BY <1>1, <1>2, <2>2
    DEF Processing, Throw, Finalizing, Claim, Send, Record, Announce, ReadToFail, MarkFailed,
        ReadToUnlock, PostUnlock, Fetch, Save, Follow, JobEnds, TypeOK
  <2> QED BY <2>1, <2>2 DEF RunnerSteps
<1>4. \A v \in Withdrawals \ {w} : Same(v)
  BY <1>1, RunnersWorkAlone
<1>5. UNCHANGED handler /\ posted[w] \subseteq posted'[w]
  BY <1>1, RunnersWorkAlone
<1>6. \A v \in Withdrawals : job'[v] = "none" <=> job[v] = "none"
  BY <1>2, <1>3, <1>4 DEF Same
<1>7. \A v \in Withdrawals : Requested(v)'
  <2>1. ASSUME NEW v \in Withdrawals \ {w} PROVE Requested(v)'
    BY <1>4, <2>1 DEF RequestInv, Requested, Same
  <2>2. Requested(w)'
    BY <1>1, <1>2, <1>3, <1>5 DEF Requested
  <2> QED BY <2>1, <2>2
<1>8. \A l \in Runners : InHand(l)'
  <2>1. ASSUME NEW l \in Runners \ {k} PROVE InHand(l)'
    <3>1. run[l] # Free => run[l].w \in Withdrawals
      BY RunFields
    <3> QED BY <1>1, <1>6, <3>1 DEF RequestInv, InHand
  <2>2. InHand(k)'
    BY <1>1, <1>3 DEF InHand
  <2> QED BY <2>1, <2>2
<1> QED BY <1>7, <1>8 DEF RequestInv

(* What every runner and withdrawal relies on about the request to the     *)
(* chain is inductive.                                                     *)
LEMMA RequestsStand ==
  ASSUME TypeOK, RequestInv, [Next]_vars
  PROVE  RequestInv'
<1> USE DEF row, queue, custody, bounds
<1>1. ASSUME NEW w \in Withdrawals, WithdrawalSteps(w)
      PROVE  RequestInv'
  <2>1. run' = run /\ \A v \in Withdrawals \ {w} : Same(v)
    BY <1>1, WithdrawalsStepAlone
  <2>2. Requested(w) /\ \A v \in Withdrawals \ {w} : Requested(v)'
    BY <2>1 DEF RequestInv, Requested, Same
  <2>3. Requested(w)'
    <3>1. CASE Requesting(w) \/ HandlerCrash(w)
      BY <2>2, <3>1
      DEF Requesting, CreateRow, LockFunds, Approve, Enqueue, HandlerCrash, PostOnce,
          Requested, TypeOK, Early
    <3>2. CASE Stall(w) \/ Advance(w) \/ TransferFails(w)
      BY <2>2, <3>2 DEF Stall, Advance, TransferFails, Requested, TypeOK
    <3> QED BY <1>1, <3>1, <3>2 DEF WithdrawalSteps
  <2>4. job[w] # "none" => job'[w] # "none"
    BY <1>1
    DEF WithdrawalSteps, Requesting, CreateRow, LockFunds, Approve, Enqueue, HandlerCrash,
        Stall, Advance, TransferFails, TypeOK
  <2>5. \A k \in Runners : InHand(k)'
    BY <2>1, <2>4, RunFields DEF RequestInv, InHand, Same
  <2> QED BY <2>2, <2>3, <2>5 DEF RequestInv
<1>2. ASSUME NEW k \in Runners, NEW w \in Withdrawals, RunnerStarts(k, w)
      PROVE  RequestInv'
  <2>1. /\ run'[k] = Free \/ run'[k].w = w
        /\ \A l \in Runners \ {k} : run'[l] = run[l]
        /\ \A v \in Withdrawals \ {w} : Same(v)
        /\ UNCHANGED <<status, ref, posted, handler, sent, chain>>
    BY <1>2, RunnersStartAlone
  <2>2. Requested(w) /\ job[w] # "none"
    BY <1>2 DEF RunnerStarts, TakeJob, TakeFinalizer, Webhook, RequestInv, Requested
  <2>3. job'[w] # "none"
    BY <1>2, <2>2 DEF RunnerStarts, TakeJob, TakeFinalizer, Webhook, JobEnds, TypeOK
  <2>4. \A v \in Withdrawals : Requested(v)'
    BY <2>1, <2>2, <2>3 DEF RequestInv, Requested, Same
  <2>5. \A l \in Runners : InHand(l)'
    BY <2>1, <2>2, <2>3, RunFields DEF RequestInv, InHand, Same
  <2> QED BY <2>4, <2>5 DEF RequestInv
<1>3. CASE UNCHANGED vars
  BY <1>3 DEF vars, RequestInv, Requested, InHand
<1> QED BY <1>1, <1>2, <1>3, RunnersKeepRequests
        DEF Next, WithdrawalSteps, RunnerStarts, RunnerSteps
-------------------------------------------------------------------------------
(* Once a runner has claimed a withdrawal, its status is past APPROVED for *)
(* good, and so is the status that a finalizer is about to write.          *)
PastClaim(k) ==
  /\ run[k].at \notin {"free", "claim"} => status[run[k].w] \notin Early
  /\ run[k].at = "save" => run[k].new \notin Early

(* What custody has accepted, the runners that may still send, and the job *)
(* that may still start one, for a withdrawal: together one, and one more  *)
(* for each job that was delivered again.                                  *)
MaySend(k, w) == run[k].at \in {"claim", "send"} /\ run[k].w = w
Senders(w) == {k \in Runners : MaySend(k, w)}
Pending(w) == IF job[w] \in {"none", "waiting"} /\ status[w] \in Early THEN 1 ELSE 0
Budget(w) == sent[w] + Cardinality(Senders(w)) + Pending(w) <= 1 + stalls

SendInv == /\ \A k \in Runners : PastClaim(k)
           /\ \A w \in Withdrawals : Budget(w)

(* The runners that may still send for a withdrawal are counted by what    *)
(* the one that moves may do.                                              *)
LEMMA SendersCount ==
  ASSUME NEW w \in Withdrawals, NEW k \in Runners,
         \A l \in Runners \ {k} : run'[l] = run[l]
  PROVE  /\ Cardinality(Senders(w)) \in Nat /\ Cardinality(Senders(w))' \in Nat
         /\ (MaySend(k, w) <=> MaySend(k, w)')
            => Cardinality(Senders(w))' = Cardinality(Senders(w))
         /\ ~MaySend(k, w) /\ MaySend(k, w)'
            => Cardinality(Senders(w))' = Cardinality(Senders(w)) + 1
         /\ MaySend(k, w) /\ ~MaySend(k, w)'
            => Cardinality(Senders(w))' = Cardinality(Senders(w)) - 1
<1> DEFINE S == Senders(w)
           T == {l \in Runners : MaySend(l, w)'}
<1>1. IsFiniteSet(S) /\ IsFiniteSet(T)
  BY RunnersAssumption, FS_Subset DEF Senders
<1>2. Senders(w)' = T
  BY DEF Senders
<1>3. \A l \in Runners \ {k} : l \in S <=> l \in T
  BY DEF Senders, MaySend
<1>4. (k \in S <=> MaySend(k, w)) /\ (k \in T <=> MaySend(k, w)')
  BY DEF Senders
<1>5. S \subseteq Runners /\ T \subseteq Runners
  BY DEF Senders
<1> HIDE DEF S, T
<1>6. Cardinality(S) \in Nat /\ Cardinality(T) \in Nat
  BY <1>1, FS_CardinalityType
<1>7. CASE k \in S <=> k \in T
  BY <1>3, <1>5, <1>7, <1>2, <1>4, <1>6 DEF S
<1>8. CASE k \notin S /\ k \in T
  <2>1. T = S \cup {k}
    BY <1>3, <1>5, <1>8
  <2>2. Cardinality(T) = Cardinality(S) + 1
    BY <1>1, <1>8, <2>1, FS_AddElement
  <2> QED BY <1>2, <1>4, <1>6, <1>8, <2>2 DEF S
<1>9. CASE k \in S /\ k \notin T
  <2>1. T = S \ {k}
    BY <1>3, <1>5, <1>9
  <2>2. Cardinality(T) = Cardinality(S) - 1
    BY <1>1, <1>9, <2>1, FS_RemoveElement
  <2> QED BY <1>2, <1>4, <1>6, <1>9, <2>2 DEF S
<1> QED BY <1>7, <1>8, <1>9

(* No step brings a withdrawal back before its claim.                      *)
LEMMA ClaimsStay ==
  ASSUME TypeOK, RequestInv, SendInv, [Next]_vars,
         NEW w \in Withdrawals, status[w] \notin Early
  PROVE  status'[w] \notin Early
<1> USE DEF row, queue, custody, bounds
<1>1. ASSUME NEW v \in Withdrawals, WithdrawalSteps(v)
      PROVE  status'[w] \notin Early
  <2>1. CASE v = w
    BY <1>1, <2>1
    DEF WithdrawalSteps, Requesting, CreateRow, LockFunds, Approve, Enqueue, HandlerCrash,
        Stall, Advance, TransferFails, RequestInv, Requested, TypeOK, Early
  <2>2. CASE v # w
    BY <1>1, <2>2, WithdrawalsStepAlone DEF Same
  <2> QED BY <2>1, <2>2
<1>2. ASSUME NEW k \in Runners, NEW v \in Withdrawals, RunnerStarts(k, v)
      PROVE  status'[w] \notin Early
  BY <1>2, RunnersStartAlone
<1>3. ASSUME NEW k \in Runners, RunnerSteps(k)
      PROVE  status'[w] \notin Early
  <2>1. run[k].at = "save" => run[k].new \notin Early
    BY DEF SendInv, PastClaim
  <2>2. CASE Processing(k) \/ Throw(k)
    BY <2>2
    DEF Processing, Throw, Claim, Send, Record, Announce, ReadToFail, MarkFailed,
        ReadToUnlock, PostUnlock, TypeOK, Early
  <2>3. CASE Finalizing(k) \/ RunnerCrash(k)
    BY <2>1, <2>3 DEF Finalizing, RunnerCrash, Fetch, Save, Follow, TypeOK
  <2> QED BY <1>3, <2>2, <2>3 DEF RunnerSteps
<1>4. CASE UNCHANGED vars
  BY <1>4 DEF vars
<1> QED BY <1>1, <1>2, <1>3, <1>4 DEF Next, WithdrawalSteps, RunnerStarts, RunnerSteps

(* A runner that moves on is past its claim, unless it is free or claims.  *)
LEMMA ClaimsAreKept ==
  ASSUME TypeOK, RequestInv, SendInv, [Next]_vars
  PROVE  \A k \in Runners : PastClaim(k)'
<1> USE DEF row, queue, custody, bounds
<1>1. ASSUME NEW l \in Runners, run'[l] = run[l] PROVE PastClaim(l)'
  <2>1. run[l] # Free => run[l].w \in Withdrawals
    BY RunFields
  <2> QED BY <1>1, <2>1, ClaimsStay DEF SendInv, PastClaim, Free
<1>2. ASSUME NEW l \in Runners, run'[l].at \in {"free", "claim"} PROVE PastClaim(l)'
  BY <1>2 DEF PastClaim
<1>3. ASSUME NEW w \in Withdrawals, WithdrawalSteps(w) PROVE \A l \in Runners : PastClaim(l)'
  BY <1>1, <1>3, WithdrawalsStepAlone
<1>4. ASSUME NEW k \in Runners, NEW w \in Withdrawals, RunnerStarts(k, w)
      PROVE  PastClaim(k)'
  <2>1. CASE TakeJob(k, w)
    BY <1>2, <2>1 DEF TakeJob, JobEnds, Goto, TypeOK, Free
  <2>2. CASE (TakeFinalizer(k, w) \/ Webhook(k, w)) /\ run' # run
    <3>1. Goto(k, [at |-> "fetch", w |-> w, old |-> status[w]]) /\ status[w] \in Finalizable
      <4>1. CASE TakeFinalizer(k, w)
        BY <2>2, <4>1 DEF TakeFinalizer, ReadToFinalize
      <4>2. CASE Webhook(k, w)
        BY <4>2 DEF Webhook
      <4> QED BY <2>2, <4>1, <4>2
    <3>2. run'[k] = [at |-> "fetch", w |-> w, old |-> status[w]]
      BY <3>1 DEF Goto, TypeOK
    <3> QED BY <2>2, <3>1, <3>2 DEF PastClaim, TakeFinalizer, Webhook, Finalizable, Early
  <2>3. CASE run' = run
    BY <1>1, <2>3
  <2> QED BY <1>4, <2>1, <2>2, <2>3 DEF RunnerStarts
<1>5. ASSUME NEW k \in Runners, RunnerSteps(k) PROVE PastClaim(k)'
  <2> DEFINE w == run[k].w
  <2>1. run[k] # Free /\ w \in Withdrawals
    BY <1>5, RunnersMoveOn DEF RunnerSteps
  <2>2. CASE run[k].at = "claim"
    <3>1. Claim(k) \/ RunnerCrash(k)
      BY <1>5, <2>2
      DEF RunnerSteps, Processing, Throw, Finalizing, Send, Record, Announce, ReadToFail,
          MarkFailed, ReadToUnlock, PostUnlock, Fetch, Save, Follow
    <3>2. CASE Claim(k)
      BY <2>1, <3>2 DEF Claim, Goto, PastClaim, TypeOK, Early
    <3>3. CASE RunnerCrash(k)
      BY <1>2, <3>3 DEF RunnerCrash, Goto, TypeOK, Free
    <3> QED BY <3>1, <3>2, <3>3
  <2>3. CASE run[k].at # "claim"
    <3>1. status[w] \notin Early
      BY <2>1, <2>3, RunFields DEF SendInv, PastClaim, InProcess, InFinalize
    <3>2. status'[w] \notin Early
      BY <2>1, <3>1, ClaimsStay
    <3>3. run'[k] = Free \/ run'[k].w = w
      BY <1>5, RunnersMoveOn DEF RunnerSteps
    <3>4. ASSUME run'[k].at = "save" PROVE run'[k].new \notin Early
      <4>1. Fetch(k)
        BY <1>5, <2>1, <3>4
        DEF RunnerSteps, Processing, Throw, Finalizing, Claim, Send, Record, Announce, ReadToFail,
            MarkFailed, ReadToUnlock, PostUnlock, Save, Follow, RunnerCrash, JobEnds, Goto, TypeOK, Free
      <4>2. run[k].old \in Finalizable
        BY <2>1, <4>1, RunFields DEF Fetch
      <4>3. run'[k].new = NextStatus(w, run[k].old)
        BY <4>1 DEF Fetch, Goto, TypeOK
      <4> QED BY <4>2, <4>3 DEF NextStatus, Finalizable, Early
    <3> QED BY <3>2, <3>3, <3>4 DEF PastClaim, Free
  <2> QED BY <2>2, <2>3
<1>6. ASSUME NEW k \in Runners,
             \/ RunnerSteps(k)
             \/ \E w \in Withdrawals : RunnerStarts(k, w)
      PROVE  \A l \in Runners : PastClaim(l)'
  <2>1. \A l \in Runners \ {k} : run'[l] = run[l]
    BY <1>6, RunnersMoveOn, RunnersStartAlone DEF RunnerSteps
  <2>2. PastClaim(k)'
    BY <1>4, <1>5, <1>6
  <2> QED BY <1>1, <2>1, <2>2
<1>7. CASE UNCHANGED vars
  BY <1>1, <1>7 DEF vars
<1> QED BY <1>3, <1>6, <1>7 DEF Next, WithdrawalSteps, RunnerStarts, RunnerSteps

(* The runner, the withdrawal and the rest of the bound that a step of one *)
(* runner leaves alone.                                                    *)
LEMMA OthersKeepBudget ==
  ASSUME TypeOK, SendInv, NEW k \in Runners, NEW w \in Withdrawals,
         \A l \in Runners \ {k} : run'[l] = run[l],
         Same(w), ~MaySend(k, w), ~MaySend(k, w)',
         stalls' \in Nat, stalls' >= stalls
  PROVE  Budget(w)'
<1>1. Cardinality(Senders(w))' = Cardinality(Senders(w)) /\ Cardinality(Senders(w)) \in Nat
  BY SendersCount
<1>2. Pending(w)' = Pending(w) /\ Pending(w) \in Nat
  BY DEF Pending, Same
<1> QED BY <1>1, <1>2 DEF SendInv, Budget, Same, TypeOK

(* Attempts, sends and runners that may still send stay within their       *)
(* budget.                                                                 *)
LEMMA SendsStand ==
  ASSUME TypeOK, RequestInv, SendInv, [Next]_vars
  PROVE  SendInv'
<1> USE DEF row, queue, custody, bounds
<1>0. \A w \in Withdrawals : /\ Pending(w) \in {0, 1} /\ Pending(w)' \in {0, 1}
                             /\ sent[w] \in Nat
  BY DEF Pending, TypeOK
<1>1. stalls \in Nat
  BY DEF TypeOK
<1>2. ASSUME NEW w \in Withdrawals, WithdrawalSteps(w)
      PROVE  \A v \in Withdrawals : Budget(v)'
  <2>1. run' = run /\ \A v \in Withdrawals \ {w} : Same(v)
    BY <1>2, WithdrawalsStepAlone
  <2>2. \A v \in Withdrawals : Senders(v)' = Senders(v)
    BY <2>1 DEF Senders, MaySend
  <2>3. \A v \in Withdrawals : Cardinality(Senders(v)) \in Nat
    BY RunnersAssumption, FS_Subset, FS_CardinalityType DEF Senders
  <2>4. stalls' \in Nat /\ stalls' >= stalls /\ sent' = sent
    BY <1>1, <1>2
    DEF WithdrawalSteps, Requesting, CreateRow, LockFunds, Approve, Enqueue, HandlerCrash,
        Fault, Stall, Advance, TransferFails
  <2>5. Pending(w)' - stalls' <= Pending(w) - stalls
    <3>1. CASE Stall(w)
      BY <1>0, <1>1, <3>1 DEF Stall, Pending, TypeOK
    <3>2. CASE ~Stall(w)
      <4>1. UNCHANGED stalls
        BY <1>2, <3>2
        DEF WithdrawalSteps, Requesting, CreateRow, LockFunds, Approve, Enqueue, HandlerCrash,
            Fault, Advance, TransferFails
      <4>2. Pending(w)' = 1 => Pending(w) = 1
        BY <1>2, <3>2
        DEF WithdrawalSteps, Requesting, CreateRow, LockFunds, Approve, Enqueue, HandlerCrash,
            Advance, TransferFails, Pending, RequestInv, Requested, TypeOK, Early
      <4> QED BY <1>0, <1>1, <4>1, <4>2
    <3> QED BY <3>1, <3>2
  <2>6. \A v \in Withdrawals \ {w} : Pending(v)' = Pending(v)
    BY <2>1 DEF Pending, Same
  <2>7. Budget(w)'
    BY <1>0, <1>1, <2>2, <2>3, <2>4, <2>5 DEF SendInv, Budget
  <2>8. ASSUME NEW v \in Withdrawals \ {w} PROVE Budget(v)'
    BY <1>0, <1>1, <2>2, <2>3, <2>4, <2>6 DEF SendInv, Budget
  <2> QED BY <2>7, <2>8
<1>3. ASSUME NEW k \in Runners, NEW w \in Withdrawals, RunnerStarts(k, w)
      PROVE  \A v \in Withdrawals : Budget(v)'
  <2>1. /\ run[k] = Free
        /\ run'[k] = Free \/ run'[k].w = w
        /\ \A l \in Runners \ {k} : run'[l] = run[l]
        /\ \A v \in Withdrawals \ {w} : Same(v)
        /\ UNCHANGED <<status, sent, stalls>>
    BY <1>3, RunnersStartAlone
  <2>2. ASSUME NEW v \in Withdrawals \ {w} PROVE Budget(v)'
    <3>1. ~MaySend(k, v) /\ ~MaySend(k, v)'
      BY <2>1, <2>2 DEF MaySend, Free
    <3> QED BY <1>1, <2>1, <3>1, OthersKeepBudget
  <2>3. /\ ~MaySend(k, w)
        /\ MaySend(k, w)' => Pending(w) = 1 /\ Pending(w)' = 0
        /\ Pending(w)' <= Pending(w)
    <3>1. CASE TakeJob(k, w)
      <4>1. CASE status[w] = "APPROVED"
        BY <2>1, <3>1, <4>1 DEF TakeJob, MaySend, Pending, TypeOK, Free, Early
      <4>2. CASE status[w] # "APPROVED"
        <5>1. run'[k] = Free /\ job'[w] = "over"
          BY <3>1, <4>2 DEF TakeJob, JobEnds, Goto, TypeOK
        <5> QED BY <1>0, <2>1, <5>1 DEF MaySend, Pending, Free
      <4> QED BY <4>1, <4>2
    <3>2. CASE TakeFinalizer(k, w) \/ Webhook(k, w)
      <4>1. job' = job
        BY <3>2 DEF TakeFinalizer, Webhook
      <4>2. run'[k].at \notin {"claim", "send"}
        BY <2>1, <3>2 DEF TakeFinalizer, ReadToFinalize, Webhook, Goto, TypeOK, Free
      <4> QED BY <1>0, <2>1, <4>1, <4>2 DEF MaySend, Pending, Free
    <3> QED BY <1>3, <3>1, <3>2 DEF RunnerStarts
  <2>4. Budget(w)'
    BY <1>0, <1>1, <2>1, <2>3, SendersCount DEF SendInv, Budget
  <2> QED BY <2>2, <2>4
<1>4. ASSUME NEW k \in Runners, RunnerSteps(k)
      PROVE  \A v \in Withdrawals : Budget(v)'
  <2>0. PICK w \in Withdrawals : run[k].w = w
    BY <1>4, RunnersMoveOn DEF RunnerSteps
  <2>1. /\ run[k] # Free
        /\ run'[k] = Free \/ run'[k].w = w
        /\ \A l \in Runners \ {k} : run'[l] = run[l]
        /\ \A v \in Withdrawals \ {w} : Same(v)
    BY <1>4, <2>0, RunnersMoveOn, RunnersWorkAlone DEF RunnerSteps
  <2>2. UNCHANGED stalls
    BY <1>4
    DEF RunnerSteps, Processing, Throw, Finalizing, Claim, Send, Record, Announce, ReadToFail,
        MarkFailed, ReadToUnlock, PostUnlock, Fetch, Save, Follow, RunnerCrash, Fault
  <2>3. ASSUME NEW v \in Withdrawals \ {w} PROVE Budget(v)'
    <3>1. ~MaySend(k, v) /\ ~MaySend(k, v)'
      BY <2>0, <2>1, <2>3 DEF MaySend, Free
    <3> QED BY <1>1, <2>1, <2>2, <3>1, OthersKeepBudget
  <2>4. ~(run[k].at = "claim" /\ RunnerCrash(k)) => Pending(w)' = 0
    <3>1. CASE Claim(k)
      BY <2>0, <3>1 DEF Claim, Pending, TypeOK, Early
    <3>2. CASE run[k].at # "claim"
      <4>1. status[w] \notin Early
        BY <2>0, <2>1, <3>2, RunFields DEF SendInv, PastClaim, InProcess, InFinalize
      <4>2. status'[w] \notin Early
        BY <4>1, ClaimsStay
      <4> QED BY <4>2 DEF Pending
    <3>3. run[k].at = "claim" => Claim(k) \/ RunnerCrash(k)
      BY <1>4
      DEF RunnerSteps, Processing, Throw, Finalizing, Send, Record, Announce, ReadToFail,
          MarkFailed, ReadToUnlock, PostUnlock, Fetch, Save, Follow
    <3> QED BY <3>1, <3>2, <3>3
  <2>5. /\ sent'[w] \in {sent[w], sent[w] + 1}
        /\ sent'[w] = sent[w] + 1 => run[k].at = "send"
        /\ run[k].at \in {"send", "claim"} /\ ~Claim(k) => ~MaySend(k, w)'
        /\ MaySend(k, w)' => MaySend(k, w)
    <3>1. CASE Claim(k)
      BY <2>0, <3>1 DEF Claim, MaySend, Goto, TypeOK
    <3>2. CASE Send(k)
      BY <1>0, <2>0, <3>2 DEF Send, Accept, MaySend, Goto, TypeOK
    <3>3. CASE RunnerCrash(k)
      BY <3>3 DEF RunnerCrash, MaySend, Goto, TypeOK, Free
    <3>4. CASE \/ Record(k) \/ Announce(k) \/ ReadToFail(k) \/ MarkFailed(k)
               \/ ReadToUnlock(k) \/ PostUnlock(k) \/ Throw(k) \/ Finalizing(k)
      BY <3>4
      DEF Record, Announce, ReadToFail, MarkFailed, ReadToUnlock, PostUnlock, Throw,
          Finalizing, Fetch, Save, Follow, JobEnds, MaySend, Goto, TypeOK, Free
    <3> QED BY <1>4, <3>1, <3>2, <3>3, <3>4 DEF RunnerSteps, Processing
  <2>6. Budget(w)'
    <3>1. /\ Cardinality(Senders(w)) \in Nat /\ Cardinality(Senders(w))' \in Nat
          /\ MaySend(k, w)' => Cardinality(Senders(w))' = Cardinality(Senders(w))
          /\ MaySend(k, w) /\ ~MaySend(k, w)'
             => Cardinality(Senders(w))' = Cardinality(Senders(w)) - 1
          /\ ~MaySend(k, w) => Cardinality(Senders(w))' = Cardinality(Senders(w))
      BY <2>1, <2>5, SendersCount
    <3>2. run[k].at \in {"claim", "send"} => MaySend(k, w)
      BY <2>0 DEF MaySend
    <3>3. Budget(w)
      BY DEF SendInv
    <3>4. CASE run[k].at = "claim" /\ RunnerCrash(k)
      <4>1. ~MaySend(k, w)'
        BY <3>4 DEF Claim, RunnerCrash, MaySend, Goto, TypeOK, Free
      <4> QED BY <1>0, <1>1, <2>2, <2>5, <3>1, <3>2, <3>3, <3>4, <4>1 DEF Budget
    <3>5. CASE sent'[w] = sent[w] + 1
      <4>1. ~Claim(k)
        BY <2>5, <3>5 DEF Claim
      <4> QED BY <1>0, <1>1, <2>2, <2>4, <2>5, <3>1, <3>2, <3>3, <3>5, <4>1 DEF Budget
    <3>6. CASE sent'[w] = sent[w] /\ Pending(w)' = 0
      BY <1>0, <1>1, <2>2, <2>5, <3>1, <3>3, <3>6 DEF Budget
    <3> QED BY <2>4, <2>5, <3>4, <3>5, <3>6
  <2> QED BY <2>3, <2>6
<1>5. ASSUME UNCHANGED vars PROVE \A v \in Withdrawals : Budget(v)'
  BY <1>5 DEF vars, SendInv, Budget, Senders, MaySend, Pending
<1>6. \A v \in Withdrawals : Budget(v)'
  BY <1>2, <1>3, <1>4, <1>5 DEF Next, WithdrawalSteps, RunnerStarts, RunnerSteps
<1> QED BY <1>6, ClaimsAreKept DEF SendInv
-------------------------------------------------------------------------------
(* A status taken from the provider is one the provider has reached.       *)
Agrees(s, c) ==
  /\ s = "BROADCASTED" => c \in {"broadcast", "confirmed", "final", "failed"}
  /\ s = "CONFIRMED" => c \in {"confirmed", "final"}

(* Nothing is known of a transfer before the claim, and an unlocked        *)
(* withdrawal was locked, is FAILED and has no transfer id.                *)
Settled(w) ==
  /\ status[w] \in Early => ref[w] = "none"
  /\ Agrees(status[w], chain[w])
  /\ "unlock" \in posted[w] => /\ "lock" \in posted[w] /\ status[w] = "FAILED"
                               /\ ref[w] # "transfer"

(* What a runner may rely on at each step, although it read it earlier.    *)
InStep(k) ==
  /\ run[k].at \in InProcess => job[run[k].w] = "active"
  /\ run[k].at = "claim" => status[run[k].w] = "APPROVED" /\ ref[run[k].w] = "none"
  /\ run[k].at \in {"send", "record"} =>
        status[run[k].w] = "PROCESSING" /\ ref[run[k].w] = "none"
  /\ run[k].at = "unlock" /\ ref[run[k].w] # "transfer" => status[run[k].w] = "FAILED"
  /\ run[k].at = "post" => status[run[k].w] = "FAILED" /\ ref[run[k].w] # "transfer"
  /\ run[k].at \in InFinalize => ref[run[k].w] = "transfer"
  /\ run[k].at = "fetch" => Agrees(run[k].old, chain[run[k].w])
  /\ run[k].at = "save" =>
        /\ Agrees(run[k].new, chain[run[k].w])
        /\ run[k].new = run[k].old \/ Rank(run[k].new) > Rank(run[k].old)

\* Two runners do not process the same withdrawal.
Alone(k, l) ==
  run[k].at \in InProcess /\ run[l].at \in InProcess /\ run[k].w = run[l].w => k = l

Calm == /\ \A w \in Withdrawals : Settled(w)
        /\ \A k \in Runners : InStep(k)
        /\ \A k, l \in Runners : Alone(k, l)

(* The next status agrees with the chain and is never an earlier one.      *)
LEMMA NextStatusMoves ==
  ASSUME NEW w \in Withdrawals, NEW old \in Finalizable, Agrees(old, chain[w])
  PROVE  /\ Agrees(NextStatus(w, old), chain[w])
         /\ NextStatus(w, old) = old \/ Rank(NextStatus(w, old)) > Rank(old)
BY DEF NextStatus, Agrees, Rank, Finalizable, Terminal

(* The provider only moves a transfer on.                                  *)
LEMMA ChainMovesOn ==
  ASSUME TypeOK, NEW w \in Withdrawals, Advance(w) \/ TransferFails(w)
  PROVE  \A s \in Status : Agrees(s, chain[w]) => Agrees(s, chain'[w])
BY DEF TypeOK, Advance, TransferFails, Agrees

(* Queue and chain leave every runner in step with its withdrawal, unless  *)
(* a job is taken for stalled.                                             *)
LEMMA WithdrawalsKeepCalm ==
  ASSUME TypeOK, RequestInv, Calm, NEW w \in Withdrawals, WithdrawalSteps(w), ~Stall(w)
  PROVE  Calm'
<1> USE DEF row, queue, custody, bounds
<1>1. run' = run /\ \A v \in Withdrawals \ {w} : Same(v)
  BY WithdrawalsStepAlone
<1>2. Settled(w) /\ Requested(w) /\ status[w] \in Status
  BY DEF Calm, RequestInv, TypeOK
<1>3. Settled(w)'
  <2>1. CASE Requesting(w) \/ HandlerCrash(w)
    BY <1>2, <2>1
    DEF Requesting, CreateRow, LockFunds, Approve, Enqueue, HandlerCrash, PostOnce,
        Requested, Settled, TypeOK, Early, Agrees
  <2>2. CASE Advance(w) \/ TransferFails(w)
    <3>1. UNCHANGED <<status, ref, posted>>
      BY <2>2 DEF Advance, TransferFails
    <3> QED BY <1>2, <2>2, <3>1, ChainMovesOn DEF Settled, TypeOK, Agrees
  <2> QED BY <2>1, <2>2 DEF WithdrawalSteps
<1>4. ASSUME NEW v \in Withdrawals \ {w} PROVE Settled(v)'
  BY <1>1, <1>4 DEF Calm, Settled, Same
<1>5. ASSUME NEW k \in Runners PROVE InStep(k)'
  <2>1. CASE run[k] = Free
    BY <1>1, <2>1 DEF InStep, Free, InProcess, InFinalize
  <2>2. CASE run[k] # Free /\ run[k].w # w
    <3>1. Same(run[k].w)
      BY <1>1, <2>2, RunFields
    <3> QED BY <1>1, <3>1 DEF Calm, InStep, Same
  <2>3. CASE run[k] # Free /\ run[k].w = w
    <3>1. Advance(w) \/ TransferFails(w)
      BY <1>2, <2>3
      DEF RequestInv, InHand, Requested, WithdrawalSteps, Requesting, CreateRow, LockFunds,
          Approve, Enqueue, HandlerCrash
    <3>2. UNCHANGED <<status, ref, job>>
      BY <3>1 DEF Advance, TransferFails
    <3>3. \A s \in Status : Agrees(s, chain[w]) => Agrees(s, chain'[w])
      BY <3>1, ChainMovesOn
    <3>4. /\ run[k].at = "fetch" => run[k].old \in Status
          /\ run[k].at = "save" => run[k].new \in Status
      BY <2>3, RunFields DEF Status
    <3> QED BY <1>1, <2>3, <3>2, <3>3, <3>4 DEF Calm, InStep
  <2> QED BY <2>1, <2>2, <2>3
<1>6. \A k, l \in Runners : Alone(k, l)'
  BY <1>1 DEF Calm, Alone
<1> QED BY <1>3, <1>4, <1>5, <1>6 DEF Calm

(* A runner that takes up work is in step with its withdrawal and alone    *)
(* with it.                                                                *)
LEMMA StartsKeepCalm ==
  ASSUME TypeOK, RequestInv, Calm,
         NEW k \in Runners, NEW w \in Withdrawals, RunnerStarts(k, w)
  PROVE  Calm'
<1> USE DEF row, queue, custody, bounds
<1>1. /\ run[k] = Free
      /\ run'[k] = Free \/ run'[k].w = w
      /\ \A l \in Runners \ {k} : run'[l] = run[l]
      /\ \A v \in Withdrawals \ {w} : Same(v)
      /\ UNCHANGED <<status, ref, posted, sent, chain>>
  BY RunnersStartAlone
<1>2. \A v \in Withdrawals : Settled(v)'
  BY <1>1 DEF Calm, Settled
<1>3. \/ /\ run'[k] = Free
         /\ job' = job \/ job[w] # "active"
      \/ /\ run'[k] = [at |-> "claim", w |-> w]
         /\ job[w] = "waiting" /\ job'[w] = "active" /\ status[w] = "APPROVED"
      \/ /\ run'[k] = [at |-> "fetch", w |-> w, old |-> status[w]]
         /\ ref[w] = "transfer" /\ job' = job
  <2>1. CASE TakeJob(k, w)
    BY <2>1 DEF TakeJob, JobEnds, Goto, TypeOK
  <2>2. CASE TakeFinalizer(k, w)
    BY <1>1, <2>2 DEF TakeFinalizer, ReadToFinalize, Goto, TypeOK
  <2>3. CASE Webhook(k, w)
    BY <2>3 DEF Webhook, Goto, TypeOK
  <2> QED BY <2>1, <2>2, <2>3 DEF RunnerStarts
<1>4. InStep(k)'
  BY <1>1, <1>3 DEF Calm, Settled, InStep, Free, InProcess, InFinalize, Early
<1>5. ASSUME NEW l \in Runners \ {k}
      PROVE  /\ InStep(l)'
             /\ run[l].at \in InProcess => ~(run'[k].at \in InProcess /\ run[l].w = w)
  <2>1. run[l] # Free => run[l].w \in Withdrawals
    BY RunFields
  <2>2. InStep(l) /\ run'[l] = run[l]
    BY <1>1 DEF Calm
  <2>3. run[l].at \in InProcess => job'[run[l].w] = "active"
    BY <1>1, <1>3, <2>1, <2>2 DEF InStep, Same, Free, InProcess
  <2>4. InStep(l)'
    BY <1>1, <2>2, <2>3 DEF InStep
  <2>5. run[l].at \in InProcess => ~(run'[k].at \in InProcess /\ run[l].w = w)
    BY <1>3, <2>2 DEF InStep, Free, InProcess
  <2> QED BY <2>4, <2>5
<1>6. \A l, m \in Runners : Alone(l, m)'
  BY <1>1, <1>5 DEF Calm, Alone, Free, InProcess
<1> QED BY <1>2, <1>4, <1>5, <1>6 DEF Calm

(* The withdrawal of the runner that moves.                                *)
LEMMA WorkSettles ==
  ASSUME TypeOK, RequestInv, SendInv, Calm, [Next]_vars,
         NEW k \in Runners, RunnerSteps(k), NEW w \in Withdrawals, run[k].w = w
  PROVE  Settled(w)'
<1> USE DEF row, queue, custody, bounds
<1>1. run[k] # Free
  BY RunnersMoveOn DEF RunnerSteps
<1>2. Settled(w) /\ InStep(k) /\ "lock" \in posted[w] /\ status[w] \in Status
  BY <1>1 DEF Calm, RequestInv, InHand, Requested, TypeOK
<1>3. status[w] \notin Early => status'[w] \notin Early
  BY ClaimsStay
<1>4. CASE Claim(k) \/ Send(k) \/ Record(k) \/ MarkFailed(k) \/ PostUnlock(k)
  BY <1>2, <1>4
  DEF Claim, Send, Accept, Record, MarkFailed, PostUnlock, PostOnce, Settled, InStep,
      TypeOK, Early, Agrees
<1>5. CASE Save(k)
  <2>1. status[w] \notin Early
    BY <1>5 DEF SendInv, PastClaim, Save
  <2>2. /\ status'[w] = IF run[k].new # run[k].old THEN run[k].new ELSE status[w]
        /\ UNCHANGED <<ref, posted, chain>>
    BY <1>5 DEF Save, TypeOK
  <2>3. ref[w] = "transfer" /\ Agrees(run[k].new, chain[w])
    BY <1>2, <1>5 DEF InStep, Save, InFinalize
  <2>4. Agrees(status'[w], chain[w])
    BY <1>2, <2>2, <2>3 DEF Settled
  <2> QED BY <1>2, <1>3, <2>1, <2>2, <2>3, <2>4 DEF Settled
<1>6. ASSUME UNCHANGED <<status, ref, posted, chain>> PROVE Settled(w)'
  BY <1>2, <1>6 DEF Settled
<1> QED
  BY <1>4, <1>5, <1>6
  DEF RunnerSteps, Processing, Finalizing, Announce, Throw, ReadToFail, ReadToUnlock,
      Fetch, Follow, RunnerCrash

(* The runner that moves.                                                  *)
LEMMA WorkStepsOn ==
  ASSUME TypeOK, Calm, NEW k \in Runners, RunnerSteps(k), NEW w \in Withdrawals, run[k].w = w
  PROVE  /\ InStep(k)'
         /\ run'[k].at \in InProcess => run[k].at \in InProcess
<1> USE DEF row, queue, custody, bounds
<1>1. run[k] # Free /\ InStep(k)
  BY RunnersMoveOn DEF Calm, RunnerSteps
<1>2. CASE Claim(k) \/ Send(k) \/ Record(k) \/ MarkFailed(k)
  <2>1. CASE Claim(k) \/ MarkFailed(k)
    BY <1>1, <2>1 DEF Claim, MarkFailed, Goto, InStep, TypeOK, InProcess, InFinalize
  <2>2. CASE Send(k)
    BY <1>1, <2>2 DEF Send, Goto, InStep, TypeOK, InProcess, InFinalize
  <2>3. CASE Record(k)
    BY <1>1, <2>3 DEF Record, Goto, InStep, TypeOK, InProcess, InFinalize
  <2> QED BY <1>2, <2>1, <2>2, <2>3
<1>3. CASE Throw(k) \/ ReadToFail(k) \/ ReadToUnlock(k)
  <2>1. /\ run[k].at \in InProcess
        /\ \/ run'[k] = Free
           \/ /\ run'[k] \in {[at |-> "fail", w |-> w], [at |-> "mark", w |-> w]}
              /\ job' = job
           \/ /\ run'[k] = [at |-> "post", w |-> w] /\ job' = job
              /\ run[k].at = "unlock" /\ ref[w] # "transfer"
        /\ UNCHANGED <<status, ref, chain>>
    <3>1. CASE Throw(k)
      BY <3>1 DEF Throw, Goto, TypeOK, InProcess
    <3>2. CASE ReadToFail(k)
      BY <3>2 DEF ReadToFail, JobEnds, Goto, TypeOK, InProcess
    <3>3. CASE ReadToUnlock(k)
      BY <3>3 DEF ReadToUnlock, JobEnds, Goto, TypeOK, InProcess
    <3> QED BY <1>3, <3>1, <3>2, <3>3
  <2> QED BY <1>1, <2>1 DEF InStep, Free, InProcess, InFinalize
<1>4. CASE Announce(k) \/ PostUnlock(k) \/ Follow(k) \/ RunnerCrash(k)
  BY <1>4
  DEF Announce, PostUnlock, Follow, RunnerCrash, JobEnds, Goto, InStep, TypeOK, InProcess,
      InFinalize, Free
<1>5. CASE Fetch(k)
  <2>1. /\ run'[k] = [at |-> "save", w |-> w, old |-> run[k].old, new |-> NextStatus(w, run[k].old)]
        /\ UNCHANGED <<status, ref, chain>>
    BY <1>5 DEF Fetch, Goto, TypeOK
  <2>2. /\ run[k].old \in Finalizable
        /\ Agrees(run[k].old, chain[w])
        /\ ref[w] = "transfer"
    BY <1>1, <1>5, RunFields DEF InStep, Fetch, InFinalize
  <2> QED BY <2>1, <2>2, NextStatusMoves DEF InStep, InProcess, InFinalize
<1>6. CASE Save(k)
  BY <1>1, <1>6 DEF Save, Goto, InStep, TypeOK, InProcess, InFinalize
<1> QED BY <1>2, <1>3, <1>4, <1>5, <1>6 DEF RunnerSteps, Processing, Finalizing

(* A runner that works on the same withdrawal meanwhile: one of the two    *)
(* finalizes it, so its transfer id is known and stays known.              *)
LEMMA WorkLeavesOthers ==
  ASSUME TypeOK, Calm, NEW k \in Runners, RunnerSteps(k),
         NEW w \in Withdrawals, run[k].w = w, NEW l \in Runners \ {k}
  PROVE  InStep(l)'
<1> USE DEF row, queue, custody, bounds
<1>1. /\ run[k] # Free /\ run'[l] = run[l]
      /\ \A v \in Withdrawals \ {w} : Same(v)
  BY RunnersMoveOn, RunnersWorkAlone DEF RunnerSteps
<1>2. InStep(l) /\ InStep(k) /\ Alone(k, l)
  BY DEF Calm
<1>3. CASE run[l] = Free
  BY <1>1, <1>3 DEF InStep, Free, InProcess, InFinalize
<1>4. CASE run[l] # Free /\ run[l].w # w
  <2>1. Same(run[l].w)
    BY <1>1, <1>4, RunFields
  <2> QED BY <1>1, <1>2, <2>1 DEF InStep, Same
<1>5. CASE run[l] # Free /\ run[l].w = w /\ run[k].at \in InProcess
  <2>1. run[l].at \in InFinalize
    BY <1>2, <1>5, RunFields DEF Alone
  <2>2. ref[w] = "transfer"
    BY <1>2, <1>5, <2>1 DEF InStep
  <2>3. ref' = ref /\ chain' = chain
    BY <1>2, <1>5, <2>2
    DEF InStep, RunnerSteps, Processing, Throw, Finalizing, Claim, Send, Record, Announce,
        ReadToFail, MarkFailed, ReadToUnlock, PostUnlock, Fetch, Save, Follow, RunnerCrash
  <2> QED BY <1>1, <1>2, <1>5, <2>1, <2>2, <2>3 DEF InStep, InProcess, InFinalize
<1>6. CASE run[l] # Free /\ run[l].w = w /\ run[k].at \in InFinalize
  <2>1. ref[w] = "transfer"
    BY <1>2, <1>6 DEF InStep
  <2>2. ref' = ref /\ chain' = chain /\ job' = job
    BY <1>6
    DEF InFinalize, InProcess, RunnerSteps, Processing, Throw, Finalizing, Claim, Send, Record,
        Announce, ReadToFail, MarkFailed, ReadToUnlock, PostUnlock, Fetch, Save, Follow,
        RunnerCrash
  <2>3. run[l].at \notin {"claim", "send", "record", "post"}
    BY <1>2, <1>6, <2>1 DEF InStep
  <2> QED BY <1>1, <1>2, <1>6, <2>1, <2>2, <2>3 DEF InStep
<1> QED BY <1>1, <1>3, <1>4, <1>5, <1>6, RunFields

(* A runner at work stays in step with its withdrawal and alone with it.   *)
LEMMA WorkKeepsCalm ==
  ASSUME TypeOK, RequestInv, SendInv, Calm, [Next]_vars, NEW k \in Runners, RunnerSteps(k)
  PROVE  Calm'
<1>0. PICK w \in Withdrawals : run[k].w = w
  BY RunnersMoveOn DEF RunnerSteps
<1>1. /\ run'[k] = Free \/ run'[k].w = w
      /\ \A l \in Runners \ {k} : run'[l] = run[l]
      /\ \A v \in Withdrawals \ {w} : Same(v)
  BY <1>0, RunnersMoveOn, RunnersWorkAlone DEF RunnerSteps
<1>2. Settled(w)'
  BY <1>0, WorkSettles
<1>3. ASSUME NEW v \in Withdrawals \ {w} PROVE Settled(v)'
  BY <1>1, <1>3 DEF Calm, Settled, Same
<1>4. InStep(k)' /\ (run'[k].at \in InProcess => run[k].at \in InProcess)
  BY <1>0, WorkStepsOn
<1>5. \A l \in Runners \ {k} : InStep(l)'
  BY <1>0, WorkLeavesOthers
<1>6. \A l, m \in Runners : Alone(l, m)'
  BY <1>0, <1>1, <1>4 DEF Calm, Alone, Free, InProcess
<1> QED BY <1>2, <1>3, <1>4, <1>5, <1>6 DEF Calm
-------------------------------------------------------------------------------
(* The inductive invariant: while no job was delivered twice, every step   *)
(* of a runner can rely on what it read before.                            *)
WithdrawalInv == /\ TypeOK
                 /\ RequestInv
                 /\ SendInv
                 /\ stalls = 0 => Calm

(* Until the first job is taken for stalled, nobody works on a withdrawal  *)
(* twice at once.                                                          *)
LEMMA CalmStays ==
  ASSUME WithdrawalInv, [Next]_vars, stalls' = 0
  PROVE  stalls = 0 /\ Calm'
<1> USE DEF row, queue, custody, bounds
<1>1. TypeOK /\ RequestInv /\ SendInv /\ stalls \in Nat
  BY DEF WithdrawalInv, TypeOK
<1>2. ASSUME NEW w \in Withdrawals, WithdrawalSteps(w)
      PROVE  stalls = 0 /\ Calm'
  <2>1. ~Stall(w) /\ stalls = 0
    BY <1>1, <1>2
    DEF WithdrawalSteps, Requesting, CreateRow, LockFunds, Approve, Enqueue, HandlerCrash, Fault,
        Stall, Advance, TransferFails
  <2> QED BY <1>1, <1>2, <2>1, WithdrawalsKeepCalm DEF WithdrawalInv
<1>3. ASSUME NEW k \in Runners, NEW w \in Withdrawals, RunnerStarts(k, w)
      PROVE  stalls = 0 /\ Calm'
  <2>1. stalls = 0
    BY <1>1, <1>3, RunnersStartAlone
  <2> QED BY <1>1, <1>3, <2>1, StartsKeepCalm DEF WithdrawalInv
<1>4. ASSUME NEW k \in Runners, RunnerSteps(k)
      PROVE  stalls = 0 /\ Calm'
  <2>1. stalls = 0
    BY <1>4
    DEF RunnerSteps, Processing, Throw, Finalizing, Claim, Send, Record, Announce, ReadToFail,
        MarkFailed, ReadToUnlock, PostUnlock, Fetch, Save, Follow, RunnerCrash, Fault
  <2> QED BY <1>1, <1>4, <2>1, WorkKeepsCalm DEF WithdrawalInv
<1>5. CASE UNCHANGED vars
  BY <1>5 DEF vars, WithdrawalInv, Calm, Settled, InStep, Alone
<1> QED BY <1>2, <1>3, <1>4, <1>5 DEF Next, WithdrawalSteps, RunnerStarts, RunnerSteps

(* Every reachable state of the withdrawals has its types, its request     *)
(* invariants, its budgets of sends and, until a job stalls, its calm.     *)
THEOREM WithdrawalInvariant == Spec => []WithdrawalInv
<1>1. Init => WithdrawalInv
  <2> SUFFICES ASSUME Init PROVE WithdrawalInv
    OBVIOUS
  <2>1. TypeOK
    BY BoundsAssumption DEF Init, TypeOK, Run, Free, Status
  <2>2. RequestInv
    BY DEF Init, RequestInv, Requested, InHand, Early
  <2>3. SendInv
    <3>1. ASSUME NEW w \in Withdrawals PROVE Budget(w)
      <4>1. Senders(w) = {}
        BY DEF Senders, MaySend, Init, Free
      <4>2. Cardinality(Senders(w)) = 0
        BY <4>1, FS_EmptySet
      <4> QED BY <4>2 DEF Init, Budget, Pending
    <3> QED BY <3>1 DEF SendInv, PastClaim, Init, Free
  <2>4. Calm
    BY DEF Init, Calm, Settled, InStep, Alone, Agrees, Free, InProcess, InFinalize, Early
  <2> QED BY <2>1, <2>2, <2>3, <2>4 DEF WithdrawalInv
<1>2. WithdrawalInv /\ TypeOK' /\ [Next]_vars => WithdrawalInv'
  BY RequestsStand, SendsStand, CalmStays DEF WithdrawalInv
<1> QED BY <1>1, <1>2, WithdrawalTypeCorrect, PTL DEF Spec

(* The ledger and custody agree on where the money is, in every reachable  *)
(* state: nothing is sent or completed without its lock, custody is asked  *)
(* once (once more for each job delivered again), and funds are unlocked   *)
(* only for a FAILED withdrawal without a transfer id.                     *)
THEOREM WithdrawalFundsFollowTransfer == Spec => []FundsFollowTransfer
<1>1. WithdrawalInv => FundsFollowTransfer
  <2> SUFFICES ASSUME WithdrawalInv PROVE FundsFollowTransfer
    OBVIOUS
  <2>1. LockBeforeSend
    BY DEF WithdrawalInv, RequestInv, Requested, LockBeforeSend
  <2>2. SentOnce
    <3>1. ASSUME NEW w \in Withdrawals PROVE sent[w] <= 1 + stalls
      <4>1. Cardinality(Senders(w)) \in Nat
        BY RunnersAssumption, FS_Subset, FS_CardinalityType DEF Senders
      <4>2. Pending(w) \in Nat /\ sent[w] \in Nat /\ stalls \in Nat
        BY DEF Pending, WithdrawalInv, TypeOK
      <4> QED BY <4>1, <4>2 DEF WithdrawalInv, SendInv, Budget
    <3> QED BY <3>1 DEF SentOnce
  <2>3. UnlockIsSafe
    BY DEF WithdrawalInv, Calm, Settled, UnlockIsSafe
  <2> QED BY <2>1, <2>2, <2>3 DEF FundsFollowTransfer
<1> QED BY <1>1, WithdrawalInvariant, PTL

(* Across crashes, retries and lost replies the status of a withdrawal     *)
(* only moves forward, but where the write of one runner follows from a    *)
(* read that another has overtaken.                                        *)
THEOREM WithdrawalForwardOnly == Spec => ForwardOnly
<1> DEFINE Forward == \A w \in Withdrawals :
                         /\ stalls = 0 /\ status'[w] # status[w]
                         /\ ~\E k \in Runners : Overtaken(k, w)
                         => Rank(status'[w]) > Rank(status[w])
<1> USE DEF row, queue, custody, bounds
<1>1. WithdrawalInv /\ [Next]_vars => Forward
  <2> SUFFICES ASSUME WithdrawalInv, [Next]_vars, stalls = 0,
                      NEW w \in Withdrawals, status'[w] # status[w],
                      ~\E k \in Runners : Overtaken(k, w)
               PROVE  Rank(status'[w]) > Rank(status[w])
    OBVIOUS
  <2>1. TypeOK /\ RequestInv /\ Calm /\ status[w] \in Status
    BY DEF WithdrawalInv, TypeOK
  <2>2. ASSUME NEW v \in Withdrawals, WithdrawalSteps(v)
        PROVE  Rank(status'[w]) > Rank(status[w])
    <3>1. v = w
      BY <2>1, <2>2, WithdrawalsStepAlone DEF Same
    <3>2. CreateRow(w) \/ Approve(w)
      BY <2>2, <3>1
      DEF WithdrawalSteps, Requesting, LockFunds, Enqueue, HandlerCrash, Stall, Advance,
          TransferFails
    <3>3. \/ status[w] = "NONE" /\ status'[w] = "REQUESTED"
          \/ status[w] = "REQUESTED" /\ status'[w] \in {"APPROVED", "PENDING_REVIEW"}
      BY <2>1, <3>2 DEF CreateRow, Approve, RequestInv, Requested, TypeOK
    <3> QED BY <3>3 DEF Rank, Terminal
  <2>3. ASSUME NEW k \in Runners, RunnerSteps(k)
        PROVE  Rank(status'[w]) > Rank(status[w])
    <3>1. run[k] # Free /\ run[k].w = w
      BY <2>1, <2>3, RunnersMoveOn, RunnersWorkAlone DEF RunnerSteps, Same
    <3>2. InStep(k) /\ ~Overtaken(k, w)
      BY <2>1 DEF Calm
    <3>3. CASE Claim(k) \/ Record(k)
      <4>1. CASE Claim(k)
        <5>1. status[w] = "APPROVED" /\ status'[w] = "PROCESSING"
          BY <2>1, <3>1, <3>2, <4>1 DEF Claim, InStep, TypeOK
        <5> QED BY <5>1 DEF Rank, Terminal
      <4>2. CASE Record(k)
        <5>1. status[w] = "PROCESSING" /\ status'[w] = "SUBMITTED"
          BY <2>1, <3>1, <3>2, <4>2 DEF Record, InStep, TypeOK
        <5> QED BY <5>1 DEF Rank, Terminal
      <4> QED BY <3>3, <4>1, <4>2
    <3>4. CASE MarkFailed(k)
      <4>1. status'[w] = "FAILED" /\ status[w] # "COMPLETED"
        BY <2>1, <3>1, <3>2, <3>4 DEF MarkFailed, Overtaken, TypeOK
      <4> QED BY <2>1, <4>1 DEF Rank, Status, Finalizable, Terminal
    <3>5. CASE Save(k)
      BY <2>1, <3>1, <3>2, <3>5 DEF Save, Overtaken, InStep, TypeOK
    <3>6. CASE UNCHANGED status
      BY <3>6
    <3> QED
      BY <2>3, <3>3, <3>4, <3>5, <3>6
      DEF RunnerSteps, Processing, Finalizing, Throw, Send, Announce, ReadToFail, ReadToUnlock,
          PostUnlock, Fetch, Follow, RunnerCrash
  <2>4. ASSUME NEW k \in Runners, NEW v \in Withdrawals, RunnerStarts(k, v)
        PROVE  Rank(status'[w]) > Rank(status[w])
    BY <2>1, <2>4, RunnersStartAlone
  <2>5. CASE UNCHANGED vars
    BY <2>5 DEF vars
  <2> QED BY <2>2, <2>3, <2>4, <2>5 DEF Next, WithdrawalSteps, RunnerStarts, RunnerSteps
<1> QED BY <1>1, WithdrawalInvariant, PTL DEF Spec, ForwardOnly
===============================================================================
