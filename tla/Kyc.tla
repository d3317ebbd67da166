---------------------------------- MODULE Kyc ----------------------------------
(***************************************************************************)
(* Identity checks (user-kyc-service/kyc.service.js) of one user; users    *)
(* share nothing here.  The user submits an application and uploads its    *)
(* documents, administrators review it.  Each operation reads what it      *)
(* decides on before it opens the transaction that writes, and nothing in  *)
(* the transaction asks whether it still holds, so requests of the user's  *)
(* browsers and of several administrators interleave at every await.       *)
(*                                                                         *)
(* The transactions write the user row or a row of their own submission,   *)
(* whose lock they keep to the end, so each is one step.  A request may    *)
(* end at any await.  Personal data, file contents and the audit entries   *)
(* of uploads, which carry no status, are left out.                        *)
(***************************************************************************)
EXTENDS Naturals, Sequences, FiniteSets

CONSTANTS KycHandlers,       \* requests the server handles at once
          RequiredFileTypes, \* REQUIRED_KYC_FILE_TYPES_FOR_APPROVAL
          MaxFiles,          \* bound: files multer stores
          MaxSubmissions     \* bound: applications of the user

ASSUME KycAssumption ==
    IsFiniteSet(KycHandlers) /\ MaxFiles \in Nat /\ MaxSubmissions \in Nat

VARIABLES kycStatus,         \* User.kycStatus
          submissions,       \* KycSubmission.status, by order of submittedAt
          document,          \* KycDocument.filePath per submission and type
          disk,              \* uploads/kyc: what became of every file
          kycAudit,          \* KycAuditLog: the entries that carry a status
          kycRequest         \* per request: the operation and what it read

kycVars == <<kycStatus, submissions, document, disk, kycAudit, kycRequest>>

\* Every stored file has a name of its own (randomUUID): its number.
DocumentFiles == 1..MaxFiles
NoFile == 0
KycIdle == [pc |-> "idle"]
Decisions == {"APPROVED", "REJECTED"}
Submitted == DOMAIN submissions

KycTypeOK ==
    /\ kycStatus \in {"NOT_SUBMITTED", "PENDING"} \cup Decisions
    /\ submissions \in Seq({"PENDING"} \cup Decisions)
    /\ Len(submissions) <= MaxSubmissions
    /\ document \in [1..MaxSubmissions -> [RequiredFileTypes -> DocumentFiles \cup {NoFile}]]
    /\ disk \in [DocumentFiles -> {"new", "stored", "unlinked"}]
    /\ kycAudit \in Seq([s : Submitted, toStatus : {"PENDING"} \cup Decisions])
    /\ kycRequest \in [KycHandlers ->
           {KycIdle}
           \cup [pc : {"find", "create"}]
           \cup [pc : {"check", "decide"}, s : Submitted, to : Decisions]
           \cup [pc : {"existing", "store", "unlink"}, s : Submitted,
                 type : RequiredFileTypes, file : DocumentFiles,
                 old : DocumentFiles \cup {NoFile}]]

KycInit ==
    /\ kycStatus = "NOT_SUBMITTED"
    /\ submissions = << >>
    /\ document = [s \in 1..MaxSubmissions |-> [t \in RequiredFileTypes |-> NoFile]]
    /\ disk = [f \in DocumentFiles |-> "new"]
    /\ kycAudit = << >>
    /\ kycRequest = [k \in KycHandlers |-> KycIdle]
-------------------------------------------------------------------------------
Pc(k) == kycRequest[k].pc
Continue(k, pc) == kycRequest' = [kycRequest EXCEPT ![k].pc = pc]
Begin(k, request) == kycRequest[k] = KycIdle
                     /\ kycRequest' = [kycRequest EXCEPT ![k] = request]
EndKyc(k) == kycRequest' = [kycRequest EXCEPT ![k] = KycIdle]

PendingSubmissions == {s \in Submitted : submissions[s] = "PENDING"}

\* createKycAuditLog for a change of status.
Audit(s, toStatus) == kycAudit' = Append(kycAudit, [s |-> s, toStatus |-> toStatus])

\* Fault: an approved user may apply again.
SubmitAlways(k) ==
    /\ Len(submissions) < MaxSubmissions
    /\ Begin(k, [pc |-> "find"])
    /\ UNCHANGED <<kycStatus, submissions, document, disk, kycAudit>>

\* submitKyc: reads the user ...
SubmitKyc(k) ==
    /\ kycStatus # "APPROVED" /\ Len(submissions) < MaxSubmissions
    /\ Begin(k, [pc |-> "find"])
    /\ UNCHANGED <<kycStatus, submissions, document, disk, kycAudit>>

\* ... then the pending submissions ...
FindPending(k) ==
    /\ Pc(k) = "find"
    /\ IF PendingSubmissions = {} THEN Continue(k, "create") ELSE EndKyc(k)
    /\ UNCHANGED <<kycStatus, submissions, document, disk, kycAudit>>

\* ... and stores the application in one transaction.
CreateSubmission(k) ==
    /\ Pc(k) = "create" /\ Len(submissions) < MaxSubmissions
    /\ submissions' = Append(submissions, "PENDING")
    /\ kycStatus' = "PENDING"
    /\ Audit(Len(submissions) + 1, "PENDING")
    /\ EndKyc(k)
    /\ UNCHANGED <<document, disk>>

\* reviewKycSubmission reads the submission ...
Review(k, s, to) ==
    /\ s \in PendingSubmissions
    /\ Begin(k, [pc |-> IF to = "APPROVED" THEN "check" ELSE "decide", s |-> s, to |-> to])
    /\ UNCHANGED <<kycStatus, submissions, document, disk, kycAudit>>

\* ... for an approval, the documents ...
CheckDocuments(k) ==
    /\ Pc(k) = "check"
    /\ IF \A t \in RequiredFileTypes : document[kycRequest[k].s][t] # NoFile
       THEN Continue(k, "decide") ELSE EndKyc(k)
    /\ UNCHANGED <<kycStatus, submissions, document, disk, kycAudit>>

\* ... and stores the decision in one transaction, whatever the status is now.
Decide(k) ==
    /\ Pc(k) = "decide"
    /\ LET s == kycRequest[k].s  to == kycRequest[k].to IN
       /\ submissions' = [submissions EXCEPT ![s] = to]
       /\ kycStatus' = to
       /\ Audit(s, to)
    /\ EndKyc(k)
    /\ UNCHANGED <<document, disk>>

\* uploadKycDocumentForSubmission: multer has stored the file before the
\* latest pending submission is looked for; without one the file stays.
Upload(k, t, f) ==
    /\ disk[f] = "new" /\ \A g \in 1..(f - 1) : disk[g] # "new"
    /\ disk' = [disk EXCEPT ![f] = "stored"]
    /\ \/ PendingSubmissions = {} /\ kycRequest[k] = KycIdle /\ UNCHANGED kycRequest
       \/ \E s \in PendingSubmissions :
             /\ \A r \in PendingSubmissions : r <= s
             /\ Begin(k, [pc |-> "existing", s |-> s, type |-> t, file |-> f, old |-> NoFile])
    /\ UNCHANGED <<kycStatus, submissions, document, kycAudit>>

FindDocument(k) ==
    /\ Pc(k) = "existing"
    /\ LET r == kycRequest[k] IN
       kycRequest' = [kycRequest EXCEPT ![k].pc = "store", ![k].old = document[r.s][r.type]]
    /\ UNCHANGED <<kycStatus, submissions, document, disk, kycAudit>>

\* Fault: the old file is removed before the row is replaced.
StoreLast(k) ==
    /\ Pc(k) = "store"
    /\ LET r == kycRequest[k] IN
       IF r.old = NoFile \/ disk[r.old] = "unlinked"
       THEN /\ document' = [document EXCEPT ![r.s][r.type] = r.file]
            /\ EndKyc(k) /\ UNCHANGED disk
       ELSE /\ disk' = [disk EXCEPT ![r.old] = "unlinked"]
            /\ UNCHANGED <<document, kycRequest>>
    /\ UNCHANGED <<kycStatus, submissions, kycAudit>>

\* The upsert and its audit entry are one transaction ...
StoreDocument(k) ==
    /\ Pc(k) = "store"
    /\ LET r == kycRequest[k] IN
       /\ document' = [document EXCEPT ![r.s][r.type] = r.file]
       /\ IF r.old = NoFile THEN EndKyc(k) ELSE Continue(k, "unlink")
    /\ UNCHANGED <<kycStatus, submissions, disk, kycAudit>>

\* ... then the file the row named when it was read is removed.
Unlink(k) ==
    /\ Pc(k) = "unlink"
    /\ disk' = [disk EXCEPT ![kycRequest[k].old] = "unlinked"]
    /\ EndKyc(k)
    /\ UNCHANGED <<kycStatus, submissions, document, kycAudit>>

\* An await throws, or the process dies: nothing is undone.
KycFails(k) ==
    /\ kycRequest[k] # KycIdle
    /\ EndKyc(k)
    /\ UNCHANGED <<kycStatus, submissions, document, disk, kycAudit>>

KycNext ==
    \E k \in KycHandlers :
       \/ SubmitKyc(k) \/ FindPending(k) \/ CreateSubmission(k)
       \/ \E s \in Submitted, to \in Decisions : Review(k, s, to)
       \/ CheckDocuments(k) \/ Decide(k)
       \/ \E t \in RequiredFileTypes, f \in DocumentFiles : Upload(k, t, f)
       \/ FindDocument(k) \/ StoreDocument(k) \/ Unlink(k)
       \/ KycFails(k)

KycSpec == KycInit /\ [][KycNext]_kycVars
-------------------------------------------------------------------------------
LastStatus(entries) ==
    IF entries = << >> THEN "NOT_SUBMITTED" ELSE entries[Len(entries)].toStatus

IsLastOn(s, i) == /\ kycAudit[i].s = s
                  /\ \A j \in (i + 1)..Len(kycAudit) : kycAudit[j].s # s

DecisionsOn(s) == {i \in DOMAIN kycAudit : kycAudit[i].s = s /\ kycAudit[i].toStatus # "PENDING"}

\* However submissions and reviews interleave, the audit trail explains the
\* present: the user has the status of its last entry and every submission
\* the status of its own last entry.
TrailExplainsStatus ==
    /\ kycStatus = LastStatus(kycAudit)
    /\ \A s \in Submitted : \E i \in DOMAIN kycAudit :
          IsLastOn(s, i) /\ submissions[s] = kycAudit[i].toStatus

\* A user shown as PENDING has an application an administrator can decide,
\* even when two were created at once: nobody waits for a review of nothing.
PendingIsReviewable == kycStatus = "PENDING" => PendingSubmissions # {}

\* Reviews that overlap may each decide the submission, but only those: a
\* submission is decided at most once per concurrent request.
DecisionsOverlap ==
    \A s \in Submitted : Cardinality(DecisionsOn(s)) <= Cardinality(KycHandlers)

\* Nothing is approved without every required document, though documents
\* are checked before the transaction and replaced at any time.
ApprovedHasDocuments ==
    \A s \in Submitted : submissions[s] = "APPROVED" =>
       \A t \in RequiredFileTypes : document[s][t] # NoFile

\* The file a document row names is on disk, although every upload removes
\* a file that it read earlier than it wrote the row.
DocumentsExist ==
    \A s \in Submitted : \A t \in RequiredFileTypes :
       document[s][t] # NoFile => disk[document[s][t]] = "stored"

WorksOn(k, s) == \E r \in {kycRequest[k]} : "s" \in DOMAIN r /\ r.s = s

Closed(s) == submissions[s] # "PENDING" /\ \A k \in KycHandlers : ~WorksOn(k, s)

SettledApproval ==
    /\ kycStatus = "APPROVED" /\ PendingSubmissions = {}
    /\ \A k \in KycHandlers : Pc(k) \notin {"find", "create", "check", "decide"}

\* Once the requests that overlapped a decision have ended, the submission
\* and its documents never change again, and a user approved with nothing
\* pending stays approved.
DecisionsStand ==
    [][/\ \A s \in Submitted : Closed(s) =>
             Closed(s)' /\ submissions'[s] = submissions[s] /\ document'[s] = document[s]
       /\ SettledApproval => SettledApproval']_kycVars

\* At every moment of every interleaving the user, the submissions, the trail
\* and the files on disk fit together.
KycConsistent ==
    /\ TrailExplainsStatus /\ PendingIsReviewable /\ DecisionsOverlap
    /\ ApprovedHasDocuments /\ DocumentsExist
===============================================================================
