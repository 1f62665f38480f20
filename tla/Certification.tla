----------------------------- MODULE Certification -----------------------------
(***************************************************************************)
(* The exam and the certificate of one student in one course: ExamsService, *)
(* CertificatesService and CertificateShareService.  An exam submission    *)
(* runs in a transaction that first takes an advisory lock on the student  *)
(* and the exam; issuing a certificate is a chain of separate awaits that  *)
(* a crash, or a course without a usable template, may cut short.          *)
(***************************************************************************)
EXTENDS Naturals, Sequences, FiniteSets

CONSTANTS
  Requests,
  MaxAttempts,      \* bound: exam attempts
  Free              \* nobody holds the lock

ConstantsAssumption == MaxAttempts \in Nat /\ Free \notin Requests

VARIABLES
  exam,             \* the course has an exam
  attempts,         \* rows in order: passed; blind: another was recorded after its check
  cooling,          \* within cooldownHours of the last attempt
  lock,             \* pg_advisory_xact_lock
  enrolled,         \* Enrollment.status
  finished,         \* its progressPercent is 100, which a refund leaves alone
  template,         \* the category has an active template
  certificate,      \* [state, pdf, tx, shared]
  waived,           \* history: it was issued while the course had no exam
  task

vars == <<exam, attempts, cooling, lock, enrolled, finished, template, certificate, waived, task>>
examVars == <<exam, attempts, cooling, lock>>
courseVars == <<enrolled, finished, template>>

Idle == [pc |-> "idle", seen |-> 0, waive |-> FALSE]
Begin(r, pc) == task[r] = Idle /\ task' = [task EXCEPT ![r].pc = pc]
Goto(r, pc) == task' = [task EXCEPT ![r].pc = pc]
Finish(r) == task' = [task EXCEPT ![r] = Idle]
At(r, pc) == task[r].pc = pc

(***************************************************************************)
(* The exam                                                                *)
(***************************************************************************)

Passed == \E i \in DOMAIN attempts : attempts[i].passed

CreateExam ==
  /\ ~exam /\ exam' = TRUE
  /\ UNCHANGED <<attempts, cooling, lock, courseVars, certificate, waived, task>>

StartSubmit(r) ==
  /\ exam /\ Begin(r, "lock")
  /\ UNCHANGED <<examVars, courseVars, certificate, waived>>

\* (mutant) the transaction takes no lock
AlwaysFree == TRUE

LockIsFree == lock = Free

AcquireLock(r) ==
  /\ At(r, "lock") /\ LockIsFree
  /\ lock' = r /\ Goto(r, "eligible")
  /\ UNCHANGED <<exam, attempts, cooling, courseVars, certificate, waived>>

\* Not passed yet, and not within the cooldown of the last attempt.
MayTake ==
  /\ exam /\ (finished \/ enrolled = "COMPLETED")
  /\ attempts # <<>> => ~attempts[Len(attempts)].passed /\ ~cooling

CheckEligibility(r) ==
  /\ At(r, "eligible") /\ MayTake
  /\ task' = [task EXCEPT ![r].pc = "record", ![r].seen = Len(attempts)]
  /\ UNCHANGED <<examVars, courseVars, certificate, waived>>

NotEligible(r) ==
  /\ At(r, "eligible") /\ ~MayTake
  /\ lock' = Free /\ Finish(r)
  /\ UNCHANGED <<exam, attempts, cooling, courseVars, certificate, waived>>

\* The attempt becomes visible, and the lock free, when the transaction commits.
RecordAttempt(r) ==
  /\ At(r, "record") /\ exam /\ Len(attempts) < MaxAttempts
  /\ \E passed \in BOOLEAN :
       attempts' = Append(attempts,
         [passed |-> passed, blind |-> Len(attempts) # task[r].seen])
  /\ cooling' = TRUE /\ lock' = Free
  /\ Finish(r)
  /\ UNCHANGED <<exam, courseVars, certificate, waived>>

CooldownEnds ==
  /\ cooling /\ cooling' = FALSE
  /\ UNCHANGED <<exam, attempts, lock, courseVars, certificate, waived, task>>

\* deleteExam: refused once attempts exist, by the check and by the foreign key,
\* whose check waits for an attempt being recorded.
StartDeleteExam(r) ==
  /\ exam /\ attempts = <<>> /\ Begin(r, "delete")
  /\ UNCHANGED <<examVars, courseVars, certificate, waived>>

DeleteExam(r) ==
  /\ At(r, "delete")
  /\ \A o \in Requests : ~At(o, "record")
  /\ exam' = (exam /\ attempts # <<>>)
  /\ Finish(r)
  /\ UNCHANGED <<attempts, cooling, lock, courseVars, certificate, waived>>

(***************************************************************************)
(* The certificate                                                         *)
(***************************************************************************)

StartIssue(r) ==
  /\ enrolled = "COMPLETED" /\ Begin(r, "exam")
  /\ UNCHANGED <<examVars, courseVars, certificate, waived>>

\* (mutant) an attempt is enough
HasTakenExam == ~exam \/ attempts # <<>>

HasPassedExam == ~exam \/ Passed

CheckExam(r) ==
  /\ At(r, "exam")
  /\ IF HasPassedExam
       THEN task' = [task EXCEPT ![r].pc = "existing", ![r].waive = ~exam]
       ELSE Finish(r)
  /\ UNCHANGED <<examVars, courseVars, certificate, waived>>

CheckExisting(r) ==
  /\ At(r, "existing")
  /\ IF certificate.state = "none" THEN Goto(r, "create") ELSE Finish(r)
  /\ UNCHANGED <<examVars, courseVars, certificate, waived>>

\* A second row of the student and course is refused by the unique index.
CreateCertificate(r) ==
  /\ At(r, "create")
  /\ IF certificate.state = "none"
       THEN /\ certificate' = [certificate EXCEPT !.state = "issued"]
            /\ waived' = task[r].waive
            /\ Goto(r, "render")
       ELSE Finish(r) /\ UNCHANGED <<certificate, waived>>
  /\ UNCHANGED <<examVars, courseVars>>

\* getPdfForDownload renders what an earlier issue or download failed to store.
Download(r) ==
  /\ certificate.state # "none" /\ ~certificate.pdf /\ Begin(r, "render")
  /\ UNCHANGED <<examVars, courseVars, certificate, waived>>

RenderPdf(r) ==
  /\ At(r, "render")
  /\ IF template THEN Goto(r, "save") ELSE Finish(r)
  /\ UNCHANGED <<examVars, courseVars, certificate, waived>>

SavePdf(r) ==
  /\ At(r, "save")
  /\ certificate' = [certificate EXCEPT !.pdf = TRUE]
  /\ Finish(r)
  /\ UNCHANGED <<examVars, courseVars, waived>>

UpdateTxHash ==
  /\ certificate.state # "none" /\ ~certificate.tx
  /\ certificate' = [certificate EXCEPT !.tx = TRUE]
  /\ UNCHANGED <<examVars, courseVars, waived, task>>

Verdict(onChain) ==
  IF certificate.state = "revoked" THEN "INVALID"
  ELSE IF ~certificate.tx THEN "PENDING"
  ELSE IF onChain = "error" THEN "UNVERIFIABLE"
  ELSE IF onChain = "absent" THEN "INVALID"
  ELSE "VALID"

StartRevoke(r) ==
  /\ certificate.state = "issued" /\ Begin(r, "revoke")
  /\ UNCHANGED <<examVars, courseVars, certificate, waived>>

Revoke(r) ==
  /\ At(r, "revoke")
  /\ certificate' = [certificate EXCEPT !.state = "revoked"]
  /\ Finish(r)
  /\ UNCHANGED <<examVars, courseVars, waived>>

\* A certificate-revoked event of the chain, whatever the backend did with it before.
RevokedOnChain ==
  /\ certificate.state # "none"
  /\ certificate' = [certificate EXCEPT !.state = "revoked"]
  /\ UNCHANGED <<examVars, courseVars, waived, task>>

\* generateShareLink: one link for good, made for a certificate not revoked when read.
StartShare(r) ==
  /\ certificate.state = "issued" /\ Begin(r, "share")
  /\ UNCHANGED <<examVars, courseVars, certificate, waived>>

GenerateShareLink(r) ==
  /\ At(r, "share")
  /\ certificate' = [certificate EXCEPT !.shared = TRUE]
  /\ Finish(r)
  /\ UNCHANGED <<examVars, courseVars, waived>>

\* What renderSharePage shows to anyone who holds the link.
SharePageShown == certificate.shared /\ certificate.state # "revoked"

(***************************************************************************)
(* The environment                                                         *)
(***************************************************************************)

CompleteCourse ==
  /\ enrolled = "ACTIVE" /\ enrolled' = "COMPLETED" /\ finished' = TRUE
  /\ UNCHANGED <<examVars, template, certificate, waived, task>>

Refund ==
  /\ enrolled' = "REFUNDED"
  /\ UNCHANGED <<examVars, finished, template, certificate, waived, task>>

SwitchTemplate ==
  /\ template' = ~template
  /\ UNCHANGED <<examVars, enrolled, finished, certificate, waived, task>>

\* A crash or a failed query; an open transaction rolls back and frees the lock.
Abort(r) ==
  /\ task[r] # Idle
  /\ Finish(r)
  /\ lock' = IF lock = r THEN Free ELSE lock
  /\ UNCHANGED <<exam, attempts, cooling, courseVars, certificate, waived>>

Init ==
  /\ exam \in BOOLEAN /\ attempts = <<>> /\ cooling = FALSE /\ lock = Free
  /\ enrolled = "ACTIVE" /\ finished = FALSE /\ template \in BOOLEAN
  /\ certificate = [state |-> "none", pdf |-> FALSE, tx |-> FALSE, shared |-> FALSE]
  /\ waived = FALSE
  /\ task = [r \in Requests |-> Idle]

Next ==
  \/ \E r \in Requests :
       \/ StartSubmit(r) \/ AcquireLock(r) \/ CheckEligibility(r) \/ NotEligible(r)
       \/ RecordAttempt(r) \/ StartDeleteExam(r) \/ DeleteExam(r)
       \/ StartIssue(r) \/ CheckExam(r) \/ CheckExisting(r) \/ CreateCertificate(r)
       \/ Download(r) \/ RenderPdf(r) \/ SavePdf(r) \/ StartRevoke(r) \/ Revoke(r)
       \/ StartShare(r) \/ GenerateShareLink(r) \/ Abort(r)
  \/ CreateExam \/ CooldownEnds \/ UpdateTxHash \/ RevokedOnChain
  \/ CompleteCourse \/ Refund \/ SwitchTemplate

Spec == Init /\ [][Next]_vars

------------------------------------------------------------------------------

TypeOK ==
  /\ {exam, cooling, finished, template, waived} \subseteq BOOLEAN
  /\ attempts \in Seq([passed : BOOLEAN, blind : BOOLEAN])
  /\ Len(attempts) <= MaxAttempts
  /\ lock \in Requests \union {Free}
  /\ enrolled \in {"ACTIVE", "COMPLETED", "REFUNDED"}
  /\ certificate \in [state : {"none", "issued", "revoked"}, pdf : BOOLEAN,
                      tx : BOOLEAN, shared : BOOLEAN]
  /\ task \in [Requests -> [pc : {"idle", "lock", "eligible", "record", "delete", "exam",
                                  "existing", "create", "render", "save", "revoke", "share"},
                            seen : 0..MaxAttempts, waive : BOOLEAN]]

\* An exam is passed at most once and by the last attempt, and every attempt was
\* admitted knowing all the earlier ones, however submissions overlap
\* (exams.service.ts:133-279).
ExamTakenInTurn ==
  \A i \in DOMAIN attempts :
    /\ attempts[i].passed => i = Len(attempts)
    /\ ~attempts[i].blind

\* A certificate that verifies as valid, or whose page is shown, was earned: its
\* holder passed the exam, unless the course had none when it was issued; and its
\* exam cannot be deleted any more (certificates.service.ts:80-160, 251-297).
CertificateEarned ==
  Verdict("valid") = "VALID" \/ SharePageShown => waived \/ (Passed /\ exam)
==============================================================================
