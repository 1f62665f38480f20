---------------------------------- MODULE Kyc ----------------------------------
(***************************************************************************)
(* KycService for one instructor: submissions, their review and the        *)
(* revocation of an approval, and the isVerified flag of the user that     *)
(* follows them.  Submissions are named by the order of their insert.  A   *)
(* review checks the submission it read, then in one READ COMMITTED        *)
(* transaction writes it, reads the newest submission and writes the flag. *)
(***************************************************************************)
EXTENDS Naturals, Sequences, FiniteSets

CONSTANTS
  Requests,
  MaxSubmissions      \* bound: submissions

ConstantsAssumption == IsFiniteSet(Requests) /\ MaxSubmissions \in Nat

VARIABLES
  submissions,      \* the status of each row
  isVerified,
  raced,            \* history: two requests overlapped
  kycReq

vars == <<submissions, isVerified, raced, kycReq>>

Reviewable == {"PENDING", "UNDER_REVIEW"}
Status == Reviewable \union {"APPROVED", "REJECTED", "REVOKED"}
Idle == [pc |-> "idle", of |-> 0, status |-> "PENDING", verified |-> FALSE]
RequestType ==
  [pc : {"idle", "insert", "review", "commit", "revoke"},
   of : 0..MaxSubmissions, status : Status,      \* the submission and its verdict
   verified : BOOLEAN]                           \* what the flag is to become

Overlaps(r) == raced' = (raced \/ \E o \in Requests \ {r} : kycReq[o] # Idle)
Go(r, pc, of, status) ==
  kycReq' = [kycReq EXCEPT ![r].pc = pc, ![r].of = of, ![r].status = status]
Finish(r) == kycReq' = [kycReq EXCEPT ![r] = Idle]

\* submit: refused while an approval stands; the documents are saved meanwhile.
StartSubmit(r) ==
  /\ kycReq[r] = Idle
  /\ \A i \in DOMAIN submissions : submissions[i] # "APPROVED"
  /\ Go(r, "insert", 0, "PENDING")
  /\ Overlaps(r)
  /\ UNCHANGED <<submissions, isVerified>>

InsertSubmission(r) ==
  /\ kycReq[r].pc = "insert" /\ Len(submissions) < MaxSubmissions
  /\ submissions' = Append(submissions, "PENDING")
  /\ Finish(r)
  /\ UNCHANGED <<isVerified, raced>>

\* review: any verdict but REVOKED, on a submission still open when read.
StartReview(r) ==
  /\ kycReq[r] = Idle
  /\ \E i \in DOMAIN submissions, verdict \in Status \ {"REVOKED"} :
       /\ submissions[i] \in Reviewable
       /\ Go(r, "review", i, verdict)
  /\ Overlaps(r)
  /\ UNCHANGED <<submissions, isVerified>>

\* The status of the newest row as the transaction sees it, its own write included.
NewestSeen(r) ==
  IF kycReq[r].of = Len(submissions) THEN kycReq[r].status
  ELSE submissions[Len(submissions)]

\* (mutant) the flag follows the submission under review
ThisOne(r) == kycReq[r].status = "APPROVED"

VerifiedBy(r) == NewestSeen(r) = "APPROVED"

\* The row is written and locked; the newest submission is read.
WriteReview(r) ==
  /\ kycReq[r].pc = "review"
  /\ \A o \in Requests : ~(kycReq[o].pc = "commit" /\ kycReq[o].of = kycReq[r].of)
  /\ kycReq' = [kycReq EXCEPT ![r].pc = "commit", ![r].verified = VerifiedBy(r)]
  /\ UNCHANGED <<submissions, isVerified, raced>>

CommitReview(r) ==
  /\ kycReq[r].pc = "commit"
  /\ submissions' = [submissions EXCEPT ![kycReq[r].of] = kycReq[r].status]
  /\ isVerified' = kycReq[r].verified
  /\ Finish(r)
  /\ UNCHANGED raced

\* revoke: an approval when read; every approval is revoked, and the flag.
StartRevoke(r) ==
  /\ kycReq[r] = Idle
  /\ \E i \in DOMAIN submissions :
       submissions[i] = "APPROVED" /\ Go(r, "revoke", i, "REVOKED")
  /\ Overlaps(r)
  /\ UNCHANGED <<submissions, isVerified>>

Revoke(r) ==
  /\ kycReq[r].pc = "revoke"
  /\ \A o \in Requests :
       ~(kycReq[o].pc = "commit" /\ submissions[kycReq[o].of] = "APPROVED")
  /\ submissions' = [i \in DOMAIN submissions |->
       IF submissions[i] = "APPROVED" THEN "REVOKED" ELSE submissions[i]]
  /\ isVerified' = FALSE
  /\ Finish(r)
  /\ UNCHANGED raced

\* A crash or a failed query: an open transaction rolls back.
Abort(r) ==
  /\ kycReq[r] # Idle
  /\ Finish(r)
  /\ UNCHANGED <<submissions, isVerified, raced>>

Init ==
  /\ submissions = <<>> /\ isVerified = FALSE /\ raced = FALSE
  /\ kycReq = [r \in Requests |-> Idle]

Next ==
  \E r \in Requests :
    \/ StartSubmit(r) \/ InsertSubmission(r)
    \/ StartReview(r) \/ WriteReview(r) \/ CommitReview(r)
    \/ StartRevoke(r) \/ Revoke(r)
    \/ Abort(r)

Spec == Init /\ [][Next]_vars

------------------------------------------------------------------------------

TypeOK ==
  /\ \E n \in 0..MaxSubmissions : submissions \in [1..n -> Status]
  /\ isVerified \in BOOLEAN /\ raced \in BOOLEAN
  /\ kycReq \in [Requests -> RequestType]

\* Unless requests overlapped, the instructor is verified exactly when the
\* newest submission is approved, whichever submission is reviewed and in
\* whatever order (kyc.service.ts:171-179, 217-234).
VerifiedByNewest ==
  ~raced => (isVerified <=>
    submissions # <<>> /\ submissions[Len(submissions)] = "APPROVED")
==============================================================================
