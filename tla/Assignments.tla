------------------------------ MODULE Assignments ------------------------------
(***************************************************************************)
(* AssignmentsService: the one submission a student has for an assignment, *)
(* handed in again until it is approved, and its reviews by the instructor *)
(* or an administrator.  Both sides read the row in one await and write it, *)
(* by its key alone, in a later one.                                       *)
(***************************************************************************)
EXTENDS Naturals

CONSTANTS
  Requests,
  MaxVersions     \* bound: times the student hands in work

ConstantsAssumption == MaxVersions \in Nat

VARIABLES
  status,         \* AssignmentSubmission.status, or "none"
  version,        \* the work in the row, numbered by hand-in
  judged,         \* history: the version the last verdict was about
  enrolled,       \* enrolled, not refunded
  versions,       \* hand-ins so far
  task,
  raced           \* history: two requests overlapped

vars == <<status, version, judged, enrolled, versions, task, raced>>

Idle == [pc |-> "idle", version |-> 0]
Begin(r, pc, v) ==
  /\ task[r] = Idle
  /\ task' = [task EXCEPT ![r] = [pc |-> pc, version |-> v]]
  /\ raced' = (raced \/ \E o \in Requests \ {r} : task[o] # Idle)
Finish(r) == task' = [task EXCEPT ![r] = Idle]

\* submit: enrolled, and not approved already.
StartSubmit(r) ==
  /\ enrolled /\ status # "APPROVED" /\ versions < MaxVersions
  /\ Begin(r, "upsert", versions + 1)
  /\ versions' = versions + 1
  /\ UNCHANGED <<status, version, judged, enrolled>>

\* (mutant) a status the schema's enum does not have
Resubmitted == IF status = "none" THEN "SUBMITTED" ELSE "RESUBMITTED"

AfterHandIn == "SUBMITTED"

Submit(r) ==
  /\ task[r].pc = "upsert"
  /\ status' = AfterHandIn /\ version' = task[r].version
  /\ Finish(r)
  /\ UNCHANGED <<judged, enrolled, versions, raced>>

\* review: of a submission in any status; a verdict may be changed.
StartReview(r) ==
  /\ status # "none" /\ Begin(r, "review", version)
  /\ UNCHANGED <<status, version, judged, enrolled, versions>>

Review(r) ==
  /\ task[r].pc = "review"
  /\ status' \in {"APPROVED", "REJECTED"} /\ judged' = task[r].version
  /\ Finish(r)
  /\ UNCHANGED <<version, enrolled, versions, raced>>

Refund ==
  /\ enrolled /\ enrolled' = FALSE
  /\ UNCHANGED <<status, version, judged, versions, task, raced>>

Abort(r) ==
  /\ task[r] # Idle /\ Finish(r)
  /\ UNCHANGED <<status, version, judged, enrolled, versions, raced>>

Init ==
  /\ status = "none" /\ version = 0 /\ judged = 0 /\ enrolled = TRUE /\ versions = 0
  /\ task = [r \in Requests |-> Idle] /\ raced = FALSE

Next ==
  \/ \E r \in Requests :
       StartSubmit(r) \/ Submit(r) \/ StartReview(r) \/ Review(r) \/ Abort(r)
  \/ Refund

Spec == Init /\ [][Next]_vars

------------------------------------------------------------------------------

TypeOK ==
  /\ status \in {"none", "SUBMITTED", "APPROVED", "REJECTED"}
  /\ {version, judged, versions} \subseteq 0..MaxVersions
  /\ {enrolled, raced} \subseteq BOOLEAN
  /\ task \in [Requests -> [pc : {"idle", "upsert", "review"}, version : 0..MaxVersions]]

\* Unless requests overlapped, a verdict is about the work in the row: handing in
\* again withdraws it, and approved work is never replaced
\* (assignments.service.ts:142-163, 229-236).
VerdictMatchesWork == ~raced /\ status \in {"APPROVED", "REJECTED"} => judged = version
==============================================================================
