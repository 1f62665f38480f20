------------------------------- MODULE Refunds -------------------------------
(***************************************************************************)
(* RefundsService: the refunds of one enrolment.  A student files requests *)
(* and administrators approve, reject and process them; each is a row read *)
(* and checked in one await and written, unconditionally, in a later one.  *)
(* A slot is one HTTP request under way: one slot is the sequential        *)
(* service, two are two requests racing.                                   *)
(***************************************************************************)
EXTENDS Naturals, FiniteSets

CONSTANTS
  AmountPaid,      \* what the enrolment cost
  Amounts,         \* amounts a client may ask for or an administrator name
  Txs,             \* transactions an administrator may name
  Confirmed,       \* those that succeeded on-chain
  RefundIds,       \* bound: refunds filed
  Slots,           \* bound: requests under way at once
  None

RefundType ==
  [status : {"PENDING", "APPROVED", "REJECTED", "PROCESSED"},
   requested : Nat, approved : Nat \union {None}, tx : Txs \union {None}]

ASSUME ConstantsAssumption ==
  /\ AmountPaid \in Nat \ {0}
  /\ Amounts \subseteq Nat \ {0}
  /\ Confirmed \subseteq Txs
  /\ IsFiniteSet(RefundIds)
  /\ None \notin Txs \union Nat \union RefundIds \union RefundType

VARIABLES
  enrollment,      \* enrollments.status
  windowOpen,      \* within REFUND_ELIGIBILITY_WINDOW_DAYS of enrolledAt
  refunds,         \* rows of the refunds table, None when not yet filed
  req,             \* the request in each slot
  raced            \* history: two requests were under way at once

vars == <<enrollment, windowOpen, refunds, req, raced>>

RequestType ==
  [pc : {"idle", "enrollment", "existing", "balance", "insert",
         "approvable", "remaining", "approve", "rejectable", "reject",
         "processable", "verify", "settle"},
   id : RefundIds \union {None}, amount : Nat, tx : Txs \union {None},
   seen : Nat \union {None}]      \* approvedAmount as process read it

Idle == [pc |-> "idle", id |-> None, amount |-> 0, tx |-> None, seen |-> None]

Filed == {i \in RefundIds : refunds[i] # None}

In(statuses) == {i \in Filed : refunds[i].status \in statuses}

Goto(r, step) == req' = [req EXCEPT ![r].pc = step]

Finish(r) == req' = [req EXCEPT ![r] = Idle]

\* Go on, or answer with an error.
Check(r, ok, step) ==
  /\ IF ok THEN Goto(r, step) ELSE Finish(r)
  /\ UNCHANGED <<enrollment, windowOpen, refunds, raced>>

(***************************************************************************)
(* Requests, and the rest of the system                                    *)
(***************************************************************************)
Submit(r, request) ==
  /\ req[r].pc = "idle"
  /\ req' = [req EXCEPT ![r] = request]
  /\ raced' = (raced \/ \E other \in Slots \ {r} : req[other].pc # "idle")
  /\ UNCHANGED <<enrollment, windowOpen, refunds>>

SubmitCreate(r) ==
  \E a \in Amounts : Submit(r, [Idle EXCEPT !.pc = "enrollment", !.amount = a])

SubmitApprove(r) ==
  \E i \in Filed, a \in Amounts :
    Submit(r, [Idle EXCEPT !.pc = "approvable", !.id = i, !.amount = a])

SubmitReject(r) ==
  \E i \in Filed : Submit(r, [Idle EXCEPT !.pc = "rejectable", !.id = i])

SubmitProcess(r) ==
  \E i \in Filed, t \in Txs :
    Submit(r, [Idle EXCEPT !.pc = "processable", !.id = i, !.tx = t])

CloseWindow ==
  /\ windowOpen
  /\ windowOpen' = FALSE
  /\ UNCHANGED <<enrollment, refunds, req, raced>>

\* Lessons and chain events write COMPLETED whatever the status was.
CompleteCourse ==
  /\ enrollment' = "COMPLETED"
  /\ UNCHANGED <<windowOpen, refunds, req, raced>>

(***************************************************************************)
(* create                                                                  *)
(***************************************************************************)
ReadEnrollment(r) ==
  /\ req[r].pc = "enrollment"
  /\ Check(r, enrollment # "REFUNDED", "existing")

\* (mutant) an APPROVED refund does not count as being in progress
PendingOnly == {"PENDING"}

InProgress == {"PENDING", "APPROVED"}

CheckExisting(r) ==
  /\ req[r].pc = "existing"
  /\ Check(r, In(InProgress) = {} /\ windowOpen, "balance")

\* (mutant) refunds that were paid out are not summed
ApprovedOnly == {"APPROVED"}

Granted == {"PROCESSED", "APPROVED"}

ApprovedAmount(i) == IF refunds[i].approved = None THEN 0 ELSE refunds[i].approved

\* A sum is the number of the units that its terms are made of.
Sum(ids) == Cardinality(UNION {{i} \X (1 .. ApprovedAmount(i)) : i \in ids})

\* The amount fits what the other refunds leave of the price.
Fits(amount, id) == amount + Sum(In(Granted) \ {id}) <= AmountPaid

CheckBalance(r) ==
  /\ req[r].pc = "balance"
  /\ Check(r, Fits(req[r].amount, None), "insert")

InsertRefund(r) ==
  /\ req[r].pc = "insert"
  /\ \E i \in RefundIds \ Filed :
       refunds' = [refunds EXCEPT ![i] =
                     [status |-> "PENDING", requested |-> req[r].amount,
                      approved |-> None, tx |-> None]]
  /\ Finish(r)
  /\ UNCHANGED <<enrollment, windowOpen, raced>>

(***************************************************************************)
(* approve and reject                                                      *)
(***************************************************************************)

\* (mutant) a review is refused only once another has rejected
NotRejected(i) == refunds[i].status # "REJECTED"

IsPending(i) == refunds[i].status = "PENDING"

GetPendingOrThrow(r, step, next) ==
  /\ req[r].pc = step
  /\ Check(r, IsPending(req[r].id), next)

ReadToApprove(r) == GetPendingOrThrow(r, "approvable", "remaining")

ReadToReject(r) == GetPendingOrThrow(r, "rejectable", "reject")

\* (mutant) the approved amount is not compared with the requested one
AnyAmount(i, amount) == TRUE

WithinRequest(i, amount) == amount <= refunds[i].requested

CheckRemaining(r) ==
  /\ req[r].pc = "remaining"
  /\ Check(r, /\ WithinRequest(req[r].id, req[r].amount)
              /\ Fits(req[r].amount, req[r].id), "approve")

Approve(r) ==
  /\ req[r].pc = "approve"
  /\ refunds' = [refunds EXCEPT ![req[r].id].status = "APPROVED",
                                ![req[r].id].approved = req[r].amount]
  /\ Finish(r)
  /\ UNCHANGED <<enrollment, windowOpen, raced>>

Reject(r) ==
  /\ req[r].pc = "reject"
  /\ refunds' = [refunds EXCEPT ![req[r].id].status = "REJECTED"]
  /\ Finish(r)
  /\ UNCHANGED <<enrollment, windowOpen, raced>>

(***************************************************************************)
(* process                                                                 *)
(***************************************************************************)
ReadToProcess(r) ==
  /\ req[r].pc = "processable"
  /\ req' = [req EXCEPT ![r] =
               IF refunds[req[r].id].status = "APPROVED"
                 THEN [req[r] EXCEPT !.pc = "verify", !.seen = refunds[req[r].id].approved]
                 ELSE Idle]
  /\ UNCHANGED <<enrollment, windowOpen, refunds, raced>>

VerifyRefundTx(r) ==
  /\ req[r].pc = "verify"
  /\ Check(r, req[r].tx \in Confirmed, "settle")

\* (mutant) fullness judged by what was requested
FullRequested(r) == refunds[req[r].id].requested >= AmountPaid

IsFullRefund(r) == req[r].seen >= AmountPaid

\* (mutant) a status the schema's enum does not have
StatusPartial(r) == IF IsFullRefund(r) THEN "REFUNDED" ELSE "PARTIALLY_REFUNDED"

StatusAfter(r) == IF IsFullRefund(r) THEN "REFUNDED" ELSE enrollment

\* One transaction: the refund row, and the enrolment when all is refunded.
Settle(r) ==
  /\ req[r].pc = "settle"
  /\ refunds' = [refunds EXCEPT ![req[r].id].status = "PROCESSED",
                                ![req[r].id].tx = req[r].tx]
  /\ enrollment' = StatusAfter(r)
  /\ Finish(r)
  /\ UNCHANGED <<windowOpen, raced>>

-----------------------------------------------------------------------------
Init ==
  /\ enrollment = "ACTIVE"
  /\ windowOpen = TRUE
  /\ refunds = [i \in RefundIds |-> None]
  /\ req = [r \in Slots |-> Idle]
  /\ raced = FALSE

Step(r) ==
  \/ SubmitCreate(r) \/ SubmitApprove(r) \/ SubmitReject(r) \/ SubmitProcess(r)
  \/ ReadEnrollment(r) \/ CheckExisting(r) \/ CheckBalance(r) \/ InsertRefund(r)
  \/ ReadToApprove(r) \/ CheckRemaining(r) \/ Approve(r)
  \/ ReadToReject(r) \/ Reject(r)
  \/ ReadToProcess(r) \/ VerifyRefundTx(r) \/ Settle(r)

Next == CloseWindow \/ CompleteCourse \/ \E r \in Slots : Step(r)

Spec == Init /\ [][Next]_vars

-----------------------------------------------------------------------------
(***************************************************************************)
(* Properties                                                              *)
(***************************************************************************)

TypeOK ==
  /\ enrollment \in {"ACTIVE", "COMPLETED", "REFUNDED"}
  /\ windowOpen \in BOOLEAN
  /\ refunds \in [RefundIds -> RefundType \union {None}]
  /\ req \in [Slots -> RequestType]
  /\ raced \in BOOLEAN

\* Whatever races: a refund never grants more than it asked for, asks for at
\* most the price, and one that was granted names its amount and, once
\* processed, a transaction that succeeded.
RefundSound ==
  \A i \in Filed :
    /\ refunds[i].requested <= AmountPaid
    /\ refunds[i].approved # None => refunds[i].approved <= refunds[i].requested
    /\ i \in In({"APPROVED", "PROCESSED"}) => refunds[i].approved # None
    /\ i \in In({"PROCESSED"}) => refunds[i].tx \in Confirmed

\* The refunds granted on an enrolment never add up to more than its price
\* ("the enrollment's original amountPaid", refunds.service.ts:154).
RefundsWithinPaid == Sum(In({"APPROVED", "PROCESSED"})) <= AmountPaid

\* Handled one after the other, requests keep the cap through any sequence of
\* requests, partial approvals, rejections and payouts.
CapWithoutRace == ~raced => RefundsWithinPaid

\* Handled one after the other, requests leave at most one refund of the
\* enrolment awaiting review or payout.
OneOpenRefund == ~raced => Cardinality(In({"PENDING", "APPROVED"})) <= 1

\* An enrolment shown as REFUNDED was paid back in full.
RefundedIsPaidBack ==
  ~raced /\ enrollment = "REFUNDED" => Sum(In({"PROCESSED"})) = AmountPaid

\* A refund that was paid out stays as it is, whoever reviews it again.
ProcessedIsFinal ==
  [][~raced => \A i \in In({"PROCESSED"}) : refunds'[i] = refunds[i]]_vars
==============================================================================
