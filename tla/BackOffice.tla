------------------------------ MODULE BackOffice ------------------------------
(***************************************************************************)
(* The papers behind a sale: the invoice of an enrolment (InvoicesService),*)
(* disputes over it (DisputesService), an instructor's payouts             *)
(* (PayoutsService over the state of Kyc) and the tax rates of a checkout, *)
(* cached by each process (FeeCalculatorService).                          *)
(***************************************************************************)
EXTENDS Integers, FiniteSets

CONSTANTS
  Requests,
  Disputes,       \* ids of dispute rows
  Payouts,        \* ids of payout rows
  Rates,          \* tax rates of one region, in percent
  Amounts,        \* what the enrolment cost
  MaxChanges      \* bound: reviews of the instructor and of the rate

ConstantsAssumption == Rates \subseteq Nat /\ Amounts \subseteq Nat /\ MaxChanges \in Nat

VARIABLES
  chain,          \* external: the payment's transaction, "none", "found", "failed" or "ok"
  amount,         \* amountPaid of the enrolment
  invoice,        \* "none", "issued" or "sent" (emailSent)
  mails,          \* history: invoice mails that left, up to 2
  dispute,        \* status of each row
  settled,        \* history: dispute notifications, up to 2
  disputesRaced,  \* history: two decisions over one dispute overlapped
  verified,       \* the instructor's newest submission is approved
  payout,         \* status of each row
  reviewedLate,   \* history: the verification changed between a payout's check and its row
  unverifiedPaid, \* history: a payout was created for an instructor not verified
  rate,           \* of the region, in the database
  cached,         \* in memory, Empty when invalidated or expired
  readLate,       \* history: a rate was stored while a load was under way
  changes,
  task

invoiceVars == <<chain, amount, invoice, mails>>
disputeVars == <<dispute, settled, disputesRaced>>
payoutVars == <<verified, payout, reviewedLate, unverifiedPaid>>
rateVars == <<rate, cached, readLate>>
vars == <<invoiceVars, disputeVars, payoutVars, rateVars, changes, task>>

NoRow == "none"
Empty == -1
Idle == [pc |-> "idle", id |-> NoRow, value |-> 0, to |-> NoRow]
Finish(r) == task' = [task EXCEPT ![r] = Idle]
Begin(r, new) == task[r] = Idle /\ task' = [task EXCEPT ![r] = new]
Others(r, pcs, id) == \E o \in Requests \ {r} : task[o].pc \in pcs /\ task[o].id = id

------------------------------------------------------------------------------
\* InvoicesService.generateForEnrollment, called once for each way of enrolling and again
\* by hand.

\* (mutant) a transaction that is on the chain will do
Mined == {"ok", "failed"}

PaidStates == {"ok"}

\* validatePayment: nothing on the chain is asked for when there is no hash.
Billable == amount > 0 /\ (chain = "none" \/ chain \in PaidStates)

StartInvoice(r) ==
  /\ invoice = NoRow /\ Billable /\ Begin(r, [Idle EXCEPT !.pc = "invoice"])
  /\ UNCHANGED changes /\ UNCHANGED <<invoiceVars, disputeVars, payoutVars, rateVars>>

\* enrollmentId is unique: of two requests one fails.
CreateInvoice(r) ==
  /\ task[r].pc = "invoice"
  /\ IF invoice = NoRow THEN invoice' = "issued" /\ task' = [task EXCEPT ![r].pc = "mail"]
     ELSE UNCHANGED invoice /\ Finish(r)
  /\ UNCHANGED <<chain, amount, mails, changes>>
  /\ UNCHANGED <<disputeVars, payoutVars, rateVars>>

\* A mail that fails, or a student without an address, is not tried again.
MailInvoice(r) ==
  /\ task[r].pc = "mail"
  /\ \/ mails' = mails + 1 /\ task' = [task EXCEPT ![r].pc = "mailed"]
     \/ UNCHANGED mails /\ Finish(r)
  /\ UNCHANGED <<chain, amount, invoice, changes>>
  /\ UNCHANGED <<disputeVars, payoutVars, rateVars>>

MarkMailed(r) ==
  /\ task[r].pc = "mailed" /\ invoice' = "sent" /\ Finish(r)
  /\ UNCHANGED <<chain, amount, mails, changes>>
  /\ UNCHANGED <<disputeVars, payoutVars, rateVars>>

------------------------------------------------------------------------------
\* DisputesService

Open == {"OPEN", "UNDER_REVIEW"}
Resolutions == {"RESOLVED", "REJECTED", "CLOSED"}

\* file: the reference is the student's own enrolment; one may be disputed twice.
File(d) ==
  /\ dispute[d] = NoRow /\ dispute' = [dispute EXCEPT ![d] = "OPEN"]
  /\ UNCHANGED <<settled, disputesRaced, changes, task>>
  /\ UNCHANGED <<invoiceVars, payoutVars, rateVars>>

\* (mutant) a decision may be revised
Revisable == Open \union Resolutions

Resolvable == Open

\* markUnderReview, resolve: the status is read here and written by id alone.
StartDecision(r, d) ==
  /\ \/ /\ dispute[d] = "OPEN"
        /\ Begin(r, [Idle EXCEPT !.pc = "decide", !.id = d, !.to = "UNDER_REVIEW"])
     \/ /\ dispute[d] \in Resolvable
        /\ \E to \in Resolutions :
             Begin(r, [Idle EXCEPT !.pc = "decide", !.id = d, !.to = to])
  /\ disputesRaced' = (disputesRaced \/ Others(r, {"decide"}, d))
  /\ UNCHANGED <<dispute, settled, changes>> /\ UNCHANGED <<invoiceVars, payoutVars, rateVars>>

Decide(r) ==
  LET d == task[r].id  to == task[r].to
  IN /\ task[r].pc = "decide" /\ dispute' = [dispute EXCEPT ![d] = to]
     /\ IF to \in Resolutions THEN task' = [task EXCEPT ![r].pc = "tell"] ELSE Finish(r)
     /\ UNCHANGED <<settled, disputesRaced, changes>>
     /\ UNCHANGED <<invoiceVars, payoutVars, rateVars>>

TellStudent(r) ==
  /\ task[r].pc = "tell"
  /\ settled' = [settled EXCEPT ![task[r].id] = IF @ < 2 THEN @ + 1 ELSE @]
  /\ Finish(r)
  /\ UNCHANGED <<dispute, disputesRaced, changes>>
  /\ UNCHANGED <<invoiceVars, payoutVars, rateVars>>

------------------------------------------------------------------------------
\* PayoutsService

PayoutStatuses == {"PENDING", "PROCESSING", "COMPLETED", "FAILED"}

\* createPayout asks KycService.getVerificationStatus first.
StartPayout(r, p) ==
  /\ verified /\ payout[p] = NoRow /\ ~Others(r, {"payout"}, p)
  /\ Begin(r, [Idle EXCEPT !.pc = "payout", !.id = p])
  /\ UNCHANGED changes /\ UNCHANGED <<invoiceVars, disputeVars, payoutVars, rateVars>>

CreatePayout(r) ==
  /\ task[r].pc = "payout" /\ payout' = [payout EXCEPT ![task[r].id] = "PENDING"]
  /\ unverifiedPaid' = (unverifiedPaid \/ ~verified)
  /\ Finish(r)
  /\ UNCHANGED <<verified, reviewedLate, changes>>
  /\ UNCHANGED <<invoiceVars, disputeVars, rateVars>>

\* updatePayoutStatus takes any status from any other.
UpdatePayoutStatus(p) ==
  /\ payout[p] # NoRow
  /\ \E to \in PayoutStatuses : payout' = [payout EXCEPT ![p] = to]
  /\ UNCHANGED <<verified, reviewedLate, unverifiedPaid, changes, task>>
  /\ UNCHANGED <<invoiceVars, disputeVars, rateVars>>

\* Kyc: a review, a revocation or a new submission.
Review ==
  /\ changes < MaxChanges /\ changes' = changes + 1 /\ verified' = ~verified
  /\ reviewedLate' = (reviewedLate \/ \E r \in Requests : task[r].pc = "payout")
  /\ UNCHANGED <<payout, unverifiedPaid, task>>
  /\ UNCHANGED <<invoiceVars, disputeVars, rateVars>>

------------------------------------------------------------------------------
\* FeeCalculatorService

\* loadTaxRates: the rows are read in one step and kept in a later one.
ReadRates(r) ==
  /\ cached = Empty /\ Begin(r, [Idle EXCEPT !.pc = "load", !.value = rate])
  /\ UNCHANGED changes /\ UNCHANGED <<invoiceVars, disputeVars, payoutVars, rateVars>>

KeepRates(r) ==
  /\ task[r].pc = "load" /\ cached' = task[r].value /\ Finish(r)
  /\ UNCHANGED <<rate, readLate, changes>>
  /\ UNCHANGED <<invoiceVars, disputeVars, payoutVars>>

Expire ==
  /\ cached # Empty /\ cached' = Empty
  /\ UNCHANGED <<rate, readLate, changes, task>>
  /\ UNCHANGED <<invoiceVars, disputeVars, payoutVars>>

\* upsertTaxRate and removeTaxRate (which leaves no rate, 0) store, then forget the cache.
StoreRate(r) ==
  /\ changes < MaxChanges /\ changes' = changes + 1
  /\ \E to \in (Rates \union {0}) \ {rate} : rate' = to
  /\ Begin(r, [Idle EXCEPT !.pc = "forget"])
  /\ readLate' = (readLate \/ \E o \in Requests : task[o].pc = "load")
  /\ UNCHANGED cached /\ UNCHANGED <<invoiceVars, disputeVars, payoutVars>>

\* (mutant) the cache is left to expire
LeftToExpire == cached

Invalidated == Empty

ForgetRates(r) ==
  /\ task[r].pc = "forget" /\ cached' = Invalidated /\ Finish(r)
  /\ UNCHANGED <<rate, readLate, changes>>
  /\ UNCHANGED <<invoiceVars, disputeVars, payoutVars>>

------------------------------------------------------------------------------

\* The request ends here: an error, or the process dies.
Abort(r) ==
  /\ task[r].pc \notin {"idle", "forget"} /\ Finish(r)
  /\ UNCHANGED changes /\ UNCHANGED <<invoiceVars, disputeVars, payoutVars, rateVars>>

Settle ==
  /\ chain = "found" /\ chain' \in {"ok", "failed"}
  /\ UNCHANGED <<amount, invoice, mails, changes, task>>
  /\ UNCHANGED <<disputeVars, payoutVars, rateVars>>

Init ==
  /\ chain \in {"none", "found"} /\ amount \in Amounts /\ invoice = NoRow /\ mails = 0
  /\ dispute = [d \in Disputes |-> NoRow] /\ settled = [d \in Disputes |-> 0]
  /\ payout = [p \in Payouts |-> NoRow] /\ verified = FALSE
  /\ rate \in Rates /\ cached = Empty /\ changes = 0
  /\ disputesRaced = FALSE /\ reviewedLate = FALSE /\ unverifiedPaid = FALSE
  /\ readLate = FALSE /\ task = [r \in Requests |-> Idle]

Next ==
  \/ \E r \in Requests :
       \/ StartInvoice(r) \/ CreateInvoice(r) \/ MailInvoice(r) \/ MarkMailed(r)
       \/ \E d \in Disputes : StartDecision(r, d)
       \/ Decide(r) \/ TellStudent(r)
       \/ \E p \in Payouts : StartPayout(r, p)
       \/ CreatePayout(r)
       \/ ReadRates(r) \/ KeepRates(r) \/ StoreRate(r) \/ ForgetRates(r) \/ Abort(r)
  \/ \E d \in Disputes : File(d)
  \/ \E p \in Payouts : UpdatePayoutStatus(p)
  \/ Review \/ Expire \/ Settle

Spec == Init /\ [][Next]_vars

------------------------------------------------------------------------------

TaskType ==
  [pc : {"idle", "invoice", "mail", "mailed", "decide", "tell", "payout", "load", "forget"},
   id : Disputes \union Payouts \union {NoRow},
   value : Rates \union {0},
   to : Resolutions \union {"UNDER_REVIEW", NoRow}]

TypeOK ==
  /\ chain \in {"none", "found", "ok", "failed"} /\ invoice \in {NoRow, "issued", "sent"}
  /\ amount \in Amounts /\ mails \in 0..2 /\ settled \in [Disputes -> 0..2]
  /\ dispute \in [Disputes -> {NoRow} \union Open \union Resolutions]
  /\ payout \in [Payouts -> {NoRow} \union PayoutStatuses]
  /\ rate \in Rates \union {0} /\ cached \in Rates \union {0, Empty} /\ changes \in 0..MaxChanges
  /\ {disputesRaced, verified, reviewedLate, unverifiedPaid, readLate} \subseteq BOOLEAN
  /\ task \in [Requests -> TaskType]

\* However many requests ask for it, an enrolment's invoice is mailed once at most, marked
\* as sent only when it was, and stands for money that was paid
\* (invoices.service.ts:24-35, 61-65, 78-91).
InvoiceSound ==
  /\ mails <= 1 /\ (invoice = "sent" => mails = 1)
  /\ invoice # NoRow => amount > 0 /\ chain \in {"none", "ok"}

\* Unless two decisions over it overlapped, a dispute is resolved once: the student is told
\* once, and it never leaves the resolution (disputes.service.ts:114, 131-157).
ResolvedOnce ==
  ~disputesRaced =>
    \A d \in Disputes : settled[d] <= 1 /\ (settled[d] = 1 => dispute[d] \in Resolutions)

\* Only for a verified instructor is a payout created, unless the verification changed
\* between the check and the row (payouts.service.ts:135-143).
PaidWhenVerified == unverifiedPaid => reviewedLate

\* A rate that was stored counts from then on in this process, unless a load that had read
\* the old ones was under way (fee-calculator.service.ts:41-43, 77-91).
RatesFollow ==
  (~readLate /\ \A r \in Requests : task[r].pc # "forget") => cached \in {Empty, rate}

PapersSound == InvoiceSound /\ ResolvedOnce /\ PaidWhenVerified /\ RatesFollow
===============================================================================
