---------------------------- MODULE RefundsProofs ----------------------------
(***************************************************************************)
(* Proofs about Refunds and BackOffice.  Of refunds, Sound holds whatever  *)
(* races; Sequential says what the service keeps for as long as requests   *)
(* come one after the other: what a request has checked still holds when   *)
(* it writes, because nobody else writes in between.  OfficeInv, at the    *)
(* end, is the same for the papers behind a sale.                          *)
(***************************************************************************)
EXTENDS MCRefunds, FiniteSetTheorems, TLAPS

Creating == {"enrollment", "existing", "balance", "insert"}
Approving == {"approvable", "remaining", "approve"}
Reviewing == Approving \union {"rejectable", "reject"}
Processing == {"processable", "verify", "settle"}

\* What a request holds of the refund and the amount it is about.
RequestSound(r) ==
  /\ req[r].pc \in Creating \union Approving => req[r].amount > 0
  /\ req[r].pc = "insert" => req[r].amount <= AmountPaid
  /\ req[r].pc \in Reviewing \union Processing => req[r].id \in Filed
  /\ req[r].pc = "approve" => req[r].amount <= refunds[req[r].id].requested
  /\ req[r].pc \in {"verify", "settle"} => refunds[req[r].id].approved # None
  /\ req[r].pc = "settle" => req[r].tx \in Confirmed

RowSound(row) ==
  /\ row.requested <= AmountPaid
  /\ row.approved # None => row.approved > 0 /\ row.approved <= row.requested
  /\ row.status \in {"APPROVED", "PROCESSED"} => row.approved # None
  /\ row.status = "PROCESSED" => row.tx \in Confirmed

Sound ==
  /\ \A i \in Filed : RowSound(refunds[i])
  /\ \A r \in Slots : RequestSound(r)

\* The amounts of the rows with given statuses.
Total(statuses) == Sum(In(statuses))

\* What a request that is alone has found out, until it writes.
RequestKnows(r) ==
  /\ req[r].pc \in {"balance", "insert"} => In(InProgress) = {}
  /\ req[r].pc \in {"insert", "approve"} => req[r].amount + Total(Granted) <= AmountPaid
  /\ req[r].pc \in {"remaining", "approve", "reject"} => IsPending(req[r].id)
  /\ req[r].pc \in {"verify", "settle"} =>
       /\ refunds[req[r].id].status = "APPROVED"
       /\ req[r].seen = refunds[req[r].id].approved

Alone == \A q, r \in Slots : q # r => req[q].pc = "idle" \/ req[r].pc = "idle"

OneInProgress == \A i, j \in In(InProgress) : i = j

\* The rows, as long as nothing raced.
RowsInOrder ==
  /\ OneInProgress
  /\ Total(Granted) <= AmountPaid
  /\ enrollment = "REFUNDED" => Total({"PROCESSED"}) = AmountPaid

Orderly == Alone /\ (\A r \in Slots : RequestKnows(r)) /\ RowsInOrder

Sequential == raced = FALSE => Orderly

-----------------------------------------------------------------------------
(***************************************************************************)
(* Sums                                                                    *)
(***************************************************************************)
SumOf(f, ids) == Cardinality(UNION {{i} \X (1 .. f[i]) : i \in ids})

\* What each row was approved for.
Amount(rows) ==
  [i \in RefundIds |->
     IF rows[i] = None THEN 0 ELSE IF rows[i].approved = None THEN 0 ELSE rows[i].approved]

Rows == [RefundIds -> RefundType \union {None}]

\* The units of finitely many amounts are finitely many.
LEMMA UnitsFinite ==
  ASSUME NEW ids \in SUBSET RefundIds, NEW f \in [RefundIds -> Nat]
  PROVE  IsFiniteSet(UNION {{i} \X (1 .. f[i]) : i \in ids})
<1> DEFINE U(i) == {i} \X (1 .. f[i])
           S == {U(i) : i \in ids}
<1>1. IsFiniteSet(ids)
  BY FS_Subset, ConstantsAssumption DEF ConstantsAssumption
<1>2. IsFiniteSet(S)
  <2> DEFINE g == [i \in ids |-> U(i)]
  <2>1. g \in Surjection(ids, S)
    BY DEF Surjection
  <2> QED BY <1>1, <2>1, FS_Surjection
<1>3. \A T \in S : IsFiniteSet(T)
  <2> SUFFICES ASSUME NEW i \in ids PROVE IsFiniteSet(U(i))
    OBVIOUS
  <2>1. 1 \in Int /\ f[i] \in Int
    OBVIOUS
  <2>2. IsFiniteSet({i})
    BY FS_Singleton
  <2>3. IsFiniteSet(1 .. f[i])
    BY <2>1, FS_Interval
  <2> QED BY <2>2, <2>3, FS_Product
<1> QED BY <1>2, <1>3, FS_UNION

\* A sum is a number.
LEMMA SumType ==
  ASSUME NEW ids \in SUBSET RefundIds, NEW f \in [RefundIds -> Nat]
  PROVE  SumOf(f, ids) \in Nat
BY UnitsFinite, FS_CardinalityType DEF SumOf

\* It depends on its own terms only.
LEMMA SumSame ==
  ASSUME NEW ids, NEW f, NEW g, \A i \in ids : f[i] = g[i]
  PROVE  SumOf(f, ids) = SumOf(g, ids)
<1>1. {{i} \X (1 .. f[i]) : i \in ids} = {{i} \X (1 .. g[i]) : i \in ids}
  OBVIOUS
<1> QED BY <1>1 DEF SumOf

\* A part of a sum is no larger.
LEMMA SumMonotone ==
  ASSUME NEW jds \in SUBSET RefundIds, NEW ids \in SUBSET jds, NEW f \in [RefundIds -> Nat]
  PROVE  SumOf(f, ids) <= SumOf(f, jds)
<1> DEFINE Part == UNION {{i} \X (1 .. f[i]) : i \in ids}
           Whole == UNION {{i} \X (1 .. f[i]) : i \in jds}
<1>1. Part \in SUBSET Whole
  OBVIOUS
<1>2. IsFiniteSet(Whole)
  BY UnitsFinite
<1> HIDE DEF Part, Whole
<1>3. Cardinality(Part) <= Cardinality(Whole)
  BY <1>1, <1>2, FS_Subset
<1> QED BY <1>3 DEF SumOf, Part, Whole

\* One more term adds its amount.
LEMMA SumAdd ==
  ASSUME NEW ids \in SUBSET RefundIds, NEW i \in RefundIds, i \notin ids,
         NEW f \in [RefundIds -> Nat]
  PROVE  SumOf(f, ids \union {i}) = SumOf(f, ids) + f[i]
<1> DEFINE U(k) == {k} \X (1 .. f[k])
           Old == UNION {U(k) : k \in ids}
<1>1. UNION {U(k) : k \in ids \union {i}} = Old \union U(i)
  OBVIOUS
<1>2. Old \intersect U(i) = {}
  OBVIOUS
<1>3. IsFiniteSet(Old)
  BY UnitsFinite
<1>4. f[i] \in Nat
  OBVIOUS
<1>5. IsFiniteSet(U(i)) /\ Cardinality(U(i)) = f[i]
  <2>1. IsFiniteSet({i}) /\ Cardinality({i}) = 1
    BY FS_Singleton
  <2>2. IsFiniteSet(1 .. f[i]) /\ Cardinality(1 .. f[i]) = f[i]
    BY <1>4, FS_Interval
  <2>3. IsFiniteSet(U(i)) /\ Cardinality(U(i)) = 1 * f[i]
    BY <2>1, <2>2, FS_Product
  <2> QED BY <2>3, <1>4
<1>6. Cardinality(Old \union U(i)) = Cardinality(Old) + f[i] - Cardinality(Old \intersect U(i))
  BY <1>3, <1>5, FS_Union
<1>7. Cardinality(Old \intersect U(i)) = 0
  BY <1>2, FS_EmptySet
<1>8. Cardinality(Old) \in Nat
  BY <1>3, FS_CardinalityType
<1> HIDE DEF U, Old
<1>9. Cardinality(Old \union U(i)) = Cardinality(Old) + f[i]
  BY <1>4, <1>6, <1>7, <1>8
<1> QED BY <1>1, <1>9 DEF SumOf, U, Old

-----------------------------------------------------------------------------
(***************************************************************************)
(* Types, and what a step leaves alone                                     *)
(***************************************************************************)
Pcs == {"idle", "enrollment", "existing", "balance", "insert",
        "approvable", "remaining", "approve", "rejectable", "reject",
        "processable", "verify", "settle"}

SameArguments(r) ==
  /\ req'[r].id = req[r].id /\ req'[r].amount = req[r].amount
  /\ req'[r].tx = req[r].tx /\ req'[r].seen = req[r].seen

OnlySlot(r) == \A q \in Slots \ {r} : req'[q] = req[q]

LEMMA IdleType == Idle \in RequestType /\ Idle.pc = "idle"
BY DEF Idle, RequestType

\* Going on changes the request's pc.
LEMMA GotoOnly ==
  ASSUME req \in [Slots -> RequestType], NEW r \in Slots, NEW step \in Pcs, Goto(r, step)
  PROVE  /\ req' \in [Slots -> RequestType] /\ OnlySlot(r)
         /\ req'[r].pc = step /\ SameArguments(r)
BY DEF Goto, RequestType, Pcs, OnlySlot, SameArguments

\* Ending a request frees its slot.
LEMMA FinishOnly ==
  ASSUME req \in [Slots -> RequestType], NEW r \in Slots, Finish(r)
  PROVE  req' \in [Slots -> RequestType] /\ OnlySlot(r) /\ req'[r] = Idle
BY IdleType DEF Finish, OnlySlot

\* A check goes on or ends the request.
LEMMA CheckOnly ==
  ASSUME req \in [Slots -> RequestType], NEW r \in Slots, NEW ok, NEW step \in Pcs,
         Check(r, ok, step)
  PROVE  /\ req' \in [Slots -> RequestType] /\ OnlySlot(r)
         /\ UNCHANGED <<enrollment, windowOpen, refunds, raced>>
         /\ \/ ok /\ req'[r].pc = step /\ SameArguments(r)
            \/ req'[r] = Idle
<1>1. CASE ok
  BY <1>1, GotoOnly DEF Check
<1>2. CASE ~ok
  BY <1>2, FinishOnly DEF Check
<1> QED BY <1>1, <1>2

\* A request that is new holds the given arguments.
LEMMA SubmitOnly ==
  ASSUME req \in [Slots -> RequestType], NEW r \in Slots, NEW request \in RequestType,
         Submit(r, request)
  PROVE  /\ req' \in [Slots -> RequestType] /\ OnlySlot(r) /\ req'[r] = request
         /\ UNCHANGED <<enrollment, windowOpen, refunds>>
BY DEF Submit, OnlySlot

\* Every step of a slot keeps the types.
LEMMA StepType ==
  ASSUME TypeOK, Sound, NEW r \in Slots, Step(r)
  PROVE  TypeOK'
<1> USE ConstantsAssumption DEF ConstantsAssumption
<1>0. /\ req \in [Slots -> RequestType] /\ refunds \in [RefundIds -> RefundType \union {None}]
      /\ enrollment \in {"ACTIVE", "COMPLETED", "REFUNDED"} /\ windowOpen \in BOOLEAN
      /\ raced \in BOOLEAN
  BY DEF TypeOK
<1>1. ASSUME NEW request \in RequestType, Submit(r, request) PROVE TypeOK'
  <2>1. raced' \in BOOLEAN
    BY <1>1 DEF Submit
  <2> QED BY <1>0, <1>1, <2>1, SubmitOnly DEF TypeOK
<1>2. ASSUME NEW ok, NEW step \in Pcs, Check(r, ok, step) PROVE TypeOK'
  BY <1>0, <1>2, CheckOnly DEF TypeOK
<1>3. CASE SubmitCreate(r)
  <2>1. PICK sum \in Amounts : Submit(r, [Idle EXCEPT !.pc = "enrollment", !.amount = sum])
    BY <1>3 DEF SubmitCreate
  <2>2. [Idle EXCEPT !.pc = "enrollment", !.amount = sum] \in RequestType
    BY DEF Idle, RequestType
  <2> QED BY <1>1, <2>1, <2>2
<1>4. CASE SubmitApprove(r)
  <2>1. PICK i \in Filed, sum \in Amounts :
          Submit(r, [Idle EXCEPT !.pc = "approvable", !.id = i, !.amount = sum])
    BY <1>4 DEF SubmitApprove
  <2>2. [Idle EXCEPT !.pc = "approvable", !.id = i, !.amount = sum] \in RequestType
    BY DEF Idle, RequestType, Filed
  <2> QED BY <1>1, <2>1, <2>2
<1>5. CASE SubmitReject(r)
  <2>1. PICK i \in Filed : Submit(r, [Idle EXCEPT !.pc = "rejectable", !.id = i])
    BY <1>5 DEF SubmitReject
  <2>2. [Idle EXCEPT !.pc = "rejectable", !.id = i] \in RequestType
    BY DEF Idle, RequestType, Filed
  <2> QED BY <1>1, <2>1, <2>2
<1>6. CASE SubmitProcess(r)
  <2>1. PICK i \in Filed, t \in Txs :
          Submit(r, [Idle EXCEPT !.pc = "processable", !.id = i, !.tx = t])
    BY <1>6 DEF SubmitProcess
  <2>2. [Idle EXCEPT !.pc = "processable", !.id = i, !.tx = t] \in RequestType
    BY DEF Idle, RequestType, Filed
  <2> QED BY <1>1, <2>1, <2>2
<1>7. CASE ReadEnrollment(r)
  BY <1>2, <1>7 DEF ReadEnrollment, Pcs
<1>8. CASE CheckExisting(r)
  BY <1>0, <1>2, <1>8 DEF CheckExisting, Pcs
<1>9. CASE CheckBalance(r)
  BY <1>2, <1>9 DEF CheckBalance, Fits, Pcs
<1>10. CASE InsertRefund(r)
  <2>1. refunds' \in [RefundIds -> RefundType \union {None}]
    BY <1>0, <1>10 DEF InsertRefund, RefundType, RequestType
  <2> QED BY <1>0, <1>10, <2>1, FinishOnly DEF InsertRefund, TypeOK
<1>11. CASE ReadToApprove(r)
  BY <1>2, <1>11 DEF ReadToApprove, GetPendingOrThrow, IsPending, Pcs
<1>12. CASE CheckRemaining(r)
  BY <1>2, <1>12 DEF CheckRemaining, WithinRequest, Fits, Pcs
<1>13. CASE ReadToReject(r)
  BY <1>2, <1>13 DEF ReadToReject, GetPendingOrThrow, IsPending, Pcs
<1>14. CASE VerifyRefundTx(r)
  BY <1>2, <1>14 DEF VerifyRefundTx, Pcs
<1>15. req[r].pc \in Reviewing \union Processing =>
          /\ req[r].id \in RefundIds
          /\ refunds[req[r].id] \in RefundType
  BY <1>0 DEF Sound, RequestSound, Filed
<1>16. req[r] \in RequestType
  BY <1>0
<1>17. CASE ReadToProcess(r)
  <2>1. refunds[req[r].id].approved \in Nat \union {None}
    BY <1>15, <1>17 DEF ReadToProcess, Processing, RefundType
  <2>2. [req[r] EXCEPT !.pc = "verify", !.seen = refunds[req[r].id].approved] \in RequestType
    BY <1>16, <2>1 DEF RequestType
  <2>3. req' \in [Slots -> RequestType]
    BY <1>0, <1>17, <2>2, IdleType DEF ReadToProcess
  <2> QED BY <1>0, <1>17, <2>3 DEF ReadToProcess, TypeOK
<1>18. CASE Approve(r)
  <2>1. [refunds[req[r].id] EXCEPT !.status = "APPROVED", !.approved = req[r].amount]
          \in RefundType
    BY <1>15, <1>16, <1>18 DEF Approve, Reviewing, Approving, RefundType, RequestType
  <2>2. refunds' = [refunds EXCEPT ![req[r].id] =
          [refunds[req[r].id] EXCEPT !.status = "APPROVED", !.approved = req[r].amount]]
    BY <1>0, <1>15, <1>18 DEF Approve, Reviewing, Approving
  <2>3. refunds' \in [RefundIds -> RefundType \union {None}]
    BY <1>0, <2>1, <2>2
  <2> QED BY <1>0, <1>18, <2>3, FinishOnly DEF Approve, TypeOK
<1>19. CASE Reject(r)
  <2>1. [refunds[req[r].id] EXCEPT !.status = "REJECTED"] \in RefundType
    BY <1>15, <1>19 DEF Reject, Reviewing, RefundType
  <2>2. refunds' = [refunds EXCEPT ![req[r].id] =
          [refunds[req[r].id] EXCEPT !.status = "REJECTED"]]
    BY <1>0, <1>15, <1>19 DEF Reject, Reviewing
  <2>3. refunds' \in [RefundIds -> RefundType \union {None}]
    BY <1>0, <2>1, <2>2
  <2> QED BY <1>0, <1>19, <2>3, FinishOnly DEF Reject, TypeOK
<1>20. CASE Settle(r)
  <2>1. [refunds[req[r].id] EXCEPT !.status = "PROCESSED", !.tx = req[r].tx] \in RefundType
    BY <1>15, <1>16, <1>20 DEF Settle, Processing, RefundType, RequestType
  <2>2. refunds' = [refunds EXCEPT ![req[r].id] =
          [refunds[req[r].id] EXCEPT !.status = "PROCESSED", !.tx = req[r].tx]]
    BY <1>0, <1>15, <1>20 DEF Settle, Processing
  <2>3. refunds' \in [RefundIds -> RefundType \union {None}]
    BY <1>0, <2>1, <2>2
  <2>4. enrollment' \in {"ACTIVE", "COMPLETED", "REFUNDED"}
    BY <1>0, <1>20 DEF Settle, StatusAfter
  <2> QED BY <1>0, <1>20, <2>3, <2>4, FinishOnly DEF Settle, TypeOK
<1> QED BY <1>3, <1>4, <1>5, <1>6, <1>7, <1>8, <1>9, <1>10, <1>11, <1>12, <1>13, <1>14,
           <1>17, <1>18, <1>19, <1>20 DEF Step

\* The sums of the model are sums of what the rows were approved for.
LEMMA SumsAre ==
  ASSUME TypeOK
  PROVE  /\ Amount(refunds) \in [RefundIds -> Nat]
         /\ \A ids \in SUBSET Filed :
              Sum(ids) = SumOf(Amount(refunds), ids) /\ Sum(ids) \in Nat
<1>1. Amount(refunds) \in [RefundIds -> Nat]
  BY DEF TypeOK, Amount, RefundType
<1>2. ASSUME NEW ids \in SUBSET Filed
      PROVE  Sum(ids) = SumOf(Amount(refunds), ids) /\ Sum(ids) \in Nat
  <2>1. \A i \in ids : ApprovedAmount(i) = Amount(refunds)[i]
    BY DEF ApprovedAmount, Amount, Filed
  <2>2. {{i} \X (1 .. ApprovedAmount(i)) : i \in ids} =
          {{i} \X (1 .. Amount(refunds)[i]) : i \in ids}
    BY <2>1
  <2>3. Sum(ids) = SumOf(Amount(refunds), ids)
    BY <2>2 DEF Sum, SumOf
  <2>4. ids \in SUBSET RefundIds
    BY DEF Filed
  <2> QED BY <1>1, <2>3, <2>4, SumType
<1> QED BY <1>1, <1>2

-----------------------------------------------------------------------------
(***************************************************************************)
(* Sound, whatever races                                                   *)
(***************************************************************************)

LEMMA IdleSound ==
  ASSUME NEW r, req'[r] = Idle
  PROVE  RequestSound(r)'
BY IdleType DEF RequestSound, Creating, Approving, Reviewing, Processing

\* A step that reads leaves what the other requests hold as sound as the rows.
LEMMA ReadStep ==
  ASSUME Sound, NEW r \in Slots, OnlySlot(r), refunds' = refunds, RequestSound(r)'
  PROVE  Sound'
<1>1. Filed' = Filed
  BY DEF Filed
<1>2. ASSUME NEW q \in Slots PROVE RequestSound(q)'
  <2>1. CASE q = r
    BY <2>1
  <2>2. CASE q # r
    BY <1>1, <2>2 DEF OnlySlot, Sound, RequestSound
  <2> QED BY <2>1, <2>2
<1> QED BY <1>1, <1>2 DEF Sound

\* A step that writes one row: what it was asked for stays, an approved amount is
\* not taken back, and so every other request still holds what it held.
LEMMA WriteStep ==
  ASSUME TypeOK, Sound, NEW r \in Slots, Finish(r),
         NEW i \in RefundIds, NEW row \in RefundType,
         refunds' = [refunds EXCEPT ![i] = row], RowSound(row),
         i \in Filed => /\ row.requested = refunds[i].requested
                        /\ refunds[i].approved # None => row.approved # None
  PROVE  Sound'
<1>1. req \in [Slots -> RequestType] /\ refunds \in [RefundIds -> RefundType \union {None}]
  BY DEF TypeOK
<1>2. OnlySlot(r) /\ req'[r] = Idle
  BY <1>1, FinishOnly
<1>3. row # None
  BY ConstantsAssumption DEF ConstantsAssumption
<1>4. Filed' = Filed \union {i} /\ refunds'[i] = row
  BY <1>1, <1>3 DEF Filed
<1>5. \A j \in Filed \ {i} : refunds'[j] = refunds[j]
  BY <1>1 DEF Filed
<1>6. ASSUME NEW j \in Filed' PROVE RowSound(refunds'[j])
  BY <1>4, <1>5, <1>6 DEF Sound
<1>7. ASSUME NEW j \in Filed
      PROVE  /\ j \in Filed' /\ refunds'[j].requested = refunds[j].requested
             /\ refunds[j].approved # None => refunds'[j].approved # None
  BY <1>4, <1>5, <1>7
<1>8. ASSUME NEW q \in Slots PROVE RequestSound(q)'
  <2>1. CASE q = r
    BY <1>2, <2>1, IdleSound
  <2>2. CASE q # r
    <3>1. req'[q] = req[q] /\ RequestSound(q)
      BY <1>2, <2>2 DEF OnlySlot, Sound
    <3>2. Approving \subseteq Reviewing /\ "approve" \in Approving
          /\ {"verify", "settle"} \subseteq Processing
      BY DEF Approving, Reviewing, Processing
    <3> QED BY <1>7, <3>1, <3>2 DEF RequestSound
  <2> QED BY <2>1, <2>2
<1> QED BY <1>6, <1>8 DEF Sound

\* Sound is kept by every step of a slot.
LEMMA SoundStep ==
  ASSUME TypeOK, TypeOK', Sound, NEW r \in Slots, Step(r)
  PROVE  Sound'
<1> USE DEF Creating, Approving, Reviewing, Processing
<1>0. /\ req \in [Slots -> RequestType] /\ refunds \in [RefundIds -> RefundType \union {None}]
      /\ req[r] \in RequestType /\ RequestSound(r)
  BY DEF TypeOK, Sound
<1>1. ASSUME NEW request \in RequestType, Submit(r, request),
             /\ request.pc \in {"enrollment", "approvable"} => request.amount > 0
             /\ request.pc \in {"enrollment", "approvable", "rejectable", "processable"}
             /\ request.pc # "enrollment" => request.id \in Filed
      PROVE  Sound'
  <2>1. OnlySlot(r) /\ req'[r] = request /\ refunds' = refunds
    BY <1>0, <1>1, SubmitOnly
  <2>2. Filed' = Filed
    BY <2>1 DEF Filed
  <2>3. RequestSound(r)'
    BY <1>1, <2>1, <2>2 DEF RequestSound
  <2> QED BY <2>1, <2>3, ReadStep
<1>2. ASSUME NEW ok, NEW step \in Pcs, Check(r, ok, step),
             ok => /\ step \in Creating \union Approving =>
                        req[r].pc \in Creating \union Approving
                   /\ step = "insert" => req[r].amount <= AmountPaid
                   /\ step \in Reviewing \union Processing =>
                        req[r].pc \in Reviewing \union Processing
                   /\ step = "approve" => req[r].amount <= refunds[req[r].id].requested
                   /\ step \in {"verify", "settle"} => refunds[req[r].id].approved # None
                   /\ step = "settle" => req[r].tx \in Confirmed
      PROVE  Sound'
  <2>1. OnlySlot(r) /\ refunds' = refunds
    BY <1>0, <1>2, CheckOnly
  <2>2. Filed' = Filed
    BY <2>1 DEF Filed
  <2>3. CASE req'[r] = Idle
    BY <2>1, <2>3, IdleSound, ReadStep
  <2>4. CASE ok /\ req'[r].pc = step /\ SameArguments(r)
    <3>1. RequestSound(r)'
      BY <1>0, <1>2, <2>1, <2>2, <2>4 DEF RequestSound, SameArguments
    <3> QED BY <2>1, <3>1, ReadStep
  <2> QED BY <1>0, <1>2, <2>3, <2>4, CheckOnly
<1>amounts. \A sum \in Amounts : sum \in Nat /\ sum > 0
  BY ConstantsAssumption DEF ConstantsAssumption
<1>3. CASE SubmitCreate(r)
  <2>1. PICK sum \in Amounts : Submit(r, [Idle EXCEPT !.pc = "enrollment", !.amount = sum])
    BY <1>3 DEF SubmitCreate
  <2> DEFINE request == [Idle EXCEPT !.pc = "enrollment", !.amount = sum]
  <2>2. request \in RequestType /\ request.pc = "enrollment" /\ request.amount > 0
    BY <1>amounts DEF Idle, RequestType
  <2> HIDE DEF request
  <2> QED BY <1>1, <2>1, <2>2 DEF request
<1>4. CASE SubmitApprove(r)
  <2>1. PICK i \in Filed, sum \in Amounts :
          Submit(r, [Idle EXCEPT !.pc = "approvable", !.id = i, !.amount = sum])
    BY <1>4 DEF SubmitApprove
  <2> DEFINE request == [Idle EXCEPT !.pc = "approvable", !.id = i, !.amount = sum]
  <2>2. request \in RequestType /\ request.pc = "approvable" /\ request.amount > 0
        /\ request.id \in Filed
    BY <1>amounts DEF Idle, RequestType, Filed
  <2> HIDE DEF request
  <2> QED BY <1>1, <2>1, <2>2 DEF request
<1>5. CASE SubmitReject(r)
  <2>1. PICK i \in Filed : Submit(r, [Idle EXCEPT !.pc = "rejectable", !.id = i])
    BY <1>5 DEF SubmitReject
  <2> DEFINE request == [Idle EXCEPT !.pc = "rejectable", !.id = i]
  <2>2. request \in RequestType /\ request.pc = "rejectable" /\ request.id \in Filed
    BY DEF Idle, RequestType, Filed
  <2> HIDE DEF request
  <2> QED BY <1>1, <2>1, <2>2 DEF request
<1>6. CASE SubmitProcess(r)
  <2>1. PICK i \in Filed, t \in Txs :
          Submit(r, [Idle EXCEPT !.pc = "processable", !.id = i, !.tx = t])
    BY <1>6 DEF SubmitProcess
  <2> DEFINE request == [Idle EXCEPT !.pc = "processable", !.id = i, !.tx = t]
  <2>2. request \in RequestType /\ request.pc = "processable" /\ request.id \in Filed
    BY DEF Idle, RequestType, Filed
  <2> HIDE DEF request
  <2> QED BY <1>1, <2>1, <2>2 DEF request
<1>7. CASE ReadEnrollment(r)
  BY <1>2, <1>7 DEF ReadEnrollment, Pcs
<1>8. CASE CheckExisting(r)
  BY <1>2, <1>8 DEF CheckExisting, Pcs
<1>9. CASE CheckBalance(r)
  <2>1. Sum(In(Granted) \ {None}) \in Nat
    BY SumsAre DEF In
  <2>2. Fits(req[r].amount, None) => req[r].amount <= AmountPaid
    BY <1>0, <2>1, ConstantsAssumption DEF ConstantsAssumption, Fits, RequestType
  <2> QED BY <1>2, <1>9, <2>2 DEF CheckBalance, Pcs
<1>10. CASE InsertRefund(r)
  <2>1. PICK i \in RefundIds \ Filed :
          refunds' = [refunds EXCEPT ![i] =
                        [status |-> "PENDING", requested |-> req[r].amount,
                         approved |-> None, tx |-> None]]
    BY <1>10 DEF InsertRefund
  <2> DEFINE row == [status |-> "PENDING", requested |-> req[r].amount,
                     approved |-> None, tx |-> None]
  <2>2. row \in RefundType /\ RowSound(row)
    BY <1>0, <1>10 DEF InsertRefund, RequestSound, RowSound, RefundType, RequestType
  <2> HIDE DEF row
  <2> QED BY <1>10, <2>1, <2>2, WriteStep DEF InsertRefund, row
<1>11. CASE ReadToApprove(r)
  BY <1>2, <1>11 DEF ReadToApprove, GetPendingOrThrow, Pcs
<1>12. CASE CheckRemaining(r)
  BY <1>2, <1>12 DEF CheckRemaining, WithinRequest, Pcs
<1>13. CASE ReadToReject(r)
  BY <1>2, <1>13 DEF ReadToReject, GetPendingOrThrow, Pcs
<1>14. CASE VerifyRefundTx(r)
  BY <1>0, <1>2, <1>14 DEF VerifyRefundTx, Pcs, RequestSound
<1>15. req[r].pc \in Reviewing \union Processing =>
          /\ req[r].id \in Filed /\ req[r].id \in RefundIds
          /\ refunds[req[r].id] \in RefundType /\ RowSound(refunds[req[r].id])
  BY <1>0 DEF Sound, RequestSound, Filed
<1>16. CASE ReadToProcess(r)
  <2>1. OnlySlot(r) /\ refunds' = refunds /\ Filed' = Filed
    BY <1>0, <1>16 DEF ReadToProcess, OnlySlot, Filed
  <2>2. CASE req'[r] = Idle
    BY <2>1, <2>2, IdleSound, ReadStep
  <2>3. CASE refunds[req[r].id].status = "APPROVED"
    <3>1. req'[r] = [req[r] EXCEPT !.pc = "verify", !.seen = refunds[req[r].id].approved]
      BY <1>0, <1>16, <2>3 DEF ReadToProcess
    <3>2. req'[r].pc = "verify" /\ req'[r].id = req[r].id
      BY <1>0, <3>1 DEF RequestType
    <3>3. RequestSound(r)'
      BY <1>15, <1>16, <2>1, <2>3, <3>2 DEF RequestSound, RowSound, ReadToProcess
    <3> QED BY <2>1, <3>3, ReadStep
  <2>4. req'[r] = Idle \/ refunds[req[r].id].status = "APPROVED"
    BY <1>0, <1>16 DEF ReadToProcess
  <2> QED BY <2>2, <2>3, <2>4
<1>17. CASE Approve(r)
  <2> DEFINE row == [refunds[req[r].id] EXCEPT !.status = "APPROVED", !.approved = req[r].amount]
  <2>1. row \in RefundType /\ RowSound(row) /\ row.requested = refunds[req[r].id].requested
        /\ row.approved # None
    BY <1>0, <1>15, <1>17, ConstantsAssumption
       DEF ConstantsAssumption, Approve, RequestSound, RowSound, RefundType, RequestType
  <2>2. refunds' = [refunds EXCEPT ![req[r].id] = row]
    BY <1>0, <1>15, <1>17 DEF Approve
  <2> HIDE DEF row
  <2> QED BY <1>15, <1>17, <2>1, <2>2, WriteStep DEF Approve
<1>18. CASE Reject(r)
  <2> DEFINE row == [refunds[req[r].id] EXCEPT !.status = "REJECTED"]
  <2>1. row \in RefundType /\ RowSound(row) /\ row.requested = refunds[req[r].id].requested
        /\ row.approved = refunds[req[r].id].approved
    BY <1>0, <1>15, <1>18 DEF Reject, RowSound, RefundType
  <2>2. refunds' = [refunds EXCEPT ![req[r].id] = row]
    BY <1>0, <1>15, <1>18 DEF Reject
  <2> HIDE DEF row
  <2> QED BY <1>15, <1>18, <2>1, <2>2, WriteStep DEF Reject
<1>19. CASE Settle(r)
  <2> DEFINE row == [refunds[req[r].id] EXCEPT !.status = "PROCESSED", !.tx = req[r].tx]
  <2>1. row \in RefundType /\ RowSound(row) /\ row.requested = refunds[req[r].id].requested
        /\ row.approved = refunds[req[r].id].approved
    BY <1>0, <1>15, <1>19 DEF Settle, RequestSound, RowSound, RefundType, RequestType
  <2>2. refunds' = [refunds EXCEPT ![req[r].id] = row]
    BY <1>0, <1>15, <1>19 DEF Settle
  <2> HIDE DEF row
  <2> QED BY <1>15, <1>19, <2>1, <2>2, WriteStep DEF Settle
<1> QED BY <1>3, <1>4, <1>5, <1>6, <1>7, <1>8, <1>9, <1>10, <1>11, <1>12, <1>13, <1>14,
           <1>16, <1>17, <1>18, <1>19 DEF Step

\* Types and Sound together are inductive.
LEMMA SoundInductive ==
  /\ Init => TypeOK /\ Sound
  /\ TypeOK /\ Sound /\ [Next]_vars => TypeOK' /\ Sound'
<1>1. ASSUME Init PROVE TypeOK /\ Sound
  <2>1. TypeOK
    BY <1>1, IdleType DEF Init, TypeOK
  <2>2. Sound
    BY <1>1, IdleType
       DEF Init, Sound, Filed, RequestSound, Creating, Approving, Reviewing, Processing
  <2> QED BY <2>1, <2>2
<1>2. ASSUME TypeOK, Sound, UNCHANGED <<refunds, req>>
      PROVE  Sound'
  BY <1>2 DEF Sound, RequestSound, Filed
<1>3. ASSUME TypeOK, Sound, [Next]_vars PROVE TypeOK' /\ Sound'
  <2>1. CASE CloseWindow
    BY <1>2, <1>3, <2>1 DEF CloseWindow, TypeOK
  <2>2. CASE CompleteCourse
    BY <1>2, <1>3, <2>2 DEF CompleteCourse, TypeOK
  <2>3. ASSUME NEW r \in Slots, Step(r) PROVE TypeOK' /\ Sound'
    <3>1. TypeOK'
      BY <1>3, <2>3, StepType
    <3> QED BY <1>3, <2>3, <3>1, SoundStep
  <2>4. CASE UNCHANGED vars
    BY <1>2, <1>3, <2>4 DEF vars, TypeOK
  <2> QED BY <1>3, <2>1, <2>2, <2>3, <2>4 DEF Next
<1> QED BY <1>1, <1>3

\* The variables keep their types: a review or a payout is of a refund on file.
THEOREM TypeCorrect == Spec => []TypeOK
BY SoundInductive, PTL DEF Spec

\* Whatever races, a refund grants at most what was asked, asks for at most the
\* price, and is paid by a transaction that succeeded (refunds.service.ts:60-95,
\* 166-187, 198-234).
THEOREM AlwaysSound == Spec => []RefundSound
<1>1. TypeOK /\ Sound => RefundSound
  BY DEF Sound, RowSound, RefundSound, In
<1> QED BY <1>1, SoundInductive, PTL DEF Spec

-----------------------------------------------------------------------------
(***************************************************************************)
(* Sequential, when nothing races                                          *)
(***************************************************************************)

\* Sums of the rows with given statuses, before and after a step.
LEMMA Totals ==
  ASSUME TypeOK, TypeOK'
  PROVE  /\ Amount(refunds) \in [RefundIds -> Nat] /\ Amount(refunds') \in [RefundIds -> Nat]
         /\ \A s : /\ In(s) \in SUBSET RefundIds /\ In(s)' \in SUBSET RefundIds
                   /\ Total(s) = SumOf(Amount(refunds), In(s)) /\ Total(s) \in Nat
                   /\ Total(s)' = SumOf(Amount(refunds'), In(s)') /\ Total(s)' \in Nat
<1>1. Amount(refunds) \in [RefundIds -> Nat] /\ Amount(refunds') \in [RefundIds -> Nat]
  BY DEF TypeOK, Amount, RefundType
<1>2. ASSUME NEW s
      PROVE  /\ In(s) \in SUBSET RefundIds /\ In(s)' \in SUBSET RefundIds
             /\ Total(s) = SumOf(Amount(refunds), In(s)) /\ Total(s) \in Nat
             /\ Total(s)' = SumOf(Amount(refunds'), In(s)') /\ Total(s)' \in Nat
  <2>1. In(s) \in SUBSET RefundIds /\ In(s)' \in SUBSET RefundIds
    BY DEF In, Filed
  <2>2. Total(s) = SumOf(Amount(refunds), In(s))
    BY SumsAre DEF In, Total
  <2>3. Total(s)' = SumOf(Amount(refunds'), In(s)')
    <3>1. \A i \in In(s)' : ApprovedAmount(i)' = Amount(refunds')[i]
      BY DEF ApprovedAmount, Amount, In, Filed
    <3>2. {{i} \X (1 .. ApprovedAmount(i)') : i \in In(s)'} =
            {{i} \X (1 .. Amount(refunds')[i]) : i \in In(s)'}
      BY <3>1
    <3>3. Total(s)' = Cardinality(UNION {{i} \X (1 .. ApprovedAmount(i)') : i \in In(s)'})
      BY DEF Sum, Total
    <3> QED BY <3>2, <3>3 DEF SumOf
  <2> QED BY <1>1, <2>1, <2>2, <2>3, SumType
<1> QED BY <1>1, <1>2

\* A step that leaves the rows alone leaves their sums alone.
LEMMA RowsKept ==
  ASSUME TypeOK, TypeOK', refunds' = refunds
  PROVE  /\ Filed' = Filed
         /\ \A s : In(s)' = In(s) /\ Total(s)' = Total(s)
<1>1. Filed' = Filed
  BY DEF Filed
<1>2. \A s : In(s)' = In(s)
  BY <1>1 DEF In
<1> QED BY <1>1, <1>2, Totals

\* What writing one row does to the rows of given statuses and to their sum.
LEMMA RowWritten ==
  ASSUME TypeOK, TypeOK', NEW i \in RefundIds, NEW row \in RefundType,
         refunds' = [refunds EXCEPT ![i] = row], NEW s
  PROVE  /\ In(s)' = IF row.status \in s THEN In(s) \union {i} ELSE In(s) \ {i}
         /\ i \notin In(s) /\ row.status \notin s => Total(s)' = Total(s)
         /\ i \notin In(s) /\ row.status \in s /\ row.approved # None =>
              Total(s)' = Total(s) + row.approved
         /\ i \in In(s) /\ row.status \in s /\ row.approved = refunds[i].approved =>
              Total(s)' = Total(s)
<1>1. /\ refunds \in [RefundIds -> RefundType \union {None}]
      /\ refunds'[i] = row /\ \A j \in RefundIds \ {i} : refunds'[j] = refunds[j]
  BY DEF TypeOK
<1>2. row # None
  BY ConstantsAssumption DEF ConstantsAssumption
<1>3. In(s)' = IF row.status \in s THEN In(s) \union {i} ELSE In(s) \ {i}
  BY <1>1, <1>2 DEF In, Filed
<1> DEFINE f == Amount(refunds)
           g == Amount(refunds')
<1>4. /\ f \in [RefundIds -> Nat] /\ g \in [RefundIds -> Nat]
      /\ In(s) \in SUBSET RefundIds
      /\ Total(s) = SumOf(f, In(s)) /\ Total(s)' = SumOf(g, In(s)')
  BY Totals
<1>5. \A j \in RefundIds \ {i} : g[j] = f[j]
  BY <1>1 DEF Amount
<1>6. row.approved # None => g[i] = row.approved
  BY <1>1, <1>2 DEF Amount
<1>7. i \in In(s) /\ row.approved = refunds[i].approved => g[i] = f[i]
  BY <1>1, <1>2 DEF Amount, In, Filed
<1> HIDE DEF f, g
<1>8. ASSUME i \notin In(s) PROVE SumOf(g, In(s)) = SumOf(f, In(s))
  BY <1>4, <1>5, <1>8, SumSame
<1>9. ASSUME i \notin In(s), row.status \notin s PROVE Total(s)' = Total(s)
  <2>1. In(s)' = In(s)
    BY <1>3, <1>9
  <2> QED BY <1>4, <1>8, <1>9, <2>1
<1>10. ASSUME i \notin In(s), row.status \in s, row.approved # None
       PROVE  Total(s)' = Total(s) + row.approved
  <2>1. In(s)' = In(s) \union {i}
    BY <1>3, <1>10
  <2>2. SumOf(g, In(s) \union {i}) = SumOf(g, In(s)) + g[i]
    BY <1>4, <1>10, SumAdd
  <2> QED BY <1>4, <1>6, <1>8, <1>10, <2>1, <2>2
<1>11. ASSUME i \in In(s), row.status \in s, row.approved = refunds[i].approved
       PROVE  Total(s)' = Total(s)
  <2>1. In(s)' = In(s)
    BY <1>3, <1>11
  <2>2. SumOf(g, In(s)) = SumOf(f, In(s))
    BY <1>4, <1>5, <1>7, <1>11, SumSame
  <2> QED BY <1>4, <2>1, <2>2
<1> QED BY <1>3, <1>9, <1>10, <1>11

\* The same for the statuses that matter.
LEMMA RowChanged ==
  ASSUME TypeOK, TypeOK', NEW i \in RefundIds, NEW row \in RefundType,
         refunds' = [refunds EXCEPT ![i] = row]
  PROVE  /\ In(InProgress)' = IF row.status \in {"PENDING", "APPROVED"}
                                THEN In(InProgress) \union {i}
                              ELSE In(InProgress) \ {i}
         /\ i \notin In(Granted) /\ row.status \in {"PENDING", "REJECTED"} =>
              Total(Granted)' = Total(Granted)
         /\ i \notin In(Granted) /\ row.status = "APPROVED" /\ row.approved # None =>
              Total(Granted)' = Total(Granted) + row.approved
         /\ i \in In(Granted) /\ row.status = "PROCESSED" /\ row.approved = refunds[i].approved =>
              Total(Granted)' = Total(Granted)
         /\ i \notin In({"PROCESSED"}) /\ row.status # "PROCESSED" =>
              Total({"PROCESSED"})' = Total({"PROCESSED"})
         /\ i \notin In({"PROCESSED"}) /\ row.status = "PROCESSED" /\ row.approved # None =>
              Total({"PROCESSED"})' = Total({"PROCESSED"}) + row.approved
<1>1. In(InProgress)' = IF row.status \in {"PENDING", "APPROVED"} THEN In(InProgress) \union {i}
                        ELSE In(InProgress) \ {i}
  BY RowWritten DEF InProgress
<1>2. i \notin In(Granted) /\ row.status \in {"PENDING", "REJECTED"} =>
        Total(Granted)' = Total(Granted)
  BY RowWritten DEF Granted
<1>3. i \notin In(Granted) /\ row.status = "APPROVED" /\ row.approved # None =>
        Total(Granted)' = Total(Granted) + row.approved
  BY RowWritten DEF Granted
<1>4. i \in In(Granted) /\ row.status = "PROCESSED" /\ row.approved = refunds[i].approved =>
        Total(Granted)' = Total(Granted)
  BY RowWritten DEF Granted
<1>5. i \notin In({"PROCESSED"}) /\ row.status # "PROCESSED" =>
        Total({"PROCESSED"})' = Total({"PROCESSED"})
  BY RowWritten
<1>6. i \notin In({"PROCESSED"}) /\ row.status = "PROCESSED" /\ row.approved # None =>
        Total({"PROCESSED"})' = Total({"PROCESSED"}) + row.approved
  BY RowWritten
<1> QED BY <1>1, <1>2, <1>3, <1>4, <1>5, <1>6

\* A request that is alone and only reads keeps the order when it knows what it
\* will rely on.
LEMMA OrderlyRead ==
  ASSUME TypeOK, TypeOK', Orderly, NEW r \in Slots, OnlySlot(r),
         refunds' = refunds, enrollment' = enrollment,
         \A q \in Slots \ {r} : req[q].pc = "idle",
         RequestKnows(r)'
  PROVE  Orderly'
<1>1. \A q \in Slots \ {r} : req'[q].pc = "idle"
  BY DEF OnlySlot
<1>2. Alone'
  BY <1>1 DEF Alone
<1>3. \A q \in Slots : RequestKnows(q)'
  BY <1>1 DEF RequestKnows
<1>4. RowsInOrder'
  BY RowsKept DEF Orderly, RowsInOrder, OneInProgress
<1> QED BY <1>2, <1>3, <1>4 DEF Orderly

\* A request that is alone and writes keeps the order when the rows are in order.
LEMMA OrderlyWrite ==
  ASSUME Orderly, NEW r \in Slots, OnlySlot(r), req'[r] = Idle,
         \A q \in Slots \ {r} : req[q].pc = "idle",
         RowsInOrder'
  PROVE  Orderly'
<1>1. \A q \in Slots : req'[q].pc = "idle"
  BY IdleType DEF OnlySlot
<1>2. Alone'
  BY <1>1 DEF Alone
<1>3. \A q \in Slots : RequestKnows(q)'
  BY <1>1 DEF RequestKnows
<1> QED BY <1>2, <1>3 DEF Orderly

\* Every step of a slot that does not race keeps the order.
LEMMA OrderlyStep ==
  ASSUME TypeOK, TypeOK', Sound, Orderly, raced' = FALSE, NEW r \in Slots, Step(r)
  PROVE  Orderly'
<1>0. /\ req \in [Slots -> RequestType] /\ refunds \in [RefundIds -> RefundType \union {None}]
      /\ req[r] \in RequestType /\ RequestKnows(r)
  BY DEF TypeOK, Orderly
<1>alone. req[r].pc # "idle" => \A q \in Slots \ {r} : req[q].pc = "idle"
  BY DEF Orderly, Alone
<1>row. req[r].pc \in Reviewing \union Processing =>
          /\ req[r].id \in RefundIds /\ req[r].id \in Filed
          /\ refunds[req[r].id] \in RefundType /\ RowSound(refunds[req[r].id])
  BY <1>0 DEF Sound, RequestSound, Filed
<1>1. ASSUME NEW request \in RequestType, Submit(r, request),
             request.pc \in {"enrollment", "approvable", "rejectable", "processable"}
      PROVE  Orderly'
  <2>1. OnlySlot(r) /\ req'[r] = request /\ refunds' = refunds /\ enrollment' = enrollment
    BY <1>0, <1>1, SubmitOnly
  <2>2. \A q \in Slots \ {r} : req[q].pc = "idle"
    BY <1>1 DEF Submit
  <2>3. RequestKnows(r)'
    BY <1>1, <2>1 DEF RequestKnows
  <2> QED BY <2>1, <2>2, <2>3, OrderlyRead
<1>2. ASSUME NEW ok, NEW step \in Pcs, Check(r, ok, step), req[r].pc # "idle",
             ok => /\ step \in {"balance", "insert"} => In(InProgress) = {}
                   /\ step \in {"insert", "approve"} =>
                        req[r].amount + Total(Granted) <= AmountPaid
                   /\ step \in {"remaining", "approve", "reject"} => IsPending(req[r].id)
                   /\ step \in {"verify", "settle"} =>
                        /\ refunds[req[r].id].status = "APPROVED"
                        /\ req[r].seen = refunds[req[r].id].approved
      PROVE  Orderly'
  <2>1. OnlySlot(r) /\ refunds' = refunds /\ enrollment' = enrollment
    BY <1>0, <1>2, CheckOnly
  <2>2. CASE req'[r] = Idle
    <3>1. RequestKnows(r)'
      BY <2>2, IdleType DEF RequestKnows
    <3> QED BY <1>2, <1>alone, <2>1, <3>1, OrderlyRead
  <2>3. CASE ok /\ req'[r].pc = step /\ SameArguments(r)
    <3>1. \A s : In(s)' = In(s) /\ Total(s)' = Total(s)
      BY <2>1, RowsKept
    <3>2. RequestKnows(r)'
      BY <1>2, <2>1, <2>3, <3>1 DEF RequestKnows, SameArguments, IsPending
    <3> QED BY <1>2, <1>alone, <2>1, <3>2, OrderlyRead
  <2> QED BY <1>0, <1>2, <2>2, <2>3, CheckOnly
<1>3. CASE SubmitCreate(r) \/ SubmitApprove(r) \/ SubmitReject(r) \/ SubmitProcess(r)
  <2> SUFFICES \E request \in RequestType :
                 /\ Submit(r, request)
                 /\ request.pc \in {"enrollment", "approvable", "rejectable", "processable"}
    BY <1>1
  <2>1. CASE SubmitCreate(r)
    <3>1. PICK sum \in Amounts : Submit(r, [Idle EXCEPT !.pc = "enrollment", !.amount = sum])
      BY <2>1 DEF SubmitCreate
    <3>2. sum \in Nat
      BY ConstantsAssumption DEF ConstantsAssumption
    <3>3. [Idle EXCEPT !.pc = "enrollment", !.amount = sum] \in RequestType
      BY <3>2 DEF Idle, RequestType
    <3> QED BY <3>1, <3>3 DEF Idle
  <2>2. CASE SubmitApprove(r)
    <3>1. PICK i \in Filed, sum \in Amounts :
            Submit(r, [Idle EXCEPT !.pc = "approvable", !.id = i, !.amount = sum])
      BY <2>2 DEF SubmitApprove
    <3>2. sum \in Nat
      BY ConstantsAssumption DEF ConstantsAssumption
    <3>3. [Idle EXCEPT !.pc = "approvable", !.id = i, !.amount = sum] \in RequestType
      BY <3>2 DEF Idle, RequestType, Filed
    <3> QED BY <3>1, <3>3 DEF Idle
  <2>3. CASE SubmitReject(r)
    <3>1. PICK i \in Filed : Submit(r, [Idle EXCEPT !.pc = "rejectable", !.id = i])
      BY <2>3 DEF SubmitReject
    <3>2. [Idle EXCEPT !.pc = "rejectable", !.id = i] \in RequestType
      BY DEF Idle, RequestType, Filed
    <3> QED BY <3>1, <3>2 DEF Idle
  <2>4. CASE SubmitProcess(r)
    <3>1. PICK i \in Filed, t \in Txs :
            Submit(r, [Idle EXCEPT !.pc = "processable", !.id = i, !.tx = t])
      BY <2>4 DEF SubmitProcess
    <3>2. [Idle EXCEPT !.pc = "processable", !.id = i, !.tx = t] \in RequestType
      BY DEF Idle, RequestType, Filed
    <3> QED BY <3>1, <3>2 DEF Idle
  <2> QED BY <1>3, <2>1, <2>2, <2>3, <2>4
<1>4. CASE ReadEnrollment(r)
  BY <1>2, <1>4 DEF ReadEnrollment, Pcs
<1>5. CASE CheckExisting(r)
  BY <1>2, <1>5 DEF CheckExisting, Pcs
<1>6. CASE CheckBalance(r)
  <2>1. In(Granted) \ {None} = In(Granted)
    BY ConstantsAssumption DEF ConstantsAssumption, In, Filed
  <2>2. In(InProgress) = {}
    BY <1>0, <1>6 DEF CheckBalance, RequestKnows
  <2> QED BY <1>2, <1>6, <2>1, <2>2 DEF CheckBalance, Fits, Pcs, Total
<1>7. CASE ReadToApprove(r)
  BY <1>2, <1>7 DEF ReadToApprove, GetPendingOrThrow, Pcs
<1>8. CASE CheckRemaining(r)
  <2>1. IsPending(req[r].id)
    BY <1>0, <1>8 DEF CheckRemaining, RequestKnows
  <2>2. In(Granted) \ {req[r].id} = In(Granted)
    BY <2>1 DEF IsPending, In, Granted
  <2> QED BY <1>2, <1>8, <2>1, <2>2 DEF CheckRemaining, Fits, Pcs, Total
<1>9. CASE ReadToReject(r)
  BY <1>2, <1>9 DEF ReadToReject, GetPendingOrThrow, Pcs
<1>10. CASE VerifyRefundTx(r)
  BY <1>0, <1>2, <1>10 DEF VerifyRefundTx, Pcs, RequestKnows
<1>11. CASE ReadToProcess(r)
  <2>1. OnlySlot(r) /\ refunds' = refunds /\ enrollment' = enrollment
    BY <1>0, <1>11 DEF ReadToProcess, OnlySlot
  <2>2. RequestKnows(r)'
    <3>1. CASE refunds[req[r].id].status = "APPROVED"
      <4>1. req'[r] = [req[r] EXCEPT !.pc = "verify", !.seen = refunds[req[r].id].approved]
        BY <1>0, <1>11, <3>1 DEF ReadToProcess
      <4>2. /\ req'[r].pc = "verify" /\ req'[r].id = req[r].id
            /\ req'[r].seen = refunds[req[r].id].approved
        BY <1>0, <4>1 DEF RequestType
      <4> QED BY <2>1, <3>1, <4>2 DEF RequestKnows
    <3>2. CASE refunds[req[r].id].status # "APPROVED"
      <4>1. req'[r] = Idle
        BY <1>0, <1>11, <3>2 DEF ReadToProcess
      <4> QED BY <4>1, IdleType DEF RequestKnows
    <3> QED BY <3>1, <3>2
  <2>3. req[r].pc # "idle"
    BY <1>11 DEF ReadToProcess
  <2> QED BY <1>alone, <2>1, <2>2, <2>3, OrderlyRead
<1>12. ASSUME Finish(r), req[r].pc # "idle", RowsInOrder' PROVE Orderly'
  BY <1>0, <1>12, <1>alone, FinishOnly, OrderlyWrite
<1>13. /\ OneInProgress /\ Total(Granted) <= AmountPaid /\ Total(Granted) \in Nat
       /\ enrollment = "REFUNDED" => Total({"PROCESSED"}) = AmountPaid
       /\ Total({"PROCESSED"}) \in Nat
  BY Totals DEF Orderly, RowsInOrder
<1>14. AmountPaid \in Nat /\ req[r].amount \in Nat
  BY <1>0, ConstantsAssumption DEF ConstantsAssumption, RequestType
<1>15. CASE InsertRefund(r)
  <2>1. PICK i \in RefundIds \ Filed :
          refunds' = [refunds EXCEPT ![i] =
                        [status |-> "PENDING", requested |-> req[r].amount,
                         approved |-> None, tx |-> None]]
    BY <1>15 DEF InsertRefund
  <2> DEFINE row == [status |-> "PENDING", requested |-> req[r].amount,
                     approved |-> None, tx |-> None]
  <2>2. row \in RefundType /\ row.status = "PENDING"
    BY <1>14 DEF RefundType
  <2>3. \A s : i \notin In(s)
    BY DEF In
  <2> HIDE DEF row
  <2>4. /\ In(InProgress)' = In(InProgress) \union {i}
        /\ Total(Granted)' = Total(Granted)
        /\ Total({"PROCESSED"})' = Total({"PROCESSED"})
    BY <2>1, <2>2, <2>3, RowChanged DEF row
  <2>5. In(InProgress) = {} /\ enrollment' = enrollment
    BY <1>0, <1>15 DEF InsertRefund, RequestKnows
  <2>6. RowsInOrder'
    BY <1>13, <2>4, <2>5 DEF RowsInOrder, OneInProgress
  <2> QED BY <1>12, <1>15, <2>6 DEF InsertRefund
<1>16. CASE Approve(r)
  <2> DEFINE i == req[r].id
             row == [refunds[i] EXCEPT !.status = "APPROVED", !.approved = req[r].amount]
  <2>1. i \in RefundIds /\ i \in Filed /\ refunds[i] \in RefundType
        /\ refunds[i].status = "PENDING" /\ enrollment' = enrollment
    BY <1>0, <1>16, <1>row DEF Approve, RequestKnows, IsPending, Approving, Reviewing
  <2>2. refunds' = [refunds EXCEPT ![i] = row]
    BY <1>0, <1>16, <2>1 DEF Approve
  <2>3. row \in RefundType /\ row.status = "APPROVED" /\ row.approved = req[r].amount
        /\ row.approved # None
    BY <1>14, <2>1, ConstantsAssumption DEF ConstantsAssumption, RefundType
  <2>4. i \in In(InProgress) /\ i \notin In(Granted) /\ i \notin In({"PROCESSED"})
    BY <2>1 DEF In, InProgress, Granted
  <2> HIDE DEF i, row
  <2>5. /\ In(InProgress)' = In(InProgress)
        /\ Total(Granted)' = Total(Granted) + req[r].amount
        /\ Total({"PROCESSED"})' = Total({"PROCESSED"})
    BY <2>1, <2>2, <2>3, <2>4, RowChanged
  <2>6. req[r].amount + Total(Granted) <= AmountPaid
    BY <1>0, <1>16 DEF Approve, RequestKnows
  <2>7. RowsInOrder'
    BY <1>13, <1>14, <2>1, <2>5, <2>6 DEF RowsInOrder, OneInProgress
  <2> QED BY <1>12, <1>16, <2>7 DEF Approve
<1>17. CASE Reject(r)
  <2> DEFINE i == req[r].id
             row == [refunds[i] EXCEPT !.status = "REJECTED"]
  <2>1. i \in RefundIds /\ i \in Filed /\ refunds[i] \in RefundType
        /\ refunds[i].status = "PENDING" /\ enrollment' = enrollment
    BY <1>0, <1>17, <1>row DEF Reject, RequestKnows, IsPending, Reviewing
  <2>2. refunds' = [refunds EXCEPT ![i] = row]
    BY <1>0, <1>17, <2>1 DEF Reject
  <2>3. row \in RefundType /\ row.status = "REJECTED"
    BY <2>1 DEF RefundType
  <2>4. i \notin In(Granted) /\ i \notin In({"PROCESSED"})
    BY <2>1 DEF In, Granted
  <2> HIDE DEF i, row
  <2>5. /\ In(InProgress)' \subseteq In(InProgress)
        /\ Total(Granted)' = Total(Granted)
        /\ Total({"PROCESSED"})' = Total({"PROCESSED"})
    BY <2>1, <2>2, <2>3, <2>4, RowChanged
  <2>6. RowsInOrder'
    BY <1>13, <2>1, <2>5 DEF RowsInOrder, OneInProgress
  <2> QED BY <1>12, <1>17, <2>6 DEF Reject
<1>18. CASE Settle(r)
  <2> DEFINE i == req[r].id
             row == [refunds[i] EXCEPT !.status = "PROCESSED", !.tx = req[r].tx]
  <2>1. /\ i \in RefundIds /\ i \in Filed /\ refunds[i] \in RefundType /\ RowSound(refunds[i])
        /\ refunds[i].status = "APPROVED" /\ req[r].seen = refunds[i].approved
    BY <1>0, <1>18, <1>row DEF Settle, RequestKnows, Processing
  <2>2. refunds' = [refunds EXCEPT ![i] = row]
    BY <1>0, <1>18, <2>1 DEF Settle
  <2>3. row \in RefundType /\ row.status = "PROCESSED" /\ row.approved = refunds[i].approved
    BY <1>0, <2>1 DEF RefundType, RequestType
  <2>4. /\ refunds[i].approved # None /\ refunds[i].approved \in Nat
        /\ refunds[i].approved > 0 /\ req[r].seen = refunds[i].approved
    BY <2>1 DEF RowSound, RefundType
  <2>5. i \in In(Granted) /\ i \notin In({"PROCESSED"})
    BY <2>1 DEF In, Granted
  <2>6. enrollment' = IF req[r].seen >= AmountPaid THEN "REFUNDED" ELSE enrollment
    BY <1>18 DEF Settle, StatusAfter, IsFullRefund
  <2> HIDE DEF i, row
  <2>7. /\ In(InProgress)' \subseteq In(InProgress)
        /\ Total(Granted)' = Total(Granted)
        /\ Total({"PROCESSED"})' = Total({"PROCESSED"}) + refunds[i].approved
    BY <2>1, <2>2, <2>3, <2>4, <2>5, RowChanged
  \* What was paid out is part of what was granted.
  <2>8. Total({"PROCESSED"})' <= Total(Granted)'
    <3>1. In({"PROCESSED"})' \in SUBSET In(Granted)'
      BY DEF In, Granted
    <3> QED BY <3>1, Totals, SumMonotone
  <2>9. enrollment' = "REFUNDED" => Total({"PROCESSED"})' = AmountPaid
    BY <1>13, <1>14, <2>4, <2>6, <2>7, <2>8
  <2>10. RowsInOrder'
    BY <1>13, <2>7, <2>9 DEF RowsInOrder, OneInProgress
  <2> QED BY <1>12, <1>18, <2>10 DEF Settle
<1> QED BY <1>3, <1>4, <1>5, <1>6, <1>7, <1>8, <1>9, <1>10, <1>11, <1>15, <1>16, <1>17,
           <1>18 DEF Step

\* Requests that raced have raced.
LEMMA RacedStays ==
  ASSUME TypeOK, NEW r \in Slots, Step(r)
  PROVE  raced' = FALSE => raced = FALSE
<1>1. ASSUME NEW request, Submit(r, request) PROVE raced' = FALSE => raced = FALSE
  BY <1>1 DEF Submit, TypeOK
<1>2. ASSUME NEW ok, NEW step, Check(r, ok, step) PROVE raced' = FALSE => raced = FALSE
  BY <1>2 DEF Check
<1>3. CASE SubmitCreate(r) \/ SubmitApprove(r) \/ SubmitReject(r) \/ SubmitProcess(r)
  BY <1>1, <1>3 DEF SubmitCreate, SubmitApprove, SubmitReject, SubmitProcess
<1>4. CASE ReadEnrollment(r) \/ CheckExisting(r) \/ CheckBalance(r) \/ ReadToApprove(r)
             \/ CheckRemaining(r) \/ ReadToReject(r) \/ VerifyRefundTx(r)
  BY <1>2, <1>4
     DEF ReadEnrollment, CheckExisting, CheckBalance, ReadToApprove, GetPendingOrThrow,
         CheckRemaining, ReadToReject, VerifyRefundTx
<1>5. CASE InsertRefund(r) \/ Approve(r) \/ Reject(r) \/ ReadToProcess(r) \/ Settle(r)
  BY <1>5 DEF InsertRefund, Approve, Reject, ReadToProcess, Settle
<1> QED BY <1>3, <1>4, <1>5 DEF Step

\* The inductive invariant of refunds that come one after the other.
LEMMA SequentialInductive ==
  /\ Init => Sequential
  /\ TypeOK /\ Sound /\ Sequential /\ [Next]_vars => Sequential'
<1>1. ASSUME Init PROVE Sequential
  <2>1. TypeOK
    BY <1>1, SoundInductive
  <2>2. \A s : In(s) = {}
    BY <1>1 DEF Init, In, Filed
  <2>3. \A s : Total(s) = 0
    <3>1. UNION {{i} \X (1 .. ApprovedAmount(i)) : i \in {}} = {}
      OBVIOUS
    <3> QED BY <2>2, <3>1, FS_EmptySet DEF Sum, Total
  <2>4. \A r \in Slots : req[r].pc = "idle"
    BY <1>1, IdleType DEF Init
  <2>5. RowsInOrder
    BY <1>1, <2>2, <2>3, ConstantsAssumption
       DEF ConstantsAssumption, Init, RowsInOrder, OneInProgress
  <2>6. Alone
    BY <2>4 DEF Alone
  <2>7. \A r \in Slots : RequestKnows(r)
    BY <2>4 DEF RequestKnows
  <2> QED BY <2>5, <2>6, <2>7 DEF Sequential, Orderly
<1>2. ASSUME TypeOK, Sound, Sequential, [Next]_vars PROVE Sequential'
  <2>1. TypeOK'
    BY <1>2, SoundInductive
  <2>2. ASSUME refunds' = refunds, req' = req, raced' = raced,
               enrollment' = enrollment \/ enrollment' # "REFUNDED"
        PROVE  Sequential'
    <3>1. \A s : In(s)' = In(s) /\ Total(s)' = Total(s)
      BY <1>2, <2>1, <2>2, RowsKept
    <3>2. ASSUME Orderly PROVE Orderly'
      <4>1. Alone'
        BY <2>2, <3>2 DEF Orderly, Alone
      <4>2. \A r \in Slots : RequestKnows(r)'
        BY <2>2, <3>1, <3>2 DEF Orderly, RequestKnows, IsPending
      <4>3. RowsInOrder'
        BY <2>2, <3>1, <3>2 DEF Orderly, RowsInOrder, OneInProgress
      <4> QED BY <4>1, <4>2, <4>3 DEF Orderly
    <3> QED BY <1>2, <2>2, <3>2 DEF Sequential
  <2>3. CASE CloseWindow
    BY <2>2, <2>3 DEF CloseWindow
  <2>4. CASE CompleteCourse
    BY <2>2, <2>4 DEF CompleteCourse
  <2>5. ASSUME NEW r \in Slots, Step(r) PROVE Sequential'
    <3>1. raced' = FALSE => raced = FALSE
      BY <1>2, <2>5, RacedStays
    <3> QED BY <1>2, <2>1, <2>5, <3>1, OrderlyStep DEF Sequential
  <2>6. CASE UNCHANGED vars
    BY <2>2, <2>6 DEF vars
  <2> QED BY <1>2, <2>3, <2>4, <2>5, <2>6 DEF Next
<1> QED BY <1>1, <1>2

\* What Sequential says of the properties of Refunds.
LEMMA SequentialMeans ==
  ASSUME TypeOK, Sequential
  PROVE  CapWithoutRace /\ OneOpenRefund /\ RefundedIsPaidBack
<1>1. raced = FALSE \/ raced = TRUE
  BY DEF TypeOK
<1>2. CASE raced = TRUE
  BY <1>2 DEF CapWithoutRace, OneOpenRefund, RefundedIsPaidBack
<1>3. CASE raced = FALSE
  <2>1. RowsInOrder
    BY <1>3 DEF Sequential, Orderly
  <2>2. RefundsWithinPaid
    <3>1. {"APPROVED", "PROCESSED"} = Granted
      BY DEF Granted
    <3> QED BY <2>1, <3>1 DEF RowsInOrder, RefundsWithinPaid, Total
  <2>3. Cardinality(In({"PENDING", "APPROVED"})) <= 1
    <3> DEFINE open == In({"PENDING", "APPROVED"})
    <3>1. \A i, j \in open : i = j
      BY <2>1 DEF RowsInOrder, OneInProgress, InProgress
    <3>2. CASE open = {}
      BY <3>2, FS_EmptySet
    <3>3. CASE open # {}
      <4>1. PICK i \in open : TRUE
        BY <3>3
      <4>2. open = {i}
        BY <3>1, <4>1
      <4>3. Cardinality({i}) = 1
        BY FS_Singleton
      <4> HIDE DEF open
      <4>4. Cardinality(open) <= 1
        BY <4>2, <4>3
      <4> QED BY <4>4 DEF open
    <3> QED BY <3>2, <3>3
  <2>4. enrollment = "REFUNDED" => Sum(In({"PROCESSED"})) = AmountPaid
    BY <2>1 DEF RowsInOrder, Total
  <2> QED BY <2>2, <2>3, <2>4 DEF CapWithoutRace, OneOpenRefund, RefundedIsPaidBack
<1> QED BY <1>1, <1>2, <1>3

\* Refunds handled one after the other never grant more than the price, through any
\* sequence of requests, partial approvals, rejections and payouts
\* (refunds.service.ts:60-78, 154-178).
THEOREM CapHolds == Spec => []CapWithoutRace
BY SoundInductive, SequentialInductive, SequentialMeans, PTL DEF Spec

\* They leave at most one refund of the enrolment open (refunds.service.ts:42-50).
THEOREM OneAtATime == Spec => []OneOpenRefund
BY SoundInductive, SequentialInductive, SequentialMeans, PTL DEF Spec

\* And an enrolment shown as REFUNDED was paid back in full
\* (refunds.service.ts:218-230).
THEOREM RefundedInFull == Spec => []RefundedIsPaidBack
BY SoundInductive, SequentialInductive, SequentialMeans, PTL DEF Spec

\* A refund that was paid out is not written again as long as nothing races: whoever
\* reviews or processes a refund has found it in another status.
THEOREM PaidOutIsFinal == Spec => ProcessedIsFinal
<1> DEFINE Final == ~raced => \A i \in In({"PROCESSED"}) : refunds'[i] = refunds[i]
<1>1. ASSUME TypeOK, Sound, Sequential, [Next]_vars PROVE [Final]_vars
  <2> SUFFICES ASSUME ~raced, NEW i \in In({"PROCESSED"})
               PROVE  refunds'[i] = refunds[i]
    OBVIOUS
  <2>0. raced = FALSE
    BY <1>1 DEF TypeOK
  <2>1. i \in Filed /\ i \in RefundIds /\ refunds[i].status = "PROCESSED"
    BY DEF In, Filed
  <2>2. CASE refunds' = refunds
    BY <2>2
  <2>3. ASSUME NEW r \in Slots, Step(r) PROVE refunds'[i] = refunds[i]
    <3>1. RequestKnows(r) /\ refunds \in [RefundIds -> RefundType \union {None}]
      BY <1>1, <2>0 DEF Sequential, Orderly, TypeOK
    <3>2. CASE InsertRefund(r)
      BY <2>1, <3>1, <3>2 DEF InsertRefund
    <3>3. CASE Approve(r)
      BY <2>1, <3>1, <3>3 DEF Approve, RequestKnows, IsPending
    <3>4. CASE Reject(r)
      BY <2>1, <3>1, <3>4 DEF Reject, RequestKnows, IsPending
    <3>5. CASE Settle(r)
      BY <2>1, <3>1, <3>5 DEF Settle, RequestKnows
    <3>6. CASE ~(InsertRefund(r) \/ Approve(r) \/ Reject(r) \/ Settle(r))
      BY <2>2, <2>3, <3>6
         DEF Step, SubmitCreate, SubmitApprove, SubmitReject, SubmitProcess, Submit,
             ReadEnrollment, CheckExisting, CheckBalance, ReadToApprove, ReadToReject,
             GetPendingOrThrow, CheckRemaining, VerifyRefundTx, Check, ReadToProcess
    <3> QED BY <3>2, <3>3, <3>4, <3>5, <3>6
  <2> QED BY <1>1, <2>2, <2>3 DEF Next, CloseWindow, CompleteCourse, vars
<1> QED BY <1>1, SoundInductive, SequentialInductive, PTL DEF Spec, ProcessedIsFinal

-----------------------------------------------------------------------------
(***************************************************************************)
(* BackOffice, as MCRefunds joins it.  Its four services share the tasks   *)
(* and nothing else: each part of the invariant is about the tasks in its  *)
(* own steps.                                                              *)
(***************************************************************************)
Mailing == {"mail", "mailed"}
Invoicing == {"invoice"} \union Mailing
Disputing == {"decide", "tell"}
Paying == {"payout"}
Rating == {"load", "forget"}
Decisions == {"RESOLVED", "REJECTED", "CLOSED"}
Undecided == {"OPEN", "UNDER_REVIEW"}

\* An invoice is mailed by the task that created it, and by that one only.
InvoicePart ==
  /\ chain \in {"none", "found", "ok", "failed"} /\ amount \in Costs
  /\ invoice \in {"none", "issued", "sent"} /\ mails \in 0 .. 2
  /\ \A r \in Slots :
       /\ task[r].pc \in Invoicing => amount > 0 /\ chain \in {"none", "ok"}
       /\ task[r].pc \in Mailing => invoice = "issued"
       /\ task[r].pc = "mail" => mails = 0
       /\ task[r].pc = "mailed" => mails = 1
  /\ \A q, r \in Slots : task[q].pc \in Mailing /\ task[r].pc \in Mailing => q = r
  /\ invoice = "none" => mails = 0
  /\ Office!InvoiceSound

\* As long as no decisions overlapped: a dispute under decision is open, and
\* after the decision the student has not been told yet.
InTurn ==
  /\ \A d \in Disputes : settled[d] \in {0, 1} /\ (settled[d] = 1 => dispute[d] \in Decisions)
  /\ \A r \in Slots :
       /\ task[r].pc = "decide" => dispute[task[r].id] \in Undecided /\ settled[task[r].id] = 0
       /\ task[r].pc = "tell" => dispute[task[r].id] \in Decisions /\ settled[task[r].id] = 0
  /\ \A q, r \in Slots :
       task[q].pc \in Disputing /\ task[r].pc \in Disputing /\ task[q].id = task[r].id => q = r

DisputePart ==
  /\ dispute \in [Disputes -> {"none"} \union Undecided \union Decisions]
  /\ settled \in [Disputes -> 0 .. 2] /\ disputesRaced \in BOOLEAN
  /\ \A r \in Slots : task[r].pc \in Disputing => task[r].id \in Disputes
  /\ disputesRaced = FALSE => InTurn

\* A task about to pay saw a verified instructor.
PayoutPart ==
  /\ payout \in [Payouts -> {"none", "PENDING", "PROCESSING", "COMPLETED", "FAILED"}]
  /\ verified \in BOOLEAN /\ reviewedLate \in BOOLEAN /\ unverifiedPaid \in BOOLEAN
  /\ \A r \in Slots : task[r].pc \in Paying => verified = TRUE \/ reviewedLate = TRUE
  /\ unverifiedPaid = TRUE => reviewedLate = TRUE

\* A load that nothing overtook holds the rate.
RatePart ==
  /\ rate \in Rates \union {0} /\ cached \in Rates \union {0, -1} /\ readLate \in BOOLEAN
  /\ readLate = FALSE => \A r \in Slots : task[r].pc = "load" => task[r].value = rate
  /\ readLate = FALSE /\ (\A r \in Slots : task[r].pc # "forget") => cached \in {-1, rate}

Shared == task \in [Slots -> Office!TaskType] /\ changes \in 0 .. MaxChanges

OfficeInv == InvoicePart /\ DisputePart /\ PayoutPart /\ RatePart /\ Shared

(***************************************************************************)
(* The ways a task moves.                                                  *)
(***************************************************************************)
TaskTypes == task \in [Slots -> Office!TaskType]
OnlyTask(r) == \A q \in Slots : q # r => task'[q] = task[q]

LEMMA TaskMoves ==
  ASSUME NEW r \in Slots, TaskTypes, NEW new \in Office!TaskType, task' = [task EXCEPT ![r] = new]
  PROVE  TaskTypes' /\ OnlyTask(r) /\ task'[r] = new
BY DEF TaskTypes, OnlyTask

LEMMA IdleTask == Office!Idle \in Office!TaskType /\ Office!Idle.pc = "idle"
<1>1. "none" \in Disputes \union Payouts \union {"none"} /\ 0 \in Rates \union {0}
  OBVIOUS
<1> QED BY <1>1 DEF Office!Idle, Office!TaskType, Office!NoRow, Office!Resolutions

LEMMA FinishTask ==
  ASSUME NEW r \in Slots, TaskTypes, Office!Finish(r)
  PROVE  TaskTypes' /\ OnlyTask(r) /\ task'[r].pc = "idle"
BY IdleTask, TaskMoves DEF Office!Finish

LEMMA BeginTask ==
  ASSUME NEW r \in Slots, TaskTypes, NEW new \in Office!TaskType, Office!Begin(r, new)
  PROVE  TaskTypes' /\ OnlyTask(r) /\ task[r].pc = "idle" /\ task'[r] = new
BY IdleTask, TaskMoves DEF Office!Begin

LEMMA GotoTask ==
  ASSUME NEW r \in Slots, TaskTypes, NEW step \in Invoicing \union Disputing,
         task' = [task EXCEPT ![r].pc = step]
  PROVE  /\ TaskTypes' /\ OnlyTask(r)
         /\ task'[r].pc = step /\ task'[r].id = task[r].id
<1> DEFINE new == [task[r] EXCEPT !.pc = step]
<1>1. task' = [task EXCEPT ![r] = new]
  BY DEF TaskTypes
<1>2. new \in Office!TaskType /\ new.pc = step /\ new.id = task[r].id
  BY DEF TaskTypes, Office!TaskType, Invoicing, Mailing, Disputing
<1> HIDE DEF new
<1> QED BY <1>1, <1>2, TaskMoves

\* The tasks in the steps of a part, afterwards, are as they were.
Untouched(pcs) == \A q \in Slots : task'[q].pc \in pcs => task'[q] = task[q]

LEMMA InvoiceFrame ==
  ASSUME InvoicePart, UNCHANGED <<chain, amount, invoice, mails>>, Untouched(Invoicing)
  PROVE  InvoicePart'
BY DEF InvoicePart, Untouched, Office!InvoiceSound, Office!NoRow, Invoicing, Mailing

LEMMA DisputeFrame ==
  ASSUME DisputePart, UNCHANGED <<dispute, settled, disputesRaced>>, Untouched(Disputing)
  PROVE  DisputePart'
<1>1. InTurn => InTurn'
  BY DEF InTurn, Untouched, Disputing
<1>2. (\A r \in Slots : task[r].pc \in Disputing => task[r].id \in Disputes)'
  BY DEF DisputePart, Untouched
<1> QED BY <1>1, <1>2 DEF DisputePart

LEMMA PayoutFrame ==
  ASSUME PayoutPart, UNCHANGED <<verified, payout, reviewedLate, unverifiedPaid>>, Untouched(Paying)
  PROVE  PayoutPart'
BY DEF PayoutPart, Untouched

LEMMA RateFrame ==
  ASSUME RatePart, UNCHANGED <<rate, cached, readLate>>, Untouched({"load"}),
         \A q \in Slots : task[q].pc = "forget" => task'[q].pc = "forget"
  PROVE  RatePart'
BY DEF RatePart, Untouched

LEMMA Leaves ==
  ASSUME NEW r \in Slots, OnlyTask(r), NEW pcs, task'[r].pc \notin pcs
  PROVE  Untouched(pcs)
BY DEF OnlyTask, Untouched

LEMMA Standing == ASSUME UNCHANGED task, NEW pcs PROVE Untouched(pcs)
BY DEF Untouched

LEMMA Costly == ASSUME InvoicePart PROVE amount \in Int
BY OfficeAssumption DEF InvoicePart, Office!ConstantsAssumption

(***************************************************************************)
(* InvoicesService                                                         *)
(***************************************************************************)
LEMMA InvoiceSteps ==
  ASSUME InvoicePart, TaskTypes, NEW r \in Slots,
         \/ Office!StartInvoice(r) \/ Office!CreateInvoice(r)
         \/ Office!MailInvoice(r) \/ Office!MarkMailed(r)
  PROVE  /\ InvoicePart' /\ TaskTypes' /\ OnlyTask(r)
         /\ task[r].pc # "forget" /\ task'[r].pc \in {"idle"} \union Invoicing
<1> USE DEF Office!InvoiceSound, Office!NoRow
<1>1. CASE Office!StartInvoice(r)
  <2> DEFINE new == [Office!Idle EXCEPT !.pc = "invoice"]
  <2>1. new \in Office!TaskType /\ new.pc = "invoice"
    BY IdleTask DEF Office!TaskType
  <2> HIDE DEF new
  <2>2. Office!Begin(r, new)
    BY <1>1 DEF Office!StartInvoice, new
  <2>3. TaskTypes' /\ OnlyTask(r) /\ task[r].pc = "idle" /\ task'[r].pc = "invoice"
    BY <2>1, <2>2, BeginTask
  <2>4. amount > 0 /\ chain \in {"none", "ok"} /\ UNCHANGED <<chain, amount, invoice, mails>>
    BY <1>1 DEF Office!StartInvoice, Office!Billable, Office!PaidStates, Office!invoiceVars
  <2> QED BY <2>3, <2>4 DEF InvoicePart, OnlyTask, Invoicing, Mailing
<1>2. CASE Office!CreateInvoice(r)
  <2>1. task[r].pc = "invoice" /\ UNCHANGED <<chain, amount, mails>>
    BY <1>2 DEF Office!CreateInvoice
  <2>2. CASE invoice = "none"
    <3>1. invoice' = "issued" /\ task' = [task EXCEPT ![r].pc = "mail"]
      BY <1>2, <2>2 DEF Office!CreateInvoice
    <3>2. TaskTypes' /\ OnlyTask(r) /\ task'[r].pc = "mail"
      BY <3>1, GotoTask DEF Invoicing, Mailing
    <3>3. mails = 0 /\ \A q \in Slots : task[q].pc \notin Mailing
      BY <2>2 DEF InvoicePart
    <3> QED BY <2>1, <3>1, <3>2, <3>3, <2>2 DEF InvoicePart, OnlyTask, Invoicing, Mailing
  <2>3. CASE invoice # "none"
    <3>1. UNCHANGED invoice /\ Office!Finish(r)
      BY <1>2, <2>3 DEF Office!CreateInvoice
    <3>2. TaskTypes' /\ OnlyTask(r) /\ task'[r].pc = "idle"
      BY <3>1, FinishTask
    <3>3. Untouched(Invoicing)
      BY <3>2, Leaves DEF Invoicing, Mailing
    <3> QED BY <2>1, <3>1, <3>2, <3>3, InvoiceFrame
  <2> QED BY <2>2, <2>3
<1>3. CASE Office!MailInvoice(r)
  <2>1. task[r].pc = "mail" /\ UNCHANGED <<chain, amount, invoice>>
    BY <1>3 DEF Office!MailInvoice
  <2>2. CASE mails' = mails + 1 /\ task' = [task EXCEPT ![r].pc = "mailed"]
    <3>1. TaskTypes' /\ OnlyTask(r) /\ task'[r].pc = "mailed"
      BY <2>2, GotoTask DEF Invoicing, Mailing
    <3>2. mails = 0 /\ mails' = 1 /\ invoice = "issued"
      BY <2>1, <2>2 DEF InvoicePart, Mailing
    <3>3. \A q \in Slots : q # r => task'[q].pc \notin Mailing
      BY <2>1, <3>1 DEF InvoicePart, OnlyTask, Mailing
    <3> QED BY <2>1, <3>1, <3>2, <3>3 DEF InvoicePart, OnlyTask, Invoicing, Mailing
  <2>3. CASE UNCHANGED mails /\ Office!Finish(r)
    <3>1. TaskTypes' /\ OnlyTask(r) /\ task'[r].pc = "idle"
      BY <2>3, FinishTask
    <3>2. Untouched(Invoicing)
      BY <3>1, Leaves DEF Invoicing, Mailing
    <3> QED BY <2>1, <2>3, <3>1, <3>2, InvoiceFrame
  <2> QED BY <1>3, <2>2, <2>3 DEF Office!MailInvoice
<1>4. CASE Office!MarkMailed(r)
  <2>1. /\ task[r].pc = "mailed" /\ invoice' = "sent" /\ Office!Finish(r)
        /\ UNCHANGED <<chain, amount, mails>>
    BY <1>4 DEF Office!MarkMailed
  <2>2. TaskTypes' /\ OnlyTask(r) /\ task'[r].pc = "idle"
    BY <2>1, FinishTask
  <2>3. mails = 1 /\ invoice = "issued"
    BY <2>1 DEF InvoicePart, Mailing
  <2>4. \A q \in Slots : task'[q].pc \notin Mailing
    BY <2>1, <2>2 DEF InvoicePart, OnlyTask, Mailing
  <2> QED BY <2>1, <2>2, <2>3, <2>4 DEF InvoicePart, OnlyTask, Invoicing, Mailing
<1> QED BY <1>1, <1>2, <1>3, <1>4

LEMMA SettlementStep ==
  ASSUME InvoicePart, Office!Settle
  PROVE  InvoicePart'
<1>1. /\ chain = "found" /\ chain' \in {"ok", "failed"}
      /\ UNCHANGED <<amount, invoice, mails, task>>
  BY DEF Office!Settle
<1> QED BY <1>1 DEF InvoicePart, Office!InvoiceSound, Office!NoRow, Invoicing, Mailing

(***************************************************************************)
(* DisputesService                                                         *)
(***************************************************************************)
LEMMA FileStep ==
  ASSUME DisputePart, TaskTypes, NEW d \in Disputes, Office!File(d)
  PROVE  DisputePart'
<1>1. /\ dispute[d] = "none" /\ dispute' = [dispute EXCEPT ![d] = "OPEN"]
      /\ UNCHANGED <<settled, disputesRaced, task>>
  BY DEF Office!File, Office!NoRow
<1>2. dispute' \in [Disputes -> {"none"} \union Undecided \union Decisions]
  BY <1>1 DEF DisputePart, Undecided
<1>3. ASSUME InTurn PROVE InTurn'
  <2>1. \A e \in Disputes : e # d => dispute'[e] = dispute[e]
    BY <1>1 DEF DisputePart
  <2>2. settled[d] = 0 /\ \A r \in Slots : task[r].pc \in Disputing => task[r].id # d
    BY <1>1, <1>3 DEF InTurn, Decisions, Undecided, Disputing
  <2>3. (\A e \in Disputes : settled[e] \in {0, 1} /\ (settled[e] = 1 => dispute[e] \in Decisions))'
    BY <1>1, <1>3, <2>1, <2>2 DEF InTurn
  <2>4. (\A r \in Slots : task[r].pc \in Disputing => task[r].id \in Disputes)
    BY DEF DisputePart
  <2>5. (\A r \in Slots :
          /\ task[r].pc = "decide" => dispute[task[r].id] \in Undecided /\ settled[task[r].id] = 0
          /\ task[r].pc = "tell" => dispute[task[r].id] \in Decisions /\ settled[task[r].id] = 0)'
    BY <1>1, <1>3, <2>1, <2>2, <2>4 DEF InTurn, Disputing
  <2> QED BY <1>1, <1>3, <2>3, <2>5 DEF InTurn
<1> QED BY <1>1, <1>2, <1>3 DEF DisputePart

LEMMA StartDecisionStep ==
  ASSUME DisputePart, TaskTypes, NEW r \in Slots, NEW d \in Disputes, Office!StartDecision(r, d)
  PROVE  /\ DisputePart' /\ TaskTypes' /\ OnlyTask(r)
         /\ task[r].pc = "idle" /\ task'[r].pc = "decide"
<1>1. PICK to \in Decisions \union {"UNDER_REVIEW"} :
        Office!Begin(r, [Office!Idle EXCEPT !.pc = "decide", !.id = d, !.to = to])
  BY DEF Office!StartDecision, Office!Resolutions, Decisions
<1>2. dispute[d] \in Undecided /\ UNCHANGED <<dispute, settled>>
  BY DEF Office!StartDecision, Office!Resolvable, Office!Open, Undecided
<1>3. disputesRaced' = (disputesRaced \/ Office!Others(r, {"decide"}, d))
  BY DEF Office!StartDecision
<1> DEFINE new == [Office!Idle EXCEPT !.pc = "decide", !.id = d, !.to = to]
<1>4. new \in Office!TaskType /\ new.pc = "decide" /\ new.id = d
  BY IdleTask DEF Office!TaskType, Office!Idle, Office!Resolutions, Decisions
<1> HIDE DEF new
<1>5. Office!Begin(r, new)
  BY <1>1 DEF new
<1>6. TaskTypes' /\ OnlyTask(r) /\ task[r].pc = "idle" /\ task'[r] = new
  BY <1>4, <1>5, BeginTask
<1>7. disputesRaced' \in BOOLEAN
  <2>1. Office!Others(r, {"decide"}, d) \in BOOLEAN
    BY DEF Office!Others
  <2> QED BY <1>3, <2>1, Zenon DEF DisputePart
<1>8. ASSUME disputesRaced' = FALSE PROVE InTurn'
  <2>1. disputesRaced = FALSE
    BY <1>3, <1>8, Zenon DEF DisputePart
  <2>2. ~ Office!Others(r, {"decide"}, d)
    BY <1>3, <1>8, Zenon
  <2>3. \A q \in Slots : q # r => ~(task[q].pc = "decide" /\ task[q].id = d)
    BY <2>2 DEF Office!Others
  <2>4. InTurn
    BY <2>1 DEF DisputePart
  <2>5. \A q \in Slots : q # r => ~(task[q].pc \in Disputing /\ task[q].id = d)
    BY <1>2, <2>3, <2>4 DEF InTurn, Disputing, Undecided, Decisions
  <2>6. settled[d] = 0
    BY <1>2, <2>4 DEF InTurn, Undecided, Decisions
  <2>7. (\A q \in Slots :
          /\ task[q].pc = "decide" => dispute[task[q].id] \in Undecided /\ settled[task[q].id] = 0
          /\ task[q].pc = "tell" => dispute[task[q].id] \in Decisions /\ settled[task[q].id] = 0)'
    BY <1>2, <1>4, <1>6, <2>4, <2>6 DEF InTurn, OnlyTask
  <2>8. (\A q, s \in Slots :
          task[q].pc \in Disputing /\ task[s].pc \in Disputing /\ task[q].id = task[s].id => q = s)'
    BY <1>4, <1>6, <2>4, <2>5 DEF InTurn, OnlyTask
  <2> QED BY <1>2, <2>4, <2>7, <2>8 DEF InTurn
<1>9. (\A q \in Slots : task[q].pc \in Disputing => task[q].id \in Disputes)'
  BY <1>4, <1>6 DEF OnlyTask, DisputePart
<1> QED BY <1>2, <1>4, <1>6, <1>7, <1>8, <1>9 DEF DisputePart

LEMMA DecideStep ==
  ASSUME DisputePart, TaskTypes, NEW r \in Slots, Office!Decide(r)
  PROVE  /\ DisputePart' /\ TaskTypes' /\ OnlyTask(r)
         /\ task[r].pc = "decide" /\ task'[r].pc \in {"idle", "tell"}
<1> DEFINE d == task[r].id
           to == task[r].to
<1>1. /\ task[r].pc = "decide" /\ dispute' = [dispute EXCEPT ![d] = to]
      /\ UNCHANGED <<settled, disputesRaced>>
      /\ IF to \in Decisions THEN task' = [task EXCEPT ![r].pc = "tell"] ELSE Office!Finish(r)
  BY DEF Office!Decide, Office!Resolutions, Decisions
<1>2. d \in Disputes
  BY <1>1 DEF DisputePart, Disputing
<1>3. to \in Decisions \union {"UNDER_REVIEW", "none"}
  BY DEF TaskTypes, Office!TaskType, Office!Resolutions, Office!NoRow, Decisions
<1>4. dispute' \in [Disputes -> {"none"} \union Undecided \union Decisions]
  BY <1>1, <1>2, <1>3 DEF DisputePart, Undecided
<1>5. /\ TaskTypes' /\ OnlyTask(r)
      /\ \/ to \in Decisions /\ task'[r].pc = "tell" /\ task'[r].id = d
         \/ task'[r].pc = "idle"
  BY <1>1, FinishTask, GotoTask DEF Disputing
<1>6. \A e \in Disputes : e # d => dispute'[e] = dispute[e]
  BY <1>1 DEF DisputePart
<1>7. dispute'[d] = to
  BY <1>1, <1>2 DEF DisputePart
<1>8. (\A q \in Slots : task[q].pc \in Disputing => task[q].id \in Disputes)'
  BY <1>2, <1>5 DEF OnlyTask, DisputePart, Disputing
<1> HIDE DEF d, to
<1>9. ASSUME InTurn PROVE InTurn'
  <2>1. settled[d] = 0
    BY <1>1, <1>9 DEF InTurn, d
  <2>2. \A q \in Slots : q # r /\ task[q].pc \in Disputing => task[q].id # d
    BY <1>1, <1>9 DEF InTurn, Disputing, d
  <2>3. (\A e \in Disputes : settled[e] \in {0, 1} /\ (settled[e] = 1 => dispute[e] \in Decisions))'
    BY <1>1, <1>6, <1>9, <2>1 DEF InTurn
  <2>4. ASSUME NEW q \in Slots
        PROVE  /\ task'[q].pc = "decide" => dispute'[task'[q].id] \in Undecided /\ settled'[task'[q].id] = 0
               /\ task'[q].pc = "tell" => dispute'[task'[q].id] \in Decisions /\ settled'[task'[q].id] = 0
    <3>1. CASE q = r
      BY <1>1, <1>5, <1>7, <2>1, <3>1
    <3>2. CASE q # r
      <4>1. task'[q] = task[q]
        BY <1>5, <3>2 DEF OnlyTask
      <4>2. task[q].pc \in Disputing => task[q].id \in Disputes \ {d}
        BY <2>2, <3>2 DEF DisputePart
      <4> QED BY <1>1, <1>6, <1>9, <4>1, <4>2 DEF InTurn, Disputing
    <3> QED BY <3>1, <3>2
  <2>5. (\A q, s \in Slots :
          task[q].pc \in Disputing /\ task[s].pc \in Disputing /\ task[q].id = task[s].id => q = s)'
    BY <1>5, <1>9, <2>2 DEF InTurn, OnlyTask, Disputing
  <2> QED BY <2>3, <2>4, <2>5 DEF InTurn
<1> QED BY <1>1, <1>4, <1>5, <1>8, <1>9 DEF DisputePart

LEMMA TellStep ==
  ASSUME DisputePart, TaskTypes, NEW r \in Slots, Office!TellStudent(r)
  PROVE  /\ DisputePart' /\ TaskTypes' /\ OnlyTask(r)
         /\ task[r].pc = "tell" /\ task'[r].pc = "idle"
<1> DEFINE d == task[r].id
<1>1. /\ task[r].pc = "tell" /\ Office!Finish(r) /\ UNCHANGED <<dispute, disputesRaced>>
      /\ settled' = [settled EXCEPT ![d] = IF @ < 2 THEN @ + 1 ELSE @]
  BY DEF Office!TellStudent
<1>2. d \in Disputes
  BY <1>1 DEF DisputePart, Disputing
<1>3. TaskTypes' /\ OnlyTask(r) /\ task'[r].pc = "idle"
  BY <1>1, FinishTask
<1>4. (\A q \in Slots : task[q].pc \in Disputing => task[q].id \in Disputes)'
  BY <1>3 DEF OnlyTask, DisputePart, Disputing
<1> HIDE DEF d
<1>5. settled' \in [Disputes -> 0 .. 2] /\ \A e \in Disputes : e # d => settled'[e] = settled[e]
  <2>1. settled[d] \in 0 .. 2
    BY <1>2 DEF DisputePart
  <2> DEFINE n == IF settled[d] < 2 THEN settled[d] + 1 ELSE settled[d]
  <2>2. n \in 0 .. 2
    BY <2>1
  <2>3. settled' = [settled EXCEPT ![d] = n]
    BY <1>1, Zenon
  <2> HIDE DEF n
  <2> QED BY <2>2, <2>3 DEF DisputePart
<1>6. ASSUME InTurn PROVE InTurn'
  <2>1. settled[d] = 0 /\ dispute[d] \in Decisions
    BY <1>1, <1>6 DEF InTurn, d
  <2>2. \A q \in Slots : q # r /\ task[q].pc \in Disputing => task[q].id # d
    BY <1>1, <1>6 DEF InTurn, Disputing, d
  <2>3. settled'[d] = 1
    BY <1>1, <1>2, <2>1 DEF DisputePart
  <2>4. (\A e \in Disputes : settled[e] \in {0, 1} /\ (settled[e] = 1 => dispute[e] \in Decisions))'
    BY <1>1, <1>5, <1>6, <2>1, <2>3 DEF InTurn
  <2>5. ASSUME NEW q \in Slots
        PROVE  /\ task'[q].pc = "decide" => dispute'[task'[q].id] \in Undecided /\ settled'[task'[q].id] = 0
               /\ task'[q].pc = "tell" => dispute'[task'[q].id] \in Decisions /\ settled'[task'[q].id] = 0
    <3>1. CASE q = r
      BY <1>3, <3>1
    <3>2. CASE q # r
      <4>1. task'[q] = task[q]
        BY <1>3, <3>2 DEF OnlyTask
      <4>2. task[q].pc \in Disputing => task[q].id \in Disputes \ {d}
        BY <2>2, <3>2 DEF DisputePart
      <4> QED BY <1>1, <1>5, <1>6, <4>1, <4>2 DEF InTurn, Disputing
    <3> QED BY <3>1, <3>2
  <2>6. (\A q, s \in Slots :
          task[q].pc \in Disputing /\ task[s].pc \in Disputing /\ task[q].id = task[s].id => q = s)'
    BY <1>3, <1>6, <2>2 DEF InTurn, OnlyTask, Disputing
  <2> QED BY <2>4, <2>5, <2>6 DEF InTurn
<1> QED BY <1>1, <1>3, <1>4, <1>5, <1>6 DEF DisputePart

(***************************************************************************)
(* PayoutsService                                                          *)
(***************************************************************************)
LEMMA StartPayoutStep ==
  ASSUME PayoutPart, TaskTypes, NEW r \in Slots, NEW p \in Payouts, Office!StartPayout(r, p)
  PROVE  /\ PayoutPart' /\ TaskTypes' /\ OnlyTask(r)
         /\ task[r].pc = "idle" /\ task'[r].pc = "payout"
<1> DEFINE new == [Office!Idle EXCEPT !.pc = "payout", !.id = p]
<1>1. new \in Office!TaskType /\ new.pc = "payout"
  BY IdleTask DEF Office!TaskType, Office!Idle
<1> HIDE DEF new
<1>2. Office!Begin(r, new)
  BY DEF Office!StartPayout, new
<1>3. verified = TRUE
  BY Zenon DEF Office!StartPayout, PayoutPart
<1>4. UNCHANGED <<verified, payout, reviewedLate, unverifiedPaid>>
  BY DEF Office!StartPayout, Office!payoutVars
<1>5. TaskTypes' /\ OnlyTask(r) /\ task[r].pc = "idle" /\ task'[r].pc = "payout"
  BY <1>1, <1>2, BeginTask
<1> QED BY <1>3, <1>4, <1>5 DEF PayoutPart

LEMMA CreatePayoutStep ==
  ASSUME PayoutPart, TaskTypes, NEW r \in Slots, Office!CreatePayout(r)
  PROVE  /\ PayoutPart' /\ TaskTypes' /\ OnlyTask(r)
         /\ task[r].pc = "payout" /\ task'[r].pc = "idle"
<1>1. /\ task[r].pc = "payout" /\ payout' = [payout EXCEPT ![task[r].id] = "PENDING"]
      /\ Office!Finish(r) /\ UNCHANGED <<verified, reviewedLate>>
      /\ unverifiedPaid' = (unverifiedPaid \/ ~verified)
  BY DEF Office!CreatePayout
<1>2. TaskTypes' /\ OnlyTask(r) /\ task'[r].pc = "idle"
  BY <1>1, FinishTask
<1>3. verified = TRUE \/ reviewedLate = TRUE
  BY <1>1 DEF PayoutPart, Paying
<1>4. unverifiedPaid' \in BOOLEAN /\ (unverifiedPaid' = TRUE => reviewedLate = TRUE)
  BY <1>1, <1>3, Zenon DEF PayoutPart
<1>5. payout' \in [Payouts -> {"none", "PENDING", "PROCESSING", "COMPLETED", "FAILED"}]
  BY <1>1 DEF PayoutPart
<1>6. (\A q \in Slots : task[q].pc \in Paying => verified = TRUE \/ reviewedLate = TRUE)'
  BY <1>1, <1>2 DEF PayoutPart, OnlyTask, Paying
<1> QED BY <1>1, <1>2, <1>4, <1>5, <1>6 DEF PayoutPart

LEMMA UpdatePayoutStep ==
  ASSUME PayoutPart, NEW p \in Payouts, Office!UpdatePayoutStatus(p)
  PROVE  PayoutPart'
<1>1. PICK to \in Office!PayoutStatuses : payout' = [payout EXCEPT ![p] = to]
  BY DEF Office!UpdatePayoutStatus
<1>2. payout' \in [Payouts -> {"none", "PENDING", "PROCESSING", "COMPLETED", "FAILED"}]
  BY <1>1 DEF PayoutPart, Office!PayoutStatuses
<1>3. UNCHANGED <<verified, reviewedLate, unverifiedPaid, task>>
  BY DEF Office!UpdatePayoutStatus
<1> QED BY <1>2, <1>3 DEF PayoutPart

LEMMA ReviewStep ==
  ASSUME PayoutPart, Office!Review
  PROVE  PayoutPart'
<1>1. UNCHANGED <<payout, unverifiedPaid, task>> /\ verified' = ~verified
  BY DEF Office!Review
<1>2. reviewedLate' = (reviewedLate \/ \E r \in Slots : task[r].pc = "payout")
  BY DEF Office!Review
<1>3. verified' \in BOOLEAN /\ reviewedLate' \in BOOLEAN
  <2>1. (\E r \in Slots : task[r].pc = "payout") \in BOOLEAN
    OBVIOUS
  <2> QED BY <1>1, <1>2, <2>1, Zenon DEF PayoutPart
<1>4. reviewedLate = TRUE => reviewedLate' = TRUE
  BY <1>2, Zenon DEF PayoutPart
<1>5. ASSUME NEW r \in Slots, task[r].pc \in Paying PROVE reviewedLate' = TRUE
  <2>1. task[r].pc = "payout"
    BY <1>5 DEF Paying
  <2> QED BY <1>2, <2>1, Zenon
<1> QED BY <1>1, <1>3, <1>4, <1>5 DEF PayoutPart

(***************************************************************************)
(* FeeCalculatorService                                                    *)
(***************************************************************************)
LEMMA ReadRatesStep ==
  ASSUME RatePart, TaskTypes, NEW r \in Slots, Office!ReadRates(r)
  PROVE  /\ RatePart' /\ TaskTypes' /\ OnlyTask(r)
         /\ task[r].pc = "idle" /\ task'[r].pc = "load"
<1> DEFINE new == [Office!Idle EXCEPT !.pc = "load", !.value = rate]
<1>1. new \in Office!TaskType /\ new.pc = "load" /\ new.value = rate
  BY IdleTask DEF Office!TaskType, Office!Idle, RatePart
<1> HIDE DEF new
<1>2. Office!Begin(r, new) /\ UNCHANGED <<rate, cached, readLate>>
  BY DEF Office!ReadRates, Office!rateVars, new
<1>3. TaskTypes' /\ OnlyTask(r) /\ task[r].pc = "idle" /\ task'[r] = new
  BY <1>1, <1>2, BeginTask
<1>4. \A q \in Slots : task[q].pc = "forget" => task'[q].pc = "forget"
  BY <1>3 DEF OnlyTask
<1> QED BY <1>1, <1>2, <1>3, <1>4 DEF RatePart, OnlyTask

LEMMA KeepRatesStep ==
  ASSUME RatePart, TaskTypes, NEW r \in Slots, Office!KeepRates(r)
  PROVE  /\ RatePart' /\ TaskTypes' /\ OnlyTask(r)
         /\ task[r].pc = "load" /\ task'[r].pc = "idle"
<1>1. /\ task[r].pc = "load" /\ cached' = task[r].value /\ Office!Finish(r)
      /\ UNCHANGED <<rate, readLate>>
  BY DEF Office!KeepRates
<1>2. TaskTypes' /\ OnlyTask(r) /\ task'[r].pc = "idle"
  BY <1>1, FinishTask
<1>3. cached' \in Rates \union {0, -1}
  BY <1>1 DEF TaskTypes, Office!TaskType
<1>4. readLate = FALSE => cached' = rate
  BY <1>1 DEF RatePart
<1> QED BY <1>1, <1>2, <1>3, <1>4 DEF RatePart, OnlyTask

LEMMA ExpireStep ==
  ASSUME RatePart, Office!Expire
  PROVE  RatePart'
BY DEF RatePart, Office!Expire, Office!Empty

LEMMA StoreRateStep ==
  ASSUME RatePart, TaskTypes, NEW r \in Slots, Office!StoreRate(r)
  PROVE  /\ RatePart' /\ TaskTypes' /\ OnlyTask(r)
         /\ task[r].pc = "idle" /\ task'[r].pc = "forget"
<1> DEFINE new == [Office!Idle EXCEPT !.pc = "forget"]
<1>1. new \in Office!TaskType /\ new.pc = "forget"
  BY IdleTask DEF Office!TaskType, Office!Idle
<1> HIDE DEF new
<1>2. Office!Begin(r, new) /\ UNCHANGED cached /\ rate' \in Rates \union {0}
  BY DEF Office!StoreRate, new
<1>3. readLate' = (readLate \/ \E o \in Slots : task[o].pc = "load")
  BY DEF Office!StoreRate
<1>4. TaskTypes' /\ OnlyTask(r) /\ task[r].pc = "idle" /\ task'[r].pc = "forget"
  BY <1>1, <1>2, BeginTask
<1>5. readLate' \in BOOLEAN
  <2>1. (\E o \in Slots : task[o].pc = "load") \in BOOLEAN
    OBVIOUS
  <2> QED BY <1>3, <2>1, Zenon DEF RatePart
<1>6. ASSUME readLate' = FALSE PROVE \A o \in Slots : task[o].pc # "load"
  BY <1>3, <1>6, Zenon
<1>7. (readLate = FALSE => \A q \in Slots : task[q].pc = "load" => task[q].value = rate)'
  BY <1>4, <1>6 DEF OnlyTask
<1>8. ~ \A q \in Slots : task'[q].pc # "forget"
  BY <1>4
<1> QED BY <1>2, <1>4, <1>5, <1>7, <1>8 DEF RatePart

LEMMA ForgetRatesStep ==
  ASSUME RatePart, TaskTypes, NEW r \in Slots, Office!ForgetRates(r)
  PROVE  /\ RatePart' /\ TaskTypes' /\ OnlyTask(r)
         /\ task[r].pc = "forget" /\ task'[r].pc = "idle"
<1>1. /\ task[r].pc = "forget" /\ cached' = -1 /\ Office!Finish(r)
      /\ UNCHANGED <<rate, readLate>>
  BY DEF Office!ForgetRates, Office!Invalidated, Office!Empty
<1>2. TaskTypes' /\ OnlyTask(r) /\ task'[r].pc = "idle"
  BY <1>1, FinishTask
<1> QED BY <1>1, <1>2 DEF RatePart, OnlyTask

(***************************************************************************)
(* Together                                                                *)
(***************************************************************************)
KeepInvoice == UNCHANGED <<chain, amount, invoice, mails>>
KeepDisputes == UNCHANGED <<dispute, settled, disputesRaced>>
KeepPayouts == UNCHANGED <<verified, payout, reviewedLate, unverifiedPaid>>
KeepRate == UNCHANGED <<rate, cached, readLate>>

\* A step of task r outside the steps of a part, from outside them, leaves it alone.
LEMMA Apart ==
  ASSUME OfficeInv, NEW r \in Slots, OnlyTask(r)
  PROVE  /\ KeepInvoice /\ task'[r].pc \notin Invoicing => InvoicePart'
         /\ KeepDisputes /\ task'[r].pc \notin Disputing => DisputePart'
         /\ KeepPayouts /\ task'[r].pc \notin Paying => PayoutPart'
         /\ KeepRate /\ task'[r].pc # "load" /\ task[r].pc # "forget" => RatePart'
<1>1. KeepInvoice /\ task'[r].pc \notin Invoicing => InvoicePart'
  BY Leaves, InvoiceFrame DEF OfficeInv, KeepInvoice
<1>2. KeepDisputes /\ task'[r].pc \notin Disputing => DisputePart'
  BY Leaves, DisputeFrame DEF OfficeInv, KeepDisputes
<1>3. KeepPayouts /\ task'[r].pc \notin Paying => PayoutPart'
  BY Leaves, PayoutFrame DEF OfficeInv, KeepPayouts
<1>4. ASSUME KeepRate, task'[r].pc # "load", task[r].pc # "forget" PROVE RatePart'
  <2>1. Untouched({"load"})
    BY <1>4, Leaves
  <2>2. \A q \in Slots : task[q].pc = "forget" => task'[q].pc = "forget"
    BY <1>4 DEF OnlyTask
  <2> QED BY <1>4, <2>1, <2>2, RateFrame DEF OfficeInv, KeepRate
<1> QED BY <1>1, <1>2, <1>3, <1>4

\* A step that no task takes leaves alone the parts whose variables it leaves alone.
LEMMA Aside ==
  ASSUME OfficeInv, UNCHANGED task
  PROVE  /\ KeepInvoice => InvoicePart'
         /\ KeepDisputes => DisputePart'
         /\ KeepPayouts => PayoutPart'
         /\ KeepRate => RatePart'
<1>1. Untouched(Invoicing) /\ Untouched(Disputing) /\ Untouched(Paying) /\ Untouched({"load"})
  BY Standing
<1> QED BY <1>1, InvoiceFrame, DisputeFrame, PayoutFrame, RateFrame
        DEF OfficeInv, KeepInvoice, KeepDisputes, KeepPayouts, KeepRate

LEMMA OfficeInitially == Office!Init => OfficeInv
<1> SUFFICES ASSUME Office!Init PROVE OfficeInv
  OBVIOUS
<1>1. \A r \in Slots : task[r].pc = "idle"
  BY IdleTask DEF Office!Init
<1>2. InvoicePart
  BY <1>1, OfficeAssumption
  DEF Office!Init, Office!ConstantsAssumption, Office!InvoiceSound, Office!NoRow, InvoicePart,
      Invoicing, Mailing
<1>3. DisputePart
  <2>1. /\ dispute = [d \in Disputes |-> "none"] /\ settled = [d \in Disputes |-> 0]
        /\ disputesRaced = FALSE
    BY DEF Office!Init, Office!NoRow
  <2>2. InTurn
    <3>1. \A d \in Disputes : settled[d] = 0
      BY <2>1
    <3>2. \A r \in Slots : task[r].pc \notin {"decide", "tell"}
      BY <1>1
    <3> QED BY <3>1, <3>2 DEF InTurn, Disputing
  <2>3. dispute \in [Disputes -> {"none"} \union Undecided \union Decisions]
    BY <2>1
  <2>4. settled \in [Disputes -> 0 .. 2]
    BY <2>1
  <2>5. \A r \in Slots : task[r].pc \notin Disputing
    BY <1>1 DEF Disputing
  <2> QED BY <2>1, <2>2, <2>3, <2>4, <2>5 DEF DisputePart
<1>4. PayoutPart
  BY <1>1 DEF Office!Init, Office!NoRow, PayoutPart, Paying
<1>5. RatePart
  BY <1>1 DEF Office!Init, Office!Empty, RatePart
<1>6. Shared
  BY IdleTask, OfficeAssumption DEF Office!Init, Office!ConstantsAssumption, Shared
<1> QED BY <1>2, <1>3, <1>4, <1>5, <1>6 DEF OfficeInv

LEMMA TaskStep ==
  ASSUME OfficeInv, NEW r \in Slots,
         \/ Office!StartInvoice(r) \/ Office!CreateInvoice(r) \/ Office!MailInvoice(r)
         \/ Office!MarkMailed(r) \/ \E d \in Disputes : Office!StartDecision(r, d)
         \/ Office!Decide(r) \/ Office!TellStudent(r)
         \/ \E p \in Payouts : Office!StartPayout(r, p)
         \/ Office!CreatePayout(r) \/ Office!ReadRates(r) \/ Office!KeepRates(r)
         \/ Office!StoreRate(r) \/ Office!ForgetRates(r) \/ Office!Abort(r)
  PROVE  OfficeInv'
<1> USE DEF Office!invoiceVars, Office!disputeVars, Office!payoutVars, Office!rateVars,
            KeepInvoice, KeepDisputes, KeepPayouts, KeepRate
<1>1. /\ InvoicePart /\ DisputePart /\ PayoutPart /\ RatePart /\ TaskTypes
      /\ changes \in 0 .. MaxChanges
  BY DEF OfficeInv, Shared, TaskTypes
<1>2. ASSUME TaskTypes', changes' \in 0 .. MaxChanges PROVE Shared'
  BY <1>2 DEF TaskTypes, Shared
<1>3. CASE \/ Office!StartInvoice(r) \/ Office!CreateInvoice(r)
           \/ Office!MailInvoice(r) \/ Office!MarkMailed(r)
  <2>1. KeepDisputes /\ KeepPayouts /\ KeepRate /\ UNCHANGED changes
    BY <1>3 DEF Office!StartInvoice, Office!CreateInvoice, Office!MailInvoice, Office!MarkMailed
  <2>2. /\ InvoicePart' /\ TaskTypes' /\ OnlyTask(r)
        /\ task[r].pc # "forget" /\ task'[r].pc \in {"idle"} \union Invoicing
    BY <1>1, <1>3, InvoiceSteps
  <2>3. DisputePart' /\ PayoutPart' /\ RatePart'
    BY <2>1, <2>2, Apart DEF Invoicing, Mailing, Disputing, Paying
  <2> QED BY <1>1, <1>2, <2>1, <2>2, <2>3 DEF OfficeInv
<1>4. CASE (\E d \in Disputes : Office!StartDecision(r, d)) \/ Office!Decide(r) \/ Office!TellStudent(r)
  <2>1. KeepInvoice /\ KeepPayouts /\ KeepRate /\ UNCHANGED changes
    BY <1>4 DEF Office!StartDecision, Office!Decide, Office!TellStudent
  <2>2. /\ DisputePart' /\ TaskTypes' /\ OnlyTask(r)
        /\ task[r].pc # "forget" /\ task'[r].pc \in {"idle"} \union Disputing
    BY <1>1, <1>4, StartDecisionStep, DecideStep, TellStep DEF Disputing
  <2>3. InvoicePart' /\ PayoutPart' /\ RatePart'
    BY <2>1, <2>2, Apart DEF Invoicing, Mailing, Disputing, Paying
  <2> QED BY <1>1, <1>2, <2>1, <2>2, <2>3 DEF OfficeInv
<1>5. CASE (\E p \in Payouts : Office!StartPayout(r, p)) \/ Office!CreatePayout(r)
  <2>1. KeepInvoice /\ KeepDisputes /\ KeepRate /\ UNCHANGED changes
    BY <1>5 DEF Office!StartPayout, Office!CreatePayout
  <2>2. /\ PayoutPart' /\ TaskTypes' /\ OnlyTask(r)
        /\ task[r].pc # "forget" /\ task'[r].pc \in {"idle", "payout"}
    BY <1>1, <1>5, StartPayoutStep, CreatePayoutStep
  <2>3. InvoicePart' /\ DisputePart' /\ RatePart'
    BY <2>1, <2>2, Apart DEF Invoicing, Mailing, Disputing
  <2> QED BY <1>1, <1>2, <2>1, <2>2, <2>3 DEF OfficeInv
<1>6. CASE Office!ReadRates(r) \/ Office!KeepRates(r) \/ Office!StoreRate(r) \/ Office!ForgetRates(r)
  <2>1. KeepInvoice /\ KeepDisputes /\ KeepPayouts /\ changes' \in 0 .. MaxChanges
    <3>1. KeepInvoice /\ KeepDisputes /\ KeepPayouts
      BY <1>6 DEF Office!ReadRates, Office!KeepRates, Office!StoreRate, Office!ForgetRates
    <3>2. MaxChanges \in Nat
      BY OfficeAssumption DEF Office!ConstantsAssumption
    <3>3. UNCHANGED changes \/ (changes < MaxChanges /\ changes' = changes + 1)
      <4>1. CASE Office!StoreRate(r)
        BY <4>1 DEF Office!StoreRate
      <4>2. CASE Office!ReadRates(r) \/ Office!KeepRates(r) \/ Office!ForgetRates(r)
        BY <4>2 DEF Office!ReadRates, Office!KeepRates, Office!ForgetRates
      <4> QED BY <1>6, <4>1, <4>2
    <3> QED BY <1>1, <3>1, <3>2, <3>3
  <2>2. RatePart' /\ TaskTypes' /\ OnlyTask(r) /\ task'[r].pc \in {"idle", "load", "forget"}
    BY <1>1, <1>6, ReadRatesStep, KeepRatesStep, StoreRateStep, ForgetRatesStep
  <2>3. InvoicePart' /\ DisputePart' /\ PayoutPart'
    BY <2>1, <2>2, Apart DEF Invoicing, Mailing, Disputing, Paying
  <2> QED BY <1>2, <2>1, <2>2, <2>3 DEF OfficeInv
<1>7. CASE Office!Abort(r)
  <2>1. /\ KeepInvoice /\ KeepDisputes /\ KeepPayouts /\ KeepRate /\ UNCHANGED changes
        /\ task[r].pc # "forget" /\ Office!Finish(r)
    BY <1>7 DEF Office!Abort
  <2>2. TaskTypes' /\ OnlyTask(r) /\ task'[r].pc = "idle"
    BY <1>1, <2>1, FinishTask
  <2>3. InvoicePart' /\ DisputePart' /\ PayoutPart' /\ RatePart'
    BY <2>1, <2>2, Apart DEF Invoicing, Mailing, Disputing, Paying
  <2> QED BY <1>1, <1>2, <2>1, <2>2, <2>3 DEF OfficeInv
<1> QED BY <1>3, <1>4, <1>5, <1>6, <1>7

LEMMA OfficeInductive == OfficeInv /\ [Office!Next]_(Office!vars) => OfficeInv'
<1> SUFFICES ASSUME OfficeInv, [Office!Next]_(Office!vars) PROVE OfficeInv'
  OBVIOUS
<1> USE DEF Office!invoiceVars, Office!disputeVars, Office!payoutVars, Office!rateVars,
            KeepInvoice, KeepDisputes, KeepPayouts, KeepRate
<1>1. /\ InvoicePart /\ DisputePart /\ PayoutPart /\ RatePart /\ Shared
      /\ TaskTypes /\ changes \in 0 .. MaxChanges
  BY DEF OfficeInv, Shared, TaskTypes
<1>2. ASSUME UNCHANGED task, changes' \in 0 .. MaxChanges PROVE Shared'
  BY <1>1, <1>2 DEF Shared
<1>3. CASE \E d \in Disputes : Office!File(d)
  <2>1. KeepInvoice /\ KeepPayouts /\ KeepRate /\ UNCHANGED changes /\ UNCHANGED task
    BY <1>3 DEF Office!File
  <2>2. DisputePart'
    BY <1>1, <1>3, FileStep
  <2> QED BY <1>1, <1>2, <2>1, <2>2, Aside DEF OfficeInv
<1>4. CASE \E p \in Payouts : Office!UpdatePayoutStatus(p)
  <2>1. KeepInvoice /\ KeepDisputes /\ KeepRate /\ UNCHANGED changes /\ UNCHANGED task
    BY <1>4 DEF Office!UpdatePayoutStatus
  <2>2. PayoutPart'
    BY <1>1, <1>4, UpdatePayoutStep
  <2> QED BY <1>1, <1>2, <2>1, <2>2, Aside DEF OfficeInv
<1>5. CASE Office!Review
  <2>1. KeepInvoice /\ KeepDisputes /\ KeepRate /\ UNCHANGED task
    BY <1>5 DEF Office!Review
  <2>2. changes' \in 0 .. MaxChanges
    <3>1. MaxChanges \in Nat
      BY OfficeAssumption DEF Office!ConstantsAssumption
    <3>2. changes < MaxChanges /\ changes' = changes + 1
      BY <1>5 DEF Office!Review
    <3> QED BY <1>1, <3>1, <3>2
  <2>3. PayoutPart'
    BY <1>1, <1>5, ReviewStep
  <2> QED BY <1>2, <2>1, <2>2, <2>3, Aside DEF OfficeInv
<1>6. CASE Office!Expire
  <2>1. KeepInvoice /\ KeepDisputes /\ KeepPayouts /\ UNCHANGED changes /\ UNCHANGED task
    BY <1>6 DEF Office!Expire
  <2>2. RatePart'
    BY <1>1, <1>6, ExpireStep
  <2> QED BY <1>1, <1>2, <2>1, <2>2, Aside DEF OfficeInv
<1>7. CASE Office!Settle
  <2>1. KeepDisputes /\ KeepPayouts /\ KeepRate /\ UNCHANGED changes /\ UNCHANGED task
    BY <1>7 DEF Office!Settle
  <2>2. InvoicePart'
    BY <1>1, <1>7, SettlementStep
  <2> QED BY <1>1, <1>2, <2>1, <2>2, Aside DEF OfficeInv
<1>8. CASE UNCHANGED Office!vars
  <2>1. /\ KeepInvoice /\ KeepDisputes /\ KeepPayouts /\ KeepRate
        /\ UNCHANGED changes /\ UNCHANGED task
    BY <1>8 DEF Office!vars
  <2> QED BY <1>1, <1>2, <2>1, Aside DEF OfficeInv
<1> QED BY <1>3, <1>4, <1>5, <1>6, <1>7, <1>8, TaskStep DEF Office!Next

LEMMA OfficeTypes == OfficeInv => Office!TypeOK
<1> SUFFICES ASSUME OfficeInv PROVE Office!TypeOK
  OBVIOUS
<1>1. /\ InvoicePart /\ DisputePart /\ PayoutPart /\ RatePart
      /\ task \in [Slots -> Office!TaskType] /\ changes \in 0 .. MaxChanges
  BY DEF OfficeInv, Shared
<1>2. {disputesRaced, verified, reviewedLate, unverifiedPaid, readLate} \subseteq BOOLEAN
  BY <1>1, Zenon DEF DisputePart, PayoutPart, RatePart
<1>3. /\ chain \in {"none", "found", "ok", "failed"} /\ invoice \in {"none", "issued", "sent"}
      /\ amount \in Costs /\ mails \in 0 .. 2
  BY <1>1 DEF InvoicePart
<1>4. /\ settled \in [Disputes -> 0 .. 2]
      /\ dispute \in [Disputes -> {"none"} \union Office!Open \union Office!Resolutions]
  BY <1>1 DEF DisputePart, Undecided, Decisions, Office!Open, Office!Resolutions
<1>5. payout \in [Payouts -> {"none"} \union Office!PayoutStatuses]
  <2>1. {"none"} \union Office!PayoutStatuses = {"none", "PENDING", "PROCESSING", "COMPLETED", "FAILED"}
    BY DEF Office!PayoutStatuses
  <2> QED BY <1>1, <2>1 DEF PayoutPart
<1>6. rate \in Rates \union {0} /\ cached \in Rates \union {0, -1}
  BY <1>1 DEF RatePart
<1> QED BY <1>1, <1>2, <1>3, <1>4, <1>5, <1>6 DEF Office!TypeOK, Office!NoRow, Office!Empty

LEMMA OfficeMeans == OfficeInv => PapersSound
<1> SUFFICES ASSUME OfficeInv PROVE PapersSound
  OBVIOUS
<1>1. InvoicePart /\ DisputePart /\ PayoutPart /\ RatePart
  BY DEF OfficeInv
<1>2. Office!InvoiceSound
  BY <1>1 DEF InvoicePart
<1>3. Office!ResolvedOnce
  <2>1. ASSUME ~disputesRaced PROVE InTurn
    <3>1. disputesRaced = FALSE
      BY <1>1, <2>1, Zenon DEF DisputePart
    <3> QED BY <1>1, <3>1 DEF DisputePart
  <2>2. ASSUME InTurn, NEW d \in Disputes
        PROVE  settled[d] <= 1 /\ (settled[d] = 1 => dispute[d] \in Office!Resolutions)
    BY <2>2 DEF InTurn, Decisions, Office!Resolutions
  <2> QED BY <2>1, <2>2, Zenon DEF Office!ResolvedOnce
<1>4. Office!PaidWhenVerified
  BY <1>1, Zenon DEF PayoutPart, Office!PaidWhenVerified
<1>5. Office!RatesFollow
  <2>1. ASSUME ~readLate PROVE readLate = FALSE
    BY <1>1, <2>1, Zenon DEF RatePart
  <2> QED BY <1>1, <2>1 DEF RatePart, Office!RatesFollow, Office!Empty
<1> QED BY <1>2, <1>3, <1>4, <1>5 DEF PapersSound, Office!PapersSound

LEMMA OfficeFrame == ASSUME OfficeInv, UNCHANGED officeVars PROVE OfficeInv'
<1>1. UNCHANGED Office!vars
  BY DEF officeVars, Office!vars, Office!invoiceVars, Office!disputeVars, Office!payoutVars,
         Office!rateVars
<1> QED BY <1>1, OfficeInductive

LEMMA EachStep ==
  ASSUME OfficeInv, [RefundStep \/ PapersStep]_<<focus, vars, officeVars>>
  PROVE  [Next]_vars /\ OfficeInv'
<1>1. CASE RefundStep
  BY <1>1, OfficeFrame DEF RefundStep
<1>2. CASE PapersStep
  BY <1>2, OfficeInductive DEF PapersStep
<1>3. CASE UNCHANGED <<focus, vars, officeVars>>
  BY <1>3, OfficeFrame
<1> QED BY <1>1, <1>2, <1>3

\* Beside the papers, Refunds behaves as it does alone: what is proved of Spec holds here.
LEMMA RefundsWithin == SpecOne => Spec /\ []OfficeInv
<1>1. InitOne => Init /\ OfficeInv
  BY OfficeInitially DEF InitOne
<1>2. OfficeInv /\ [RefundStep \/ PapersStep]_<<focus, vars, officeVars>> => [Next]_vars /\ OfficeInv'
  BY EachStep
<1> QED BY <1>1, <1>2, PTL DEF SpecOne, Spec

\* The variables of Refunds and of BackOffice keep their types, whatever the number of
\* requests, refunds, disputes, payouts, rates and prices.
THEOREM TypesCorrect == SpecOne => []TypesOK
<1>1. TypeOK /\ OfficeInv => TypesOK
  BY OfficeTypes DEF TypesOK
<1> QED BY <1>1, TypeCorrect, RefundsWithin, PTL

\* For any number of requests at a time: an invoice is mailed once at most and only for money
\* that was paid, a dispute that no two decisions raced for is resolved once, a payout is
\* created for an instructor seen verified, and a stored rate counts at once.
THEOREM PapersAlwaysSound == SpecOne => []PapersSound
BY OfficeMeans, RefundsWithin, PTL

==============================================================================
