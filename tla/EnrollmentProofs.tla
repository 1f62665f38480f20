-------------------------- MODULE EnrollmentProofs --------------------------
(***************************************************************************)
(* Proofs about Enrollment, for any number of students, courses,           *)
(* transactions and concurrent requests; then of the conjunctions of       *)
(* MCEnrollment: one inductive invariant for each service that stands      *)
(* beside a student's enrolment, and at the end the four properties of the *)
(* run from all of them.  The proof about quizzes is in QuizSessions.      *)
(***************************************************************************)
EXTENDS MCEnrollment, FiniteSetTheorems, WellFoundedInduction, TLAPS

LEMMA UncountingFinite ==
  ASSUME NEW c \in Courses
  PROVE  IsFiniteSet(Uncounting(c)) /\ Cardinality(Uncounting(c)) \in Nat
<1>1. Uncounting(c) \subseteq Requests
  BY DEF Uncounting
<1> QED
  BY <1>1, ConstantsAssumption, FS_Subset, FS_CardinalityType

LEMMA GotoType ==
  ASSUME TypeOK, NEW r \in Requests, NEW step \in Steps, Goto(r, step)
  PROVE  /\ req' \in [Requests -> RequestType]
         /\ \A q \in Requests : req'[q] = IF q = r THEN [req[r] EXCEPT !.pc = step] ELSE req[q]
<1>1. req[r] \in RequestType /\ req \in [Requests -> RequestType]
  BY DEF TypeOK
<1>2. [req[r] EXCEPT !.pc = step] \in RequestType
  BY <1>1 DEF RequestType
<1>3. req' = [req EXCEPT ![r] = [req[r] EXCEPT !.pc = step]]
  BY <1>1 DEF Goto
<1> QED
  BY <1>1, <1>2, <1>3

\* Every row, counter and request keeps its type: a payment names a student,
\* an enrolment the transaction that paid for it.
THEOREM TypeCorrect == Spec => []TypeOK
<1>1. Init => TypeOK
  <2> SUFFICES ASSUME Init PROVE TypeOK
    OBVIOUS
  <2>1. Idle \in RequestType
    BY DEF Idle, RequestType, Steps
  <2> QED
    BY <2>1, ConstantsAssumption DEF Init, TypeOK, Idle
<1>2. TypeOK /\ [Next]_vars => TypeOK'
  <2> SUFFICES ASSUME TypeOK, [Next]_vars PROVE TypeOK'
    OBVIOUS
  <2> USE DEF dbVars
  <2>1. CASE ChangeStatus
    BY <2>1 DEF ChangeStatus, TypeOK
  <2>2. CASE Crash
    <3>1. uncounted' \in [Courses -> Nat]
      BY <2>2, UncountingFinite DEF Crash, TypeOK
    <3>2. /\ req' \in [Requests -> RequestType]
          /\ \A r \in Requests : req'[r].pc # "new" =>
               req'[r].student \in Students /\ req'[r].tx \in Txs
      BY <2>2 DEF Crash, TypeOK, RequestType, Steps
    <3> QED
      BY <2>2, <3>1, <3>2 DEF Crash, TypeOK
  <2>3. ASSUME NEW r \in Requests, Step(r) PROVE TypeOK'
    <3> DEFINE quiet == UNCHANGED <<active, dbVars, crashes, uncounted>>
    <3>a. ASSUME NEW step \in Steps, Goto(r, step), req[r].pc # "new",
                 /\ active' = active /\ crashes' = crashes /\ uncounted' = uncounted
                 /\ payments' \in [Txs -> Students \union {None}]
                 /\ enrollments' \in [Students \X Courses -> Txs \union {None}]
                 /\ bundles' \in [Students -> Txs \union {None}]
                 /\ totalEnrollments' \in [Courses -> Nat]
          PROVE  TypeOK'
      <4>1. /\ req' \in [Requests -> RequestType]
            /\ \A q \in Requests : req'[q] = IF q = r THEN [req[r] EXCEPT !.pc = step] ELSE req[q]
        BY <3>a, GotoType
      <4>2. req[r] \in RequestType /\ req[r].student \in Students /\ req[r].tx \in Txs
        BY <3>a DEF TypeOK
      <4>3. \A q \in Requests : req'[q].pc # "new" =>
              req'[q].student \in Students /\ req'[q].tx \in Txs
        BY <4>1, <4>2 DEF TypeOK, RequestType
      <4> QED
        BY <3>a, <4>1, <4>3 DEF TypeOK
    <3>b. \A step : \A ok \in BOOLEAN : Reply(r, ok, step) => Goto(r, step) \/ Goto(r, "failed")
      BY DEF Reply
    <3>c. ASSUME NEW step \in Steps, Goto(r, step), quiet, req[r].pc # "new" PROVE TypeOK'
      BY <3>a, <3>c DEF TypeOK
    <3>1. CASE SubmitCreate(r) \/ SubmitBundle(r)
      <4>1. PICK bundle \in BOOLEAN, courses \in SUBSET Courses : Submit(r, bundle, courses)
        BY <3>1, ConstantsAssumption DEF SubmitCreate, SubmitBundle
      <4>2. PICK s \in Students, t \in Txs :
              req' = [req EXCEPT ![r] =
                 [pc |-> IF bundle THEN "bundle" ELSE "course", bundle |-> bundle,
                  student |-> s, wanted |-> courses, seen |-> {}, tx |-> t]]
        BY <4>1 DEF Submit
      <4>3. [pc |-> IF bundle THEN "bundle" ELSE "course", bundle |-> bundle,
             student |-> s, wanted |-> courses, seen |-> {}, tx |-> t] \in RequestType
        BY DEF RequestType, Steps
      <4>4. quiet
        BY <4>1 DEF Submit
      <4> QED
        BY <4>2, <4>3, <4>4 DEF TypeOK
    <3>2. CASE ReadCourse(r)
      BY <3>2, <3>b, <3>c DEF ReadCourse, Steps
    <3>3. CASE ReadBundle(r)
      <4> DEFINE q == [req[r] EXCEPT
                         !.pc = IF Bundle \in active THEN "bundleExisting" ELSE "failed",
                         !.seen = active \intersect Courses]
      <4>1. req[r] \in RequestType /\ req[r].student \in Students /\ req[r].tx \in Txs
        BY <3>3 DEF ReadBundle, TypeOK
      <4>2. q \in RequestType /\ q.student = req[r].student /\ q.tx = req[r].tx
        BY <4>1 DEF RequestType, Steps
      <4>3. req' = [req EXCEPT ![r] = q]
        BY <3>3, <4>1 DEF ReadBundle, TypeOK, RequestType
      <4> HIDE DEF q
      <4> QED
        BY <3>3, <4>1, <4>2, <4>3 DEF ReadBundle, TypeOK
    <3>4. CASE CheckBundleExisting(r)
      BY <3>4, <3>b, <3>c DEF CheckBundleExisting, Steps
    <3>5. CASE VerifyPaymentTransaction(r)
      <4>1. \E step \in Steps : Goto(r, step)
        BY <3>5, <3>b DEF VerifyPaymentTransaction, Payable, Steps
      <4> QED
        BY <3>5, <3>c, <4>1 DEF VerifyPaymentTransaction
    <3>6. CASE CheckExisting(r)
      BY <3>6, <3>b, <3>c DEF CheckExisting, Steps
    <3>7. CASE ReadOwned(r)
      <4> DEFINE missing == BundleCourses \ Owned(req[r].student)
                 q == [req[r] EXCEPT
                         !.wanted = missing,
                         !.pc = IF missing \subseteq req[r].seen THEN "checks" ELSE "failed"]
      <4>1. req[r] \in RequestType /\ req[r].student \in Students /\ req[r].tx \in Txs
        BY <3>7 DEF ReadOwned, TypeOK
      <4>2. missing \subseteq Courses
        BY ConstantsAssumption
      <4>3. req' = [req EXCEPT ![r] = q]
        BY <3>7, <4>1 DEF ReadOwned, TypeOK, RequestType
      <4> HIDE DEF missing
      <4>4. q \in RequestType /\ q.student = req[r].student /\ q.tx = req[r].tx
        BY <4>1, <4>2 DEF RequestType, Steps
      <4> HIDE DEF q
      <4> QED
        BY <3>7, <4>1, <4>3, <4>4 DEF ReadOwned, TypeOK
    <3>8. CASE RunPreEnrollmentChecks(r)
      BY <3>8, <3>b, <3>c DEF RunPreEnrollmentChecks, Steps
    <3>9. CASE CreatePayment(r)
      <4>1. payments' \in [Txs -> Students \union {None}]
        BY <3>9 DEF CreatePayment, Payer, TypeOK
      <4>2. PICK step \in Steps : Goto(r, step)
        BY <3>9 DEF CreatePayment, Steps
      <4> QED
        BY <3>9, <3>a, <4>1, <4>2 DEF CreatePayment, TypeOK
    <3>10. CASE CreateEnrollment(r)
      <4>1. enrollments' \in [Students \X Courses -> Txs \union {None}]
        BY <3>10 DEF CreateEnrollment, WriteRows, TypeOK
      <4>2. PICK step \in Steps : Goto(r, step)
        BY <3>10 DEF CreateEnrollment, Steps
      <4> QED
        BY <3>10, <3>a, <4>1, <4>2 DEF CreateEnrollment, TypeOK
    <3>11. CASE UpdateStats(r)
      <4>1. totalEnrollments' \in [Courses -> Nat]
        BY <3>11 DEF UpdateStats, Count, TypeOK
      <4>2. PICK step \in Steps : Goto(r, step)
        BY <3>11 DEF UpdateStats, Steps
      <4> QED
        BY <3>11, <3>a, <4>1, <4>2 DEF UpdateStats, TypeOK
    <3>12. CASE CommitBundle(r)
      <4>1. PICK step \in Steps : Goto(r, step)
        BY <3>12 DEF CommitBundle, Steps
      <4>2. CASE UNCHANGED dbVars
        BY <3>12, <3>c, <4>1, <4>2 DEF CommitBundle
      <4>3. CASE ~UNCHANGED dbVars
        <5>1. /\ payments' = [payments EXCEPT ![req[r].tx] = req[r].student]
              /\ bundles' = [bundles EXCEPT ![req[r].student] = req[r].tx]
              /\ WriteRows(req[r].student, NewRows(r), req[r].tx)
              /\ Count(NewRows(r))
              /\ req[r].pc = "commit"
          BY <3>12, <4>3 DEF CommitBundle
        <5>2. req[r].student \in Students /\ req[r].tx \in Txs
          BY <5>1 DEF TypeOK
        <5>3. /\ payments' \in [Txs -> Students \union {None}]
              /\ bundles' \in [Students -> Txs \union {None}]
          BY <5>1, <5>2 DEF TypeOK
        <5>4. enrollments' \in [Students \X Courses -> Txs \union {None}]
          BY <5>1, <5>2 DEF WriteRows, TypeOK
        <5>5. totalEnrollments' \in [Courses -> Nat]
          BY <5>1 DEF Count, TypeOK
        <5> QED
          BY <3>12, <3>a, <4>1, <5>1, <5>3, <5>4, <5>5 DEF CommitBundle
      <4> QED
        BY <4>2, <4>3
    <3>13. CASE RunPostEnrollmentSteps(r)
      BY <3>13, <3>b, <3>c DEF RunPostEnrollmentSteps, Steps
    <3> QED
      BY <2>3, <3>1, <3>2, <3>3, <3>4, <3>5, <3>6, <3>7, <3>8, <3>9, <3>10, <3>11, <3>12, <3>13
      DEF Step
  <2>4. CASE UNCHANGED vars
    BY <2>4 DEF vars, TypeOK
  <2> QED
    BY <2>1, <2>2, <2>3, <2>4 DEF Next
<1> QED
  BY <1>1, <1>2, PTL DEF Spec

-----------------------------------------------------------------------------
(***************************************************************************)
(* One transaction, one purchase; complete bundles.  A request that has    *)
(* written its payment and not yet its enrolment is the only one that may  *)
(* use the transaction; what a bundle request still wants at its commit,   *)
(* with what the student owns, is the whole bundle.                        *)
(***************************************************************************)
RequestOK(r) ==
  /\ req[r].pc \in {"course", "existing", "pay", "enroll", "stats"} => ~req[r].bundle
  /\ req[r].pc \in {"bundle", "bundleExisting", "owned", "commit"} => req[r].bundle
  /\ ~req[r].bundle /\ req[r].pc # "new" => \E c \in Courses : req[r].wanted = {c}
  /\ req[r].bundle /\ req[r].pc \in {"checks", "commit"} =>
       \A c \in BundleCourses : c \in req[r].wanted \/ Enrolled(req[r].student, c)

PaidFor ==
  /\ \A p \in Students \X Courses : enrollments[p] # None => payments[enrollments[p]] = p[1]
  /\ \A s \in Students : bundles[s] # None => payments[bundles[s]] = s

Unspent(r) ==
  req[r].pc = "enroll" =>
    /\ payments[req[r].tx] = req[r].student
    /\ \A p \in Students \X Courses : enrollments[p] # req[r].tx
    /\ \A s \in Students : bundles[s] # req[r].tx
    /\ \A q \in Requests : q # r /\ req[q].pc = "enroll" => req[q].tx # req[r].tx

PurchaseInv ==
  /\ \A r \in Requests : RequestOK(r)
  /\ PaidFor
  /\ \A r \in Requests : Unspent(r)
  /\ OneTxOnePurchase
  /\ BundleComplete

\* A step that writes no row and does not reach "enroll".
LEMMA QuietStep ==
  ASSUME TypeOK, PurchaseInv, NEW r \in Requests,
         UNCHANGED <<payments, enrollments, bundles>>,
         \A q \in Requests : q # r => req'[q] = req[q],
         req'[r].pc # "enroll",
         RequestOK(r)'
  PROVE  PurchaseInv'
<1>1. \A q \in Requests : RequestOK(q)'
  <2> SUFFICES ASSUME NEW q \in Requests, q # r PROVE RequestOK(q)'
    OBVIOUS
  <2>1. req'[q] = req[q] /\ RequestOK(q)
    BY DEF PurchaseInv
  <2> QED
    BY <2>1 DEF RequestOK, Enrolled
<1>2. PaidFor' /\ OneTxOnePurchase' /\ BundleComplete'
  BY DEF PurchaseInv, PaidFor, OneTxOnePurchase, BundleComplete, Enrolled
<1>3. \A q \in Requests : Unspent(q)'
  <2> SUFFICES ASSUME NEW q \in Requests, q # r PROVE Unspent(q)'
    BY DEF Unspent
  <2>1. req'[q] = req[q] /\ Unspent(q)
    BY DEF PurchaseInv
  <2> QED
    BY <2>1 DEF Unspent
<1> QED
  BY <1>1, <1>2, <1>3 DEF PurchaseInv

LEMMA GotoOnly ==
  ASSUME TypeOK, NEW r \in Requests, NEW step, Goto(r, step)
  PROVE  /\ \A q \in Requests : q # r => req'[q] = req[q]
         /\ req'[r].pc = step
         /\ req'[r].bundle = req[r].bundle /\ req'[r].student = req[r].student
         /\ req'[r].wanted = req[r].wanted /\ req'[r].tx = req[r].tx
<1>1. req[r] \in RequestType /\ req \in [Requests -> RequestType]
  BY DEF TypeOK
<1> QED
  BY <1>1 DEF Goto, RequestType

\* No row names a transaction that has no payment.
LEMMA UnpaidUnused ==
  ASSUME TypeOK, PurchaseInv, NEW t \in Txs, payments[t] = None
  PROVE  /\ \A p \in Students \X Courses : enrollments[p] # t
         /\ \A s \in Students : bundles[s] # t
         /\ \A q \in Requests : req[q].pc = "enroll" => req[q].tx # t
<1>1. t # None /\ None \notin Students
  BY ConstantsAssumption
<1>2. ASSUME NEW p \in Students \X Courses, enrollments[p] = t PROVE FALSE
  <2>1. payments[t] = p[1] /\ p[1] \in Students
    BY <1>1, <1>2 DEF PurchaseInv, PaidFor
  <2> QED
    BY <1>1, <2>1
<1>3. ASSUME NEW s \in Students, bundles[s] = t PROVE FALSE
  BY <1>1, <1>3 DEF PurchaseInv, PaidFor
<1>4. ASSUME NEW q \in Requests, req[q].pc = "enroll", req[q].tx = t PROVE FALSE
  <2>1. payments[t] = req[q].student /\ req[q].student \in Students
    BY <1>4 DEF PurchaseInv, Unspent, TypeOK
  <2> QED
    BY <1>1, <2>1
<1> QED
  BY <1>2, <1>3, <1>4

\* Writing rows only adds enrolments, so what a request found enrolled stays.
LEMMA RowsAdd ==
  ASSUME TypeOK, NEW s \in Students, NEW courses \in SUBSET Courses, NEW t \in Txs,
         WriteRows(s, courses, t)
  PROVE  /\ \A p \in Students \X Courses :
              enrollments'[p] = IF p[1] = s /\ p[2] \in courses THEN t ELSE enrollments[p]
         /\ \A u \in Students, c \in Courses : Enrolled(u, c) => Enrolled(u, c)'
         /\ \A c \in courses : Enrolled(s, c)'
<1>1. \A p \in Students \X Courses :
        enrollments'[p] = IF p[1] = s /\ p[2] \in courses THEN t ELSE enrollments[p]
  BY DEF WriteRows
<1>2. t # None
  BY ConstantsAssumption
<1> QED
  BY <1>1, <1>2 DEF Enrolled

LEMMA PurchaseInductive ==
  ASSUME TypeOK, TypeOK', PurchaseInv, [Next]_vars
  PROVE  PurchaseInv'
<1> USE DEF dbVars
<1>1. CASE ChangeStatus
  BY <1>1 DEF ChangeStatus, PurchaseInv, PaidFor, OneTxOnePurchase, BundleComplete, Enrolled,
              RequestOK, Unspent
<1>2. CASE Crash
  <2>1. UNCHANGED <<payments, enrollments, bundles>>
    BY <1>2 DEF Crash
  <2>2. \A q \in Requests : \/ req'[q] = req[q] /\ req[q].pc \in {"new", "done"}
                            \/ req'[q] = [req[q] EXCEPT !.pc = "failed"]
    BY <1>2 DEF Crash
  <2>3. \A q \in Requests : RequestOK(q)'
    <3> SUFFICES ASSUME NEW q \in Requests PROVE RequestOK(q)'
      OBVIOUS
    <3>1. RequestOK(q) /\ req[q] \in RequestType
      BY DEF PurchaseInv, TypeOK
    <3>2. CASE req'[q] = req[q]
      BY <2>1, <3>1, <3>2 DEF RequestOK, Enrolled
    <3>3. CASE req'[q] = [req[q] EXCEPT !.pc = "failed"] /\ req[q].pc # "new"
      BY <2>1, <3>1, <3>3 DEF RequestOK, RequestType
    <3> QED
      BY <1>2, <3>2, <3>3 DEF Crash
  <2>4. \A q \in Requests : req'[q].pc # "enroll"
    BY <2>2 DEF TypeOK, RequestType
  <2> QED
    BY <2>1, <2>3, <2>4 DEF PurchaseInv, PaidFor, OneTxOnePurchase, BundleComplete, Enrolled, Unspent
<1>3. ASSUME NEW r \in Requests, Step(r) PROVE PurchaseInv'
  <2>a. RequestOK(r) /\ req[r] \in RequestType
    BY DEF PurchaseInv, TypeOK
  <2>b. ASSUME NEW step, Goto(r, step), UNCHANGED <<payments, enrollments, bundles>>,
               req[r].pc # "new", step # "enroll",
               step \in {"course", "existing", "pay", "stats"} => ~req[r].bundle,
               step \in {"bundle", "bundleExisting", "owned"} => req[r].bundle,
               step = "checks" => ~req[r].bundle,
               step = "commit" => req[r].pc = "checks" /\ req[r].bundle
        PROVE  PurchaseInv'
    <3>1. /\ \A q \in Requests : q # r => req'[q] = req[q]
          /\ req'[r].pc = step
          /\ req'[r].bundle = req[r].bundle /\ req'[r].student = req[r].student
          /\ req'[r].wanted = req[r].wanted /\ req'[r].tx = req[r].tx
      BY <2>b, GotoOnly
    <3>2. RequestOK(r)'
      BY <2>a, <2>b, <3>1 DEF RequestOK, Enrolled
    <3> QED
      BY <2>b, <3>1, <3>2, QuietStep
  <2>c. \A step : \A ok \in BOOLEAN : Reply(r, ok, step) => Goto(r, step) \/ Goto(r, "failed")
    BY DEF Reply
  <2>1. CASE SubmitCreate(r)
    <3>1. PICK c \in Courses : Submit(r, FALSE, {c})
      BY <2>1 DEF SubmitCreate
    <3>2. /\ \A q \in Requests : q # r => req'[q] = req[q]
          /\ req'[r].pc = "course" /\ ~req'[r].bundle /\ req'[r].wanted = {c}
      BY <3>1 DEF Submit, TypeOK
    <3>3. RequestOK(r)'
      BY <3>2 DEF RequestOK
    <3> QED
      BY <3>1, <3>2, <3>3, QuietStep DEF Submit
  <2>2. CASE SubmitBundle(r)
    <3>1. /\ \A q \in Requests : q # r => req'[q] = req[q]
          /\ req'[r].pc = "bundle" /\ req'[r].bundle
      BY <2>2 DEF SubmitBundle, Submit, TypeOK
    <3>2. RequestOK(r)'
      BY <3>1 DEF RequestOK
    <3> QED
      BY <2>2, <3>1, <3>2, QuietStep DEF SubmitBundle, Submit
  <2>3. CASE ReadCourse(r)
    BY <2>3, <2>a, <2>b, <2>c DEF ReadCourse, RequestOK
  <2>4. CASE ReadBundle(r)
    <3>1. /\ \A q \in Requests : q # r => req'[q] = req[q]
          /\ req'[r].pc \in {"bundleExisting", "failed"} /\ req'[r].bundle
      BY <2>4, <2>a DEF ReadBundle, TypeOK, RequestType, RequestOK
    <3>2. RequestOK(r)'
      BY <3>1 DEF RequestOK
    <3> QED
      BY <2>4, <3>1, <3>2, QuietStep DEF ReadBundle
  <2>5. CASE CheckBundleExisting(r)
    BY <2>5, <2>a, <2>b, <2>c DEF CheckBundleExisting, RequestOK
  <2>6. CASE VerifyPaymentTransaction(r)
    <3>1. Goto(r, IF req[r].bundle THEN "owned" ELSE "existing") \/ Goto(r, "failed")
      BY <2>6, <2>c DEF VerifyPaymentTransaction, Payable
    <3>2. req[r].bundle \in BOOLEAN
      BY <2>a DEF RequestType
    <3>3. CASE Goto(r, "failed")
      BY <2>6, <2>b, <3>3 DEF VerifyPaymentTransaction
    <3>4. CASE req[r].bundle /\ Goto(r, "owned")
      BY <2>6, <2>b, <3>4 DEF VerifyPaymentTransaction
    <3>5. CASE ~req[r].bundle /\ Goto(r, "existing")
      BY <2>6, <2>b, <3>5 DEF VerifyPaymentTransaction
    <3> QED
      BY <3>1, <3>2, <3>3, <3>4, <3>5
  <2>7. CASE CheckExisting(r)
    BY <2>7, <2>a, <2>b, <2>c DEF CheckExisting, RequestOK
  <2>8. CASE ReadOwned(r)
    <3> DEFINE missing == BundleCourses \ Owned(req[r].student)
    <3>1. /\ \A q \in Requests : q # r => req'[q] = req[q]
          /\ req'[r].pc \in {"checks", "failed"} /\ req'[r].bundle = req[r].bundle
          /\ req'[r].wanted = missing /\ req'[r].student = req[r].student
      BY <2>8, <2>a DEF ReadOwned, TypeOK, RequestType
    <3>2. UNCHANGED <<payments, enrollments, bundles>> /\ req[r].bundle
      BY <2>8, <2>a DEF ReadOwned, RequestOK
    <3>3. RequestOK(r)'
      BY <3>1, <3>2 DEF RequestOK, Owned, Enrolled
    <3> QED
      BY <3>1, <3>2, <3>3, QuietStep
  <2>9. CASE RunPreEnrollmentChecks(r)
    <3>1. Goto(r, IF req[r].bundle THEN "commit" ELSE "pay") \/ Goto(r, "failed")
      BY <2>9, <2>c DEF RunPreEnrollmentChecks
    <3>2. req[r].bundle \in BOOLEAN
      BY <2>a DEF RequestType
    <3>3. CASE Goto(r, "failed")
      BY <2>9, <2>b, <3>3 DEF RunPreEnrollmentChecks
    <3>4. CASE req[r].bundle /\ Goto(r, "commit")
      BY <2>9, <2>b, <3>4 DEF RunPreEnrollmentChecks
    <3>5. CASE ~req[r].bundle /\ Goto(r, "pay")
      BY <2>9, <2>b, <3>5 DEF RunPreEnrollmentChecks
    <3> QED
      BY <3>1, <3>2, <3>3, <3>4, <3>5
  <2>10. CASE CreatePayment(r)
    <3>1. CASE Goto(r, "failed") /\ UNCHANGED payments
      BY <2>10, <2>b, <3>1 DEF CreatePayment
    <3>2. CASE /\ ~TxTaken(req[r].tx)
               /\ payments' = [payments EXCEPT ![req[r].tx] = Payer(r)]
               /\ Goto(r, "enroll")
      <4> DEFINE t == req[r].tx
                 s == req[r].student
      <4>1. /\ \A q \in Requests : q # r => req'[q] = req[q]
            /\ req'[r].pc = "enroll"
            /\ req'[r].bundle = req[r].bundle /\ req'[r].student = s
            /\ req'[r].wanted = req[r].wanted /\ req'[r].tx = t
        BY <3>2, GotoOnly
      <4>2. t \in Txs /\ s \in Students /\ payments[t] = None /\ req[r].pc = "pay"
        BY <2>10, <3>2 DEF CreatePayment, TypeOK, TxTaken
      <4>3. UNCHANGED <<enrollments, bundles>>
        BY <2>10 DEF CreatePayment
      <4>4. \A u \in Txs : payments'[u] = IF u = t THEN s ELSE payments[u]
        BY <3>2, <4>2 DEF Payer, TypeOK
      <4>5. /\ \A p \in Students \X Courses : enrollments[p] # t
            /\ \A u \in Students : bundles[u] # t
            /\ \A q \in Requests : req[q].pc = "enroll" => req[q].tx # t
        BY <4>2, UnpaidUnused
      <4> HIDE DEF t, s
      <4>6. PaidFor'
        BY <4>3, <4>4, <4>5 DEF PaidFor, PurchaseInv, TypeOK
      <4>7. \A q \in Requests : RequestOK(q)'
        BY <2>a, <4>1, <4>2, <4>3 DEF RequestOK, PurchaseInv, Enrolled
      <4>8. \A q \in Requests : Unspent(q)'
        <5> SUFFICES ASSUME NEW q \in Requests, req'[q].pc = "enroll"
                     PROVE  Unspent(q)'
          BY DEF Unspent
        <5>1. CASE q = r
          BY <4>1, <4>2, <4>3, <4>4, <4>5, <5>1 DEF Unspent
        <5>2. CASE q # r
          <6>1. req'[q] = req[q] /\ Unspent(q) /\ req[q].tx \in Txs /\ req[q].tx # t
            BY <4>1, <4>5, <5>2 DEF PurchaseInv, TypeOK
          <6> QED
            BY <4>1, <4>2, <4>3, <4>4, <5>2, <6>1 DEF Unspent
        <5> QED
          BY <5>1, <5>2
      <4> QED
        BY <4>3, <4>6, <4>7, <4>8 DEF PurchaseInv, OneTxOnePurchase, BundleComplete, Enrolled
    <3> QED
      BY <2>10, <3>1, <3>2 DEF CreatePayment
  <2>11. CASE CreateEnrollment(r)
    <3>1. CASE Goto(r, "failed") /\ UNCHANGED enrollments
      BY <2>11, <2>b, <3>1 DEF CreateEnrollment
    <3>2. CASE WriteRows(req[r].student, req[r].wanted, req[r].tx) /\ Goto(r, "stats")
      <4> DEFINE t == req[r].tx
                 s == req[r].student
      <4>1. /\ \A q \in Requests : q # r => req'[q] = req[q]
            /\ req'[r].pc = "stats"
            /\ req'[r].bundle = req[r].bundle /\ req'[r].student = s
            /\ req'[r].wanted = req[r].wanted /\ req'[r].tx = t
        BY <3>2, GotoOnly
      <4>2. t \in Txs /\ s \in Students /\ req[r].pc = "enroll" /\ req[r].wanted \in SUBSET Courses
        BY <2>11, <2>a DEF CreateEnrollment, TypeOK, RequestType
      <4>3. UNCHANGED <<payments, bundles>>
        BY <2>11 DEF CreateEnrollment
      <4>4. /\ payments[t] = s
            /\ \A p \in Students \X Courses : enrollments[p] # t
            /\ \A q \in Requests : q # r /\ req[q].pc = "enroll" => req[q].tx # t
        BY <4>2 DEF PurchaseInv, Unspent
      <4>5. PICK c \in Courses : req[r].wanted = {c}
        BY <2>a, <4>2 DEF RequestOK
      <4>6. /\ \A p \in Students \X Courses :
                 enrollments'[p] = IF p[1] = s /\ p[2] = c THEN t ELSE enrollments[p]
            /\ \A u \in Students, d \in Courses : Enrolled(u, d) => Enrolled(u, d)'
        <5>1. WriteRows(s, {c}, t)
          BY <3>2, <4>5
        <5>2. {c} \in SUBSET Courses
          OBVIOUS
        <5> HIDE DEF s, t
        <5>3. \A p \in Students \X Courses :
                enrollments'[p] = IF p[1] = s /\ p[2] \in {c} THEN t ELSE enrollments[p]
          BY <4>2, <5>1, <5>2, RowsAdd
        <5>4. \A u \in Students, d \in Courses : Enrolled(u, d) => Enrolled(u, d)'
          BY <4>2, <5>1, <5>2, RowsAdd
        <5> QED
          BY <5>3, <5>4
      <4>7. \A p \in Students \X Courses : p[1] = s /\ p[2] = c => p = <<s, c>>
        OBVIOUS
      <4> HIDE DEF t, s
      <4>8. PaidFor'
        BY <4>3, <4>4, <4>6 DEF PaidFor, PurchaseInv
      <4>9. OneTxOnePurchase'
        <5> SUFFICES ASSUME NEW p \in Students \X Courses, NEW q \in Students \X Courses,
                            enrollments'[p] = enrollments'[q], enrollments'[p] # None, p # q
                     PROVE  p[1] = q[1] /\ bundles[p[1]] = enrollments'[p]
          BY <4>3 DEF OneTxOnePurchase
        <5>1. enrollments'[p] = enrollments[p] /\ enrollments'[q] = enrollments[q]
          BY <4>4, <4>6, <4>7
        <5> QED
          BY <5>1 DEF PurchaseInv, OneTxOnePurchase
      <4>10. BundleComplete'
        BY <4>3, <4>6, ConstantsAssumption DEF BundleComplete, PurchaseInv
      <4>11. \A q \in Requests : RequestOK(q)'
        <5> SUFFICES ASSUME NEW q \in Requests PROVE RequestOK(q)'
          OBVIOUS
        <5>1. CASE q = r
          BY <2>a, <4>1, <4>2, <5>1 DEF RequestOK
        <5>2. CASE q # r
          <6>1. req'[q] = req[q] /\ RequestOK(q)
                /\ (req[q].pc # "new" => req[q].student \in Students)
            BY <4>1, <5>2 DEF PurchaseInv, TypeOK
          <6> QED
            BY <4>6, <6>1, ConstantsAssumption DEF RequestOK
        <5> QED
          BY <5>1, <5>2
      <4>12. \A q \in Requests : Unspent(q)'
        <5> SUFFICES ASSUME NEW q \in Requests, req'[q].pc = "enroll" PROVE Unspent(q)'
          BY DEF Unspent
        <5>1. q # r /\ req'[q] = req[q] /\ Unspent(q) /\ req[q].tx # t
          BY <4>1, <4>4 DEF PurchaseInv
        <5> QED
          BY <4>1, <4>3, <4>6, <5>1 DEF Unspent
      <4> QED
        BY <4>8, <4>9, <4>10, <4>11, <4>12 DEF PurchaseInv
    <3> QED
      BY <2>11, <3>1, <3>2 DEF CreateEnrollment
  <2>12. CASE UpdateStats(r)
    BY <2>12, <2>b DEF UpdateStats
  <2>13. CASE CommitBundle(r)
    <3>1. CASE Goto(r, "failed") /\ UNCHANGED dbVars
      BY <2>13, <2>b, <3>1 DEF CommitBundle
    <3>2. CASE ~TxTaken(req[r].tx) /\ bundles[req[r].student] = None /\ Goto(r, "post")
               /\ payments' = [payments EXCEPT ![req[r].tx] = req[r].student]
               /\ bundles' = [bundles EXCEPT ![req[r].student] = req[r].tx]
               /\ WriteRows(req[r].student, NewRows(r), req[r].tx)
      <4> DEFINE t == req[r].tx
                 s == req[r].student
                 new == NewRows(r)
      <4>1. /\ \A q \in Requests : q # r => req'[q] = req[q]
            /\ req'[r].pc = "post"
            /\ req'[r].bundle = req[r].bundle /\ req'[r].student = s
            /\ req'[r].wanted = req[r].wanted /\ req'[r].tx = t
        BY <3>2, GotoOnly
      <4>2. t \in Txs /\ s \in Students /\ req[r].pc = "commit" /\ new \in SUBSET Courses
            /\ payments[t] = None /\ bundles[s] = None /\ t # None
        BY <2>13, <2>a, <3>2, ConstantsAssumption
        DEF CommitBundle, TypeOK, RequestType, NewRows, TxTaken
      <4>3. /\ \A u \in Txs : payments'[u] = IF u = t THEN s ELSE payments[u]
            /\ \A u \in Students : bundles'[u] = IF u = s THEN t ELSE bundles[u]
        BY <3>2, <4>2 DEF TypeOK
      <4>4. /\ \A p \in Students \X Courses : enrollments[p] # t
            /\ \A u \in Students : bundles[u] # t
            /\ \A q \in Requests : req[q].pc = "enroll" => req[q].tx # t
        BY <4>2, UnpaidUnused
      <4>5. /\ \A p \in Students \X Courses :
                 enrollments'[p] = IF p[1] = s /\ p[2] \in new THEN t ELSE enrollments[p]
            /\ \A u \in Students, d \in Courses : Enrolled(u, d) => Enrolled(u, d)'
            /\ \A d \in new : enrollments'[<<s, d>>] # None
        <5>1. WriteRows(s, new, t)
          BY <3>2
        <5> HIDE DEF s, t, new
        <5>2. \A p \in Students \X Courses :
                enrollments'[p] = IF p[1] = s /\ p[2] \in new THEN t ELSE enrollments[p]
          BY <4>2, <5>1, RowsAdd
        <5>3. \A u \in Students, d \in Courses : Enrolled(u, d) => Enrolled(u, d)'
          BY <4>2, <5>1, RowsAdd
        <5>4. \A d \in new : <<s, d>> \in Students \X Courses
          BY <4>2
        <5> QED
          BY <4>2, <5>2, <5>3, <5>4
      <4>6. \A c \in BundleCourses : c \in new \/ Enrolled(s, c)
        BY <2>a, <4>2 DEF RequestOK, NewRows
      <4> HIDE DEF t, s, new
      <4>7. PaidFor'
        <5>1. \A p \in Students \X Courses : enrollments'[p] # None
                => payments'[enrollments'[p]] = p[1]
          <6> SUFFICES ASSUME NEW p \in Students \X Courses, enrollments'[p] # None
                       PROVE  payments'[enrollments'[p]] = p[1]
            OBVIOUS
          <6>1. CASE enrollments'[p] = t
            BY <4>2, <4>3, <4>4, <4>5, <6>1
          <6>2. CASE enrollments'[p] # t
            BY <4>3, <4>5, <6>2 DEF PurchaseInv, PaidFor, TypeOK
          <6> QED
            BY <6>1, <6>2
        <5>2. \A u \in Students : bundles'[u] # None => payments'[bundles'[u]] = u
          BY <4>2, <4>3, <4>4 DEF PurchaseInv, PaidFor, TypeOK
        <5> QED
          BY <5>1, <5>2 DEF PaidFor
      <4>8. OneTxOnePurchase'
        <5> SUFFICES ASSUME NEW p \in Students \X Courses, NEW q \in Students \X Courses,
                            enrollments'[p] = enrollments'[q], enrollments'[p] # None, p # q
                     PROVE  p[1] = q[1] /\ bundles'[p[1]] = enrollments'[p]
          BY DEF OneTxOnePurchase
        <5>1. CASE enrollments'[p] = t
          <6>1. p[1] = s /\ q[1] = s
            BY <4>4, <4>5, <5>1
          <6> QED
            BY <4>2, <4>3, <5>1, <6>1
        <5>2. CASE enrollments'[p] # t
          <6>1. enrollments'[p] = enrollments[p] /\ enrollments'[q] = enrollments[q]
            BY <4>5, <5>2
          <6>2. p[1] = q[1] /\ bundles[p[1]] = enrollments[p] /\ p[1] \in Students
            BY <6>1 DEF PurchaseInv, OneTxOnePurchase
          <6> QED
            BY <4>2, <4>3, <6>1, <6>2
        <5> QED
          BY <5>1, <5>2
      <4>9. BundleComplete'
        <5> SUFFICES ASSUME NEW u \in Students, bundles'[u] # None, NEW c \in BundleCourses
                     PROVE  Enrolled(u, c)'
          BY DEF BundleComplete
        <5>1. c \in Courses
          BY ConstantsAssumption
        <5>2. CASE u = s
          <6>1. enrollments'[<<s, c>>] # None
            BY <4>2, <4>5, <4>6, <5>1 DEF Enrolled
          <6> QED
            BY <5>2, <6>1 DEF Enrolled
        <5>3. CASE u # s
          BY <4>3, <4>5, <5>1, <5>3 DEF PurchaseInv, BundleComplete
        <5> QED
          BY <5>2, <5>3
      <4>10. \A q \in Requests : RequestOK(q)'
        <5> SUFFICES ASSUME NEW q \in Requests PROVE RequestOK(q)'
          OBVIOUS
        <5>1. CASE q = r
          BY <2>a, <4>1, <4>2, <5>1 DEF RequestOK
        <5>2. CASE q # r
          <6>1. req'[q] = req[q] /\ RequestOK(q)
                /\ (req[q].pc # "new" => req[q].student \in Students)
            BY <4>1, <5>2 DEF PurchaseInv, TypeOK
          <6> QED
            BY <4>5, <6>1, ConstantsAssumption DEF RequestOK
        <5> QED
          BY <5>1, <5>2
      <4>11. \A q \in Requests : Unspent(q)'
        <5> SUFFICES ASSUME NEW q \in Requests, req'[q].pc = "enroll" PROVE Unspent(q)'
          BY DEF Unspent
        <5>1. q # r /\ req'[q] = req[q] /\ Unspent(q) /\ req[q].tx # t /\ req[q].tx \in Txs
          BY <4>1, <4>4 DEF PurchaseInv, TypeOK
        <5> QED
          BY <4>1, <4>3, <4>5, <5>1 DEF Unspent
      <4> QED
        BY <4>7, <4>8, <4>9, <4>10, <4>11 DEF PurchaseInv
    <3> QED
      BY <2>13, <3>1, <3>2 DEF CommitBundle
  <2>14. CASE RunPostEnrollmentSteps(r)
    BY <2>14, <2>b, <2>c DEF RunPostEnrollmentSteps
  <2> QED
    BY <1>3, <2>1, <2>2, <2>3, <2>4, <2>5, <2>6, <2>7, <2>8, <2>9, <2>10, <2>11, <2>12,
       <2>13, <2>14 DEF Step
<1>4. CASE UNCHANGED vars
  BY <1>4 DEF vars, PurchaseInv, PaidFor, OneTxOnePurchase, BundleComplete, Enrolled,
              RequestOK, Unspent
<1> QED
  BY <1>1, <1>2, <1>3, <1>4 DEF Next

LEMMA PurchaseInvariant == Spec => [](TypeOK /\ PurchaseInv)
<1>1. Init => PurchaseInv
  BY DEF Init, PurchaseInv, RequestOK, PaidFor, Unspent, OneTxOnePurchase, BundleComplete, Idle
<1> QED
  BY <1>1, TypeCorrect, PurchaseInductive, PTL DEF Spec

\* One transaction buys one purchase of one student, under every
\* interleaving of requests and crashes.
THEOREM OneTxBuysOnce == Spec => []OneTxOnePurchase
BY PurchaseInvariant, PTL DEF PurchaseInv

\* Whoever has the bundle is enrolled in all its courses.
THEOREM BundlesComplete == Spec => []BundleComplete
BY PurchaseInvariant, PTL DEF PurchaseInv

-----------------------------------------------------------------------------
(***************************************************************************)
(* The statistics.  A row appears in the step that puts its request in     *)
(* front of the increment, or increments at once; the increment takes the  *)
(* request away; a crash moves it to the history variable.                 *)
(***************************************************************************)
Enrollees(c) == {s \in Students : Enrolled(s, c)}

LEMMA EnrolleesFinite ==
  ASSUME NEW c \in Courses
  PROVE  IsFiniteSet(Enrollees(c)) /\ Cardinality(Enrollees(c)) \in Nat
<1>1. Enrollees(c) \subseteq Students
  BY DEF Enrollees
<1> QED
  BY <1>1, ConstantsAssumption, FS_Subset, FS_CardinalityType

LEMMA StatsQuiet ==
  ASSUME StatsCountRows, UNCHANGED <<enrollments, totalEnrollments, uncounted>>,
         \A c \in Courses : Uncounting(c)' = Uncounting(c)
  PROVE  StatsCountRows'
BY DEF StatsCountRows, Enrolled

\* New rows of one student: each of their courses gains that student.
LEMMA RowsAddEnrollee ==
  ASSUME TypeOK, NEW s \in Students, NEW courses \in SUBSET Courses, NEW t \in Txs,
         WriteRows(s, courses, t), \A c \in courses : ~Enrolled(s, c), NEW c \in Courses
  PROVE  Cardinality(Enrollees(c)') = Cardinality(Enrollees(c)) + IF c \in courses THEN 1 ELSE 0
<1>1. \A p \in Students \X Courses :
        enrollments'[p] = IF p[1] = s /\ p[2] \in courses THEN t ELSE enrollments[p]
  BY RowsAdd
<1>2. t # None
  BY ConstantsAssumption
<1>3. \A u \in Students :
        enrollments'[<<u, c>>] = IF u = s /\ c \in courses THEN t ELSE enrollments[<<u, c>>]
  BY <1>1
<1>4. CASE c \in courses
  <2>1. Enrollees(c)' = Enrollees(c) \union {s} /\ s \notin Enrollees(c)
    BY <1>2, <1>3, <1>4 DEF Enrollees, Enrolled
  <2> QED
    BY <1>4, <2>1, EnrolleesFinite, FS_AddElement
<1>5. CASE c \notin courses
  <2>1. Enrollees(c)' = Enrollees(c)
    BY <1>3, <1>5 DEF Enrollees, Enrolled
  <2> QED
    BY <1>5, <2>1, EnrolleesFinite
<1> QED
  BY <1>4, <1>5

\* Only what a request does at "stats", before and after, counts.
LEMMA UncountingStep ==
  ASSUME TypeOK, NEW r \in Requests, \A q \in Requests : q # r => req'[q] = req[q],
         NEW c \in Courses
  PROVE  /\ ~(req'[r].pc = "stats" /\ c \in req'[r].wanted) => Uncounting(c)' = Uncounting(c) \ {r}
         /\ req'[r].pc = "stats" /\ c \in req'[r].wanted => Uncounting(c)' = Uncounting(c) \union {r}
BY DEF Uncounting

LEMMA StatsInductive ==
  ASSUME TypeOK, TypeOK', StatsCountRows, [Next]_vars
  PROVE  StatsCountRows'
<1> USE DEF dbVars
<1>1. CASE ChangeStatus \/ UNCHANGED vars
  BY <1>1, StatsQuiet DEF ChangeStatus, vars, Uncounting
<1>2. CASE Crash
  <2>1. \A r \in Requests : req'[r].pc # "stats"
    BY <1>2 DEF Crash, TypeOK, RequestType
  <2>2. \A c \in Courses : Uncounting(c)' = {}
    BY <2>1 DEF Uncounting
  <2>3. /\ UNCHANGED <<enrollments, totalEnrollments>>
        /\ \A c \in Courses : uncounted'[c] = uncounted[c] + Cardinality(Uncounting(c))
    BY <1>2 DEF Crash
  <2>4. \A c \in Courses : Cardinality(Uncounting(c)) \in Nat /\ uncounted[c] \in Nat
                           /\ totalEnrollments[c] \in Nat
    BY UncountingFinite DEF TypeOK
  <2> SUFFICES ASSUME NEW c \in Courses
               PROVE  totalEnrollments[c] + Cardinality(Uncounting(c)') + uncounted'[c]
                        = Cardinality(Enrollees(c))
    BY <2>3 DEF StatsCountRows, Enrollees, Enrolled
  <2>5. Cardinality(Uncounting(c)') = 0
    BY <2>2, FS_EmptySet
  <2>6. totalEnrollments[c] + Cardinality(Uncounting(c)) + uncounted[c] = Cardinality(Enrollees(c))
    BY DEF StatsCountRows, Enrollees
  <2> QED
    BY <2>3, <2>4, <2>5, <2>6
<1>3. ASSUME NEW r \in Requests, Step(r) PROVE StatsCountRows'
  <2>a. req[r] \in RequestType /\ req \in [Requests -> RequestType]
    BY DEF TypeOK
  <2>b. \A q \in Requests : q # r => req'[q] = req[q]
    BY <1>3, <2>a DEF Step, SubmitCreate, SubmitBundle, Submit, ReadCourse, ReadBundle,
      CheckBundleExisting, VerifyPaymentTransaction, CheckExisting, ReadOwned,
      RunPreEnrollmentChecks, CreatePayment, CreateEnrollment, UpdateStats, CommitBundle,
      RunPostEnrollmentSteps, Reply, Goto
  <2>c. ASSUME req[r].pc # "stats", req'[r].pc # "stats", NEW c \in Courses
        PROVE  Uncounting(c)' = Uncounting(c)
    BY <2>b, <2>c DEF Uncounting
  <2>d. /\ UNCHANGED uncounted
        /\ \A c \in Courses : /\ totalEnrollments[c] \in Nat /\ uncounted[c] \in Nat
                              /\ Cardinality(Uncounting(c)) \in Nat
                              /\ Cardinality(Enrollees(c)) \in Nat
    BY <1>3, UncountingFinite, EnrolleesFinite
    DEF TypeOK, Step, SubmitCreate, SubmitBundle, Submit, ReadCourse, ReadBundle,
      CheckBundleExisting, VerifyPaymentTransaction, CheckExisting, ReadOwned,
      RunPreEnrollmentChecks, CreatePayment, CreateEnrollment, UpdateStats, CommitBundle,
      RunPostEnrollmentSteps
  <2>1. CASE UNCHANGED <<enrollments, totalEnrollments>> /\ req[r].pc # "stats" /\ req'[r].pc # "stats"
    BY <2>1, <2>c, <2>d, StatsQuiet
  <2>2. CASE CreateEnrollment(r)
    <3>1. CASE Goto(r, "failed") /\ UNCHANGED enrollments
      <4>1. UNCHANGED <<enrollments, totalEnrollments>> /\ req[r].pc = "enroll" /\ req'[r].pc = "failed"
        BY <2>2, <3>1, GotoOnly DEF CreateEnrollment
      <4> QED
        BY <2>1, <4>1
    <3>2. CASE /\ \A c \in req[r].wanted : ~Enrolled(req[r].student, c)
               /\ WriteRows(req[r].student, req[r].wanted, req[r].tx)
               /\ Goto(r, "stats")
      <4>1. /\ req[r].student \in Students /\ req[r].tx \in Txs
            /\ req[r].wanted \in SUBSET Courses /\ req[r].pc = "enroll"
        BY <2>2, <2>a DEF CreateEnrollment, TypeOK, RequestType
      <4>2. req'[r].pc = "stats" /\ req'[r].wanted = req[r].wanted /\ UNCHANGED totalEnrollments
        BY <2>2, <3>2, GotoOnly DEF CreateEnrollment
      <4> SUFFICES ASSUME NEW c \in Courses
                   PROVE  totalEnrollments[c] + Cardinality(Uncounting(c)') + uncounted[c]
                            = Cardinality(Enrollees(c)')
        BY <2>d, <4>2 DEF StatsCountRows, Enrollees
      <4>3. Cardinality(Enrollees(c)')
              = Cardinality(Enrollees(c)) + IF c \in req[r].wanted THEN 1 ELSE 0
        BY <3>2, <4>1, RowsAddEnrollee
      <4>4. r \notin Uncounting(c)
        BY <4>1 DEF Uncounting
      <4>5. Cardinality(Uncounting(c)')
              = Cardinality(Uncounting(c)) + IF c \in req[r].wanted THEN 1 ELSE 0
        <5>1. CASE c \in req[r].wanted
          <6>1. Uncounting(c)' = Uncounting(c) \union {r}
            BY <2>b, <4>2, <5>1, UncountingStep
          <6> QED
            BY <4>4, <5>1, <6>1, UncountingFinite, FS_AddElement
        <5>2. CASE c \notin req[r].wanted
          <6>1. Uncounting(c)' = Uncounting(c)
            BY <2>b, <4>2, <4>4, <5>2, UncountingStep
          <6> QED
            BY <2>d, <5>2, <6>1
        <5> QED
          BY <5>1, <5>2
      <4>6. totalEnrollments[c] + Cardinality(Uncounting(c)) + uncounted[c] = Cardinality(Enrollees(c))
        BY DEF StatsCountRows, Enrollees
      <4> QED
        BY <2>d, <4>3, <4>5, <4>6
    <3> QED
      BY <2>2, <3>1, <3>2 DEF CreateEnrollment
  <2>3. CASE UpdateStats(r)
    <3>1. req'[r].pc = "post" /\ req[r].pc = "stats" /\ UNCHANGED enrollments
      BY <2>3, GotoOnly DEF UpdateStats
    <3>2. \A c \in Courses :
            totalEnrollments'[c] = totalEnrollments[c] + IF c \in req[r].wanted THEN 1 ELSE 0
      BY <2>3 DEF UpdateStats, Count
    <3> SUFFICES ASSUME NEW c \in Courses
                 PROVE  totalEnrollments'[c] + Cardinality(Uncounting(c)') + uncounted[c]
                          = Cardinality(Enrollees(c))
      BY <2>d, <3>1 DEF StatsCountRows, Enrollees, Enrolled
    <3>3. Uncounting(c)' = Uncounting(c) \ {r}
      BY <2>b, <3>1, UncountingStep
    <3>4. Cardinality(Uncounting(c)')
            = Cardinality(Uncounting(c)) - IF c \in req[r].wanted THEN 1 ELSE 0
      <4>1. CASE c \in req[r].wanted
        <5>1. r \in Uncounting(c)
          BY <3>1, <4>1 DEF Uncounting
        <5> QED
          BY <3>3, <4>1, <5>1, UncountingFinite, FS_RemoveElement
      <4>2. CASE c \notin req[r].wanted
        <5>1. Uncounting(c)' = Uncounting(c)
          BY <3>3, <4>2 DEF Uncounting
        <5> QED
          BY <2>d, <4>2, <5>1
      <4> QED
        BY <4>1, <4>2
    <3>5. totalEnrollments[c] + Cardinality(Uncounting(c)) + uncounted[c] = Cardinality(Enrollees(c))
      BY DEF StatsCountRows, Enrollees
    <3> QED
      BY <2>d, <3>2, <3>4, <3>5
  <2>4. CASE CommitBundle(r)
    <3>1. CASE Goto(r, "failed") /\ UNCHANGED dbVars
      BY <2>1, <2>4, <3>1, GotoOnly DEF CommitBundle
    <3>2. CASE WriteRows(req[r].student, NewRows(r), req[r].tx) /\ Count(NewRows(r)) /\ Goto(r, "post")
      <4>1. /\ req[r].student \in Students /\ req[r].tx \in Txs
            /\ NewRows(r) \in SUBSET Courses /\ req[r].pc = "commit"
            /\ \A c \in NewRows(r) : ~Enrolled(req[r].student, c)
        BY <2>4, <2>a DEF CommitBundle, TypeOK, RequestType, NewRows
      <4>2. req'[r].pc = "post"
        BY <3>2, GotoOnly
      <4> SUFFICES ASSUME NEW c \in Courses
                   PROVE  totalEnrollments'[c] + Cardinality(Uncounting(c)') + uncounted[c]
                            = Cardinality(Enrollees(c)')
        BY <2>d DEF StatsCountRows, Enrollees
      <4>3. Cardinality(Enrollees(c)')
              = Cardinality(Enrollees(c)) + IF c \in NewRows(r) THEN 1 ELSE 0
        BY <3>2, <4>1, RowsAddEnrollee
      <4>4. Uncounting(c)' = Uncounting(c)
        BY <2>c, <4>1, <4>2
      <4>5. totalEnrollments'[c] = totalEnrollments[c] + IF c \in NewRows(r) THEN 1 ELSE 0
        BY <3>2 DEF Count
      <4>6. totalEnrollments[c] + Cardinality(Uncounting(c)) + uncounted[c] = Cardinality(Enrollees(c))
        BY DEF StatsCountRows, Enrollees
      <4> QED
        BY <2>d, <4>3, <4>4, <4>5, <4>6
    <3> QED
      BY <2>4, <3>1, <3>2 DEF CommitBundle
  <2>5. ASSUME ~CreateEnrollment(r), ~UpdateStats(r), ~CommitBundle(r)
        PROVE  /\ UNCHANGED <<enrollments, totalEnrollments>>
               /\ req[r].pc # "stats" /\ req'[r].pc # "stats"
    BY <1>3, <2>5, <2>a DEF Step, SubmitCreate, SubmitBundle, Submit, ReadCourse, ReadBundle,
      CheckBundleExisting, VerifyPaymentTransaction, CheckExisting, ReadOwned,
      RunPreEnrollmentChecks, CreatePayment, RunPostEnrollmentSteps, Reply, Goto, RequestType
  <2> QED
    BY <2>1, <2>2, <2>3, <2>4, <2>5
<1> QED
  BY <1>1, <1>2, <1>3 DEF Next

\* courses.totalEnrollments falls short of the enrolments by exactly the rows
\* whose request has not yet counted them, or never will because it crashed
\* between its two writes, for any number of requests and crashes.
THEOREM StatsExact == Spec => []StatsCountRows
<1>1. Init => StatsCountRows
  <2> SUFFICES ASSUME Init, NEW c \in Courses
               PROVE  Cardinality(Uncounting(c)) = 0 /\ Cardinality(Enrollees(c)) = 0
    BY DEF Init, StatsCountRows, Enrollees
  <2>1. Uncounting(c) = {} /\ Enrollees(c) = {}
    BY DEF Init, Uncounting, Enrollees, Enrolled, Idle
  <2> QED
    BY <2>1, FS_EmptySet
<1>2. TypeOK /\ TypeOK' /\ StatsCountRows /\ [Next]_vars => StatsCountRows'
  BY StatsInductive
<1> QED
  BY <1>1, <1>2, TypeCorrect, PTL DEF Spec

-----------------------------------------------------------------------------
(***************************************************************************)
(* The two services implement Purchases.  The single enrolment writes its  *)
(* rows for a payment that bought nothing yet, the bundle transaction for  *)
(* one that did not exist; every other step leaves what was sold alone.    *)
(***************************************************************************)
LEMMA WritingBuys ==
  ASSUME TypeOK, NEW s \in Students, NEW courses \in SUBSET Courses, NEW t \in Txs,
         WriteRows(s, courses, t), \A c \in courses : ~Enrolled(s, c),
         \A p \in Students \X Courses : enrollments[p] # t
  PROVE  Sales!Buy(t, s, courses)
<1> DEFINE sold == [u \in Txs |-> {p \in Students \X Courses : enrollments[p] = u}]
<1>1. \A p \in Students \X Courses :
        enrollments'[p] = IF p[1] = s /\ p[2] \in courses THEN t ELSE enrollments[p]
  BY RowsAdd
<1>2. sold[t] = {}
  OBVIOUS
<1>3. \A u \in Txs, c \in courses : <<s, c>> \notin sold[u]
  BY ConstantsAssumption DEF Enrolled
<1>4. ASSUME NEW u \in Txs
      PROVE  {p \in Students \X Courses : enrollments'[p] = u}
               = IF u = t THEN {s} \X courses ELSE sold[u]
  <2>1. \A c \in courses : <<s, c>> \in Students \X Courses /\ enrollments[<<s, c>>] = None
    BY DEF Enrolled
  <2>2. CASE u = t
    BY <1>1, <2>2
  <2>3. CASE u # t
    <3>1. \A p \in Students \X Courses : enrollments'[p] = u <=> enrollments[p] = u
      <4> SUFFICES ASSUME NEW p \in Students \X Courses
                   PROVE  enrollments'[p] = u <=> enrollments[p] = u
        OBVIOUS
      <4>1. CASE p[1] = s /\ p[2] \in courses
        <5>1. p = <<s, p[2]>>
          BY <4>1
        <5>2. enrollments[p] = None /\ enrollments'[p] = t /\ u # None
          BY <1>1, <2>1, <4>1, <5>1, ConstantsAssumption
        <5> QED
          BY <2>3, <5>2
      <4>2. CASE ~(p[1] = s /\ p[2] \in courses)
        BY <1>1, <4>2
      <4> QED
        BY <4>1, <4>2
    <3> QED
      BY <2>3, <3>1
  <2> QED
    BY <2>2, <2>3
<1>5. sold' = [sold EXCEPT ![t] = {s} \X courses]
  BY <1>4
<1> QED
  BY <1>2, <1>3, <1>5 DEF Sales!Buy

LEMMA StepSells ==
  ASSUME TypeOK, PurchaseInv, [Next]_vars, enrollments' # enrollments
  PROVE  Sales!Next
<1> USE DEF dbVars
<1>1. PICK r \in Requests : CreateEnrollment(r) \/ CommitBundle(r)
  BY DEF Next, vars, ChangeStatus, Crash, Step, SubmitCreate, SubmitBundle, Submit, ReadCourse,
    ReadBundle, CheckBundleExisting, VerifyPaymentTransaction, CheckExisting, ReadOwned,
    RunPreEnrollmentChecks, CreatePayment, UpdateStats, RunPostEnrollmentSteps
<1>2. req[r] \in RequestType /\ RequestOK(r) /\ Unspent(r)
  BY DEF TypeOK, PurchaseInv
<1> DEFINE s == req[r].student
           t == req[r].tx
<1>3. CASE CreateEnrollment(r)
  <2>1. /\ s \in Students /\ t \in Txs /\ req[r].wanted \in SUBSET Courses
        /\ WriteRows(s, req[r].wanted, t) /\ \A c \in req[r].wanted : ~Enrolled(s, c)
        /\ \A p \in Students \X Courses : enrollments[p] # t
    BY <1>2, <1>3 DEF CreateEnrollment, TypeOK, RequestType, Unspent
  <2> QED
    BY <2>1, WritingBuys DEF Sales!Next
<1>4. CASE CommitBundle(r)
  <2>1. /\ s \in Students /\ t \in Txs /\ NewRows(r) \in SUBSET Courses
        /\ WriteRows(s, NewRows(r), t) /\ \A c \in NewRows(r) : ~Enrolled(s, c)
        /\ payments[t] = None
    BY <1>2, <1>4 DEF CommitBundle, TypeOK, RequestType, NewRows, TxTaken
  <2>2. \A p \in Students \X Courses : enrollments[p] # t
    BY <2>1, UnpaidUnused
  <2> QED
    BY <2>1, <2>2, WritingBuys DEF Sales!Next
<1> QED
  BY <1>1, <1>3, <1>4

\* Enrolment and bundles implement Purchases, the abstract promise about money:
\* each step either leaves what was sold alone or sells, for a transaction that
\* bought nothing, courses the student does not have.
THEOREM Implements == Spec => ImplementsPurchases
<1>1. Init => Sales!Init
  BY ConstantsAssumption DEF Init, Sales!Init
<1>2. TypeOK /\ PurchaseInv /\ [Next]_vars => [Sales!Next]_([t \in Txs |-> {p \in Students \X Courses : enrollments[p] = t}])
  BY StepSells
<1> QED
  BY <1>1, <1>2, PurchaseInvariant, PTL DEF Spec, ImplementsPurchases, Sales!Spec

------------------------------------------------------------------------------
(***************************************************************************)
(* Assignments.  As long as requests do not overlap, a review is of the    *)
(* work in the row, because its own request is the only one under way.     *)
(***************************************************************************)
WorkInTurn ==
  /\ \A p, q \in Requests : p # q => x6[p] = Work!Idle \/ x6[q] = Work!Idle
  /\ \A r \in Requests : x6[r].pc = "review" => x6[r].version = x2
  /\ x1 \in {"APPROVED", "REJECTED"} => x3 = x2
WorkInv == Work!TypeOK /\ (x7 = FALSE => WorkInTurn)

WorkTask == [pc : {"idle", "upsert", "review"}, version : 0 .. MaxTries]

LEMMA WorkInitially == Work!Init => WorkInv
<1> SUFFICES ASSUME Work!Init PROVE WorkInv
  OBVIOUS
<1>1. MaxTries \in Nat
  BY StudentAssumption DEF Work!ConstantsAssumption
<1>2. x6 \in [Requests -> WorkTask]
  BY <1>1 DEF Work!Init, Work!Idle, WorkTask
<1>3. x4 \in BOOLEAN /\ x7 \in BOOLEAN
  BY Zenon DEF Work!Init
<1> QED BY <1>1, <1>2, <1>3 DEF Work!Init, Work!Idle, Work!TypeOK, WorkTask, WorkInv, WorkInTurn

LEMMA WorkInductive == WorkInv /\ [Work!Next]_(Work!vars) => WorkInv'
<1> SUFFICES ASSUME WorkInv, [Work!Next]_(Work!vars) PROVE WorkInv'
  OBVIOUS
<1>a. /\ MaxTries \in Nat
      /\ x1 \in {"none", "SUBMITTED", "APPROVED", "REJECTED"}
      /\ x2 \in 0 .. MaxTries /\ x3 \in 0 .. MaxTries /\ x5 \in 0 .. MaxTries
      /\ x6 \in [Requests -> WorkTask]
  BY StudentAssumption DEF Work!ConstantsAssumption, WorkInv, Work!TypeOK, WorkTask
<1>b. x4 \in BOOLEAN /\ x7 \in BOOLEAN
  BY Zenon DEF WorkInv, Work!TypeOK
<1>c. Work!Idle \in WorkTask
  BY <1>a DEF Work!Idle, WorkTask
<1>d. x7 = FALSE => WorkInTurn
  BY DEF WorkInv
<1>1. ASSUME NEW r \in Requests, Work!StartSubmit(r) PROVE WorkInv'
  <2> DEFINE new == [pc |-> "upsert", version |-> x5 + 1]
  <2>1. new \in WorkTask /\ x5 + 1 \in 0 .. MaxTries
    BY <1>1, <1>a DEF Work!StartSubmit, WorkTask
  <2>2. x6' = [x6 EXCEPT ![r] = new] /\ UNCHANGED <<x1, x2, x3, x4>> /\ x5' = x5 + 1
    BY <1>1 DEF Work!StartSubmit, Work!Begin
  <2>3. x7' \in BOOLEAN
    BY <1>1, <1>b, Zenon DEF Work!StartSubmit, Work!Begin
  <2>4. x7' = FALSE => x7 = FALSE /\ \A o \in Requests \ {r} : x6[o] = Work!Idle
    BY <1>1, <1>b, Zenon DEF Work!StartSubmit, Work!Begin
  <2>5. x7' = FALSE => WorkInTurn'
    BY <2>2, <2>4, <1>d, <1>a DEF WorkInTurn
  <2> QED BY <2>1, <2>2, <2>3, <2>5, <1>a, <1>b DEF WorkInv, Work!TypeOK, WorkTask
<1>2. ASSUME NEW r \in Requests, Work!Submit(r) PROVE WorkInv'
  <2>1. x6' = [x6 EXCEPT ![r] = Work!Idle] /\ UNCHANGED <<x3, x4, x5, x7>> /\ x2' = x6[r].version
        /\ x1' = "SUBMITTED" /\ x6[r] # Work!Idle
    BY <1>2 DEF Work!Submit, Work!Finish, Work!AfterHandIn, Work!Idle
  <2>2. x7' = FALSE => WorkInTurn'
    BY <2>1, <1>d, <1>a DEF WorkInTurn, Work!Idle
  <2> QED BY <2>1, <2>2, <1>a, <1>b, <1>c DEF WorkInv, Work!TypeOK, WorkTask
<1>3. ASSUME NEW r \in Requests, Work!StartReview(r) PROVE WorkInv'
  <2> DEFINE new == [pc |-> "review", version |-> x2]
  <2>1. new \in WorkTask
    BY <1>a DEF WorkTask
  <2>2. x6' = [x6 EXCEPT ![r] = new] /\ UNCHANGED <<x1, x2, x3, x4, x5>>
    BY <1>3 DEF Work!StartReview, Work!Begin
  <2>3. x7' \in BOOLEAN
    BY <1>3, <1>b, Zenon DEF Work!StartReview, Work!Begin
  <2>4. x7' = FALSE => x7 = FALSE /\ \A o \in Requests \ {r} : x6[o] = Work!Idle
    BY <1>3, <1>b, Zenon DEF Work!StartReview, Work!Begin
  <2>5. x7' = FALSE => WorkInTurn'
    BY <2>2, <2>4, <1>d, <1>a DEF WorkInTurn
  <2> QED BY <2>1, <2>2, <2>3, <2>5, <1>a, <1>b DEF WorkInv, Work!TypeOK, WorkTask
<1>4. ASSUME NEW r \in Requests, Work!Review(r) PROVE WorkInv'
  <2>1. x6' = [x6 EXCEPT ![r] = Work!Idle] /\ UNCHANGED <<x2, x4, x5, x7>> /\ x3' = x6[r].version
        /\ x1' \in {"APPROVED", "REJECTED"} /\ x6[r].pc = "review"
    BY <1>4 DEF Work!Review, Work!Finish
  <2>2. x7' = FALSE => WorkInTurn'
    BY <2>1, <1>d, <1>a DEF WorkInTurn, Work!Idle
  <2> QED BY <2>1, <2>2, <1>a, <1>b, <1>c DEF WorkInv, Work!TypeOK, WorkTask
<1>5. ASSUME NEW r \in Requests, Work!Abort(r) PROVE WorkInv'
  <2>1. x6' = [x6 EXCEPT ![r] = Work!Idle] /\ UNCHANGED <<x1, x2, x3, x4, x5, x7>>
    BY <1>5 DEF Work!Abort, Work!Finish
  <2>2. x7' = FALSE => WorkInTurn'
    BY <2>1, <1>d, <1>a DEF WorkInTurn, Work!Idle
  <2> QED BY <2>1, <2>2, <1>a, <1>b, <1>c DEF WorkInv, Work!TypeOK, WorkTask
<1>6. CASE Work!Refund
  <2>1. x4' \in BOOLEAN /\ UNCHANGED <<x1, x2, x3, x5, x6, x7>>
    BY <1>6, Zenon DEF Work!Refund
  <2> QED BY <2>1, <1>a, <1>b, <1>d DEF WorkInv, Work!TypeOK, WorkTask, WorkInTurn
<1>7. CASE UNCHANGED Work!vars
  BY <1>7, <1>a, <1>b, <1>d DEF Work!vars, WorkInv, Work!TypeOK, WorkTask, WorkInTurn
<1> QED BY <1>1, <1>2, <1>3, <1>4, <1>5, <1>6, <1>7 DEF Work!Next

LEMMA WorkMeans == WorkInv => Work!TypeOK /\ Work!VerdictMatchesWork
<1> SUFFICES ASSUME WorkInv, ~x7, x1 \in {"APPROVED", "REJECTED"} PROVE x3 = x2
  BY DEF WorkInv, Work!VerdictMatchesWork
<1>1. x7 = FALSE
  BY Zenon DEF WorkInv, Work!TypeOK
<1> QED BY <1>1 DEF WorkInv, WorkInTurn

------------------------------------------------------------------------------
(***************************************************************************)
(* CertificateTemplates: x1 are the rows, x2 the requests, x3 says whether *)
(* two of one template overlapped.  If they did not, what a request has    *)
(* checked of its template still holds when it writes it.                  *)
(***************************************************************************)
TemplatesInTurn ==
  /\ \A p, q \in Requests :
       p # q /\ x2[p].op # "idle" /\ x2[q].op # "idle" => x2[p].of # x2[q].of
  /\ \A r \in Requests :
       /\ x2[r].op # "idle" => x1[x2[r].of].there = TRUE
       /\ x2[r].op = "activate" => x1[x2[r].of].full = TRUE
       /\ x2[r].op = "update" /\ x1[x2[r].of].active = TRUE => x2[r].full = TRUE
  /\ \A t \in Templates : x1[t].active = TRUE => x1[t].full = TRUE
TemplateInv == Template!TypeOK /\ (x3 = FALSE => TemplatesInTurn)

TemplateTask == [op : Template!Ops, of : Templates, category : Categories, full : BOOLEAN]
TemplateTypes == x1 \in [Templates -> Template!Row] /\ x2 \in [Requests -> TemplateTask]

LEMMA TemplateParts ==
  TemplateInv <=> TemplateTypes /\ x3 \in BOOLEAN /\ (x3 = FALSE => TemplatesInTurn)
BY Zenon DEF TemplateInv, Template!TypeOK, TemplateTypes, TemplateTask

LEMMA TemplatePartsNext ==
  TemplateInv' <=> TemplateTypes' /\ (x3 \in BOOLEAN)' /\ (x3' = FALSE => TemplatesInTurn')
BY Zenon DEF TemplateInv, Template!TypeOK, TemplateTypes, TemplateTask

LEMMA TemplateIdle == Template!NoTask \in TemplateTask /\ Template!NoTask.op = "idle"
<1>1. \E t \in Templates : TRUE
  BY StudentAssumption DEF Template!ConstantsAssumption
<1>2. \E c \in Categories : TRUE
  BY StudentAssumption DEF Template!ConstantsAssumption
<1> QED BY <1>1, <1>2 DEF Template!NoTask, Template!Idle, TemplateTask, Template!Ops

LEMMA TemplateInitially == Template!Init => TemplateInv
<1> SUFFICES ASSUME Template!Init PROVE TemplateInv
  OBVIOUS
<1>1. /\ x1 = [t \in Templates |-> [there |-> FALSE, category |-> Template!NoTask.category,
                                    full |-> FALSE, active |-> FALSE]]
      /\ x2 = [r \in Requests |-> Template!NoTask] /\ x3 = FALSE
  BY DEF Template!Init
<1>2. Template!NoTask.category \in Categories
  BY TemplateIdle DEF TemplateTask
<1>3. TemplateTypes
  BY <1>1, <1>2, TemplateIdle DEF TemplateTypes, Template!Row
<1>4. x3 \in BOOLEAN
  BY <1>1
<1>5. TemplatesInTurn
  BY <1>1, TemplateIdle DEF TemplatesInTurn
<1> QED BY <1>3, <1>4, <1>5, TemplateParts

\* A request reads a template and remembers what it is about to do to it.
LEMMA TemplateIsRead ==
  ASSUME TemplateInv, NEW r \in Requests, NEW op \in Template!Ops \ {"idle"},
         NEW t \in Templates, NEW c \in Categories, NEW full \in BOOLEAN,
         Template!Begin(r, op, t, c, full),
         x1[t].there = TRUE, op = "activate" => x1[t].full = TRUE,
         op = "update" /\ x1[t].active = TRUE => full = TRUE
  PROVE  TemplateInv'
<1>1. TemplateTypes /\ x3 \in BOOLEAN /\ (x3 = FALSE => TemplatesInTurn)
  BY TemplateParts
<1> DEFINE new == [op |-> op, of |-> t, category |-> c, full |-> full]
<1>2. new \in TemplateTask /\ new.op = op /\ new.of = t /\ new.full = full
  BY DEF TemplateTask
<1>3. x2' = [x2 EXCEPT ![r] = new] /\ x1' = x1
  BY DEF Template!Begin
<1> HIDE DEF new
<1>4. x2'[r] = new /\ \A o \in Requests : o # r => x2'[o] = x2[o]
  BY <1>1, <1>3 DEF TemplateTypes
<1>5. TemplateTypes'
  BY <1>1, <1>2, <1>3 DEF TemplateTypes
<1>6. x3' \in BOOLEAN /\ (x3' = FALSE => x3 = FALSE /\ ~Template!Busy(t))
  BY <1>1, Zenon DEF Template!Begin
<1>7. x3' = FALSE => TemplatesInTurn'
  <2> SUFFICES ASSUME x3' = FALSE PROVE TemplatesInTurn'
    OBVIOUS
  <2>1. TemplatesInTurn /\ \A o \in Requests : x2[o].op # "idle" => x2[o].of # t
    BY <1>1, <1>6 DEF Template!Busy
  <2> QED BY <2>1, <1>2, <1>3, <1>4 DEF TemplatesInTurn
<1> QED BY <1>5, <1>6, <1>7, TemplatePartsNext

\* Its write changes only its template, whatever the unique index answers, or takes
\* others out of use.
LEMMA TemplateIsWritten ==
  ASSUME TemplateInv, NEW r \in Requests, x2[r].op # "idle",
         NEW table \in [Templates -> Template!Row], Template!Write(r, table),
         x3 = FALSE => (table[x2[r].of].active = TRUE => table[x2[r].of].full = TRUE),
         \A t \in Templates : t # x2[r].of =>
           /\ table[t].there = x1[t].there /\ table[t].full = x1[t].full
           /\ table[t].active = TRUE => x1[t].active = TRUE
  PROVE  TemplateInv'
<1>1. TemplateTypes /\ x3 \in BOOLEAN /\ (x3 = FALSE => TemplatesInTurn)
  BY TemplateParts
<1>2. x2' = [x2 EXCEPT ![r] = Template!NoTask] /\ x3' = x3 /\ (x1' = x1 \/ x1' = table)
  BY DEF Template!Write, Template!Finish
<1>3. x2'[r] = Template!NoTask /\ \A o \in Requests : o # r => x2'[o] = x2[o]
  BY <1>1, <1>2 DEF TemplateTypes
<1>4. TemplateTypes'
  BY <1>1, <1>2, TemplateIdle DEF TemplateTypes
<1>5. x3' = FALSE => TemplatesInTurn'
  <2> SUFFICES ASSUME x3 = FALSE PROVE TemplatesInTurn'
    BY <1>2
  <2>1. TemplatesInTurn
    BY <1>1
  <2>2. \A o \in Requests : x2[o].of \in Templates
    BY <1>1 DEF TemplateTypes, TemplateTask
  <2>3. CASE x1' = x1
    BY <2>1, <2>3, <1>3, TemplateIdle DEF TemplatesInTurn
  <2>4. CASE x1' = table
    <3>1. \A o \in Requests : o # r /\ x2[o].op # "idle" => x2[o].of # x2[r].of
      BY <2>1 DEF TemplatesInTurn
    <3>2. \A t \in Templates : x1'[t].active = TRUE => x1'[t].full = TRUE
      BY <2>1, <2>4 DEF TemplatesInTurn
    <3>3. ASSUME NEW o \in Requests, x2'[o].op # "idle"
          PROVE  /\ x1'[x2'[o].of].there = TRUE
                 /\ x2'[o].op = "activate" => x1'[x2'[o].of].full = TRUE
                 /\ x2'[o].op = "update" /\ x1'[x2'[o].of].active = TRUE => x2'[o].full = TRUE
      <4>1. o # r /\ x2'[o] = x2[o]
        BY <3>3, <1>3, TemplateIdle
      <4>2. x2[o].of \in Templates /\ x2[o].of # x2[r].of
        BY <4>1, <3>1, <3>3, <2>2
      <4> QED BY <4>1, <4>2, <3>3, <2>1, <2>4 DEF TemplatesInTurn
    <3>4. \A p, q \in Requests :
            p # q /\ x2'[p].op # "idle" /\ x2'[q].op # "idle" => x2'[p].of # x2'[q].of
      BY <2>1, <1>3, TemplateIdle DEF TemplatesInTurn
    <3> QED BY <3>2, <3>3, <3>4 DEF TemplatesInTurn
  <2> QED BY <2>3, <2>4, <1>2
<1>6. (x3 \in BOOLEAN)'
  BY <1>1, <1>2
<1> QED BY <1>4, <1>5, <1>6, TemplatePartsNext

\* A row of which two fields are given.
LEMMA RowGiven ==
  ASSUME NEW row \in Template!Row, NEW there \in BOOLEAN, NEW live \in BOOLEAN
  PROVE  /\ [row EXCEPT !.active = live] =
              [there |-> row.there, category |-> row.category, full |-> row.full, active |-> live]
         /\ [[row EXCEPT !.there = there] EXCEPT !.active = live] =
              [there |-> there, category |-> row.category, full |-> row.full, active |-> live]
<1>1. [row EXCEPT !.there = there] =
        [there |-> there, category |-> row.category, full |-> row.full, active |-> row.active]
  BY DEF Template!Row
<1>2. [[there |-> there, category |-> row.category, full |-> row.full, active |-> row.active]
         EXCEPT !.active = live] =
        [there |-> there, category |-> row.category, full |-> row.full, active |-> live]
  OBVIOUS
<1>3. [row EXCEPT !.active = live] =
        [there |-> row.there, category |-> row.category, full |-> row.full, active |-> live]
  BY DEF Template!Row
<1> QED BY <1>1, <1>2, <1>3, Zenon

LEMMA TemplateInductive == TemplateInv /\ [Template!Next]_(Template!vars) => TemplateInv'
<1> SUFFICES ASSUME TemplateInv, [Template!Next]_(Template!vars) PROVE TemplateInv'
  OBVIOUS
<1>a. TemplateTypes /\ x3 \in BOOLEAN /\ (x3 = FALSE => TemplatesInTurn)
  BY TemplateParts
<1>b. \A r \in Requests : x2[r] \in TemplateTask /\ x2[r].of \in Templates
                          /\ x1[x2[r].of] \in Template!Row
  BY <1>a DEF TemplateTypes, TemplateTask
<1>1. ASSUME NEW t \in Templates, Template!Create(t) PROVE TemplateInv'
  <2>1. PICK c \in Categories, full \in BOOLEAN :
          x1' = [x1 EXCEPT ![t] = [there |-> TRUE, category |-> c, full |-> full, active |-> FALSE]]
    BY <1>1 DEF Template!Create
  <2>2. ~x1[t].there /\ x2' = x2 /\ x3' = x3
    BY <1>1 DEF Template!Create
  <2>3. [there |-> TRUE, category |-> c, full |-> full, active |-> FALSE] \in Template!Row
    BY DEF Template!Row
  <2>4. TemplateTypes'
    BY <2>1, <2>2, <2>3, <1>a DEF TemplateTypes
  <2>5. x1'[t].active = FALSE /\ \A u \in Templates : u # t => x1'[u] = x1[u]
    BY <2>1, <1>a DEF TemplateTypes
  <2>6. x3 = FALSE => TemplatesInTurn'
    BY <2>2, <2>5, <1>a, <1>b DEF TemplatesInTurn
  <2> QED BY <2>2, <2>4, <2>6, <1>a, TemplatePartsNext
<1>2. ASSUME NEW r \in Requests, Template!StartUpdate(r) PROVE TemplateInv'
  <2>1. PICK t \in Templates, c \in Categories, full \in BOOLEAN :
          /\ x1[t].there /\ (x1[t].active => full) /\ Template!Begin(r, "update", t, c, full)
    BY <1>2 DEF Template!StartUpdate, Template!MayStore
  <2>2. x1[t] \in Template!Row
    BY <1>a DEF TemplateTypes
  <2>3. x1[t].there = TRUE /\ (x1[t].active = TRUE => full = TRUE)
    BY <2>1, <2>2 DEF Template!Row
  <2> QED BY <2>1, <2>3, TemplateIsRead DEF Template!Ops
<1>3. ASSUME NEW r \in Requests, Template!StartRemove(r) \/ Template!StartDeactivate(r)
      PROVE  TemplateInv'
  <2>1. PICK t \in Templates, op \in {"remove", "deactivate"} :
          x1[t].there /\ Template!Begin(r, op, t, x1[t].category, FALSE)
    BY <1>3 DEF Template!StartRemove, Template!StartDeactivate
  <2>2. x1[t] \in Template!Row
    BY <1>a DEF TemplateTypes
  <2>3. x1[t].there = TRUE /\ x1[t].category \in Categories
    BY <2>1, <2>2 DEF Template!Row
  <2> QED BY <2>1, <2>3, TemplateIsRead DEF Template!Ops
<1>4. ASSUME NEW r \in Requests, Template!StartActivate(r) PROVE TemplateInv'
  <2>1. PICK t \in Templates :
          x1[t].there /\ x1[t].full /\ Template!Begin(r, "activate", t, x1[t].category, TRUE)
    BY <1>4 DEF Template!StartActivate
  <2>2. x1[t] \in Template!Row
    BY <1>a DEF TemplateTypes
  <2>3. x1[t].there = TRUE /\ x1[t].full = TRUE /\ x1[t].category \in Categories
    BY <2>1, <2>2 DEF Template!Row
  <2> QED BY <2>1, <2>3, TemplateIsRead DEF Template!Ops
<1>5. ASSUME NEW r \in Requests, Template!Update(r) PROVE TemplateInv'
  <2> DEFINE t == x2[r].of
             row == [there |-> x1[t].there, category |-> x2[r].category,
                     full |-> x2[r].full, active |-> x1[t].active]
             table == [x1 EXCEPT ![t] = row]
  <2>1. x2[r].op = "update"
    BY <1>5 DEF Template!Update
  <2>2. [x1 EXCEPT ![t].category = x2[r].category, ![t].full = x2[r].full] = table
    <3>1. [x1[t] EXCEPT !.category = x2[r].category]
          = [there |-> x1[t].there, category |-> x2[r].category, full |-> x1[t].full,
             active |-> x1[t].active]
      BY <1>b DEF Template!Row
    <3>2. [[there |-> x1[t].there, category |-> x2[r].category, full |-> x1[t].full,
            active |-> x1[t].active] EXCEPT !.full = x2[r].full] = row
      OBVIOUS
    <3>3. [x1 EXCEPT ![t].category = x2[r].category, ![t].full = x2[r].full]
          = [x1 EXCEPT ![t] = [[x1[t] EXCEPT !.category = x2[r].category] EXCEPT !.full = x2[r].full]]
      BY <1>a, <1>b DEF TemplateTypes
    <3> QED BY <3>1, <3>2, <3>3, Zenon
  <2>3. Template!Write(r, table)
    BY <1>5, <2>2 DEF Template!Update
  <2>4. row \in Template!Row
    BY <1>b DEF TemplateTask, Template!Row
  <2>5. table \in [Templates -> Template!Row] /\ table[t] = row
        /\ \A u \in Templates : u # t => table[u] = x1[u]
    BY <2>4, <1>a, <1>b DEF TemplateTypes
  <2>6. x3 = FALSE => (row.active = TRUE => row.full = TRUE)
    BY <2>1, <1>a DEF TemplatesInTurn
  <2> HIDE DEF table, row
  <2> QED BY <2>1, <2>3, <2>5, <2>6, TemplateIsWritten
<1>6. ASSUME NEW r \in Requests, Template!Remove(r) \/ Template!Deactivate(r) PROVE TemplateInv'
  <2> DEFINE t == x2[r].of
  <2>1. PICK gone \in BOOLEAN :
          Template!Write(r, [x1 EXCEPT ![t] = [there |-> gone, category |-> x1[t].category,
                                               full |-> x1[t].full, active |-> FALSE]])
    <3>1. [x1 EXCEPT ![t].there = FALSE, ![t].active = FALSE]
          = [x1 EXCEPT ![t] = [there |-> FALSE, category |-> x1[t].category,
                               full |-> x1[t].full, active |-> FALSE]]
      <4>1. [[x1[t] EXCEPT !.there = FALSE] EXCEPT !.active = FALSE]
            = [there |-> FALSE, category |-> x1[t].category, full |-> x1[t].full, active |-> FALSE]
        BY <1>b, RowGiven, Zenon
      <4>3. [x1 EXCEPT ![t].there = FALSE, ![t].active = FALSE]
            = [x1 EXCEPT ![t] = [[x1[t] EXCEPT !.there = FALSE] EXCEPT !.active = FALSE]]
        BY <1>a, <1>b DEF TemplateTypes
      <4> QED BY <4>1, <4>3, Zenon
    <3>2. [x1 EXCEPT ![t].active = FALSE]
          = [x1 EXCEPT ![t] = [there |-> x1[t].there, category |-> x1[t].category,
                               full |-> x1[t].full, active |-> FALSE]]
      <4>1. [x1[t] EXCEPT !.active = FALSE]
            = [there |-> x1[t].there, category |-> x1[t].category, full |-> x1[t].full,
               active |-> FALSE]
        BY <1>b, RowGiven, Zenon
      <4>2. [x1 EXCEPT ![t].active = FALSE] = [x1 EXCEPT ![t] = [x1[t] EXCEPT !.active = FALSE]]
        BY <1>a, <1>b DEF TemplateTypes
      <4> QED BY <4>1, <4>2, Zenon
    <3>3. x1[t].there \in BOOLEAN
      BY <1>b DEF Template!Row
    <3> QED BY <1>6, <3>1, <3>2, <3>3 DEF Template!Remove, Template!Deactivate
  <2> DEFINE row == [there |-> gone, category |-> x1[t].category,
                     full |-> x1[t].full, active |-> FALSE]
             table == [x1 EXCEPT ![t] = row]
  <2>2. x2[r].op # "idle"
    BY <1>6 DEF Template!Remove, Template!Deactivate
  <2>3. row \in Template!Row /\ row.active = FALSE
    BY <1>b DEF Template!Row
  <2>4. table \in [Templates -> Template!Row] /\ table[t] = row
        /\ \A u \in Templates : u # t => table[u] = x1[u]
    BY <2>3, <1>a, <1>b DEF TemplateTypes
  <2>5. Template!Write(r, table)
    BY <2>1
  <2> HIDE DEF table, row
  <2> QED BY <2>2, <2>3, <2>4, <2>5, TemplateIsWritten
<1>7. ASSUME NEW r \in Requests, Template!Activate(r) PROVE TemplateInv'
  <2> DEFINE t == x2[r].of
             table == [u \in Templates |->
                         IF u = t THEN [x1[u] EXCEPT !.active = TRUE]
                         ELSE IF LowerCase(x1[u].category) = LowerCase(x2[r].category)
                                THEN [x1[u] EXCEPT !.active = FALSE]
                         ELSE x1[u]]
  <2>1. x2[r].op = "activate" /\ Template!Write(r, table)
    BY <1>7 DEF Template!Activate
  <2>2. \A u \in Templates : x1[u] \in Template!Row
    BY <1>a DEF TemplateTypes
  <2>3. \A u \in Templates :
          /\ table[u] \in Template!Row
          /\ table[u].there = x1[u].there /\ table[u].full = x1[u].full
          /\ u # t => (table[u].active = TRUE => x1[u].active = TRUE)
    BY <2>2 DEF Template!Row
  <2>4. table \in [Templates -> Template!Row]
    BY <2>3
  <2>5. x3 = FALSE => x1[t].full = TRUE
    BY <2>1, <1>a DEF TemplatesInTurn
  <2>6. x3 = FALSE => table[t].full = TRUE
    BY <2>3, <2>5, <1>b
  <2> HIDE DEF table
  <2> QED BY <2>1, <2>3, <2>4, <2>6, TemplateIsWritten
<1>8. CASE UNCHANGED Template!vars
  BY <1>8, <1>a, TemplatePartsNext DEF Template!vars, TemplateTypes, TemplatesInTurn
<1> QED BY <1>1, <1>2, <1>3, <1>4, <1>5, <1>6, <1>7, <1>8 DEF Template!Next

LEMMA TemplateMeans == TemplateInv => Template!TypeOK /\ Template!ActiveIsComplete
<1> SUFFICES ASSUME TemplateInv, ~x3, NEW t \in Templates, x1[t].active PROVE x1[t].full
  BY DEF TemplateInv, Template!ActiveIsComplete
<1>1. x3 = FALSE
  BY TemplateParts, Zenon
<1>2. x1[t] \in Template!Row
  BY TemplateParts DEF TemplateTypes
<1>3. x1[t].active = TRUE => x1[t].full = TRUE
  BY <1>1, TemplateParts DEF TemplatesInTurn
<1> QED BY <1>2, <1>3 DEF Template!Row

------------------------------------------------------------------------------
(***************************************************************************)
(* Grading: x1 is the question, x2 the edits under way, x3 says whether    *)
(* two overlapped.  If they did not, the row an edit validated is the one  *)
(* it leaves.                                                              *)
(***************************************************************************)
KeyTypes == x1 \in Key!Questions \union {None} /\ x2 \in [Requests -> Key!Edits \union {None}]
EditsNeedQuestion == x1 = None => \A e \in Requests : x2[e] = None
EditsInTurn ==
  /\ \A e, f \in Requests : e # f => x2[e] = None \/ x2[f] = None
  /\ \A e \in Requests : x2[e] # None => Key!Valid(Key!Merge(x1, x2[e]))
  /\ x1 # None => Key!Valid(x1)
KeyInv == KeyTypes /\ x3 \in BOOLEAN /\ EditsNeedQuestion /\ (x3 = FALSE => EditsInTurn)

LEMMA KeyConstants == AnswerKeys \subseteq Seq(STRING) /\ ~(None \in Key!Questions)
<1>1. Key!ConstantsAssumption
  BY StudentAssumption, Zenon
<1> QED BY <1>1, Zenon DEF Key!ConstantsAssumption

LEMMA KeyInitially == Key!Init => KeyInv
<1> SUFFICES ASSUME Key!Init PROVE KeyInv
  OBVIOUS
<1>1. x1 = None /\ x2 = [e \in Requests |-> None] /\ x3 = FALSE
  BY DEF Key!Init
<1> QED BY <1>1 DEF KeyInv, KeyTypes, EditsNeedQuestion, EditsInTurn

LEMMA MergeIsQuestion ==
  ASSUME NEW q \in Key!Questions, NEW fields \in Key!Edits
  PROVE  Key!Merge(q, fields) \in Key!Questions
<1>1. /\ q.type \in Key!Types /\ q.options \in Key!OptionCounts /\ q.key \in AnswerKeys
      /\ fields.type \in Key!Types \union {Keep}
      /\ fields.options \in Key!OptionCounts \union {3}
      /\ fields.key \in AnswerKeys \union {<<Keep>>}
  BY DEF Key!Questions, Key!Edits
<1>2. Key!Given(q.type, fields.type) \in Key!Types
  BY <1>1 DEF Key!Given
<1>3. (IF fields.options = 3 THEN q.options ELSE fields.options) \in Key!OptionCounts
  BY <1>1
<1>4. (IF fields.key = <<Keep>> THEN q.key ELSE fields.key) \in AnswerKeys
  BY <1>1
<1> QED BY <1>2, <1>3, <1>4, Zenon DEF Key!Merge, Key!Questions

LEMMA KeyInductive == KeyInv /\ [Key!Next]_(Key!vars) => KeyInv'
<1> SUFFICES ASSUME KeyInv, [Key!Next]_(Key!vars) PROVE KeyInv'
  OBVIOUS
<1>1. KeyTypes /\ x3 \in BOOLEAN /\ EditsNeedQuestion /\ (x3 = FALSE => EditsInTurn)
  BY DEF KeyInv
<1>2. ASSUME Key!CreateQuestion PROVE KeyInv'
  <2>1. PICK q \in Key!Questions : Key!Valid(q) /\ x1' = q
    BY <1>2 DEF Key!CreateQuestion
  <2>2. x1 = None /\ x2' = x2 /\ x3' = x3
    BY <1>2 DEF Key!CreateQuestion
  <2>3. \A e \in Requests : x2'[e] = None
    BY <1>1, <2>2 DEF EditsNeedQuestion
  <2> QED BY <1>1, <2>1, <2>2, <2>3 DEF KeyInv, KeyTypes, EditsNeedQuestion, EditsInTurn
<1>3. ASSUME Key!DeleteQuestion PROVE KeyInv'
  <2>1. x1' = None /\ x2' = [e \in Requests |-> None] /\ x3' = x3
    BY <1>3 DEF Key!DeleteQuestion
  <2> QED BY <1>1, <2>1 DEF KeyInv, KeyTypes, EditsNeedQuestion, EditsInTurn
<1>4. ASSUME NEW e \in Requests, Key!StartUpdate(e) PROVE KeyInv'
  <2>1. PICK fields \in Key!Edits :
          Key!Valid(Key!Merge(x1, fields)) /\ x2' = [x2 EXCEPT ![e] = fields]
    BY <1>4 DEF Key!StartUpdate
  <2>2. x2[e] = None /\ x1 # None /\ x1' = x1
        /\ x3' = (x3 \/ \E o \in Requests \ {e} : x2[o] # None)
    BY <1>4, Zenon DEF Key!StartUpdate
  <2>3. x3' \in BOOLEAN /\ (x3' = FALSE => x3 = FALSE /\ \A o \in Requests \ {e} : x2[o] = None)
    BY <1>1, <2>2, Zenon
  <2>4. x2'[e] = fields /\ \A o \in Requests : o # e => x2'[o] = x2[o]
    BY <1>1, <2>1 DEF KeyTypes
  <2>5. KeyTypes' /\ EditsNeedQuestion'
    BY <1>1, <2>1, <2>2 DEF KeyTypes, EditsNeedQuestion
  <2>6. x3' = FALSE => EditsInTurn'
    BY <1>1, <2>1, <2>2, <2>3, <2>4 DEF EditsInTurn
  <2> QED BY <2>3, <2>5, <2>6 DEF KeyInv
<1>5. ASSUME NEW e \in Requests, Key!UpdateQuestion(e) PROVE KeyInv'
  <2>1. /\ x2[e] # None /\ x1' = Key!Merge(x1, x2[e]) /\ x2' = [x2 EXCEPT ![e] = None]
        /\ x3' = x3
    BY <1>5 DEF Key!UpdateQuestion
  <2>2. x1 \in Key!Questions /\ x2[e] \in Key!Edits
    BY <1>1, <2>1 DEF KeyTypes, EditsNeedQuestion
  <2>3. x1' \in Key!Questions /\ x1' # None
    BY <2>1, <2>2, MergeIsQuestion, KeyConstants
  <2>4. x2'[e] = None /\ \A o \in Requests : o # e => x2'[o] = x2[o]
    BY <1>1, <2>1 DEF KeyTypes
  <2>5. KeyTypes' /\ EditsNeedQuestion'
    BY <1>1, <2>1, <2>3 DEF KeyTypes, EditsNeedQuestion
  <2>6. x3' = FALSE => EditsInTurn'
    BY <1>1, <2>1, <2>4 DEF EditsInTurn
  <2> QED BY <1>1, <2>1, <2>5, <2>6 DEF KeyInv
<1>6. ASSUME UNCHANGED Key!vars PROVE KeyInv'
  <2>1. x1' = x1 /\ x2' = x2 /\ x3' = x3
    BY <1>6 DEF Key!vars
  <2> QED BY <1>1, <2>1 DEF KeyInv, KeyTypes, EditsNeedQuestion, EditsInTurn
<1> QED BY <1>2, <1>3, <1>4, <1>5, <1>6 DEF Key!Next

LEMMA KeyCardinality == \A S : Key!Cardinality(S) = Cardinality(S)
BY Zenon DEF Key!Cardinality, Cardinality

\* A reordering takes as many entries of each kind from the key as it has.
LEMMA Reordered ==
  ASSUME NEW n \in Nat, NEW p \in [1 .. n -> 1 .. n],
         \A i, j \in 1 .. n : p[i] = p[j] => i = j, NEW B \in SUBSET (1 .. n)
  PROVE  Key!Cardinality({i \in 1 .. n : p[i] \in B}) = Key!Cardinality(B)
<1> DEFINE A == {i \in 1 .. n : p[i] \in B}
           g == [i \in A |-> p[i]]
<1>1. IsFiniteSet(1 .. n)
  BY FS_Interval
<1>2. p \in Injection(1 .. n, 1 .. n)
  BY DEF Injection, IsInjective
<1>3. p \in Surjection(1 .. n, 1 .. n)
  BY <1>1, <1>2, FS_Injection
<1>4. \A j \in B : \E i \in A : p[i] = j
  BY <1>3 DEF Surjection
<1>5. g \in Bijection(A, B)
  BY <1>4 DEF Bijection, Injection, IsInjective, Surjection
<1>6. IsFiniteSet(A)
  BY <1>1, FS_Subset
<1> HIDE DEF A, g
<1>7. ExistsBijection(A, B)
  BY <1>5 DEF ExistsBijection
<1>8. Cardinality(B) = Cardinality(A)
  BY <1>6, <1>7, FS_Bijection
<1> QED BY <1>8, KeyCardinality, Zenon DEF A

\* A valid key, in any order, is a right answer.
LEMMA KeyIsRight ==
  ASSUME NEW q \in Key!Questions, Key!Valid(q), NEW s \in Key!Reorderings(q.key)
  PROVE  Key!EvaluateAnswer(q.type, s, q.key)
<1> DEFINE key == q.key
           n == Len(key)
<1>1. key \in Seq(STRING) /\ q.type \in Key!Types
  BY KeyConstants DEF Key!Questions
<1>2. n \in Nat /\ DOMAIN key = 1 .. n
  BY <1>1
<1>3. PICK p \in [1 .. n -> 1 .. n] :
        (\A i, j \in 1 .. n : p[i] = p[j] => i = j) /\ s = [i \in 1 .. n |-> key[p[i]]]
  BY <1>2 DEF Key!Reorderings
<1>4. n # 0
  BY <1>1 DEF Key!Valid
<1>5. s \in Seq(STRING) /\ Len(s) = n
  BY <1>1, <1>2, <1>3
<1>6. s # <<>> /\ 1 \in 1 .. n /\ DOMAIN s = 1 .. n
  BY <1>2, <1>3, <1>4, <1>5
<1>7. CASE q.type = "SINGLE_CHOICE"
  <2>1. n = 1 /\ Key!InBounds(key[1], q.options)
    BY <1>2, <1>6, <1>7 DEF Key!Valid, Key!IsChoice
  <2>2. s[1] = key[1]
    BY <1>3, <2>1
  <2>3. Key!SameNumber(key[1], key[1])
    BY <2>1 DEF Key!InBounds, Key!SameNumber, Key!IndexOf, Key!Numbers
  <2> HIDE DEF key, n
  <2> QED BY <1>5, <1>6, <1>7, <2>1, <2>2, <2>3 DEF Key!EvaluateAnswer, key, n
<1>8. CASE q.type = "MULTIPLE_CHOICE"
  <2>1. \A i \in 1 .. n : key[i] \in Key!Numbers
    BY <1>2, <1>8 DEF Key!Valid, Key!IsChoice, Key!InBounds
  <2>2. \A i \in 1 .. n : s[i] = key[p[i]] /\ s[i] \in DOMAIN Key!IndexOf
    BY <1>3, <2>1 DEF Key!IndexOf, Key!Numbers
  <2>3. ASSUME NEW t PROVE Key!Occurrences(t, s) = Key!Occurrences(t, key)
    <3> DEFINE B == {j \in 1 .. n : Key!SameNumber(key[j], t)}
    <3>1. {i \in 1 .. n : Key!SameNumber(s[i], t)} = {i \in 1 .. n : p[i] \in B}
      BY <1>3, <2>2
    <3>2. B \in SUBSET (1 .. n)
      OBVIOUS
    <3> HIDE DEF B
    <3>3. Key!Cardinality({i \in 1 .. n : p[i] \in B}) = Key!Cardinality(B)
      BY <1>2, <1>3, <3>2, Reordered
    <3> QED BY <1>2, <1>6, <3>1, <3>3, Zenon DEF Key!Occurrences, B
  <2>4. Key!SameBag(s, key)
    BY <1>5, <1>6, <2>2, <2>3 DEF Key!SameBag
  <2> QED BY <1>6, <1>8, <2>4 DEF Key!EvaluateAnswer
<1>9. CASE q.type = "TRUE_FALSE"
  <2>1. n = 1
    BY <1>9 DEF Key!Valid
  <2>2. s[1] = key[1]
    BY <1>3, <2>1
  <2> HIDE DEF key, n
  <2> QED BY <1>5, <1>6, <1>9, <2>1, <2>2 DEF Key!EvaluateAnswer, key, n
<1>10. CASE q.type = "SHORT_ANSWER"
  <2>1. p[1] \in DOMAIN key /\ s[1] = key[p[1]]
    BY <1>2, <1>3, <1>6
  <2> HIDE DEF key, n
  <2> QED BY <1>6, <1>10, <2>1 DEF Key!EvaluateAnswer, key
<1> QED BY <1>1, <1>7, <1>8, <1>9, <1>10 DEF Key!Types

LEMMA KeyMeans == KeyInv => Key!TypeOK /\ Key!KeyEarnsFullMarks
<1> SUFFICES ASSUME KeyInv PROVE Key!TypeOK /\ Key!KeyEarnsFullMarks
  OBVIOUS
<1>1. Key!TypeOK
  BY Zenon DEF KeyInv, KeyTypes, Key!TypeOK
<1>2. Key!ScorePercentage(1, 1) = 10000
  BY DEF Key!ScorePercentage
<1>3. Key!KeyEarnsFullMarks
  <2> DEFINE marks(s) ==
        Key!ScorePercentage(IF Key!EvaluateAnswer(x1.type, s, x1.key) THEN 1 ELSE 0, 1)
  <2>1. ASSUME ~x3, x1 # None, NEW s \in Key!Reorderings(x1.key) PROVE marks(s) = 10000
    <3>1. x3 = FALSE
      BY <2>1, Zenon DEF KeyInv
    <3>2. x1 \in Key!Questions /\ Key!Valid(x1)
      BY <2>1, <3>1 DEF KeyInv, KeyTypes, EditsInTurn
    <3>3. Key!EvaluateAnswer(x1.type, s, x1.key)
      BY <2>1, <3>2, KeyIsRight
    <3>4. (IF Key!EvaluateAnswer(x1.type, s, x1.key) THEN 1 ELSE 0) = 1
      BY <3>3
    <3> QED BY <1>2, <3>4
  <2> QED BY <2>1 DEF Key!KeyEarnsFullMarks
<1> QED BY <1>1, <1>3

------------------------------------------------------------------------------
(***************************************************************************)
(* Certification.  x1 says whether there is an exam, x2 are the attempts,  *)
(* x4 is the lock, x8 the certificate, x9 whether the exam was waived, x10 *)
(* the requests.                                                           *)
(***************************************************************************)
ExamPassed == \E i \in 1 .. Len(x2) : x2[i].passed = TRUE
Unearned == x9 = FALSE /\ (x1 = FALSE \/ ~ExamPassed)

\* Whoever is about to record an attempt holds the lock, and knows that no attempt
\* of those in the table was passed.
LockHeld == \A r \in Requests : x10[r].pc \in {"eligible", "record"} => x4 = r
AttemptsInTurn ==
  /\ \A i \in 1 .. Len(x2) : (x2[i].passed = TRUE => i = Len(x2)) /\ x2[i].blind = FALSE
  /\ \A r \in Requests : x10[r].pc = "record" => x10[r].seen = Len(x2) /\ ~ExamPassed
ExamInTurn == LockHeld /\ AttemptsInTurn

\* Whoever is about to create the certificate has found the exam passed, or none;
\* what was passed cannot be deleted.
CertificateInv ==
  /\ x8.state = "none" => x8.tx = FALSE /\ x8.shared = FALSE
  /\ x8.state # "none" => x9 = TRUE \/ (ExamPassed /\ x1 = TRUE)
  /\ \A r \in Requests :
       /\ x10[r].pc \in {"existing", "create"} => x10[r].waive = TRUE \/ (ExamPassed /\ x1 = TRUE)
       /\ x10[r].pc \in {"render", "save", "revoke", "share"} => x8.state # "none"
ExamInv == Exam!TypeOK /\ ExamInTurn /\ CertificateInv

Attempt == [passed : BOOLEAN, blind : BOOLEAN]
ExamTask == [pc : {"idle", "lock", "eligible", "record", "delete", "exam", "existing",
                   "create", "render", "save", "revoke", "share"},
             seen : 0 .. MaxTries, waive : BOOLEAN]
Certificate == [state : {"none", "issued", "revoked"}, pdf : BOOLEAN,
                tx : BOOLEAN, shared : BOOLEAN]
ExamTypes ==
  /\ x1 \in BOOLEAN /\ x3 \in BOOLEAN /\ x6 \in BOOLEAN /\ x7 \in BOOLEAN /\ x9 \in BOOLEAN
ExamRows ==
  /\ x2 \in Seq(Attempt) /\ Len(x2) <= MaxTries
  /\ x4 \in Requests \union {None}
  /\ x5 \in {"ACTIVE", "COMPLETED", "REFUNDED"}
  /\ x8 \in Certificate
ExamTasks == x10 \in [Requests -> ExamTask]

LEMMA ExamParts == Exam!TypeOK <=> ExamTypes /\ ExamRows /\ ExamTasks
<1>1. {x1, x3, x6, x7, x9} \subseteq BOOLEAN <=> ExamTypes
  BY Zenon DEF ExamTypes
<1> QED BY <1>1, Zenon DEF Exam!TypeOK, ExamRows, ExamTasks, Attempt, ExamTask, Certificate

LEMMA ExamPartsNext == Exam!TypeOK' <=> ExamTypes' /\ ExamRows' /\ ExamTasks'
<1>1. ({x1, x3, x6, x7, x9} \subseteq BOOLEAN)' <=> ExamTypes'
  BY Zenon DEF ExamTypes
<1> QED BY <1>1, Zenon DEF Exam!TypeOK, ExamRows, ExamTasks, Attempt, ExamTask, Certificate

LEMMA ExamAssumption == MaxTries \in Nat /\ None \notin Requests
BY StudentAssumption DEF Exam!ConstantsAssumption

LEMMA ExamInitially == Exam!Init => ExamInv
<1> SUFFICES ASSUME Exam!Init PROVE ExamInv
  OBVIOUS
<1>1. ExamTypes
  BY Zenon DEF Exam!Init, ExamTypes
<1>2. x2 = <<>> /\ x4 = None /\ x5 = "ACTIVE"
      /\ x8 = [state |-> "none", pdf |-> FALSE, tx |-> FALSE, shared |-> FALSE]
      /\ x10 = [r \in Requests |-> [pc |-> "idle", seen |-> 0, waive |-> FALSE]]
  BY DEF Exam!Init, Exam!Idle
<1>3. ExamRows
  BY <1>2, ExamAssumption DEF ExamRows, Certificate
<1>4. ExamTasks
  BY <1>2, ExamAssumption DEF ExamTasks, ExamTask
<1>5. ExamInTurn
  BY <1>2 DEF ExamInTurn, LockHeld, AttemptsInTurn
<1>6. CertificateInv
  BY <1>2 DEF CertificateInv
<1> QED BY <1>1, <1>3, <1>4, <1>5, <1>6, ExamParts DEF ExamInv

\* A request moves to new, whose step need not be one of the exam.
LEMMA ExamMoves ==
  ASSUME ExamTasks, NEW r \in Requests, NEW new \in ExamTask, x10' = [x10 EXCEPT ![r] = new]
  PROVE  ExamTasks' /\ x10'[r] = new /\ \A o \in Requests : o # r => x10'[o] = x10[o]
BY DEF ExamTasks

LEMMA ExamIdle == Exam!Idle \in ExamTask /\ Exam!Idle.pc = "idle"
BY ExamAssumption DEF Exam!Idle, ExamTask

LEMMA ExamFinish ==
  ASSUME ExamTasks, NEW r \in Requests, Exam!Finish(r)
  PROVE  ExamTasks' /\ x10'[r].pc = "idle" /\ \A o \in Requests : o # r => x10'[o] = x10[o]
<1>1. x10' = [x10 EXCEPT ![r] = Exam!Idle]
  BY DEF Exam!Finish
<1> QED BY <1>1, ExamIdle, ExamMoves

LEMMA ExamGoto ==
  ASSUME ExamTasks, NEW r \in Requests,
         NEW pc \in {"lock", "eligible", "delete", "exam", "create", "render", "save", "revoke",
                     "share"},
         Exam!Goto(r, pc)
  PROVE  /\ ExamTasks' /\ x10'[r].pc = pc /\ x10'[r].waive = x10[r].waive
         /\ \A o \in Requests : o # r => x10'[o] = x10[o]
<1> DEFINE new == [x10[r] EXCEPT !.pc = pc]
<1>1. x10[r] \in ExamTask
  BY DEF ExamTasks
<1>2. new \in ExamTask /\ new.pc = pc /\ new.waive = x10[r].waive
  BY <1>1 DEF ExamTask
<1>3. x10' = [x10 EXCEPT ![r] = new]
  BY DEF Exam!Goto, ExamTasks
<1> HIDE DEF new
<1> QED BY <1>2, <1>3, ExamMoves

LEMMA ExamBegin ==
  ASSUME ExamTasks, NEW r \in Requests,
         NEW pc \in {"lock", "delete", "exam", "render", "revoke", "share"}, Exam!Begin(r, pc)
  PROVE  /\ ExamTasks' /\ x10'[r].pc = pc
         /\ \A o \in Requests : o # r => x10'[o] = x10[o]
<1>1. Exam!Goto(r, pc)
  BY DEF Exam!Begin, Exam!Goto
<1> QED BY <1>1, ExamGoto

\* A step that leaves the rows alone, and puts a request where it holds nothing.
LEMMA ExamQuiet ==
  ASSUME ExamInv, UNCHANGED <<x1, x2, x8, x9>>, NEW r \in Requests, ExamTasks',
         \A o \in Requests : o # r => x10'[o] = x10[o],
         x10'[r].pc \in {"idle", "lock", "delete", "exam", "render", "save", "revoke", "share"},
         x10'[r].pc \in {"render", "save", "revoke", "share"} => x8.state # "none",
         x4' = x4 \/ (x4 = r)
  PROVE  LockHeld' /\ AttemptsInTurn' /\ CertificateInv'
<1>1. UNCHANGED ExamPassed
  BY DEF ExamPassed
<1>2. LockHeld'
  BY DEF ExamInv, ExamInTurn, LockHeld
<1>3. AttemptsInTurn'
  BY <1>1 DEF ExamInv, ExamInTurn, AttemptsInTurn
<1>4. CertificateInv'
  BY <1>1, Zenon DEF ExamInv, CertificateInv
<1> QED BY <1>2, <1>3, <1>4
\* The steps of a request of the exam or of the certificate that only move it on.
ExamReads(r) ==
  \/ Exam!StartSubmit(r) \/ Exam!NotEligible(r) \/ Exam!StartDeleteExam(r) \/ Exam!StartIssue(r)
  \/ Exam!Download(r) \/ Exam!RenderPdf(r) \/ Exam!StartRevoke(r) \/ Exam!StartShare(r)
  \/ Exam!Abort(r)

LEMMA ExamReadsKeep ==
  ASSUME ExamInv, NEW r \in Requests, ExamReads(r)
  PROVE  ExamInv'
<1>1. ExamTypes /\ ExamRows /\ ExamTasks
  BY ExamParts DEF ExamInv
<1>2. /\ UNCHANGED <<x1, x2, x3, x5, x6, x7, x8, x9>>
      /\ x4' = x4 \/ (x4' = None /\ x4 = r)
  <2>1. CASE Exam!NotEligible(r)
    BY <2>1 DEF Exam!NotEligible, Exam!At, Exam!courseVars, ExamInv, ExamInTurn, LockHeld
  <2>2. CASE Exam!Abort(r)
    BY <2>2 DEF Exam!Abort, Exam!courseVars
  <2> QED BY <2>1, <2>2 DEF ExamReads, Exam!StartSubmit, Exam!StartDeleteExam, Exam!StartIssue,
             Exam!Download, Exam!RenderPdf, Exam!StartRevoke, Exam!StartShare, Exam!examVars,
             Exam!courseVars
<1>3. /\ ExamTasks' /\ \A o \in Requests : o # r => x10'[o] = x10[o]
      /\ x10'[r].pc \in {"idle", "lock", "delete", "exam", "render", "save", "revoke", "share"}
      /\ x10'[r].pc \in {"render", "save", "revoke", "share"} => x8.state # "none"
  <2>1. CASE Exam!NotEligible(r) \/ Exam!Abort(r)
    BY <2>1, <1>1, ExamFinish DEF Exam!NotEligible, Exam!Abort
  <2>2. CASE Exam!StartSubmit(r) \/ Exam!StartDeleteExam(r) \/ Exam!StartIssue(r)
    <3>1. Exam!Begin(r, "lock") \/ Exam!Begin(r, "delete") \/ Exam!Begin(r, "exam")
      BY <2>2 DEF Exam!StartSubmit, Exam!StartDeleteExam, Exam!StartIssue
    <3> QED BY <3>1, <1>1, ExamBegin
  <2>3. CASE Exam!Download(r) \/ Exam!StartRevoke(r) \/ Exam!StartShare(r)
    <3>1. /\ Exam!Begin(r, "render") \/ Exam!Begin(r, "revoke") \/ Exam!Begin(r, "share")
          /\ x8.state # "none"
      BY <2>3 DEF Exam!Download, Exam!StartRevoke, Exam!StartShare
    <3> QED BY <3>1, <1>1, ExamBegin
  <2>4. CASE Exam!RenderPdf(r)
    <3>1. (Exam!Goto(r, "save") \/ Exam!Finish(r)) /\ x10[r].pc = "render"
      BY <2>4 DEF Exam!RenderPdf, Exam!At
    <3>2. x8.state # "none"
      BY <3>1 DEF ExamInv, CertificateInv
    <3> QED BY <3>1, <3>2, <1>1, ExamGoto, ExamFinish
  <2> QED BY <2>1, <2>2, <2>3, <2>4 DEF ExamReads
<1>4. LockHeld' /\ AttemptsInTurn' /\ CertificateInv'
  BY <1>2, <1>3, ExamQuiet
<1>5. ExamTypes'
  BY <1>1, <1>2, Zenon DEF ExamTypes
<1>6. ExamRows'
  BY <1>1, <1>2 DEF ExamRows
<1> QED BY <1>3, <1>4, <1>5, <1>6, ExamPartsNext DEF ExamInv, ExamInTurn

\* The steps on the exam itself.
LEMMA ExamIsLocked ==
  ASSUME ExamInv, NEW r \in Requests, Exam!AcquireLock(r)
  PROVE  ExamInv'
<1>1. ExamTypes /\ ExamRows /\ ExamTasks
  BY ExamParts DEF ExamInv
<1>2. x4 = None /\ x4' = r /\ Exam!Goto(r, "eligible")
      /\ UNCHANGED <<x1, x2, x3, x5, x6, x7, x8, x9>>
  BY DEF Exam!AcquireLock, Exam!LockIsFree, Exam!courseVars
<1>3. ExamTasks' /\ x10'[r].pc = "eligible" /\ \A o \in Requests : o # r => x10'[o] = x10[o]
  BY <1>1, <1>2, ExamGoto
<1>4. UNCHANGED ExamPassed
  BY <1>2 DEF ExamPassed
<1>5. LockHeld'
  BY <1>2, <1>3, ExamAssumption DEF ExamInv, ExamInTurn, LockHeld
<1>6. AttemptsInTurn'
  BY <1>2, <1>3, <1>4 DEF ExamInv, ExamInTurn, AttemptsInTurn
<1>7. CertificateInv'
  BY <1>2, <1>3, <1>4, Zenon DEF ExamInv, CertificateInv
<1>8. ExamTypes'
  BY <1>1, <1>2, Zenon DEF ExamTypes
<1>9. ExamRows'
  BY <1>1, <1>2 DEF ExamRows
<1> QED BY <1>3, <1>5, <1>6, <1>7, <1>8, <1>9, ExamPartsNext DEF ExamInv, ExamInTurn

LEMMA ExamIsTaken ==
  ASSUME ExamInv, NEW r \in Requests, Exam!CheckEligibility(r)
  PROVE  ExamInv'
<1>1. ExamTypes /\ ExamRows /\ ExamTasks
  BY ExamParts DEF ExamInv
<1> DEFINE new == [pc |-> "record", seen |-> Len(x2), waive |-> x10[r].waive]
<1>2. /\ x10[r].pc = "eligible" /\ UNCHANGED <<x1, x2, x3, x4, x5, x6, x7, x8, x9>>
      /\ x2 # <<>> => ~x2[Len(x2)].passed
  BY DEF Exam!CheckEligibility, Exam!At, Exam!MayTake, Exam!examVars, Exam!courseVars
<1>3. x10' = [x10 EXCEPT ![r] = new]
  <2>1. x10[r] \in ExamTask /\ x10 \in [Requests -> ExamTask]
    BY <1>1 DEF ExamTasks
  <2>2. x10' = [x10 EXCEPT ![r].pc = "record", ![r].seen = Len(x2)]
    BY DEF Exam!CheckEligibility
  <2>3. x10' = [x10 EXCEPT ![r] = [x10[r] EXCEPT !.pc = "record", !.seen = Len(x2)]]
    BY <2>1, <2>2
  <2>4. [x10[r] EXCEPT !.pc = "record"]
        = [pc |-> "record", seen |-> x10[r].seen, waive |-> x10[r].waive]
    BY <2>1 DEF ExamTask
  <2>5. [[pc |-> "record", seen |-> x10[r].seen, waive |-> x10[r].waive] EXCEPT !.seen = Len(x2)] = new
    OBVIOUS
  <2>6. [x10[r] EXCEPT !.pc = "record", !.seen = Len(x2)]
        = [[x10[r] EXCEPT !.pc = "record"] EXCEPT !.seen = Len(x2)]
    BY <2>1 DEF ExamTask
  <2> QED BY <2>3, <2>4, <2>5, <2>6, Zenon
<1>4. new \in ExamTask
  <2>1. Len(x2) \in 0 .. MaxTries
    BY <1>1, ExamAssumption DEF ExamRows
  <2>2. x10[r].waive \in BOOLEAN
    BY <1>1 DEF ExamTasks, ExamTask
  <2> QED BY <2>1, <2>2 DEF ExamTask
<1>5. new.pc = "record" /\ new.seen = Len(x2)
  OBVIOUS
<1> HIDE DEF new
<1>6. ExamTasks' /\ x10'[r] = new /\ \A o \in Requests : o # r => x10'[o] = x10[o]
  BY <1>1, <1>3, <1>4, ExamMoves
<1>7. ~ExamPassed
  <2> SUFFICES ASSUME NEW i \in 1 .. Len(x2), x2[i].passed = TRUE PROVE FALSE
    BY <1>1 DEF ExamPassed, ExamRows
  <2>1. i = Len(x2) /\ x2 # <<>>
    BY <1>1 DEF ExamInv, ExamInTurn, AttemptsInTurn, ExamRows
  <2> QED BY <2>1, <1>2
<1>8. UNCHANGED ExamPassed
  BY <1>2 DEF ExamPassed
<1>9. LockHeld'
  BY <1>2, <1>6 DEF ExamInv, ExamInTurn, LockHeld
<1>10. AttemptsInTurn'
  BY <1>2, <1>5, <1>6, <1>7, <1>8 DEF ExamInv, ExamInTurn, AttemptsInTurn
<1>11. CertificateInv'
  BY <1>2, <1>5, <1>6, <1>8, Zenon DEF ExamInv, CertificateInv
<1>12. ExamTypes'
  BY <1>1, <1>2, Zenon DEF ExamTypes
<1>13. ExamRows'
  BY <1>1, <1>2 DEF ExamRows
<1> QED BY <1>6, <1>9, <1>10, <1>11, <1>12, <1>13, ExamPartsNext DEF ExamInv, ExamInTurn

LEMMA AttemptIsRecorded ==
  ASSUME ExamInv, NEW r \in Requests, Exam!RecordAttempt(r)
  PROVE  ExamInv'
<1>1. ExamTypes /\ ExamRows /\ ExamTasks
  BY ExamParts DEF ExamInv
<1>2. /\ x10[r].pc = "record" /\ UNCHANGED <<x1, x5, x6, x7, x8, x9>> /\ x4' = None
      /\ Len(x2) < MaxTries /\ Exam!Finish(r) /\ x1 = TRUE
  BY <1>1, Zenon DEF Exam!RecordAttempt, Exam!At, Exam!courseVars, ExamTypes
<1>3. x3' \in BOOLEAN
  BY DEF Exam!RecordAttempt
<1>4. x4 = r /\ x10[r].seen = Len(x2) /\ ~ExamPassed
  BY <1>2 DEF ExamInv, ExamInTurn, LockHeld, AttemptsInTurn
<1>5. PICK passed \in BOOLEAN : x2' = Append(x2, [passed |-> passed, blind |-> FALSE])
  <2>1. PICK passed \in BOOLEAN :
          x2' = Append(x2, [passed |-> passed, blind |-> Len(x2) # x10[r].seen])
    BY DEF Exam!RecordAttempt
  <2>2. (Len(x2) # x10[r].seen) = FALSE
    BY <1>4
  <2> QED BY <2>1, <2>2, Zenon
<1>6. ExamTasks' /\ x10'[r].pc = "idle" /\ \A o \in Requests : o # r => x10'[o] = x10[o]
  BY <1>1, <1>2, ExamFinish
<1> DEFINE row == [passed |-> passed, blind |-> FALSE]
<1>7. row \in Attempt /\ row.blind = FALSE
  BY DEF Attempt
<1> HIDE DEF row
<1>8. /\ x2' \in Seq(Attempt) /\ Len(x2') = Len(x2) + 1 /\ x2'[Len(x2) + 1] = row
      /\ \A i \in 1 .. Len(x2) : x2'[i] = x2[i]
  BY <1>1, <1>5, <1>7 DEF ExamRows, row
<1>9. ExamRows'
  BY <1>1, <1>2, <1>8, ExamAssumption DEF ExamRows
<1>10. LockHeld' /\ \A o \in Requests : x10'[o].pc # "record"
  <2>1. \A o \in Requests : o # r => x10'[o].pc \notin {"eligible", "record"}
    BY <1>4, <1>6 DEF ExamInv, ExamInTurn, LockHeld
  <2> QED BY <2>1, <1>6 DEF LockHeld
<1>11. \A i \in 1 .. Len(x2) : x2[i].passed # TRUE
  BY <1>1, <1>4 DEF ExamPassed, ExamRows
<1>12. AttemptsInTurn'
  <2>1. \A i \in 1 .. Len(x2) : x2[i].blind = FALSE
    BY DEF ExamInv, ExamInTurn, AttemptsInTurn
  <2>2. Len(x2) \in Nat
    BY <1>1 DEF ExamRows
  <2>3. ASSUME NEW i \in 1 .. Len(x2')
        PROVE  (x2'[i].passed = TRUE => i = Len(x2')) /\ x2'[i].blind = FALSE
    <3>1. CASE i = Len(x2) + 1
      BY <3>1, <1>7, <1>8
    <3>2. CASE i \in 1 .. Len(x2)
      BY <3>2, <1>8, <1>11, <2>1
    <3>3. i \in 1 .. Len(x2) + 1
      BY <1>8
    <3>4. i = Len(x2) + 1 \/ i \in 1 .. Len(x2)
      BY <3>3, <2>2
    <3> QED BY <3>1, <3>2, <3>4
  <2> QED BY <2>3, <1>10 DEF AttemptsInTurn
<1>13. CertificateInv'
  BY <1>2, <1>4, <1>6 DEF ExamInv, CertificateInv
<1>14. ExamTypes'
  BY <1>1, <1>2, <1>3, Zenon DEF ExamTypes
<1> QED BY <1>6, <1>9, <1>10, <1>12, <1>13, <1>14, ExamPartsNext DEF ExamInv, ExamInTurn

\* Creating and deleting it: a deletion waits for attempts, and finds them.
LEMMA ExamIsDeleted ==
  ASSUME ExamInv, NEW r \in Requests, Exam!DeleteExam(r)
  PROVE  ExamInv'
<1>1. ExamTypes /\ ExamRows /\ ExamTasks
  BY ExamParts DEF ExamInv
<1>2. UNCHANGED <<x2, x3, x4, x5, x6, x7, x8, x9>> /\ Exam!Finish(r)
  BY DEF Exam!DeleteExam, Exam!courseVars
<1>3. x1' \in BOOLEAN /\ (x1 = TRUE /\ x2 # <<>> => x1' = TRUE)
  BY Zenon DEF Exam!DeleteExam
<1>4. ExamTasks' /\ x10'[r].pc = "idle" /\ \A o \in Requests : o # r => x10'[o] = x10[o]
  BY <1>1, <1>2, ExamFinish
<1>5. ExamPassed => x2 # <<>>
  BY <1>1 DEF ExamPassed, ExamRows
<1>6. UNCHANGED ExamPassed /\ (ExamPassed /\ x1 = TRUE => x1' = TRUE)
  BY <1>2, <1>3, <1>5 DEF ExamPassed
<1>7. LockHeld'
  BY <1>2, <1>4 DEF ExamInv, ExamInTurn, LockHeld
<1>8. AttemptsInTurn'
  BY <1>2, <1>4, <1>6 DEF ExamInv, ExamInTurn, AttemptsInTurn
<1>9. CertificateInv'
  BY <1>2, <1>4, <1>6 DEF ExamInv, CertificateInv
<1>10. ExamTypes'
  BY <1>1, <1>2, <1>3, Zenon DEF ExamTypes
<1>11. ExamRows'
  BY <1>1, <1>2 DEF ExamRows
<1> QED BY <1>4, <1>7, <1>8, <1>9, <1>10, <1>11, ExamPartsNext DEF ExamInv, ExamInTurn

\* The steps of the environment leave the certificate and the requests alone.
LEMMA ExamSurroundings ==
  ASSUME ExamInv,
         \/ Exam!CreateExam \/ Exam!CooldownEnds \/ Exam!CompleteCourse
         \/ Exam!Refund \/ Exam!SwitchTemplate
  PROVE  ExamInv'
<1>1. ExamTypes /\ ExamRows /\ ExamTasks
  BY ExamParts DEF ExamInv
<1>2. UNCHANGED <<x2, x4, x8, x9, x10>>
  BY DEF Exam!CreateExam, Exam!CooldownEnds, Exam!CompleteCourse, Exam!Refund,
         Exam!SwitchTemplate, Exam!examVars, Exam!courseVars
<1>3. x1' = x1 \/ x1' = TRUE
  BY DEF Exam!CreateExam, Exam!CooldownEnds, Exam!CompleteCourse, Exam!Refund,
         Exam!SwitchTemplate, Exam!examVars, Exam!courseVars
<1>4. x5' \in {"ACTIVE", "COMPLETED", "REFUNDED"}
  BY <1>1 DEF Exam!CreateExam, Exam!CooldownEnds, Exam!CompleteCourse, Exam!Refund,
         Exam!SwitchTemplate, Exam!examVars, Exam!courseVars, ExamRows
<1>5. x3' \in BOOLEAN /\ x6' \in BOOLEAN /\ x7' \in BOOLEAN
  <2>1. CASE Exam!CreateExam
    BY <2>1, <1>1, Zenon DEF Exam!CreateExam, Exam!courseVars, ExamTypes
  <2>2. CASE Exam!CooldownEnds
    BY <2>2, <1>1, Zenon DEF Exam!CooldownEnds, Exam!courseVars, ExamTypes
  <2>3. CASE Exam!CompleteCourse
    BY <2>3, <1>1, Zenon DEF Exam!CompleteCourse, Exam!examVars, ExamTypes
  <2>4. CASE Exam!Refund
    BY <2>4, <1>1, Zenon DEF Exam!Refund, Exam!examVars, ExamTypes
  <2>5. CASE Exam!SwitchTemplate
    BY <2>5, <1>1, Zenon DEF Exam!SwitchTemplate, Exam!examVars, ExamTypes
  <2> QED BY <2>1, <2>2, <2>3, <2>4, <2>5
<1>6. ExamTypes'
  BY <1>1, <1>2, <1>3, <1>5, Zenon DEF ExamTypes
<1>7. ExamRows' /\ ExamTasks'
  BY <1>1, <1>2, <1>4 DEF ExamRows, ExamTasks
<1>8. UNCHANGED ExamPassed
  BY <1>2 DEF ExamPassed
<1>9. LockHeld' /\ AttemptsInTurn'
  BY <1>2, <1>8 DEF ExamInv, ExamInTurn, LockHeld, AttemptsInTurn
<1>10. CertificateInv'
  BY <1>2, <1>3, <1>8 DEF ExamInv, CertificateInv
<1> QED BY <1>6, <1>7, <1>9, <1>10, ExamPartsNext DEF ExamInv, ExamInTurn

\* The certificate.  Its checks see an exam passed that stays passed, or none.
LEMMA CertificateIsChecked ==
  ASSUME ExamInv, NEW r \in Requests, Exam!CheckExam(r) \/ Exam!CheckExisting(r)
  PROVE  ExamInv'
<1>1. ExamTypes /\ ExamRows /\ ExamTasks
  BY ExamParts DEF ExamInv
<1>2. UNCHANGED <<x1, x2, x3, x4, x5, x6, x7, x8, x9>>
  BY DEF Exam!CheckExam, Exam!CheckExisting, Exam!examVars, Exam!courseVars
<1>3. /\ ExamTasks' /\ \A o \in Requests : o # r => x10'[o] = x10[o]
      /\ x10'[r].pc \in {"idle", "existing", "create"}
      /\ x10'[r].pc \in {"existing", "create"} =>
           x10'[r].waive = TRUE \/ (ExamPassed /\ x1 = TRUE)
  <2>1. CASE Exam!CheckExam(r) /\ Exam!HasPassedExam
    <3> DEFINE new == [pc |-> "existing", seen |-> x10[r].seen, waive |-> ~x1]
    <3>1. x10[r] \in ExamTask /\ x10 \in [Requests -> ExamTask]
      BY <1>1 DEF ExamTasks
    <3>2. x10' = [x10 EXCEPT ![r] = new]
      <4>1. x10' = [x10 EXCEPT ![r].pc = "existing", ![r].waive = ~x1]
        BY <2>1 DEF Exam!CheckExam
      <4>2. x10' = [x10 EXCEPT ![r] = [[x10[r] EXCEPT !.pc = "existing"] EXCEPT !.waive = ~x1]]
        BY <4>1, <3>1
      <4>3. [x10[r] EXCEPT !.pc = "existing"]
            = [pc |-> "existing", seen |-> x10[r].seen, waive |-> x10[r].waive]
        BY <3>1 DEF ExamTask
      <4>4. [[pc |-> "existing", seen |-> x10[r].seen, waive |-> x10[r].waive] EXCEPT !.waive = ~x1]
            = new
        OBVIOUS
      <4> QED BY <4>2, <4>3, <4>4, Zenon
    <3>3. new \in ExamTask /\ new.pc = "existing" /\ new.waive = ~x1
      BY <3>1, <1>1 DEF ExamTask, ExamTypes
    <3> HIDE DEF new
    <3>4. ExamTasks' /\ x10'[r] = new /\ \A o \in Requests : o # r => x10'[o] = x10[o]
      BY <1>1, <3>2, <3>3, ExamMoves
    <3>5. x1 = FALSE \/ (ExamPassed /\ x1 = TRUE)
      <4>1. Exam!Passed => ExamPassed
        BY <1>1 DEF Exam!Passed, ExamPassed, ExamRows, Attempt
      <4>2. x1 \in BOOLEAN /\ (~x1 \/ Exam!Passed)
        BY <2>1, <1>1, Zenon DEF Exam!HasPassedExam, ExamTypes
      <4> QED BY <4>1, <4>2, Zenon
    <3>6. new.waive = TRUE \/ (ExamPassed /\ x1 = TRUE)
      BY <3>3, <3>5, Zenon
    <3> QED BY <3>3, <3>4, <3>6
  <2>2. CASE Exam!CheckExam(r) /\ ~Exam!HasPassedExam
    BY <2>2, <1>1, ExamFinish DEF Exam!CheckExam
  <2>3. CASE Exam!CheckExisting(r)
    <3>1. (Exam!Goto(r, "create") \/ Exam!Finish(r)) /\ x10[r].pc = "existing"
      BY <2>3 DEF Exam!CheckExisting, Exam!At
    <3>2. x10[r].waive = TRUE \/ (ExamPassed /\ x1 = TRUE)
      BY <3>1 DEF ExamInv, CertificateInv
    <3>3. CASE Exam!Goto(r, "create")
      BY <3>2, <3>3, <1>1, ExamGoto
    <3>4. CASE Exam!Finish(r)
      BY <3>4, <1>1, ExamFinish
    <3> QED BY <3>1, <3>3, <3>4
  <2> QED BY <2>1, <2>2, <2>3
<1>4. UNCHANGED ExamPassed
  BY <1>2 DEF ExamPassed
<1>5. LockHeld'
  BY <1>2, <1>3 DEF ExamInv, ExamInTurn, LockHeld
<1>6. AttemptsInTurn'
  BY <1>2, <1>3, <1>4 DEF ExamInv, ExamInTurn, AttemptsInTurn
<1>7. CertificateInv'
  BY <1>2, <1>3, <1>4 DEF ExamInv, CertificateInv
<1>8. ExamTypes'
  BY <1>1, <1>2, Zenon DEF ExamTypes
<1>9. ExamRows'
  BY <1>1, <1>2 DEF ExamRows
<1> QED BY <1>3, <1>5, <1>6, <1>7, <1>8, <1>9, ExamPartsNext DEF ExamInv, ExamInTurn

\* The rows that are written to the certificate, by its request or by the chain.
LEMMA CertificateKept ==
  ASSUME ExamInv, UNCHANGED <<x1, x2, x3, x4, x5, x6, x7>>, x9' \in BOOLEAN, x8' \in Certificate,
         ExamTasks',
         \/ x10' = x10
         \/ \E r \in Requests :
              /\ \A o \in Requests : o # r => x10'[o] = x10[o]
              /\ x10'[r].pc \in {"idle", "render"}
              /\ x10'[r].pc = "render" => x8'.state # "none",
         x8'.state = "none" => x8'.tx = FALSE /\ x8'.shared = FALSE,
         x8.state # "none" => x8'.state # "none",
         x8'.state # "none" => x9' = TRUE \/ (ExamPassed /\ x1 = TRUE)
  PROVE  ExamInv'
<1>1. ExamTypes /\ ExamRows /\ ExamTasks
  BY ExamParts DEF ExamInv
<1>2. UNCHANGED ExamPassed
  BY DEF ExamPassed
<1>3. ExamTypes'
  BY <1>1, Zenon DEF ExamTypes
<1>4. ExamRows'
  BY <1>1 DEF ExamRows
<1>5. LockHeld' /\ AttemptsInTurn' /\ CertificateInv'
  <2>1. CASE x10' = x10
    BY <2>1, <1>2 DEF ExamInv, ExamInTurn, LockHeld, AttemptsInTurn, CertificateInv
  <2>2. ASSUME NEW r \in Requests, \A o \in Requests : o # r => x10'[o] = x10[o],
               x10'[r].pc \in {"idle", "render"}, x10'[r].pc = "render" => x8'.state # "none"
        PROVE  LockHeld' /\ AttemptsInTurn' /\ CertificateInv'
    <3>1. LockHeld'
      BY <2>2 DEF ExamInv, ExamInTurn, LockHeld
    <3>2. AttemptsInTurn'
      BY <2>2, <1>2 DEF ExamInv, ExamInTurn, AttemptsInTurn
    <3>3. CertificateInv'
      BY <2>2, <1>2 DEF ExamInv, CertificateInv
    <3> QED BY <3>1, <3>2, <3>3
  <2> QED BY <2>1, <2>2
<1> QED BY <1>3, <1>4, <1>5, ExamPartsNext DEF ExamInv, ExamInTurn

LEMMA CertificateIsWritten ==
  ASSUME ExamInv,
         \/ \E r \in Requests : Exam!CreateCertificate(r) \/ Exam!SavePdf(r) \/ Exam!Revoke(r)
                                \/ Exam!GenerateShareLink(r)
         \/ Exam!UpdateTxHash \/ Exam!RevokedOnChain
  PROVE  ExamInv'
<1>1. ExamTypes /\ ExamRows /\ ExamTasks
  BY ExamParts DEF ExamInv
<1>2. x8 \in Certificate /\ x9 \in BOOLEAN
  BY <1>1, Zenon DEF ExamRows, ExamTypes
<1>3. UNCHANGED <<x1, x2, x3, x4, x5, x6, x7>>
  BY DEF Exam!CreateCertificate, Exam!SavePdf, Exam!Revoke, Exam!GenerateShareLink,
         Exam!UpdateTxHash, Exam!RevokedOnChain, Exam!examVars, Exam!courseVars
<1>4. x8.state # "none" => x9 = TRUE \/ (ExamPassed /\ x1 = TRUE)
  BY DEF ExamInv, CertificateInv
<1>5. ASSUME NEW r \in Requests, Exam!CreateCertificate(r), x8.state = "none" PROVE ExamInv'
  <2>1. /\ x8' = [x8 EXCEPT !.state = "issued"] /\ x9' = x10[r].waive
        /\ Exam!Goto(r, "render") /\ x10[r].pc = "create"
    BY <1>5 DEF Exam!CreateCertificate, Exam!At
  <2>2. x10[r].waive = TRUE \/ (ExamPassed /\ x1 = TRUE)
    BY <2>1 DEF ExamInv, CertificateInv
  <2>3. x8' \in Certificate /\ x8'.state = "issued"
    BY <2>1, <1>2 DEF Certificate
  <2>4. x9' \in BOOLEAN
    BY <2>1, <1>1 DEF ExamTasks, ExamTask
  <2>5. ExamTasks' /\ x10'[r].pc = "render" /\ \A o \in Requests : o # r => x10'[o] = x10[o]
    BY <2>1, <1>1, ExamGoto
  <2>6. x9' = TRUE \/ (ExamPassed /\ x1 = TRUE)
    BY <2>1, <2>2
  <2> QED BY <1>3, <2>3, <2>4, <2>5, <2>6, CertificateKept
<1>6. ASSUME NEW r \in Requests, Exam!CreateCertificate(r), x8.state # "none" PROVE ExamInv'
  <2>1. UNCHANGED <<x8, x9>> /\ Exam!Finish(r)
    BY <1>6 DEF Exam!CreateCertificate
  <2>2. ExamTasks' /\ x10'[r].pc = "idle" /\ \A o \in Requests : o # r => x10'[o] = x10[o]
    BY <2>1, <1>1, ExamFinish
  <2> QED BY <2>1, <2>2, <1>2, <1>3, <1>4, <1>6, CertificateKept
<1>7. ASSUME NEW r \in Requests, Exam!SavePdf(r) \/ Exam!Revoke(r) \/ Exam!GenerateShareLink(r)
      PROVE  ExamInv'
  <2>1. /\ x10[r].pc \in {"save", "revoke", "share"} /\ Exam!Finish(r) /\ x9' = x9
        /\ \/ x8' = [x8 EXCEPT !.pdf = TRUE] \/ x8' = [x8 EXCEPT !.state = "revoked"]
           \/ x8' = [x8 EXCEPT !.shared = TRUE]
    BY <1>7 DEF Exam!SavePdf, Exam!Revoke, Exam!GenerateShareLink, Exam!At
  <2>2. x8.state # "none"
    BY <2>1 DEF ExamInv, CertificateInv
  <2>3. x8' \in Certificate /\ x8'.state # "none"
    BY <2>1, <2>2, <1>2 DEF Certificate
  <2>4. ExamTasks' /\ x10'[r].pc = "idle" /\ \A o \in Requests : o # r => x10'[o] = x10[o]
    BY <2>1, <1>1, ExamFinish
  <2> QED BY <2>1, <2>2, <2>3, <2>4, <1>2, <1>3, <1>4, CertificateKept
<1>8. CASE Exam!UpdateTxHash \/ Exam!RevokedOnChain
  <2>1. /\ x8.state # "none" /\ x9' = x9 /\ x10' = x10
        /\ x8' = [x8 EXCEPT !.tx = TRUE] \/ x8' = [x8 EXCEPT !.state = "revoked"]
    BY <1>8 DEF Exam!UpdateTxHash, Exam!RevokedOnChain
  <2>2. x8' \in Certificate /\ x8'.state # "none"
    BY <2>1, <1>2 DEF Certificate
  <2>3. ExamTasks'
    BY <2>1, <1>1 DEF ExamTasks
  <2> QED BY <2>1, <2>2, <2>3, <1>2, <1>3, <1>4, CertificateKept
<1> QED BY <1>5, <1>6, <1>7, <1>8

LEMMA ExamInductive == ExamInv /\ [Exam!Next]_(Exam!vars) => ExamInv'
<1> SUFFICES ASSUME ExamInv, [Exam!Next]_(Exam!vars) PROVE ExamInv'
  OBVIOUS
<1>1. CASE UNCHANGED Exam!vars
  <2>1. ExamTypes /\ ExamRows /\ ExamTasks
    BY ExamParts DEF ExamInv
  <2>2. UNCHANGED <<x1, x2, x3, x4, x5, x6, x7, x8, x9, x10>>
    BY <1>1 DEF Exam!vars
  <2>3. ExamTypes'
    BY <2>1, <2>2, Zenon DEF ExamTypes
  <2>4. ExamRows' /\ ExamTasks'
    BY <2>1, <2>2 DEF ExamRows, ExamTasks
  <2>5. LockHeld' /\ AttemptsInTurn' /\ CertificateInv'
    BY <2>2 DEF ExamInv, ExamInTurn, LockHeld, AttemptsInTurn, CertificateInv, ExamPassed
  <2> QED BY <2>3, <2>4, <2>5, ExamPartsNext DEF ExamInv, ExamInTurn
<1>2. ASSUME NEW r \in Requests, ExamReads(r) PROVE ExamInv'
  BY <1>2, ExamReadsKeep
<1>3. ASSUME NEW r \in Requests,
             \/ Exam!AcquireLock(r) \/ Exam!CheckEligibility(r) \/ Exam!RecordAttempt(r)
             \/ Exam!DeleteExam(r) \/ Exam!CheckExam(r) \/ Exam!CheckExisting(r)
      PROVE  ExamInv'
  BY <1>3, ExamIsLocked, ExamIsTaken, AttemptIsRecorded, ExamIsDeleted, CertificateIsChecked
<1> QED BY <1>1, <1>2, <1>3, ExamSurroundings, CertificateIsWritten DEF Exam!Next, ExamReads

LEMMA ExamMeans ==
  ExamInv => Exam!TypeOK /\ Exam!ExamTakenInTurn /\ Exam!CertificateEarned
<1> SUFFICES ASSUME ExamInv PROVE Exam!ExamTakenInTurn /\ Exam!CertificateEarned
  BY DEF ExamInv
<1>1. ExamTypes /\ ExamRows /\ ExamTasks
  BY ExamParts DEF ExamInv
<1>2. x2 \in Seq(Attempt) /\ DOMAIN x2 = 1 .. Len(x2)
  BY <1>1 DEF ExamRows
<1>3. Exam!ExamTakenInTurn
  <2> SUFFICES ASSUME NEW i \in 1 .. Len(x2)
               PROVE  (x2[i].passed => i = Len(x2)) /\ ~x2[i].blind
    BY <1>2 DEF Exam!ExamTakenInTurn
  <2>1. (x2[i].passed = TRUE => i = Len(x2)) /\ x2[i].blind = FALSE
    BY DEF ExamInv, ExamInTurn, AttemptsInTurn
  <2>a. x2[i] \in Attempt
    BY <1>2
  <2>2. x2[i].passed \in BOOLEAN
    BY <2>a DEF Attempt
  <2>3. x2[i].passed => x2[i].passed = TRUE
    BY <2>2, Zenon
  <2> QED BY <2>1, <2>3, Zenon
<1>4. Exam!CertificateEarned
  <2> SUFFICES ASSUME Exam!Verdict("valid") = "VALID" \/ Exam!SharePageShown
               PROVE  x9 \/ (Exam!Passed /\ x1)
    BY DEF Exam!CertificateEarned
  <2>1. x8.state # "none" \/ (x8.tx = FALSE /\ x8.shared = FALSE)
    BY DEF ExamInv, CertificateInv
  <2>2. x8.state # "none"
    BY <2>1 DEF Exam!Verdict, Exam!SharePageShown
  <2>3. x9 = TRUE \/ (ExamPassed /\ x1 = TRUE)
    BY <2>2 DEF ExamInv, CertificateInv
  <2>4. ExamPassed => Exam!Passed
    BY <1>2 DEF ExamPassed, Exam!Passed
  <2> QED BY <2>3, <2>4, Zenon
<1> QED BY <1>3, <1>4

------------------------------------------------------------------------------
(***************************************************************************)
(* DripSchedule: x1 is today, x4 the unlock rows, x5 the tasks, x6 the     *)
(* notices sent, x7 says whether one was early, x8 the lessons opened by   *)
(* hand, x9 whether tasks overlapped or crashed.                           *)
(***************************************************************************)

\* A non-empty set of natural numbers has a first one, so the lesson a loop takes
\* next is one of those left.
LEMMA Least == ASSUME NEW S \in SUBSET Nat, S # {} PROVE \E x \in S : \A y \in S : x <= y
<1> DEFINE R == {ss \in Nat \X Nat : ss[1] < ss[2]}
<1>1. IsWellFoundedOn(R, Nat)
  BY NatLessThanWellFounded DEF OpToRel
<1>2. \A x, y \in Nat : <<x, y>> \in R <=> x < y
  OBVIOUS
<1> HIDE DEF R
<1>3. PICK x \in S : \A y \in S : ~(<<y, x>> \in R)
  BY <1>1, WFMin
<1>4. \A y \in S : y \in Nat /\ ~(y < x)
  BY <1>2, <1>3
<1>5. x \in Nat
  OBVIOUS
<1>6. \A y \in S : x <= y
  BY <1>4, <1>5
<1> QED BY <1>6

LEMMA FirstIsLeft ==
  ASSUME NEW S \in SUBSET Drip!Lessons, S # {}
  PROVE  Drip!First(S) \in S
<1>1. Drip!Lessons \subseteq Nat
  BY StudentAssumption DEF Drip!Lessons, Drip!ConstantsAssumption
<1>2. \E x \in S : \A y \in S : x <= y
  BY <1>1, Least
<1> QED BY <1>2 DEF Drip!First

Busy(p) == x5[p] # Drip!Idle

LessonsLeft ==
  /\ \A r \in Requests : x5[r].pc \in {"idle", "sync", "override"}
  /\ \A c \in Crons : x5[c].pc \in {"idle", "notify", "mark"}
  /\ \A p \in Drip!Processes :
       /\ x5[p].pc = "idle" => x5[p] = Drip!Idle
       /\ x5[p].pc # "idle" => x5[p].left # {}
       /\ x5[p].pc = "mark" => x5[p].day \in x5[p].left
       /\ x5[p].pc = "override" => x5[p].day \in Drip!Days
Overrides == \A l \in x8 : x4[l].there = TRUE /\ x4[l].override = TRUE

OneTask == \A p, q \in Drip!Processes : p # q => x5[p] = Drip!Idle \/ x5[q] = Drip!Idle
\* A lesson that was announced is marked, or is about to be.
NoticesKept ==
  /\ x7 = FALSE
  /\ \A l \in Drip!Lessons :
       /\ x6[l] <= 1
       /\ x6[l] = 1 => \/ x4[l].notified = TRUE
                       \/ \E c \in Crons : x5[c].pc = "mark" /\ x5[c].day = l
\* What the job still has to announce is as it found it.
Waits(c, l) == x5[c].pc = "notify" \/ (x5[c].pc = "mark" /\ l # x5[c].day)
StillDue ==
  \A c \in Crons : \A l \in x5[c].left : Waits(c, l) =>
    /\ x4[l].there = TRUE /\ x4[l].notified = FALSE /\ x4[l].at <= x1
    /\ x4[l].at = 0 => l \in x5[c].skip
Announced == OneTask /\ NoticesKept /\ StillDue

DripRows ==
  /\ x1 \in Drip!Days /\ x3 \in [Drip!Lessons -> Drip!Days]
  /\ x4 \in [Drip!Lessons -> Drip!Unlock] /\ x6 \in [Drip!Lessons -> 0 .. 2]
  /\ x8 \subseteq Drip!Lessons
DripFlags == x2 \in BOOLEAN /\ x7 \in BOOLEAN /\ x9 \in BOOLEAN
DripTasks == x5 \in [Drip!Processes -> Drip!TaskType]
DripInv ==
  /\ DripRows /\ DripFlags /\ DripTasks /\ LessonsLeft /\ Overrides
  /\ x9 = FALSE => Announced

LEMMA DripConstants ==
  /\ LessonCount \in Nat \ {0} /\ MaxDay \in Nat /\ Requests \cap Crons = {}
  /\ 0 \in Drip!Days /\ 0 \in Drip!Lessons /\ Drip!Lessons \subseteq Nat /\ Drip!Days \subseteq Nat
BY StudentAssumption DEF Drip!ConstantsAssumption, Drip!Days, Drip!Lessons

LEMMA DripIdle ==
  /\ Drip!Idle \in Drip!TaskType /\ Drip!Idle.pc = "idle" /\ Drip!Idle.left = {}
BY DripConstants DEF Drip!Idle, Drip!TaskType

LEMMA DripInitially == Drip!Init => DripInv
<1> SUFFICES ASSUME Drip!Init PROVE DripInv
  OBVIOUS
<1>1. /\ x1 = 0 /\ x3 = [l \in Drip!Lessons |-> 0] /\ x4 = [l \in Drip!Lessons |-> Drip!Absent]
      /\ x5 = [p \in Drip!Processes |-> Drip!Idle] /\ x6 = [l \in Drip!Lessons |-> 0] /\ x8 = {}
      /\ x7 = FALSE
  BY DEF Drip!Init
<1>2. Drip!Absent \in Drip!Unlock
  BY DripConstants DEF Drip!Absent, Drip!Unlock
<1>3. DripRows
  BY <1>1, <1>2, DripConstants DEF DripRows
<1>4. DripFlags
  BY Zenon DEF Drip!Init, DripFlags
<1>5. DripTasks
  BY <1>1, DripIdle DEF DripTasks
<1>6. LessonsLeft
  BY <1>1, DripIdle DEF LessonsLeft, Drip!Processes
<1>7. Overrides
  BY <1>1 DEF Overrides
<1>8. OneTask
  BY <1>1 DEF OneTask
<1>9. NoticesKept
  BY <1>1 DEF NoticesKept
<1>10. StillDue
  BY <1>1, DripIdle DEF StillDue, Drip!Processes
<1> QED BY <1>3, <1>4, <1>5, <1>6, <1>7, <1>8, <1>9, <1>10 DEF DripInv, Announced

LEMMA DripMoves ==
  ASSUME DripTasks, NEW p \in Drip!Processes, NEW new \in Drip!TaskType,
         x5' = [x5 EXCEPT ![p] = new]
  PROVE  DripTasks' /\ x5'[p] = new /\ \A q \in Drip!Processes : q # p => x5'[q] = x5[q]
BY DEF DripTasks

\* What a task may become.
Allowed(p, new) ==
  /\ new.pc = "idle" => new = Drip!Idle
  /\ new.pc # "idle" => new.left # {}
  /\ new.pc = "mark" => new.day \in new.left
  /\ new.pc = "override" => new.day \in Drip!Days
  /\ p \in Requests => new.pc \in {"idle", "sync", "override"}
  /\ p \in Crons => new.pc \in {"idle", "notify", "mark"}

LEMMA DripAllowed ==
  ASSUME LessonsLeft, NEW p \in Drip!Processes, NEW new, Allowed(p, new), x5'[p] = new,
         \A q \in Drip!Processes : q # p => x5'[q] = x5[q]
  PROVE  LessonsLeft'
BY DEF LessonsLeft, Allowed, Drip!Processes

IdleOrNext(p, l, new) ==
  \/ new = Drip!Idle
  \/ /\ new.pc = x5[p].pc /\ new.left = x5[p].left \ {l} /\ new.left # {}
     /\ new.skip = x5[p].skip /\ new.day = x5[p].day

LEMMA DripDone ==
  ASSUME DripTasks, NEW p \in Drip!Processes, NEW l, l \in x5[p].left, Drip!Done(p, l),
         x5[p].pc \in {"sync", "override", "notify"}
  PROVE  \E new \in Drip!TaskType : x5' = [x5 EXCEPT ![p] = new] /\ IdleOrNext(p, l, new)
<1>1. x5[p] \in Drip!TaskType
  BY DEF DripTasks
<1>2. CASE x5[p].left = {l}
  BY <1>2, DripIdle DEF Drip!Done, IdleOrNext
<1>3. CASE x5[p].left # {l}
  <2> DEFINE new == [x5[p] EXCEPT !.left = x5[p].left \ {l}]
  <2>1. new \in Drip!TaskType
    BY <1>1 DEF Drip!TaskType
  <2>2. /\ new.pc = x5[p].pc /\ new.left = x5[p].left \ {l} /\ new.skip = x5[p].skip
        /\ new.day = x5[p].day
    BY <1>1 DEF Drip!TaskType
  <2>3. new.left # {}
    BY <2>2, <1>3
  <2>4. x5' = [x5 EXCEPT ![p] = new]
    BY <1>3 DEF Drip!Done
  <2> HIDE DEF new
  <2> QED BY <2>1, <2>2, <2>3, <2>4 DEF IdleOrNext
<1> QED BY <1>2, <1>3

LEMMA DoneIsAllowed ==
  ASSUME LessonsLeft, NEW p \in Drip!Processes, NEW l, NEW new, IdleOrNext(p, l, new),
         x5[p].pc \in {"sync", "override", "notify"}
  PROVE  Allowed(p, new)
BY DripIdle DEF IdleOrNext, Allowed, LessonsLeft

\* Only one task runs, unless they overlap: when p does, all others are idle.
LEMMA OthersIdle ==
  ASSUME OneTask, NEW p \in Drip!Processes, x5[p].pc # "idle",
         NEW new, x5'[p] = new, \A q \in Drip!Processes : q # p => x5'[q] = x5[q]
  PROVE  /\ OneTask'
         /\ \A q \in Drip!Processes : q # p =>
              x5[q] = Drip!Idle /\ x5'[q] = Drip!Idle
BY DripIdle DEF OneTask

LEMMA DripDisturbed ==
  ASSUME DripFlags, NEW p \in Drip!Processes, Drip!Disturb(p)
  PROVE  /\ x9' \in BOOLEAN
         /\ x9' = FALSE => x9 = FALSE /\ \A q \in Drip!Processes : q # p => x5[q] = Drip!Idle
BY Zenon DEF Drip!Disturb, DripFlags

\* What the job is about to announce.
Due(new) ==
  new.pc = "notify" /\
  \A l \in new.left :
    /\ x4[l].there = TRUE /\ x4[l].notified = FALSE /\ x4[l].at <= x1
    /\ x4[l].at = 0 => l \in new.skip

\* A task that begins finds the others idle, or the history is disturbed.
LEMMA DripStarts ==
  ASSUME DripInv, NEW p \in Drip!Processes, NEW new \in Drip!TaskType,
         x5[p] = Drip!Idle, x5' = [x5 EXCEPT ![p] = new], Allowed(p, new), Drip!Disturb(p),
         p \in Crons => Due(new), x2' \in BOOLEAN, x3' \in [Drip!Lessons -> Drip!Days],
         x1' = x1, x4' = x4, x6' = x6, x7' = x7, x8' = x8
  PROVE  DripInv'
<1>1. DripRows /\ DripFlags /\ DripTasks /\ LessonsLeft /\ Overrides
  BY DEF DripInv
<1>2. /\ DripTasks' /\ x5'[p] = new
      /\ \A q \in Drip!Processes : q # p => x5'[q] = x5[q]
  BY <1>1, DripMoves
<1>3. LessonsLeft'
  BY <1>1, <1>2, DripAllowed
<1>4. DripRows' /\ DripFlags'
  <2>1. DripRows'
    BY <1>1 DEF DripRows
  <2>2. DripFlags'
    BY <1>1, DripDisturbed, Zenon DEF DripFlags
  <2> QED BY <2>1, <2>2
<1>5. Overrides'
  BY <1>1 DEF Overrides
<1>6. ASSUME x9' = FALSE PROVE Announced'
  <2>1. x9 = FALSE /\ \A q \in Drip!Processes : q # p => x5[q] = Drip!Idle
    BY <1>1, <1>6, DripDisturbed
  <2>2. Announced
    BY <2>1 DEF DripInv
  <2>3. OneTask'
    BY <1>2, <2>1 DEF OneTask
  <2>4. NoticesKept'
    <3>1. \A c \in Crons : x5[c].pc # "mark"
      BY <2>1, DripIdle DEF Drip!Processes
    <3> QED BY <2>2, <3>1 DEF Announced, NoticesKept
  <2>5. StillDue'
    <3> SUFFICES ASSUME NEW c \in Crons, NEW l \in x5'[c].left, Waits(c, l)'
                 PROVE  /\ x4[l].there = TRUE /\ x4[l].notified = FALSE /\ x4[l].at <= x1
                        /\ x4[l].at = 0 => l \in x5'[c].skip
      BY DEF StillDue
    <3>1. c \in Drip!Processes
      BY DEF Drip!Processes
    <3>2. CASE c = p
      BY <3>2, <1>2 DEF Due
    <3>3. CASE c # p
      BY <3>1, <3>3, <1>2, <2>1, DripIdle
    <3> QED BY <3>2, <3>3
  <2> QED BY <2>3, <2>4, <2>5 DEF Announced
<1> QED BY <1>1, <1>2, <1>3, <1>4, <1>5, <1>6 DEF DripInv

LEMMA DripSyncs ==
  ASSUME DripInv, NEW r \in Requests, NEW on \in BOOLEAN,
         NEW delays \in [Drip!Lessons -> Drip!Days],
         x5[r] = Drip!Idle, Drip!Sync(r, on, delays), Drip!Disturb(r),
         x2' \in BOOLEAN, x3' \in [Drip!Lessons -> Drip!Days],
         x1' = x1, x4' = x4, x6' = x6, x7' = x7, x8' = x8
  PROVE  DripInv'
<1> DEFINE times == [l \in Drip!Lessons |-> Drip!UnlockDay(l, on, delays)]
           skip == {l \in Drip!Lessons : x4[l].override}
           new == [pc |-> "sync", left |-> Drip!Lessons, enabled |-> on, day |-> 0,
                   skip |-> skip, times |-> times]
<1>1. times \in [Drip!Lessons -> Drip!Days]
  <2> SUFFICES ASSUME NEW l \in Drip!Lessons PROVE Drip!UnlockDay(l, on, delays) \in Drip!Days
    OBVIOUS
  <2>1. l \in Nat /\ delays[l] \in Drip!Days /\ MaxDay \in Nat /\ 0 \in Drip!Days
    BY DripConstants
  <2> QED BY <2>1 DEF Drip!UnlockDay, Drip!Days
<1>2. skip \subseteq Drip!Lessons
  OBVIOUS
<1>3. x5' = [x5 EXCEPT ![r] = new]
  BY DEF Drip!Sync
<1> HIDE DEF times, skip
<1>4. new \in Drip!TaskType
  BY <1>1, <1>2, DripConstants DEF Drip!TaskType
<1>5. Allowed(r, new)
  <2>1. ~(r \in Crons)
    BY DripConstants
  <2> QED BY <2>1, DripConstants DEF Allowed
<1>6. r \in Drip!Processes /\ ~(r \in Crons)
  BY DripConstants DEF Drip!Processes
<1> HIDE DEF new
<1> QED BY <1>3, <1>4, <1>5, <1>6, DripStarts

LEMMA DripConfigures ==
  ASSUME DripInv, NEW r \in Requests,
         Drip!ConfigureCourseDrip(r) \/ Drip!ConfigureLessonDrip(r) \/ Drip!VisitUnscheduled(r)
  PROVE  DripInv'
<1>1. x2 \in BOOLEAN /\ x3 \in [Drip!Lessons -> Drip!Days]
  BY DEF DripInv, DripFlags, DripRows
<1>2. CASE Drip!ConfigureCourseDrip(r)
  <2>1. x2' \in BOOLEAN
    BY <1>2, Zenon DEF Drip!ConfigureCourseDrip
  <2>2. /\ x5[r] = Drip!Idle /\ Drip!Sync(r, x2', x3) /\ Drip!Disturb(r)
        /\ x1' = x1 /\ x3' = x3 /\ x4' = x4 /\ x6' = x6 /\ x7' = x7 /\ x8' = x8
    BY <1>2 DEF Drip!ConfigureCourseDrip, Drip!historyVars
  <2> QED BY <1>1, <2>1, <2>2, DripSyncs
<1>3. CASE Drip!ConfigureLessonDrip(r)
  <2>1. x3' \in [Drip!Lessons -> Drip!Days]
    BY <1>1, <1>3 DEF Drip!ConfigureLessonDrip
  <2>2. /\ x5[r] = Drip!Idle /\ Drip!Sync(r, x2, x3') /\ Drip!Disturb(r)
        /\ x1' = x1 /\ x2' = x2 /\ x4' = x4 /\ x6' = x6 /\ x7' = x7 /\ x8' = x8
    BY <1>3 DEF Drip!ConfigureLessonDrip, Drip!historyVars
  <2> QED BY <1>1, <2>1, <2>2, DripSyncs
<1>4. CASE Drip!VisitUnscheduled(r)
  <2>1. /\ x5[r] = Drip!Idle /\ Drip!Sync(r, x2, x3) /\ Drip!Disturb(r)
        /\ x1' = x1 /\ x2' = x2 /\ x3' = x3 /\ x4' = x4 /\ x6' = x6 /\ x7' = x7 /\ x8' = x8
    BY <1>4 DEF Drip!VisitUnscheduled, Drip!historyVars, Drip!configVars
  <2> QED BY <1>1, <2>1, DripSyncs
<1> QED BY <1>2, <1>3, <1>4

LEMMA DripOverrideStarts ==
  ASSUME DripInv, NEW r \in Requests, Drip!StartOverride(r) PROVE DripInv'
<1>1. PICK some \in {Drip!Lessons} \union {{l} : l \in Drip!Lessons}, d \in Drip!Days :
        x5' = [x5 EXCEPT ![r] = [Drip!Idle EXCEPT !.pc = "override", !.left = some, !.day = d]]
  BY DEF Drip!StartOverride
<1>2. some \subseteq Drip!Lessons /\ some # {}
  BY DripConstants
<1> DEFINE new == [Drip!Idle EXCEPT !.pc = "override", !.left = some, !.day = d]
<1>3. new \in Drip!TaskType
  BY <1>2, DripIdle DEF Drip!TaskType
<1>4. new.pc = "override" /\ new.left = some /\ new.day = d
  BY DripIdle DEF Drip!TaskType
<1>5. r \in Drip!Processes /\ ~(r \in Crons)
  BY DripConstants DEF Drip!Processes
<1>6. /\ x5[r] = Drip!Idle /\ Drip!Disturb(r)
      /\ x1' = x1 /\ x2' = x2 /\ x3' = x3 /\ x4' = x4 /\ x6' = x6 /\ x7' = x7 /\ x8' = x8
  BY DEF Drip!StartOverride, Drip!historyVars, Drip!configVars
<1>7. x5' = [x5 EXCEPT ![r] = new]
  BY <1>1
<1> HIDE DEF new
<1>8. Allowed(r, new)
  BY <1>2, <1>4, <1>5 DEF Allowed
<1>9. x2' \in BOOLEAN /\ x3' \in [Drip!Lessons -> Drip!Days]
  BY <1>6 DEF DripInv, DripFlags, DripRows
<1> QED BY <1>3, <1>5, <1>6, <1>7, <1>8, <1>9, DripStarts

LEMMA DripNotifyStarts ==
  ASSUME DripInv, NEW c \in Crons, Drip!StartNotify(c) PROVE DripInv'
<1> DEFINE due == {l \in Drip!Lessons : x4[l].there /\ ~x4[l].notified /\ x4[l].at <= x1}
           open == {l \in due : x4[l].at = 0}
           new == [Drip!Idle EXCEPT !.pc = "notify", !.left = due, !.skip = open]
<1>1. due # {} /\ x5' = [x5 EXCEPT ![c] = new]
  BY DEF Drip!StartNotify
<1>2. due \subseteq Drip!Lessons /\ open \subseteq Drip!Lessons
  OBVIOUS
<1>3. \A l \in due :
        /\ x4[l].there = TRUE /\ x4[l].notified = FALSE /\ x4[l].at <= x1
        /\ x4[l].at = 0 => l \in open
  <2> SUFFICES ASSUME NEW l \in due
               PROVE  /\ x4[l].there = TRUE /\ x4[l].notified = FALSE /\ x4[l].at <= x1
                      /\ x4[l].at = 0 => l \in open
    OBVIOUS
  <2>1. x4[l] \in Drip!Unlock
    BY DEF DripInv, DripRows
  <2>2. x4[l].there \in BOOLEAN /\ x4[l].notified \in BOOLEAN
    BY <2>1 DEF Drip!Unlock
  <2> QED BY <2>2
<1> HIDE DEF due, open
<1>4. new \in Drip!TaskType
  BY <1>2, DripIdle DEF Drip!TaskType
<1>5. new.pc = "notify" /\ new.left = due /\ new.skip = open
  BY DripIdle DEF Drip!TaskType
<1>6. c \in Drip!Processes /\ ~(c \in Requests)
  BY DripConstants DEF Drip!Processes
<1>7. /\ x5[c] = Drip!Idle /\ Drip!Disturb(c)
      /\ x1' = x1 /\ x2' = x2 /\ x3' = x3 /\ x4' = x4 /\ x6' = x6 /\ x7' = x7 /\ x8' = x8
  BY DEF Drip!StartNotify, Drip!historyVars, Drip!configVars
<1> HIDE DEF new
<1>8. Allowed(c, new)
  BY <1>1, <1>5, <1>6 DEF Allowed
<1>9. Due(new)
  BY <1>3, <1>5 DEF Due
<1>10. x2' \in BOOLEAN /\ x3' \in [Drip!Lessons -> Drip!Days]
  BY <1>7 DEF DripInv, DripFlags, DripRows
<1> QED BY <1>1, <1>4, <1>6, <1>7, <1>8, <1>9, <1>10, DripStarts

\* A request writes the row of one lesson, and opens it or leaves it as open.
LEMMA RequestWrites ==
  ASSUME DripInv, NEW r \in Requests, NEW new \in Drip!TaskType,
         x5[r].pc # "idle", x5' = [x5 EXCEPT ![r] = new], Allowed(r, new),
         NEW l \in Drip!Lessons, NEW row \in Drip!Unlock, x4' = [x4 EXCEPT ![l] = row],
         x4[l].there = TRUE => row.there = TRUE,
         x4[l].override = TRUE => row.override = TRUE,
         x4[l].notified = TRUE => row.notified = TRUE,
         x8' = x8 \/ (x8' = x8 \union {l} /\ row.there = TRUE /\ row.override = TRUE),
         x1' = x1, x2' = x2, x3' = x3, x6' = x6, x7' = x7, x9' = x9
  PROVE  DripInv'
<1>1. DripRows /\ DripFlags /\ DripTasks /\ LessonsLeft /\ Overrides
  BY DEF DripInv
<1>2. r \in Drip!Processes /\ ~(r \in Crons)
  BY DripConstants DEF Drip!Processes
<1>3. /\ DripTasks' /\ x5'[r] = new
      /\ \A q \in Drip!Processes : q # r => x5'[q] = x5[q]
  BY <1>1, <1>2, DripMoves
<1>4. LessonsLeft'
  BY <1>1, <1>2, <1>3, DripAllowed
<1>5. x4'[l] = row /\ \A m \in Drip!Lessons : m # l => x4'[m] = x4[m]
  BY <1>1 DEF DripRows
<1>6. DripRows' /\ DripFlags'
  <2>1. DripRows'
    BY <1>1 DEF DripRows
  <2>2. DripFlags'
    BY <1>1, Zenon DEF DripFlags
  <2> QED BY <2>1, <2>2
<1>7. Overrides'
  BY <1>1, <1>5 DEF Overrides, DripRows
<1>8. ASSUME x9' = FALSE PROVE Announced'
  <2>1. Announced
    BY <1>8, Zenon DEF DripInv
  <2>2. /\ OneTask'
        /\ \A q \in Drip!Processes : q # r => x5[q] = Drip!Idle /\ x5'[q] = Drip!Idle
    BY <1>2, <1>3, <2>1, OthersIdle DEF Announced
  <2>3. \A c \in Crons : x5[c] = Drip!Idle /\ x5'[c] = Drip!Idle
    BY <1>2, <2>2 DEF Drip!Processes
  <2>4. NoticesKept'
    <3>1. x7' = FALSE
      BY <2>1, Zenon DEF Announced, NoticesKept
    <3>2. ASSUME NEW m \in Drip!Lessons
          PROVE  x6'[m] <= 1 /\ (x6'[m] = 1 => x4'[m].notified = TRUE)
      <4>1. x6[m] <= 1 /\ (x6[m] = 1 => x4[m].notified = TRUE)
        BY <2>1, <2>3, DripIdle DEF Announced, NoticesKept
      <4>2. x4[m].notified = TRUE => x4'[m].notified = TRUE
        BY <1>5
      <4> QED BY <4>1, <4>2
    <3> QED BY <3>1, <3>2 DEF NoticesKept
  <2>5. StillDue'
    BY <2>3, DripIdle DEF StillDue
  <2> QED BY <2>2, <2>4, <2>5 DEF Announced
<1> QED BY <1>3, <1>4, <1>6, <1>7, <1>8 DEF DripInv

LEMMA DripSyncLesson ==
  ASSUME DripInv, NEW r \in Requests, Drip!SyncLesson(r) PROVE DripInv'
<1> DEFINE l == Drip!First(x5[r].left)
           row == [there |-> TRUE, at |-> x5[r].times[l],
                   override |-> x4[l].override, notified |-> Drip!NotifiedAfter(r, l)]
<1>1. DripRows /\ DripFlags /\ DripTasks /\ LessonsLeft
  BY DEF DripInv
<1>2. r \in Drip!Processes /\ x5[r] \in Drip!TaskType /\ x5[r].pc = "sync"
  BY <1>1 DEF Drip!Processes, DripTasks, Drip!SyncLesson
<1>3. l \in x5[r].left /\ l \in Drip!Lessons
  <2>1. x5[r].left \subseteq Drip!Lessons /\ x5[r].left # {}
    BY <1>1, <1>2 DEF LessonsLeft, Drip!TaskType
  <2>2. Drip!Lessons \subseteq Nat
    BY DripConstants
  <2> QED BY <2>1, <2>2, FirstIsLeft
<1>4. /\ x4' = IF l \in x5[r].skip THEN x4 ELSE [x4 EXCEPT ![l] = row]
      /\ Drip!Done(r, l)
      /\ x1' = x1 /\ x2' = x2 /\ x3' = x3 /\ x6' = x6 /\ x7' = x7 /\ x8' = x8 /\ x9' = x9
  BY DEF Drip!SyncLesson, Drip!historyVars, Drip!configVars
<1> HIDE DEF l
<1>5. x4[l] \in Drip!Unlock
  BY <1>1, <1>3 DEF DripRows
<1>6. row \in Drip!Unlock /\ (x4[l].notified = TRUE => row.notified = TRUE)
  <2>1. /\ x5[r].times[l] \in Drip!Days /\ x4[l].override \in BOOLEAN
        /\ x4[l].notified \in BOOLEAN /\ x5[r].enabled \in BOOLEAN
    BY <1>2, <1>3, <1>5 DEF Drip!TaskType, Drip!Unlock
  <2>2. Drip!NotifiedAfter(r, l) \in BOOLEAN
    BY <2>1 DEF Drip!NotifiedAfter
  <2>3. x4[l].notified = TRUE => Drip!NotifiedAfter(r, l) = TRUE
    BY <2>1 DEF Drip!NotifiedAfter
  <2>4. row \in Drip!Unlock
    BY <2>1, <2>2 DEF Drip!Unlock
  <2> QED BY <2>3, <2>4
<1>7. row.there = TRUE /\ row.override = x4[l].override
  OBVIOUS
<1> HIDE DEF row
<1>8. PICK new \in Drip!TaskType : x5' = [x5 EXCEPT ![r] = new] /\ IdleOrNext(r, l, new)
  BY <1>1, <1>2, <1>3, <1>4, DripDone
<1>9. Allowed(r, new)
  BY <1>1, <1>2, <1>8, DoneIsAllowed
<1>10. CASE l \in x5[r].skip
  <2>1. x4' = [x4 EXCEPT ![l] = x4[l]]
    BY <1>1, <1>4, <1>10 DEF DripRows
  <2> QED BY <1>2, <1>3, <1>4, <1>5, <1>8, <1>9, <2>1, RequestWrites
<1>11. CASE ~(l \in x5[r].skip)
  <2>1. x4' = [x4 EXCEPT ![l] = row]
    BY <1>4, <1>11
  <2> QED BY <1>2, <1>3, <1>4, <1>6, <1>7, <1>8, <1>9, <2>1, RequestWrites
<1> QED BY <1>10, <1>11

LEMMA Rewritten ==
  ASSUME NEW u \in Drip!Unlock, NEW b \in BOOLEAN, NEW o \in BOOLEAN, NEW d
  PROVE  [u EXCEPT !.there = b, !.override = o, !.at = d]
           = [there |-> b, at |-> d, override |-> o, notified |-> u.notified]
<1>1. [u EXCEPT !.there = b]
        = [there |-> b, at |-> u.at, override |-> u.override, notified |-> u.notified]
  BY DEF Drip!Unlock
<1>2. [[there |-> b, at |-> u.at, override |-> u.override, notified |-> u.notified]
        EXCEPT !.override = o]
        = [there |-> b, at |-> u.at, override |-> o, notified |-> u.notified]
  OBVIOUS
<1>3. [[there |-> b, at |-> u.at, override |-> o, notified |-> u.notified] EXCEPT !.at = d]
        = [there |-> b, at |-> d, override |-> o, notified |-> u.notified]
  OBVIOUS
<1>4. [u EXCEPT !.there = b, !.override = o, !.at = d]
        = [[[u EXCEPT !.there = b] EXCEPT !.override = o] EXCEPT !.at = d]
  OBVIOUS
<1> QED BY <1>1, <1>2, <1>3, <1>4, Zenon

LEMMA DripOverrideLesson ==
  ASSUME DripInv, NEW r \in Requests, Drip!OverrideLesson(r) PROVE DripInv'
<1> DEFINE l == Drip!First(x5[r].left)
           row == [there |-> TRUE, at |-> x5[r].day, override |-> TRUE,
                   notified |-> x4[l].notified]
<1>1. DripRows /\ DripFlags /\ DripTasks /\ LessonsLeft
  BY DEF DripInv
<1>2. r \in Drip!Processes /\ x5[r] \in Drip!TaskType /\ x5[r].pc = "override"
  BY <1>1 DEF Drip!Processes, DripTasks, Drip!OverrideLesson
<1>3. l \in x5[r].left /\ l \in Drip!Lessons
  <2>1. x5[r].left \subseteq Drip!Lessons /\ x5[r].left # {}
    BY <1>1, <1>2 DEF LessonsLeft, Drip!TaskType
  <2>2. Drip!Lessons \subseteq Nat
    BY DripConstants
  <2> QED BY <2>1, <2>2, FirstIsLeft
<1>4. /\ x4' = [x4 EXCEPT ![l] = [x4[l] EXCEPT
                 !.there = TRUE, !.override = TRUE, !.at = x5[r].day]]
      /\ Drip!Done(r, l) /\ x8' = x8 \union {l}
      /\ x1' = x1 /\ x2' = x2 /\ x3' = x3 /\ x6' = x6 /\ x7' = x7 /\ x9' = x9
  BY DEF Drip!OverrideLesson, Drip!configVars
<1> HIDE DEF l
<1>5. x4[l] \in Drip!Unlock
  BY <1>1, <1>3 DEF DripRows
<1>6. x5[r].day \in Drip!Days
  BY <1>1, <1>2 DEF LessonsLeft
<1>7. row \in Drip!Unlock /\ row.there = TRUE /\ row.override = TRUE
  BY <1>5, <1>6 DEF Drip!Unlock
<1>8. row.notified = x4[l].notified
  OBVIOUS
<1>9. [x4[l] EXCEPT !.there = TRUE, !.override = TRUE, !.at = x5[r].day] = row
  BY <1>5, Rewritten, Zenon
<1>10. x4' = [x4 EXCEPT ![l] = row]
  BY <1>4, <1>9, Zenon
<1> HIDE DEF row
<1>11. PICK new \in Drip!TaskType : x5' = [x5 EXCEPT ![r] = new] /\ IdleOrNext(r, l, new)
  BY <1>1, <1>2, <1>3, <1>4, DripDone
<1>12. Allowed(r, new)
  BY <1>1, <1>2, <1>11, DoneIsAllowed
<1> QED BY <1>2, <1>3, <1>4, <1>7, <1>8, <1>10, <1>11, <1>12, RequestWrites

\* The job is done with one lesson, whose row it marked or left for a later run.
LEMMA CronLeaves ==
  ASSUME DripInv, NEW c \in Crons, NEW new \in Drip!TaskType,
         x5[c].pc # "idle", x5' = [x5 EXCEPT ![c] = new], Allowed(c, new),
         NEW l \in Drip!Lessons, NEW row \in Drip!Unlock, x4' = [x4 EXCEPT ![l] = row],
         row.there = x4[l].there, row.override = x4[l].override, row.at = x4[l].at,
         row.notified = TRUE \/ row.notified = x4[l].notified,
         x5[c].pc = "mark" => l = x5[c].day /\ row.notified = TRUE,
         new.pc # "mark", \A m \in new.left : m \in x5[c].left /\ m # l /\ (m \in x5[c].skip => m \in new.skip),
         x1' = x1, x2' = x2, x3' = x3, x6' = x6, x7' = x7, x8' = x8, x9' = x9
  PROVE  DripInv'
<1>1. DripRows /\ DripFlags /\ DripTasks /\ LessonsLeft /\ Overrides
  BY DEF DripInv
<1>2. c \in Drip!Processes
  BY DEF Drip!Processes
<1>3. /\ DripTasks' /\ x5'[c] = new
      /\ \A q \in Drip!Processes : q # c => x5'[q] = x5[q]
  BY <1>1, <1>2, DripMoves
<1>4. LessonsLeft'
  BY <1>1, <1>2, <1>3, DripAllowed
<1>5. x4'[l] = row /\ \A m \in Drip!Lessons : m # l => x4'[m] = x4[m]
  BY <1>1 DEF DripRows
<1>6. DripRows' /\ DripFlags'
  <2>1. DripRows'
    BY <1>1 DEF DripRows
  <2>2. DripFlags'
    BY <1>1, Zenon DEF DripFlags
  <2> QED BY <2>1, <2>2
<1>7. Overrides'
  BY <1>1, <1>5 DEF Overrides, DripRows
<1>8. ASSUME x9' = FALSE PROVE Announced'
  <2>1. OneTask /\ NoticesKept /\ StillDue
    BY <1>8, Zenon DEF DripInv, Announced
  <2>2. /\ OneTask'
        /\ \A q \in Drip!Processes : q # c => x5[q] = Drip!Idle /\ x5'[q] = Drip!Idle
    BY <1>2, <1>3, <2>1, OthersIdle
  <2>3. \A d \in Crons : d # c => x5[d] = Drip!Idle /\ x5'[d] = Drip!Idle
    BY <2>2 DEF Drip!Processes
  <2>4. NoticesKept'
    <3>1. x7' = FALSE
      BY <2>1, Zenon DEF NoticesKept
    <3>2. ASSUME NEW m \in Drip!Lessons
          PROVE  x6'[m] <= 1 /\ (x6'[m] = 1 => x4'[m].notified = TRUE)
      <4>1. x6[m] <= 1 /\ (x6[m] = 1 => x4[m].notified = TRUE \/ (x5[c].pc = "mark" /\ x5[c].day = m))
        BY <2>1, <2>3, DripIdle DEF NoticesKept
      <4>2. x4[m].notified = TRUE => x4'[m].notified = TRUE
        BY <1>5
      <4>3. x5[c].pc = "mark" /\ x5[c].day = m => x4'[m].notified = TRUE
        BY <1>5
      <4> QED BY <4>1, <4>2, <4>3
    <3> QED BY <3>1, <3>2 DEF NoticesKept
  <2>5. StillDue'
    <3> SUFFICES ASSUME NEW d \in Crons, NEW m \in x5'[d].left
                 PROVE  /\ x4'[m].there = TRUE /\ x4'[m].notified = FALSE /\ x4'[m].at <= x1
                        /\ x4'[m].at = 0 => m \in x5'[d].skip
      BY DEF StillDue
    <3>1. d = c
      BY <2>3, DripIdle
    <3>2. m \in x5[c].left /\ m # l /\ (m \in x5[c].skip => m \in x5'[c].skip)
      BY <1>3, <3>1
    <3>3. Waits(c, m)
      BY <3>2, <1>2, <1>1 DEF Waits, LessonsLeft
    <3>4. m \in Drip!Lessons
      BY <3>2, <1>1, <1>2 DEF DripTasks, Drip!TaskType
    <3>5. x4'[m] = x4[m]
      BY <1>5, <3>2, <3>4
    <3>6. /\ x4[m].there = TRUE /\ x4[m].notified = FALSE /\ x4[m].at <= x1
          /\ x4[m].at = 0 => m \in x5[c].skip
      BY <2>1, <3>2, <3>3 DEF StillDue
    <3> QED BY <3>1, <3>2, <3>5, <3>6
  <2> QED BY <2>2, <2>4, <2>5 DEF Announced
<1> QED BY <1>3, <1>4, <1>6, <1>7, <1>8 DEF DripInv

LEMMA Marked ==
  ASSUME NEW u \in Drip!Unlock, NEW b \in BOOLEAN
  PROVE  [u EXCEPT !.notified = b]
           = [there |-> u.there, at |-> u.at, override |-> u.override, notified |-> b]
BY DEF Drip!Unlock

LEMMA MarkedRow ==
  ASSUME DripRows, NEW l \in Drip!Lessons
  PROVE  \E row \in Drip!Unlock :
           /\ [x4 EXCEPT ![l].notified = TRUE] = [x4 EXCEPT ![l] = row]
           /\ row.there = x4[l].there /\ row.override = x4[l].override
           /\ row.at = x4[l].at /\ row.notified = TRUE
<1> DEFINE row == [there |-> x4[l].there, at |-> x4[l].at, override |-> x4[l].override,
                   notified |-> TRUE]
<1>1. x4[l] \in Drip!Unlock
  BY DEF DripRows
<1>2. row \in Drip!Unlock
  BY <1>1 DEF Drip!Unlock
<1>3. [x4[l] EXCEPT !.notified = TRUE] = row
  BY <1>1, Marked, Zenon
<1>4. [x4 EXCEPT ![l].notified = TRUE] = [x4 EXCEPT ![l] = [x4[l] EXCEPT !.notified = TRUE]]
  BY Zenon
<1>5. [x4 EXCEPT ![l].notified = TRUE] = [x4 EXCEPT ![l] = row]
  BY <1>3, <1>4, Zenon
<1> QED BY <1>2, <1>5

LEMMA DripSkipNotice ==
  ASSUME DripInv, NEW c \in Crons, Drip!SkipNotice(c) PROVE DripInv'
<1>1. PICK l \in x5[c].left \cap x5[c].skip :
        x4' = [x4 EXCEPT ![l].notified = TRUE] /\ Drip!Done(c, l)
  BY DEF Drip!SkipNotice
<1>2. /\ x5[c].pc = "notify" /\ x1' = x1 /\ x2' = x2 /\ x3' = x3 /\ x6' = x6
      /\ x7' = x7 /\ x8' = x8 /\ x9' = x9
  BY DEF Drip!SkipNotice, Drip!historyVars, Drip!configVars
<1>3. DripRows /\ DripTasks /\ LessonsLeft /\ c \in Drip!Processes
  BY DEF DripInv, Drip!Processes
<1>4. l \in Drip!Lessons
  BY <1>3 DEF DripTasks, Drip!TaskType
<1>5. PICK row \in Drip!Unlock :
        /\ x4' = [x4 EXCEPT ![l] = row]
        /\ row.there = x4[l].there /\ row.override = x4[l].override
        /\ row.at = x4[l].at /\ row.notified = TRUE
  BY <1>1, <1>3, <1>4, MarkedRow
<1>6. PICK new \in Drip!TaskType : x5' = [x5 EXCEPT ![c] = new] /\ IdleOrNext(c, l, new)
  BY <1>1, <1>2, <1>3, DripDone
<1>7. Allowed(c, new)
  BY <1>2, <1>3, <1>6, DoneIsAllowed
<1>8. new.pc # "mark" /\ \A m \in new.left : m \in x5[c].left /\ m # l /\ (m \in x5[c].skip => m \in new.skip)
  BY <1>2, <1>6, DripIdle DEF IdleOrNext
<1> QED BY <1>2, <1>4, <1>5, <1>6, <1>7, <1>8, CronLeaves

LEMMA DripNoticeFails ==
  ASSUME DripInv, NEW c \in Crons, Drip!NoticeFails(c) PROVE DripInv'
<1>1. PICK l \in x5[c].left \ x5[c].skip : Drip!Done(c, l)
  BY DEF Drip!NoticeFails
<1>2. /\ x5[c].pc = "notify" /\ x1' = x1 /\ x2' = x2 /\ x3' = x3 /\ x4' = x4 /\ x6' = x6
      /\ x7' = x7 /\ x8' = x8 /\ x9' = x9
  BY DEF Drip!NoticeFails, Drip!historyVars, Drip!configVars
<1>3. DripRows /\ DripTasks /\ LessonsLeft /\ c \in Drip!Processes
  BY DEF DripInv, Drip!Processes
<1>4. l \in Drip!Lessons /\ x4[l] \in Drip!Unlock
  BY <1>3 DEF DripTasks, Drip!TaskType, DripRows
<1>5. PICK row \in Drip!Unlock :
        /\ x4' = [x4 EXCEPT ![l] = row]
        /\ row.there = x4[l].there /\ row.override = x4[l].override
        /\ row.at = x4[l].at /\ row.notified = x4[l].notified
  <2>1. x4' = [x4 EXCEPT ![l] = x4[l]]
    BY <1>2, <1>3 DEF DripRows
  <2> QED BY <1>4, <2>1
<1>6. PICK new \in Drip!TaskType : x5' = [x5 EXCEPT ![c] = new] /\ IdleOrNext(c, l, new)
  BY <1>1, <1>2, <1>3, DripDone
<1>7. Allowed(c, new)
  BY <1>2, <1>3, <1>6, DoneIsAllowed
<1>8. new.pc # "mark" /\ \A m \in new.left : m \in x5[c].left /\ m # l /\ (m \in x5[c].skip => m \in new.skip)
  BY <1>2, <1>6, DripIdle DEF IdleOrNext
<1> QED BY <1>2, <1>4, <1>5, <1>6, <1>7, <1>8, CronLeaves

LEMMA DripMarkNotified ==
  ASSUME DripInv, NEW c \in Crons, Drip!MarkNotified(c) PROVE DripInv'
<1> DEFINE l == x5[c].day
<1>1. /\ x5[c].pc = "mark" /\ x1' = x1 /\ x2' = x2 /\ x3' = x3 /\ x6' = x6
      /\ x7' = x7 /\ x8' = x8 /\ x9' = x9
      /\ x4' = [x4 EXCEPT ![l].notified = TRUE]
      /\ x5' = [x5 EXCEPT ![c] = IF x5[c].left = {l} THEN Drip!Idle
           ELSE [x5[c] EXCEPT !.pc = "notify", !.left = x5[c].left \ {l}, !.day = 0]]
  BY DEF Drip!MarkNotified, Drip!historyVars, Drip!configVars
<1>2. DripRows /\ DripTasks /\ LessonsLeft /\ c \in Drip!Processes /\ x5[c] \in Drip!TaskType
  BY DEF DripInv, DripTasks, Drip!Processes
<1>3. l \in x5[c].left
  BY <1>1, <1>2 DEF LessonsLeft
<1>4. l \in Drip!Lessons
  BY <1>2, <1>3 DEF Drip!TaskType
<1> HIDE DEF l
<1>5. PICK row \in Drip!Unlock :
        /\ x4' = [x4 EXCEPT ![l] = row]
        /\ row.there = x4[l].there /\ row.override = x4[l].override
        /\ row.at = x4[l].at /\ row.notified = TRUE
  BY <1>1, <1>2, <1>4, MarkedRow
<1> DEFINE new == IF x5[c].left = {l} THEN Drip!Idle
             ELSE [x5[c] EXCEPT !.pc = "notify", !.left = x5[c].left \ {l}, !.day = 0]
<1>6. /\ new \in Drip!TaskType
      /\ new = Drip!Idle \/ (new.pc = "notify" /\ new.left = x5[c].left \ {l} /\ new.skip = x5[c].skip)
  <2>1. CASE x5[c].left = {l}
    BY <2>1, DripIdle
  <2>2. CASE x5[c].left # {l}
    <3>1. x5[c].left \ {l} \subseteq Drip!Lessons
      BY <1>2 DEF Drip!TaskType
    <3> QED BY <1>2, <2>2, <3>1, DripConstants DEF Drip!TaskType
  <2> QED BY <2>1, <2>2
<1>7. x5' = [x5 EXCEPT ![c] = new]
  BY <1>1
<1>8. new.left = {} \/ new.left = x5[c].left \ {l}
  BY <1>6, DripIdle
<1>9. new = Drip!Idle \/ new.left # {}
  <2>1. CASE x5[c].left = {l}
    BY <2>1
  <2>2. CASE x5[c].left # {l}
    <3>1. new.left = x5[c].left \ {l}
      BY <1>2, <2>2 DEF Drip!TaskType
    <3> QED BY <3>1, <2>2, <1>3
  <2> QED BY <2>1, <2>2
<1> HIDE DEF new
<1>10. Allowed(c, new)
  <2>1. ~(c \in Requests)
    BY DripConstants
  <2> QED BY <1>6, <1>9, <2>1, DripIdle DEF Allowed
<1>11. new.pc # "mark" /\ \A m \in new.left : m \in x5[c].left /\ m # l /\ (m \in x5[c].skip => m \in new.skip)
  BY <1>6, <1>8, DripIdle
<1>12. /\ x5[c].pc # "idle" /\ l = x5[c].day /\ x1' = x1 /\ x2' = x2 /\ x3' = x3
       /\ x6' = x6 /\ x7' = x7 /\ x8' = x8 /\ x9' = x9
  BY <1>1 DEF l
<1>13. new \in Drip!TaskType
  BY <1>6
<1> QED BY <1>4, <1>5, <1>7, <1>10, <1>11, <1>12, <1>13, CronLeaves

LEMMA DripSendNotice ==
  ASSUME DripInv, NEW c \in Crons, Drip!SendNotice(c) PROVE DripInv'
<1>1. PICK l \in x5[c].left \ x5[c].skip :
        /\ x6' = [x6 EXCEPT ![l] = IF x6[l] = 2 THEN 2 ELSE x6[l] + 1]
        /\ x7' = (x7 \/ ~Drip!Accessible(l) \/ x4[l].at = 0)
        /\ x5' = [x5 EXCEPT ![c].pc = "mark", ![c].day = l]
  BY DEF Drip!SendNotice
<1>2. /\ x5[c].pc = "notify" /\ x1' = x1 /\ x2' = x2 /\ x3' = x3 /\ x4' = x4
      /\ x8' = x8 /\ x9' = x9
  BY DEF Drip!SendNotice, Drip!configVars
<1>3. /\ DripRows /\ DripFlags /\ DripTasks /\ LessonsLeft /\ Overrides
      /\ c \in Drip!Processes /\ ~(c \in Requests) /\ x5[c] \in Drip!TaskType
  BY DripConstants DEF DripInv, DripTasks, Drip!Processes
<1>4. l \in Drip!Lessons /\ l \in x5[c].left /\ ~(l \in x5[c].skip)
  BY <1>3 DEF Drip!TaskType
<1> DEFINE new == [pc |-> "mark", left |-> x5[c].left, enabled |-> x5[c].enabled,
                   times |-> x5[c].times, skip |-> x5[c].skip, day |-> l]
<1>5. x5' = [x5 EXCEPT ![c] = new]
  <2>1. x5' = [x5 EXCEPT ![c] = [[x5[c] EXCEPT !.pc = "mark"] EXCEPT !.day = l]]
    BY <1>1, <1>3 DEF DripTasks
  <2>2. [x5[c] EXCEPT !.pc = "mark"]
          = [pc |-> "mark", left |-> x5[c].left, enabled |-> x5[c].enabled,
             times |-> x5[c].times, skip |-> x5[c].skip, day |-> x5[c].day]
    BY <1>3 DEF Drip!TaskType
  <2>3. [[pc |-> "mark", left |-> x5[c].left, enabled |-> x5[c].enabled,
          times |-> x5[c].times, skip |-> x5[c].skip, day |-> x5[c].day] EXCEPT !.day = l] = new
    OBVIOUS
  <2> QED BY <2>1, <2>2, <2>3, Zenon
<1>6. new \in Drip!TaskType
  BY <1>3, <1>4 DEF Drip!TaskType
<1>7. new.pc = "mark" /\ new.left = x5[c].left /\ new.skip = x5[c].skip /\ new.day = l
  OBVIOUS
<1> HIDE DEF new
<1>8. Allowed(c, new)
  BY <1>3, <1>4, <1>7 DEF Allowed
<1>9. /\ DripTasks' /\ x5'[c] = new
      /\ \A q \in Drip!Processes : q # c => x5'[q] = x5[q]
  BY <1>3, <1>5, <1>6, DripMoves
<1>10. LessonsLeft'
  BY <1>3, <1>8, <1>9, DripAllowed
<1>11. DripRows' /\ DripFlags'
  <2>1. DripRows'
    <3>1. x6' \in [Drip!Lessons -> 0 .. 2]
      <4>1. x6[l] \in 0 .. 2
        BY <1>3, <1>4 DEF DripRows
      <4>2. (IF x6[l] = 2 THEN 2 ELSE x6[l] + 1) \in 0 .. 2
        BY <4>1
      <4> QED BY <1>1, <1>3, <4>2 DEF DripRows
    <3> QED BY <1>2, <1>3, <3>1 DEF DripRows
  <2>2. x7' \in BOOLEAN
    BY <1>1, Zenon
  <2>3. DripFlags'
    BY <1>2, <1>3, <2>2, Zenon DEF DripFlags
  <2> QED BY <2>1, <2>3
<1>12. Overrides'
  BY <1>2, <1>3 DEF Overrides
<1>13. ASSUME x9' = FALSE PROVE Announced'
  <2>1. OneTask /\ NoticesKept /\ StillDue
    BY <1>2, <1>13, Zenon DEF DripInv, Announced
  <2>2. /\ OneTask'
        /\ \A q \in Drip!Processes : q # c => x5[q] = Drip!Idle /\ x5'[q] = Drip!Idle
    BY <1>2, <1>3, <1>9, <2>1, OthersIdle
  <2>3. \A d \in Crons : d # c => x5[d] = Drip!Idle /\ x5'[d] = Drip!Idle
    BY <2>2 DEF Drip!Processes
  <2>4. Waits(c, l)
    BY <1>2 DEF Waits
  <2>5. x4[l].there = TRUE /\ x4[l].notified = FALSE /\ x4[l].at <= x1 /\ x4[l].at # 0
    BY <1>4, <2>1, <2>4 DEF StillDue
  <2>6. x6[l] = 0
    <3>1. x6[l] <= 1 /\ (x6[l] = 1 => x4[l].notified = TRUE \/ \E d \in Crons : x5[d].pc = "mark")
      BY <1>4, <2>1 DEF NoticesKept
    <3>2. \A d \in Crons : x5[d].pc # "mark"
      BY <1>2, <2>3, DripIdle
    <3>3. x6[l] \in 0 .. 2
      BY <1>3, <1>4 DEF DripRows
    <3>4. x6[l] # 1
      BY <3>1, <3>2, <2>5
    <3> QED BY <3>1, <3>3, <3>4
  <2>7. Drip!Accessible(l)
    <3>1. x1 \in Nat /\ x4[l].at \in Nat
      BY <1>3, <1>4, DripConstants DEF DripRows, Drip!Unlock
    <3>2. x1 >= x4[l].at
      BY <2>5, <3>1
    <3> QED BY <2>5, <3>2, Zenon DEF Drip!Accessible
  <2>8. x7' = FALSE
    <3>1. x7 = FALSE
      BY <2>1 DEF NoticesKept
    <3> QED BY <1>1, <2>5, <2>7, <3>1, Zenon
  <2>9. NoticesKept'
    <3> SUFFICES ASSUME NEW m \in Drip!Lessons
                 PROVE  /\ x6'[m] <= 1
                        /\ x6'[m] = 1 => x4'[m].notified = TRUE \/ (x5'[c].pc = "mark" /\ x5'[c].day = m)
      BY <2>8, Zenon DEF NoticesKept
    <3>1. CASE m = l
      <4>1. x6'[m] = 1
        BY <1>1, <1>3, <2>6, <3>1 DEF DripRows
      <4> QED BY <4>1, <3>1, <1>7, <1>9
    <3>2. CASE m # l
      <4>1. x6'[m] = x6[m]
        BY <1>1, <1>3, <3>2 DEF DripRows
      <4>2. x6[m] <= 1 /\ (x6[m] = 1 => x4[m].notified = TRUE \/ \E d \in Crons : x5[d].pc = "mark")
        BY <2>1 DEF NoticesKept
      <4>3. \A d \in Crons : x5[d].pc # "mark"
        BY <1>2, <2>3, DripIdle
      <4> QED BY <4>1, <4>2, <4>3, <1>2
    <3> QED BY <3>1, <3>2
  <2>10. StillDue'
    <3> SUFFICES ASSUME NEW d \in Crons, NEW m \in x5'[d].left, Waits(d, m)'
                 PROVE  /\ x4[m].there = TRUE /\ x4[m].notified = FALSE /\ x4[m].at <= x1
                        /\ x4[m].at = 0 => m \in x5'[d].skip
      BY <1>2 DEF StillDue
    <3>1. d = c
      BY <2>3, DripIdle
    <3>2. m \in x5[c].left /\ x5'[d].skip = x5[c].skip
      BY <1>7, <1>9, <3>1
    <3>3. Waits(c, m)
      BY <1>2 DEF Waits
    <3> QED BY <2>1, <3>2, <3>3 DEF StillDue
  <2> QED BY <2>2, <2>9, <2>10 DEF Announced
<1> QED BY <1>9, <1>10, <1>11, <1>12, <1>13 DEF DripInv

LEMMA DripNextDay == ASSUME DripInv, Drip!NextDay PROVE DripInv'
<1>1. /\ x1 < MaxDay /\ x1' = x1 + 1 /\ x2' = x2 /\ x3' = x3 /\ x4' = x4 /\ x5' = x5
      /\ x6' = x6 /\ x7' = x7 /\ x8' = x8 /\ x9' = x9
  BY DEF Drip!NextDay, Drip!historyVars
<1>2. DripRows /\ DripFlags /\ DripTasks /\ LessonsLeft /\ Overrides
  BY DEF DripInv
<1>3. DripRows'
  <2>1. x1' \in Drip!Days
    BY <1>1, <1>2, DripConstants DEF DripRows, Drip!Days
  <2> QED BY <1>1, <1>2, <2>1 DEF DripRows
<1>4. DripFlags'
  BY <1>1, <1>2, Zenon DEF DripFlags
<1>5. DripTasks' /\ LessonsLeft' /\ Overrides'
  BY <1>1, <1>2 DEF DripTasks, LessonsLeft, Overrides
<1>6. ASSUME x9' = FALSE PROVE Announced'
  <2>1. OneTask /\ NoticesKept /\ StillDue
    BY <1>1, <1>6, Zenon DEF DripInv, Announced
  <2>2. OneTask' /\ NoticesKept'
    BY <1>1, <2>1 DEF OneTask, NoticesKept
  <2>3. StillDue'
    <3> SUFFICES ASSUME NEW c \in Crons, NEW l \in x5[c].left, Waits(c, l)
                 PROVE  /\ x4[l].there = TRUE /\ x4[l].notified = FALSE /\ x4[l].at <= x1'
                        /\ x4[l].at = 0 => l \in x5[c].skip
      BY <1>1 DEF StillDue, Waits
    <3>1. /\ x4[l].there = TRUE /\ x4[l].notified = FALSE /\ x4[l].at <= x1
          /\ x4[l].at = 0 => l \in x5[c].skip
      BY <2>1 DEF StillDue
    <3>2. c \in Drip!Processes
      BY DEF Drip!Processes
    <3>3. l \in Drip!Lessons
      BY <3>2, <1>2 DEF DripTasks, Drip!TaskType
    <3>4. x4[l].at \in Nat /\ x1 \in Nat
      BY <3>3, <1>2, DripConstants DEF DripRows, Drip!Unlock
    <3>5. x4[l].at <= x1'
      BY <1>1, <3>1, <3>4
    <3> QED BY <3>1, <3>5
  <2> QED BY <2>2, <2>3 DEF Announced
<1> QED BY <1>3, <1>4, <1>5, <1>6 DEF DripInv

LEMMA DripCrash == ASSUME DripInv, NEW p \in Drip!Processes, Drip!Crash(p) PROVE DripInv'
<1>1. /\ x5' = [x5 EXCEPT ![p] = Drip!Idle] /\ x9' = TRUE /\ x1' = x1 /\ x2' = x2
      /\ x3' = x3 /\ x4' = x4 /\ x6' = x6 /\ x7' = x7 /\ x8' = x8
  BY DEF Drip!Crash, Drip!historyVars, Drip!configVars
<1>2. DripRows /\ DripFlags /\ DripTasks /\ LessonsLeft /\ Overrides
  BY DEF DripInv
<1>3. /\ DripTasks' /\ x5'[p] = Drip!Idle
      /\ \A q \in Drip!Processes : q # p => x5'[q] = x5[q]
  BY <1>1, <1>2, DripIdle, DripMoves
<1>4. Allowed(p, Drip!Idle)
  BY DripIdle DEF Allowed
<1>5. LessonsLeft'
  BY <1>2, <1>3, <1>4, DripAllowed
<1>6. DripRows' /\ Overrides'
  BY <1>1, <1>2 DEF DripRows, Overrides
<1>7. DripFlags'
  BY <1>1, <1>2, Zenon DEF DripFlags
<1> QED BY <1>1, <1>3, <1>5, <1>6, <1>7 DEF DripInv

LEMMA DripInductive == DripInv /\ [Drip!Next]_(Drip!vars) => DripInv'
<1> SUFFICES ASSUME DripInv, [Drip!Next]_(Drip!vars) PROVE DripInv'
  OBVIOUS
<1>1. ASSUME NEW r \in Requests,
             \/ Drip!ConfigureCourseDrip(r) \/ Drip!ConfigureLessonDrip(r)
             \/ Drip!VisitUnscheduled(r)
      PROVE  DripInv'
  BY <1>1, DripConfigures
<1>2. ASSUME NEW r \in Requests, Drip!SyncLesson(r) PROVE DripInv'
  BY <1>2, DripSyncLesson
<1>3. ASSUME NEW r \in Requests, Drip!StartOverride(r) PROVE DripInv'
  BY <1>3, DripOverrideStarts
<1>4. ASSUME NEW r \in Requests, Drip!OverrideLesson(r) PROVE DripInv'
  BY <1>4, DripOverrideLesson
<1>5. ASSUME NEW c \in Crons, Drip!StartNotify(c) PROVE DripInv'
  BY <1>5, DripNotifyStarts
<1>6. ASSUME NEW c \in Crons, Drip!SkipNotice(c) PROVE DripInv'
  BY <1>6, DripSkipNotice
<1>7. ASSUME NEW c \in Crons, Drip!SendNotice(c) PROVE DripInv'
  BY <1>7, DripSendNotice
<1>8. ASSUME NEW c \in Crons, Drip!NoticeFails(c) PROVE DripInv'
  BY <1>8, DripNoticeFails
<1>9. ASSUME NEW c \in Crons, Drip!MarkNotified(c) PROVE DripInv'
  BY <1>9, DripMarkNotified
<1>10. ASSUME Drip!NextDay PROVE DripInv'
  BY <1>10, DripNextDay
<1>11. ASSUME NEW p \in Drip!Processes, Drip!Crash(p) PROVE DripInv'
  BY <1>11, DripCrash
<1>12. ASSUME UNCHANGED Drip!vars PROVE DripInv'
  <2>1. UNCHANGED <<x1, x2, x3, x4, x5, x6, x7, x8, x9>>
    BY <1>12 DEF Drip!vars
  <2>2. DripRows' /\ DripTasks' /\ LessonsLeft' /\ Overrides'
    BY <2>1 DEF DripInv, DripRows, DripTasks, LessonsLeft, Overrides
  <2>3. DripFlags'
    BY <2>1, Zenon DEF DripInv, DripFlags
  <2>4. Announced => Announced'
    BY <2>1 DEF Announced, OneTask, NoticesKept, StillDue, Waits
  <2> QED BY <2>1, <2>2, <2>3, <2>4 DEF DripInv
<1> QED BY <1>1, <1>2, <1>3, <1>4, <1>5, <1>6, <1>7, <1>8, <1>9, <1>10, <1>11, <1>12
        DEF Drip!Next

LEMMA DripMeans == DripInv => Drip!TypeOK /\ Drip!OverrideStands /\ Drip!AnnouncedOnce
<1> SUFFICES ASSUME DripInv PROVE Drip!TypeOK /\ Drip!OverrideStands /\ Drip!AnnouncedOnce
  OBVIOUS
<1>1. Drip!TypeOK
  <2>1. {x2, x7, x9} \subseteq BOOLEAN
    BY Zenon DEF DripInv, DripFlags
  <2> QED BY <2>1 DEF DripInv, DripRows, DripTasks, Drip!TypeOK
<1>2. Drip!OverrideStands
  BY Zenon DEF DripInv, Overrides, Drip!OverrideStands, Drip!Accessible
<1>3. Drip!AnnouncedOnce
  <2> SUFFICES ASSUME ~x9 PROVE ~x7 /\ \A l \in Drip!Lessons : x6[l] <= 1
    BY DEF Drip!AnnouncedOnce
  <2>1. x9 = FALSE
    BY Zenon DEF DripInv, DripFlags
  <2> QED BY <2>1 DEF DripInv, Announced, NoticesKept
<1> QED BY <1>1, <1>2, <1>3

------------------------------------------------------------------------------
(***************************************************************************)
(* FraudDetection: x1 is the age of each enrolment, x2 the active ones, x3 *)
(* the flags, x4 the requests, x5 the enrolments let through with the      *)
(* answer FLAG, x6 says whether something disturbed a request.  As long as *)
(* nothing does, the score of a student only grows, so the second call     *)
(* stores the flag that the first one promised; no row that holds a flag   *)
(* loses it to a review.                                                   *)
(***************************************************************************)
Suspicious(r) == x4[r].pc = "post" \/ (x4[r].pc = "create" /\ x4[r].flagged = TRUE)
ScoresHigh ==
  \A r \in Requests, c \in SuspectCourses, h \in BOOLEAN :
    Suspicious(r) /\ x4[r].course = c /\ x4[r].high = h => Fraud!Score(c, h) >= HighRisk
HasFlag(c) == \E f \in Txs : x3[f].status # "none" /\ x3[f].course = c /\ x3[f].enrolled = TRUE
FlagsKept ==
  \A c \in x5 : (\E r \in Requests : x4[r].pc = "post" /\ x4[r].course = c) \/ HasFlag(c)
FraudTypes ==
  /\ x1 \in [SuspectCourses -> {"none", "window", "day", "old"}]
  /\ x2 \subseteq SuspectCourses /\ x5 \subseteq SuspectCourses /\ x3 \in [Txs -> Fraud!Flag]
FraudTasks == x4 \in [Requests -> Fraud!TaskType]
ToReview == \A r \in Requests : x4[r].pc = "review" => x3[x4[r].flag].status # "none"
FraudInv ==
  /\ FraudTypes /\ FraudTasks /\ x6 \in BOOLEAN /\ ToReview
  /\ x6 = FALSE => ScoresHigh /\ FlagsKept

LEMMA FraudFinite == \A S : Fraud!IsFiniteSet(S) <=> IsFiniteSet(S)
BY Zenon DEF Fraud!IsFiniteSet, IsFiniteSet

LEMMA FraudCardinality == \A S : Fraud!Cardinality(S) = Cardinality(S)
BY Zenon DEF Fraud!Cardinality, Cardinality

LEMMA FraudConstants ==
  /\ IsFiniteSet(SuspectCourses) /\ SuspectCourses # {} /\ MaxPerWindow \in Nat /\ MaxDaily \in Nat
  /\ MaxActive \in Nat /\ HighRisk \in Nat /\ Critical \in Nat
<1>1. Fraud!ConstantsAssumption
  BY StudentAssumption, Zenon
<1>2. /\ IsFiniteSet(SuspectCourses) /\ SuspectCourses # {}
      /\ {MaxPerWindow, MaxDaily, MaxActive, HighRisk, Critical} \subseteq Nat
  BY <1>1, FraudFinite, Zenon DEF Fraud!ConstantsAssumption
<1> QED BY <1>2

LEMMA FraudIdle ==
  /\ Fraud!Idle \in Fraud!TaskType /\ Fraud!Idle.pc = "idle"
BY DEF Fraud!Idle, Fraud!TaskType

LEMMA FraudInitially == Fraud!Init => FraudInv
<1> SUFFICES ASSUME Fraud!Init PROVE FraudInv
  OBVIOUS
<1>1. /\ x1 = [c \in SuspectCourses |-> "none"] /\ x2 = {} /\ x3 = [f \in Txs |-> Fraud!NoFlag]
      /\ x4 = [r \in Requests |-> Fraud!Idle] /\ x5 = {} /\ x6 = FALSE
  BY DEF Fraud!Init
<1>2. FraudTypes /\ FraudTasks /\ ToReview
  BY <1>1, FraudIdle DEF FraudTypes, FraudTasks, ToReview, Fraud!Flag
<1>3. ScoresHigh /\ FlagsKept
  BY <1>1, FraudIdle DEF ScoresHigh, FlagsKept, Suspicious
<1> QED BY <1>1, <1>2, <1>3 DEF FraudInv

\* A count of enrolments grows with their set.
LEMMA CountGrows ==
  ASSUME NEW T \in SUBSET SuspectCourses, NEW S \in SUBSET T
  PROVE  /\ Fraud!Cardinality(S) \in Nat /\ Fraud!Cardinality(T) \in Nat
         /\ Fraud!Cardinality(S) <= Fraud!Cardinality(T)
<1>1. IsFiniteSet(T)
  BY FraudConstants, FS_Subset
<1>2. IsFiniteSet(S) /\ Cardinality(S) <= Cardinality(T)
  BY <1>1, FS_Subset
<1> QED BY <1>1, <1>2, FS_CardinalityType, FraudCardinality

\* What counts for a student only grows.
AgesGrow ==
  \A d \in SuspectCourses : /\ x1[d] = "window" => x1'[d] = "window"
                            /\ x1[d] \in {"window", "day"} => x1'[d] \in {"window", "day"}
                            /\ x1[d] # "none" => x1'[d] # "none"
VerdictsStand == \A f \in Txs : x3[f].status = "CONFIRMED" => x3'[f].status = "CONFIRMED"
Grows == AgesGrow /\ x2 \subseteq x2' /\ VerdictsStand
\* A flag may be judged anew, but never taken from its enrolment.
RowsKept ==
  \A f \in Txs : x3[f].status # "none" =>
    x3'[f].status # "none" /\ x3'[f].course = x3[f].course /\ x3'[f].enrolled = x3[f].enrolled

LEMMA ScoreGrows ==
  ASSUME FraudTypes, FraudTypes', Grows, NEW c \in SuspectCourses, NEW h \in BOOLEAN,
         Fraud!Score(c, h) >= HighRisk
  PROVE  Fraud!Score(c, h)' >= HighRisk
<1> DEFINE W == {d \in SuspectCourses : x1[d] \in {"window"}}
           D == {d \in SuspectCourses : x1[d] \in {"window", "day"}}
           W2 == {d \in SuspectCourses : x1'[d] \in {"window"}}
           D2 == {d \in SuspectCourses : x1'[d] \in {"window", "day"}}
<1>1. /\ Fraud!Cardinality(W) \in Nat /\ Fraud!Cardinality(W2) \in Nat /\ Fraud!Cardinality(W) <= Fraud!Cardinality(W2)
      /\ Fraud!Cardinality(D) \in Nat /\ Fraud!Cardinality(D2) \in Nat /\ Fraud!Cardinality(D) <= Fraud!Cardinality(D2)
      /\ Fraud!Cardinality(x2) \in Nat /\ Fraud!Cardinality(x2') \in Nat
      /\ Fraud!Cardinality(x2) <= Fraud!Cardinality(x2')
  <2>1. W \subseteq W2 /\ W2 \subseteq SuspectCourses /\ D \subseteq D2 /\ D2 \subseteq SuspectCourses
    BY DEF Grows, AgesGrow
  <2>2. x2 \subseteq x2' /\ x2' \subseteq SuspectCourses
    BY DEF Grows, FraudTypes
  <2> HIDE DEF W, D, W2, D2
  <2> QED BY <2>1, <2>2, CountGrows
<1> DEFINE a1 == Fraud!Points(Fraud!Cardinality(W) >= MaxPerWindow, 40)
           a2 == Fraud!Points(Fraud!Cardinality(D) >= MaxDaily, 25)
           a3 == Fraud!Points(\E f \in Txs : x3[f].status = "CONFIRMED", 35)
           a4 == Fraud!Points(h, 15)
           a5 == Fraud!Points(Fraud!Cardinality(x2) >= MaxActive, 20)
           a6 == Fraud!Points(x1[c] # "none", 30)
           b1 == Fraud!Points(Fraud!Cardinality(W2) >= MaxPerWindow, 40)
           b2 == Fraud!Points(Fraud!Cardinality(D2) >= MaxDaily, 25)
           b3 == Fraud!Points(\E f \in Txs : x3'[f].status = "CONFIRMED", 35)
           b5 == Fraud!Points(Fraud!Cardinality(x2') >= MaxActive, 20)
           b6 == Fraud!Points(x1'[c] # "none", 30)
<1>2. a1 \in Nat /\ b1 \in Nat /\ a1 <= b1
  BY <1>1, FraudConstants DEF Fraud!Points
<1>3. a2 \in Nat /\ b2 \in Nat /\ a2 <= b2
  BY <1>1, FraudConstants DEF Fraud!Points
<1>4. a3 \in Nat /\ b3 \in Nat /\ a3 <= b3
  BY DEF Grows, VerdictsStand, Fraud!Points
<1>5. a4 \in Nat
  BY DEF Fraud!Points
<1>6. a5 \in Nat /\ b5 \in Nat /\ a5 <= b5
  BY <1>1, FraudConstants DEF Fraud!Points
<1>7. a6 \in Nat /\ b6 \in Nat /\ a6 <= b6
  BY DEF Grows, AgesGrow, Fraud!Points
<1>8. /\ Fraud!Signals(c, h) = a1 + a2 + a3 + a4 + a5 + a6
      /\ Fraud!Signals(c, h)' = b1 + b2 + b3 + a4 + b5 + b6
  <2>1. Fraud!Signals(c, h) = a1 + a2 + a3 + a4 + a5 + a6
    BY Zenon DEF Fraud!Signals, Fraud!Aged, Fraud!PriorConfirmed
  <2>2. Fraud!Signals(c, h)' = b1 + b2 + b3 + a4 + b5 + b6
    BY Zenon DEF Fraud!Signals, Fraud!Aged, Fraud!PriorConfirmed
  <2> QED BY <2>1, <2>2
<1> HIDE DEF a1, a2, a3, a4, a5, a6, b1, b2, b3, b5, b6
<1> DEFINE u == Fraud!Signals(c, h)
           v == Fraud!Signals(c, h)'
<1>9. u \in Nat /\ v \in Nat /\ u <= v
  BY <1>2, <1>3, <1>4, <1>5, <1>6, <1>7, <1>8
<1>10. /\ Fraud!Score(c, h) = IF u > 100 THEN 100 ELSE u
       /\ Fraud!Score(c, h)' = IF v > 100 THEN 100 ELSE v
  BY DEF Fraud!Score
<1> HIDE DEF u, v
<1> QED BY <1>9, <1>10, FraudConstants

LEMMA FraudMoves ==
  ASSUME FraudTasks, NEW r \in Requests, NEW new \in Fraud!TaskType, x4' = [x4 EXCEPT ![r] = new]
  PROVE  FraudTasks' /\ x4'[r] = new /\ \A o \in Requests : o # r => x4'[o] = x4[o]
BY DEF FraudTasks

\* A step of a request in which what counts for the student only grows.
LEMMA FraudSteps ==
  ASSUME FraudInv, NEW r \in Requests, NEW new \in Fraud!TaskType, x4' = [x4 EXCEPT ![r] = new],
         FraudTypes', RowsKept, (x6 \in BOOLEAN)', x6' = FALSE => x6 = FALSE /\ Grows,
         new.pc = "review" => new.flag \in Txs /\ x3[new.flag].status # "none",
         x6 = FALSE /\ (new.pc = "post" \/ (new.pc = "create" /\ new.flagged = TRUE))
           => Fraud!Score(new.course, new.high) >= HighRisk,
         \A c \in x5' : c \in x5 \/ (new.pc = "post" /\ new.course = c),
         x6 = FALSE /\ x4[r].pc = "post"
           => \A c \in SuspectCourses : x4[r].course = c => HasFlag(c)'
  PROVE  FraudInv'
<1>1. /\ FraudTasks' /\ x4'[r] = new
      /\ \A o \in Requests : o # r => x4'[o] = x4[o]
  BY FraudMoves DEF FraudInv
<1>2. (x6 \in BOOLEAN)'
  BY Zenon DEF FraudInv
<1>3. ToReview'
  <2> SUFFICES ASSUME NEW o \in Requests, x4'[o].pc = "review"
               PROVE  x3'[x4'[o].flag].status # "none"
    BY DEF ToReview
  <2>1. x4'[o].flag \in Txs
    BY <1>1 DEF FraudTasks, Fraud!TaskType, Fraud!Idle
  <2>2. x3[x4'[o].flag].status # "none"
    BY <1>1 DEF FraudInv, ToReview
  <2> QED BY <2>1, <2>2 DEF RowsKept
<1>4. ASSUME x6' = FALSE PROVE ScoresHigh'
  <2> SUFFICES ASSUME NEW o \in Requests, NEW c \in SuspectCourses, NEW h \in BOOLEAN,
                      Suspicious(o)', x4'[o].course = c, x4'[o].high = h
               PROVE  Fraud!Score(c, h)' >= HighRisk
    BY DEF ScoresHigh
  <2>1. FraudTypes /\ ScoresHigh /\ x6 = FALSE /\ Grows
    BY <1>4, Zenon DEF FraudInv
  <2>2. Fraud!Score(c, h) >= HighRisk
    <3>1. CASE o = r
      <4>1. new.pc = "post" \/ (new.pc = "create" /\ new.flagged = TRUE)
        BY <3>1, <1>1 DEF Suspicious
      <4>2. new.course = c /\ new.high = h
        BY <3>1, <1>1
      <4>3. Fraud!Score(new.course, new.high) >= HighRisk
        BY <2>1, <4>1
      <4> QED BY <4>2, <4>3
    <3>2. CASE o # r
      <4>1. Suspicious(o) /\ x4[o].course = c /\ x4[o].high = h
        BY <3>2, <1>1 DEF Suspicious
      <4> QED BY <2>1, <4>1 DEF ScoresHigh
    <3> QED BY <3>1, <3>2
  <2> QED BY <2>1, <2>2, ScoreGrows
<1>5. ASSUME x6' = FALSE PROVE FlagsKept'
  <2> SUFFICES ASSUME NEW c \in x5'
               PROVE  (\E o \in Requests : x4'[o].pc = "post" /\ x4'[o].course = c) \/ HasFlag(c)'
    BY DEF FlagsKept
  <2>1. FlagsKept /\ x6 = FALSE
    BY <1>5, Zenon DEF FraudInv
  <2>2. CASE new.pc = "post" /\ new.course = c
    BY <2>2, <1>1
  <2>3. CASE c \in x5
    <3>1. CASE \E o \in Requests : x4[o].pc = "post" /\ x4[o].course = c
      <4>1. PICK o \in Requests : x4[o].pc = "post" /\ x4[o].course = c
        BY <3>1
      <4>2. CASE o = r
        <5>1. c \in SuspectCourses
          BY <2>3 DEF FraudInv, FraudTypes
        <5> QED BY <4>1, <4>2, <2>1, <5>1
      <4>3. CASE o # r
        BY <4>1, <4>3, <1>1
      <4> QED BY <4>2, <4>3
    <3>2. CASE HasFlag(c)
      <4>1. HasFlag(c)'
        BY <3>2 DEF HasFlag, RowsKept
      <4> QED BY <4>1
    <3> QED BY <2>1, <2>3, <3>1, <3>2 DEF FlagsKept
  <2> QED BY <2>2, <2>3
<1> QED BY <1>1, <1>2, <1>3, <1>4, <1>5 DEF FraudInv

\* A request that starts, or ends, without a row having changed.
LEMMA FraudQuiet ==
  ASSUME FraudInv, NEW r \in Requests, NEW new \in Fraud!TaskType, x4' = [x4 EXCEPT ![r] = new],
         new.pc \in {"idle", "pre", "review"}, x4[r].pc # "post",
         new.pc = "review" => new.flag \in Txs /\ x3[new.flag].status # "none",
         x1' = x1, x2' = x2, x3' = x3, x5' = x5, x6' = x6
  PROVE  FraudInv'
<1>1. FraudTypes' /\ Grows /\ RowsKept
  BY DEF FraudInv, FraudTypes, Grows, AgesGrow, VerdictsStand, RowsKept
<1>3. (x6 \in BOOLEAN)' /\ (x6' = FALSE => x6 = FALSE)
  BY Zenon DEF FraudInv
<1>2. ~(new.pc = "post" \/ (new.pc = "create" /\ new.flagged = TRUE))
  OBVIOUS
<1> QED BY <1>1, <1>2, <1>3, FraudSteps

LEMMA FraudStarts ==
  ASSUME FraudInv, NEW r \in Requests, Fraud!StartEnroll(r) \/ Fraud!StartReview(r)
  PROVE  FraudInv'
<1>1. CASE Fraud!StartEnroll(r)
  <2>1. PICK c \in SuspectCourses, h \in BOOLEAN :
          x4' = [x4 EXCEPT ![r] = [pc |-> "pre", course |-> c, high |-> h, flagged |-> FALSE]]
    BY <1>1 DEF Fraud!StartEnroll
  <2>2. x4[r] = Fraud!Idle /\ x1' = x1 /\ x2' = x2 /\ x3' = x3 /\ x5' = x5 /\ x6' = x6
    BY <1>1 DEF Fraud!StartEnroll
  <2> DEFINE new == [pc |-> "pre", course |-> c, high |-> h, flagged |-> FALSE]
  <2>3. new \in Fraud!TaskType /\ new.pc = "pre"
    BY DEF Fraud!TaskType
  <2>4. x4' = [x4 EXCEPT ![r] = new]
    BY <2>1
  <2> HIDE DEF new
  <2> QED BY <2>2, <2>3, <2>4, FraudIdle, FraudQuiet
<1>2. CASE Fraud!StartReview(r)
  <2>1. PICK f \in Txs : /\ x3[f].status \in {"OPEN", "HELD"}
                         /\ x4' = [x4 EXCEPT ![r] = [pc |-> "review", flag |-> f]]
    BY <1>2 DEF Fraud!StartReview
  <2>2. x4[r] = Fraud!Idle /\ x1' = x1 /\ x2' = x2 /\ x3' = x3 /\ x5' = x5 /\ x6' = x6
    BY <1>2 DEF Fraud!StartReview
  <2> DEFINE new == [pc |-> "review", flag |-> f]
  <2>3. new \in Fraud!TaskType /\ new.pc = "review" /\ new.flag = f
    BY DEF Fraud!TaskType
  <2>4. x4' = [x4 EXCEPT ![r] = new]
    BY <2>1
  <2> HIDE DEF new
  <2> QED BY <2>1, <2>2, <2>3, <2>4, FraudIdle, FraudQuiet
<1> QED BY <1>1, <1>2

\* A new flag takes a row that holds none.
LEMMA FraudFlags ==
  ASSUME FraudTypes, NEW c \in SuspectCourses, NEW e \in BOOLEAN, NEW s \in {"OPEN", "HELD"},
         Fraud!CreateFlag(c, e, s)
  PROVE  /\ x3' \in [Txs -> Fraud!Flag] /\ RowsKept /\ VerdictsStand
         /\ e = TRUE => HasFlag(c)'
<1> DEFINE flag == [course |-> c, enrolled |-> e, status |-> s]
<1>1. PICK f \in Txs : x3[f] = Fraud!NoFlag /\ x3' = [x3 EXCEPT ![f] = flag]
  BY DEF Fraud!CreateFlag
<1>2. /\ flag \in Fraud!Flag /\ flag.course = c /\ flag.enrolled = e /\ flag.status # "none"
  BY DEF Fraud!Flag
<1>3. x3[f].status = "none"
  BY <1>1 DEF Fraud!NoFlag
<1>4. x3 \in [Txs -> Fraud!Flag]
  BY DEF FraudTypes
<1> HIDE DEF flag
<1>5. /\ x3' \in [Txs -> Fraud!Flag] /\ x3'[f] = flag
      /\ \A g \in Txs : g # f => x3'[g] = x3[g]
  BY <1>1, <1>2, <1>4
<1>6. RowsKept
  BY <1>3, <1>5 DEF RowsKept
<1>7. VerdictsStand
  BY <1>3, <1>5 DEF VerdictsStand
<1>8. e = TRUE => HasFlag(c)'
  BY <1>2, <1>5 DEF HasFlag
<1> QED BY <1>5, <1>6, <1>7, <1>8

LEMMA FraudPreChecks ==
  ASSUME FraudInv, NEW r \in Requests, Fraud!PreEnrollmentCheck(r) PROVE FraudInv'
<1> DEFINE c == x4[r].course
           h == x4[r].high
           action == Fraud!MapScoreToAction(Fraud!Score(c, h))
<1>1. /\ FraudTypes /\ FraudTasks /\ x4[r] \in Fraud!TaskType /\ x4[r].pc = "pre"
      /\ x1' = x1 /\ x2' = x2 /\ x5' = x5 /\ x6' = x6
  BY DEF Fraud!PreEnrollmentCheck, FraudInv, FraudTasks
<1>2. c \in SuspectCourses /\ h \in BOOLEAN
  BY <1>1 DEF Fraud!TaskType, Fraud!Idle
<1>5. (x6 \in BOOLEAN)' /\ (x6' = FALSE => x6 = FALSE)
  BY <1>1, Zenon DEF FraudInv
<1>3. CASE action = "HOLD"
  <2>1. Fraud!CreateFlag(c, FALSE, "HELD") /\ x4' = [x4 EXCEPT ![r] = Fraud!Idle]
    BY <1>3, Zenon DEF Fraud!PreEnrollmentCheck, Fraud!Finish
  <2>2. FraudTypes' /\ Grows /\ RowsKept
    BY <1>1, <1>2, <2>1, FraudFlags DEF FraudTypes, Grows, AgesGrow, VerdictsStand
  <2> QED BY <1>1, <1>5, <2>1, <2>2, FraudIdle, FraudSteps
<1>4. CASE action # "HOLD"
  <2> DEFINE b == action = "FLAG"
             new == [pc |-> "create", course |-> c, high |-> h, flagged |-> b]
  <2>1. x4' = [x4 EXCEPT ![r].pc = "create", ![r].flagged = b] /\ x3' = x3
    BY <1>4, Zenon DEF Fraud!PreEnrollmentCheck
  <2>2. b \in BOOLEAN /\ (b = TRUE => Fraud!Score(c, h) >= HighRisk)
    BY DEF Fraud!MapScoreToAction
  <2> HIDE DEF b
  <2>3. x4' = [x4 EXCEPT ![r] = new]
    <3>1. x4' = [x4 EXCEPT ![r] = [[x4[r] EXCEPT !.pc = "create"] EXCEPT !.flagged = b]]
      BY <1>1, <2>1 DEF FraudTasks
    <3>2. [x4[r] EXCEPT !.pc = "create"]
            = [pc |-> "create", course |-> c, high |-> h, flagged |-> x4[r].flagged]
      BY <1>1 DEF Fraud!TaskType, Fraud!Idle
    <3>3. [[pc |-> "create", course |-> c, high |-> h, flagged |-> x4[r].flagged] EXCEPT !.flagged = b] = new
      OBVIOUS
    <3> QED BY <3>1, <3>2, <3>3, Zenon
  <2>4. new \in Fraud!TaskType
    BY <1>1, <1>2, <2>2 DEF Fraud!TaskType
  <2>5. new.pc = "create" /\ new.course = c /\ new.high = h /\ new.flagged = b
    OBVIOUS
  <2>6. FraudTypes' /\ Grows /\ RowsKept
    BY <1>1, <2>1 DEF FraudTypes, Grows, AgesGrow, VerdictsStand, RowsKept
  <2> HIDE DEF new, c, h
  <2>7. new.flagged = TRUE => Fraud!Score(new.course, new.high) >= HighRisk
    BY <2>2, <2>5
  <2> QED BY <1>1, <1>5, <2>1, <2>3, <2>4, <2>5, <2>6, <2>7, FraudSteps
<1> QED BY <1>3, <1>4

LEMMA FraudCreates ==
  ASSUME FraudInv, NEW r \in Requests, Fraud!CreateEnrollment(r) PROVE FraudInv'
<1> DEFINE c == x4[r].course
<1>1. /\ FraudTypes /\ FraudTasks /\ x4[r] \in Fraud!TaskType /\ x4[r].pc = "create"
      /\ x3' = x3 /\ x6' = x6
  BY DEF Fraud!CreateEnrollment, FraudInv, FraudTasks
<1>2. c \in SuspectCourses
  BY <1>1 DEF Fraud!TaskType, Fraud!Idle
<1>5. (x6 \in BOOLEAN)' /\ (x6' = FALSE => x6 = FALSE)
  BY <1>1, Zenon DEF FraudInv
<1>3. CASE x1[c] # "none"
  <2>1. x4' = [x4 EXCEPT ![r] = Fraud!Idle] /\ x1' = x1 /\ x2' = x2 /\ x5' = x5
    BY <1>3 DEF Fraud!CreateEnrollment, Fraud!Finish
  <2> QED BY <1>1, <2>1, FraudIdle, FraudQuiet
<1>4. CASE x1[c] = "none"
  <2>1. x1' = [x1 EXCEPT ![c] = "window"] /\ x2' = x2 \union {c}
    BY <1>4 DEF Fraud!CreateEnrollment
  <2>2. Grows /\ RowsKept
    BY <1>1, <1>4, <2>1 DEF Grows, AgesGrow, VerdictsStand, FraudTypes, RowsKept
  <2>3. CASE x4[r].flagged
    <3>1. x5' = x5 \union {c} /\ x4' = [x4 EXCEPT ![r].pc = "post"]
      BY <1>4, <2>3 DEF Fraud!CreateEnrollment, Fraud!Goto
    <3> DEFINE new == [x4[r] EXCEPT !.pc = "post"]
    <3>2. /\ new \in Fraud!TaskType /\ new.pc = "post" /\ new.course = c
          /\ new.high = x4[r].high
      BY <1>1 DEF Fraud!TaskType, Fraud!Idle
    <3>3. x4' = [x4 EXCEPT ![r] = new]
      BY <3>1
    <3>4. FraudTypes'
      BY <1>1, <1>2, <2>1, <3>1 DEF FraudTypes
    <3> HIDE DEF new
    <3>5. x6 = FALSE => Fraud!Score(c, x4[r].high) >= HighRisk
      <4>1. x4[r].flagged \in BOOLEAN /\ x4[r].high \in BOOLEAN
        BY <1>1 DEF Fraud!TaskType, Fraud!Idle
      <4>2. Suspicious(r)
        BY <1>1, <2>3, <4>1, Zenon DEF Suspicious
      <4> QED BY <1>2, <4>1, <4>2 DEF FraudInv, ScoresHigh
    <3> HIDE DEF c
    <3>6. x6 = FALSE => Fraud!Score(new.course, new.high) >= HighRisk
      BY <3>2, <3>5
    <3> QED BY <1>1, <1>5, <2>2, <3>1, <3>2, <3>3, <3>4, <3>6, FraudSteps
  <2>4. CASE ~x4[r].flagged
    <3>1. x5' = x5 /\ x4' = [x4 EXCEPT ![r] = Fraud!Idle]
      BY <1>4, <2>4 DEF Fraud!CreateEnrollment, Fraud!Finish
    <3>2. FraudTypes'
      BY <1>1, <1>2, <2>1, <3>1 DEF FraudTypes
    <3> QED BY <1>1, <1>5, <2>2, <3>1, <3>2, FraudIdle, FraudSteps
  <2> QED BY <2>3, <2>4
<1> QED BY <1>3, <1>4

LEMMA FraudPostChecks ==
  ASSUME FraudInv, NEW r \in Requests, Fraud!PostEnrollmentCheck(r) PROVE FraudInv'
<1> DEFINE c == x4[r].course
           action == Fraud!MapScoreToAction(Fraud!Score(c, x4[r].high))
           s == IF action = "HOLD" THEN "HELD" ELSE "OPEN"
<1>1. /\ FraudTypes /\ FraudTasks /\ x4[r] \in Fraud!TaskType /\ x4[r].pc = "post"
      /\ x1' = x1 /\ x2' = x2 /\ x5' = x5 /\ x6' = x6 /\ x4' = [x4 EXCEPT ![r] = Fraud!Idle]
  BY DEF Fraud!PostEnrollmentCheck, FraudInv, FraudTasks, Fraud!Finish
<1>2. IF Fraud!Stored(action) THEN Fraud!CreateFlag(c, TRUE, s) ELSE x3' = x3
  BY Zenon DEF Fraud!PostEnrollmentCheck
<1>3. c \in SuspectCourses /\ x4[r].high \in BOOLEAN
  BY <1>1 DEF Fraud!TaskType, Fraud!Idle
<1>4. s \in {"OPEN", "HELD"}
  OBVIOUS
<1>5. ASSUME x6 = FALSE PROVE Fraud!Stored(action)
  <2>1. Fraud!Score(c, x4[r].high) >= HighRisk
    BY <1>1, <1>3, <1>5 DEF FraudInv, ScoresHigh, Suspicious
  <2> QED BY <2>1 DEF Fraud!Stored, Fraud!MapScoreToAction
<1> HIDE DEF s, action
<1>6. FraudTypes' /\ Grows /\ RowsKept
  <2>1. CASE Fraud!Stored(action)
    BY <1>1, <1>2, <1>3, <1>4, <2>1, FraudFlags DEF FraudTypes, Grows, AgesGrow, VerdictsStand
  <2>2. CASE ~Fraud!Stored(action)
    BY <1>1, <1>2, <2>2 DEF FraudTypes, Grows, AgesGrow, VerdictsStand, RowsKept
  <2> QED BY <2>1, <2>2
<1>7. ASSUME x6 = FALSE, NEW k \in SuspectCourses, x4[r].course = k PROVE HasFlag(k)'
  <2>1. Fraud!CreateFlag(k, TRUE, s)
    BY <1>2, <1>5, <1>7
  <2> QED BY <1>1, <1>4, <2>1, FraudFlags
<1>8. (x6 \in BOOLEAN)' /\ (x6' = FALSE => x6 = FALSE)
  BY <1>1, Zenon DEF FraudInv
<1> QED BY <1>1, <1>6, <1>7, <1>8, FraudIdle, FraudSteps

\* Two reviews of one flag may cross: the row keeps the last verdict, and a student who was
\* confirmed and then cleared has a lower score.
LEMMA FraudReviews ==
  ASSUME FraudInv, NEW r \in Requests, Fraud!ReviewFlag(r) PROVE FraudInv'
<1> DEFINE f == x4[r].flag
<1>1. /\ FraudTypes /\ FraudTasks /\ x4[r] \in Fraud!TaskType /\ x4[r].pc = "review"
      /\ x1' = x1 /\ x2' = x2 /\ x5' = x5 /\ x4' = [x4 EXCEPT ![r] = Fraud!Idle]
  BY DEF Fraud!ReviewFlag, FraudInv, FraudTasks, Fraud!Finish
<1>2. PICK verdict \in {"CLEARED", "CONFIRMED"} :
        /\ x3' = [x3 EXCEPT ![f].status = verdict]
        /\ x6' = (x6 \/ (x3[f].status = "CONFIRMED" /\ verdict = "CLEARED"))
  BY Zenon DEF Fraud!ReviewFlag
<1>3. f \in Txs /\ x3[f].status # "none"
  BY <1>1 DEF FraudInv, ToReview, Fraud!TaskType, Fraud!Idle
<1> DEFINE new == [x3[f] EXCEPT !.status = verdict]
<1>4. /\ new \in Fraud!Flag /\ new.course = x3[f].course /\ new.enrolled = x3[f].enrolled
      /\ new.status = verdict
  <2>1. x3[f] \in Fraud!Flag /\ x3[f] # Fraud!NoFlag
    BY <1>1, <1>3 DEF FraudTypes, Fraud!NoFlag
  <2> QED BY <2>1 DEF Fraud!Flag
<1> HIDE DEF f
<1>5. x3' = [x3 EXCEPT ![f] = new]
  BY <1>2
<1> HIDE DEF new
<1>6. /\ x3' \in [Txs -> Fraud!Flag] /\ x3'[f] = new
      /\ \A g \in Txs : g # f => x3'[g] = x3[g]
  BY <1>1, <1>3, <1>4, <1>5 DEF FraudTypes
<1>7. FraudTypes' /\ RowsKept
  BY <1>1, <1>3, <1>4, <1>6 DEF FraudTypes, RowsKept
<1>8. (x6 \in BOOLEAN)'
  BY <1>2, Zenon DEF FraudInv
<1>9. ASSUME x6' = FALSE PROVE x6 = FALSE /\ Grows
  <2>1. x6 = FALSE /\ ~(x3[f].status = "CONFIRMED" /\ verdict = "CLEARED")
    BY <1>2, <1>9, Zenon DEF FraudInv
  <2>2. VerdictsStand
    BY <1>4, <1>6, <2>1 DEF VerdictsStand
  <2> QED BY <1>1, <2>1, <2>2 DEF Grows, AgesGrow
<1> QED BY <1>1, <1>7, <1>8, <1>9, FraudIdle, FraudSteps

\* A row ages, or is refunded: no request runs, or it is disturbed.
LEMMA FraudEnvironment ==
  ASSUME FraudInv, NEW c \in SuspectCourses, Fraud!Age(c) \/ Fraud!Refund(c) PROVE FraudInv'
<1>1. /\ x3' = x3 /\ x4' = x4 /\ x5' = x5 /\ x6' = (x6 \/ Fraud!Running)
  BY Zenon DEF Fraud!Age, Fraud!Refund
<1>2. FraudTypes'
  BY <1>1 DEF Fraud!Age, Fraud!Refund, FraudInv, FraudTypes
<1>3. FraudTasks' /\ ToReview'
  BY <1>1 DEF FraudInv, FraudTasks, ToReview
<1>4. (x6 \in BOOLEAN)' /\ (x6' = FALSE => x6 = FALSE /\ ~Fraud!Running)
  BY <1>1, Zenon DEF FraudInv
<1>5. ASSUME x6' = FALSE PROVE ScoresHigh' /\ FlagsKept'
  <2>1. \A r \in Requests : x4[r] = Fraud!Idle
    BY <1>4, <1>5 DEF Fraud!Running
  <2>2. ScoresHigh'
    BY <1>1, <2>1, FraudIdle DEF ScoresHigh, Suspicious
  <2>3. FlagsKept
    BY <1>4, <1>5 DEF FraudInv
  <2> QED BY <1>1, <2>2, <2>3 DEF FlagsKept, HasFlag
<1> QED BY <1>2, <1>3, <1>4, <1>5 DEF FraudInv

LEMMA FraudInductive == FraudInv /\ [Fraud!Next]_(Fraud!vars) => FraudInv'
<1> SUFFICES ASSUME FraudInv, [Fraud!Next]_(Fraud!vars) PROVE FraudInv'
  OBVIOUS
<1>1. ASSUME NEW r \in Requests, Fraud!StartEnroll(r) \/ Fraud!StartReview(r) PROVE FraudInv'
  BY <1>1, FraudStarts
<1>2. ASSUME NEW r \in Requests, Fraud!PreEnrollmentCheck(r) PROVE FraudInv'
  BY <1>2, FraudPreChecks
<1>3. ASSUME NEW r \in Requests, Fraud!CreateEnrollment(r) PROVE FraudInv'
  BY <1>3, FraudCreates
<1>4. ASSUME NEW r \in Requests, Fraud!PostEnrollmentCheck(r) PROVE FraudInv'
  BY <1>4, FraudPostChecks
<1>5. ASSUME NEW r \in Requests, Fraud!ReviewFlag(r) PROVE FraudInv'
  BY <1>5, FraudReviews
<1>6. ASSUME NEW r \in Requests, Fraud!Crash(r) PROVE FraudInv'
  <2>1. /\ x4' = [x4 EXCEPT ![r] = Fraud!Idle] /\ x6' = TRUE
        /\ x1' = x1 /\ x2' = x2 /\ x3' = x3 /\ x5' = x5
    BY <1>6 DEF Fraud!Crash, Fraud!Finish
  <2>2. /\ FraudTasks' /\ x4'[r] = Fraud!Idle
        /\ \A o \in Requests : o # r => x4'[o] = x4[o]
    BY <2>1, FraudIdle, FraudMoves DEF FraudInv
  <2>3. ToReview'
    BY <2>1, <2>2, FraudIdle DEF FraudInv, ToReview
  <2> QED BY <2>1, <2>2, <2>3 DEF FraudInv, FraudTypes
<1>7. ASSUME NEW c \in SuspectCourses, Fraud!Age(c) \/ Fraud!Refund(c) PROVE FraudInv'
  BY <1>7, FraudEnvironment
<1>8. ASSUME UNCHANGED Fraud!vars PROVE FraudInv'
  <2>1. x1' = x1 /\ x2' = x2 /\ x3' = x3 /\ x4' = x4 /\ x5' = x5 /\ x6' = x6
    BY <1>8 DEF Fraud!vars
  <2>2. FraudTypes' /\ FraudTasks' /\ ToReview' /\ (FlagsKept => FlagsKept')
    BY <2>1 DEF FraudInv, FraudTypes, FraudTasks, ToReview, FlagsKept, HasFlag
  <2>3. Grows
    BY <2>1 DEF Grows, AgesGrow, VerdictsStand
  <2>4. ScoresHigh => ScoresHigh'
    BY <2>1, <2>2, <2>3, ScoreGrows DEF ScoresHigh, Suspicious, FraudInv
  <2>5. (x6 \in BOOLEAN)' /\ (x6' = FALSE => x6 = FALSE)
    BY <2>1, Zenon DEF FraudInv
  <2> QED BY <2>2, <2>4, <2>5 DEF FraudInv
<1> QED BY <1>1, <1>2, <1>3, <1>4, <1>5, <1>6, <1>7, <1>8 DEF Fraud!Next

LEMMA FraudMeans == FraudInv => Fraud!TypeOK /\ Fraud!FlaggedIsRecorded
<1> SUFFICES ASSUME FraudInv PROVE Fraud!TypeOK /\ Fraud!FlaggedIsRecorded
  OBVIOUS
<1>1. Fraud!TypeOK
  BY Zenon DEF FraudInv, FraudTypes, FraudTasks, Fraud!TypeOK
<1>2. ~x6 => FlagsKept
  BY Zenon DEF FraudInv
<1>3. Fraud!FlaggedIsRecorded
  BY <1>2, Zenon DEF Fraud!FlaggedIsRecorded, FlagsKept, HasFlag
<1> QED BY <1>1, <1>3

------------------------------------------------------------------------------
(***************************************************************************)
(* Reviews: x1 are the ratings given, x2 the copy in the course's row, x3  *)
(* the students enrolled, x4 says whether recomputations overlapped or one *)
(* did not happen, x5 are the requests.  If x4 is false, an aggregate that *)
(* was read is still that of the table.                                    *)
(***************************************************************************)
RatingRows ==
  /\ x1 \in [Students -> Ratings \union {0}] /\ x2 \in [sum : Nat, count : Nat]
  /\ x3 \subseteq Students
RatingTasks == x5 \in [Requests -> Rating!TaskType]
AggregateHolds ==
  \A r \in Requests : x5[r].pc = "copy" =>
    [sum |-> x5[r].sum, count |-> x5[r].count] = Rating!Total
CopyFollows == x2 = Rating!Total \/ \E r \in Requests : x5[r].pc \in {"aggregate", "copy"}
RatingInv ==
  /\ RatingRows /\ RatingTasks /\ x4 \in BOOLEAN
  /\ x4 = FALSE => AggregateHolds /\ CopyFollows

LEMMA RatingFinite == \A S : Rating!IsFiniteSet(S) <=> IsFiniteSet(S)
BY Zenon DEF Rating!IsFiniteSet, IsFiniteSet

LEMMA RatingCardinality == \A S : Rating!Cardinality(S) = Cardinality(S)
BY Zenon DEF Rating!Cardinality, Cardinality

LEMMA RatingConstants ==
  IsFiniteSet(Students) /\ Students # {} /\ Ratings \subseteq Nat \ {0}
<1>1. Rating!ConstantsAssumption
  BY StudentAssumption, Zenon
<1> QED BY <1>1, RatingFinite, Zenon DEF Rating!ConstantsAssumption

LEMMA RatingIdle ==
  /\ Rating!Idle \in Rating!TaskType /\ Rating!Idle.pc = "idle"
<1>1. Rating!NoStudent \in Students
  BY RatingConstants DEF Rating!NoStudent
<1> QED BY <1>1 DEF Rating!Idle, Rating!TaskType

\* The points given are finitely many.
LEMMA TotalIsTyped ==
  ASSUME x1 \in [Students -> Ratings \union {0}]
  PROVE  Rating!Total \in [sum : Nat, count : Nat]
<1> DEFINE given(s) == {s} \X (1 .. x1[s])
           f == [s \in Students |-> given(s)]
           T == {given(s) : s \in Students}
<1>1. f \in Surjection(Students, T)
  BY DEF Surjection
<1>2. IsFiniteSet(T)
  <2> HIDE DEF f, T
  <2> QED BY <1>1, RatingConstants, FS_Surjection
<1>3. ASSUME NEW s \in Students PROVE IsFiniteSet(given(s))
  <2> DEFINE n == x1[s]
  <2>1. n \in Ratings \union {0}
    OBVIOUS
  <2> HIDE DEF n
  <2>2. n \in Int
    <3>1. Ratings \subseteq Nat
      BY RatingConstants
    <3> QED BY <2>1, <3>1
  <2>3. IsFiniteSet(1 .. n)
    BY <2>2, FS_Interval
  <2>4. IsFiniteSet({s})
    BY FS_Singleton, Zenon
  <2>5. IsFiniteSet({s} \X (1 .. n))
    BY <2>3, <2>4, FS_Product
  <2> QED BY <2>5, Zenon DEF n
<1>4. \A t \in T : IsFiniteSet(t)
  BY <1>3
<1>5. IsFiniteSet(UNION T)
  <2> HIDE DEF T
  <2> QED BY <1>2, <1>4, FS_UNION
<1>6. Rating!Points = UNION T
  BY Zenon DEF Rating!Points
<1>7. IsFiniteSet(Rating!Reviewers)
  <2>1. Rating!Reviewers \subseteq Students
    BY DEF Rating!Reviewers
  <2> QED BY <2>1, RatingConstants, FS_Subset
<1>8. Rating!Cardinality(Rating!Points) \in Nat /\ Rating!Cardinality(Rating!Reviewers) \in Nat
  BY <1>5, <1>6, <1>7, FS_CardinalityType, RatingCardinality
<1> QED BY <1>8 DEF Rating!Total

LEMMA RatingInitially == Rating!Init => RatingInv
<1> SUFFICES ASSUME Rating!Init PROVE RatingInv
  OBVIOUS
<1>1. /\ x1 = [s \in Students |-> 0] /\ x2 = [sum |-> 0, count |-> 0] /\ x3 = {}
      /\ x4 = FALSE /\ x5 = [r \in Requests |-> Rating!Idle]
  BY DEF Rating!Init
<1>2. RatingRows /\ RatingTasks
  BY <1>1, RatingIdle DEF RatingRows, RatingTasks
<1>3. AggregateHolds
  BY <1>1, RatingIdle DEF AggregateHolds
<1>4. x2 = Rating!Total
  <2>1. Rating!Reviewers = {}
    BY <1>1 DEF Rating!Reviewers
  <2>2. Rating!Points = {}
    BY <1>1 DEF Rating!Points
  <2>3. Rating!Cardinality({}) = 0
    BY FS_EmptySet, RatingCardinality
  <2> QED BY <1>1, <2>1, <2>2, <2>3 DEF Rating!Total
<1> QED BY <1>1, <1>2, <1>3, <1>4 DEF RatingInv, CopyFollows

LEMMA RatingMoves ==
  ASSUME RatingTasks, NEW r \in Requests, NEW new \in Rating!TaskType, x5' = [x5 EXCEPT ![r] = new]
  PROVE  RatingTasks' /\ x5'[r] = new /\ \A o \in Requests : o # r => x5'[o] = x5[o]
BY DEF RatingTasks

LEMMA TotalIsKept == ASSUME x1' = x1 PROVE Rating!Total' = Rating!Total
BY Zenon DEF Rating!Total, Rating!Points, Rating!Reviewers

\* A step that writes neither a review nor the copy, of a request that neither was
\* nor will be computing it.
LEMMA RatingQuiet ==
  ASSUME RatingInv, NEW r \in Requests, NEW new \in Rating!TaskType, x5' = [x5 EXCEPT ![r] = new],
         ~(new.pc \in {"aggregate", "copy"}), x1' = x1, x2' = x2, x3' = x3, x4' \in BOOLEAN,
         x4' = FALSE => x4 = FALSE /\ ~(x5[r].pc \in {"aggregate", "copy"})
  PROVE  RatingInv'
<1>1. /\ RatingTasks' /\ x5'[r] = new
      /\ \A o \in Requests : o # r => x5'[o] = x5[o]
  BY RatingMoves DEF RatingInv
<1>2. RatingRows'
  BY DEF RatingInv, RatingRows
<1>3. x4' = FALSE => AggregateHolds' /\ CopyFollows'
  BY <1>1, TotalIsKept DEF RatingInv, AggregateHolds, CopyFollows
<1> QED BY <1>1, <1>2, <1>3 DEF RatingInv

\* A review is written: no aggregate read before it is about to be copied, or the
\* history is disturbed.
LEMMA RatingRecomputes ==
  ASSUME RatingInv, NEW r \in Requests, NEW n \in Ratings \union {0},
         x1' = [x1 EXCEPT ![x5[r].who] = n], Rating!Recompute(r),
         x4' = (x4 \/ Rating!Overlapped), x2' = x2, x3' = x3
  PROVE  RatingInv'
<1> DEFINE new == [Rating!Idle EXCEPT !.pc = "aggregate"]
<1>1. new \in Rating!TaskType /\ new.pc = "aggregate" /\ x5' = [x5 EXCEPT ![r] = new]
  BY RatingIdle DEF Rating!TaskType, Rating!Recompute
<1> HIDE DEF new
<1>2. /\ RatingTasks' /\ x5'[r] = new
      /\ \A o \in Requests : o # r => x5'[o] = x5[o]
  BY <1>1, RatingMoves DEF RatingInv
<1>3. RatingRows'
  BY DEF RatingInv, RatingRows
<1>4. (x4 \in BOOLEAN)' /\ (x4' = FALSE => \A o \in Requests : x5[o].pc # "copy")
  BY Zenon DEF RatingInv, Rating!Overlapped, Rating!At
<1>5. CopyFollows'
  BY <1>1, <1>2 DEF CopyFollows
<1>6. x4' = FALSE => AggregateHolds'
  BY <1>1, <1>2, <1>4 DEF AggregateHolds
<1> QED BY <1>2, <1>3, <1>4, <1>5, <1>6 DEF RatingInv

LEMMA RatingWrites ==
  ASSUME RatingInv, NEW r \in Requests, Rating!WriteReview(r) \/ Rating!DeleteReview(r)
  PROVE  RatingInv'
<1>1. CASE Rating!WriteReview(r)
  <2>1. PICK n \in Ratings : x1' = [x1 EXCEPT ![x5[r].who] = n]
    BY <1>1 DEF Rating!WriteReview
  <2>2. Rating!Recompute(r) /\ x4' = (x4 \/ Rating!Overlapped) /\ x2' = x2 /\ x3' = x3
    BY <1>1, Zenon DEF Rating!WriteReview
  <2> QED BY <2>1, <2>2, RatingRecomputes
<1>2. CASE Rating!DeleteReview(r)
  <2>1. /\ x1' = [x1 EXCEPT ![x5[r].who] = 0] /\ Rating!Recompute(r)
        /\ x4' = (x4 \/ Rating!Overlapped) /\ x2' = x2 /\ x3' = x3
    BY <1>2, Zenon DEF Rating!DeleteReview, Rating!AfterDelete
  <2> QED BY <2>1, RatingRecomputes
<1> QED BY <1>1, <1>2

LEMMA RatingReads ==
  ASSUME RatingInv, NEW r \in Requests, Rating!ReadReview(r) PROVE RatingInv'
<1>1. PICK s \in Students, op \in {"create", "update", "delete"} : Rating!Begin(r, op, s)
  BY DEF Rating!ReadReview
<1> DEFINE new == [Rating!Idle EXCEPT !.pc = op, !.who = s]
<1>2. new \in Rating!TaskType /\ new.pc = op
  BY RatingIdle DEF Rating!TaskType
<1>3. x5[r] = Rating!Idle /\ x5' = [x5 EXCEPT ![r] = new]
  BY <1>1 DEF Rating!Begin
<1>4. x1' = x1 /\ x2' = x2 /\ x3' = x3 /\ x4' = x4 /\ x4 \in BOOLEAN
  BY DEF Rating!ReadReview, RatingInv
<1> HIDE DEF new
<1> QED BY <1>2, <1>3, <1>4, RatingIdle, RatingQuiet

LEMMA RatingEnds ==
  ASSUME RatingInv, NEW r \in Requests, Rating!Refused(r) \/ Rating!Crash(r) PROVE RatingInv'
<1>1. x5' = [x5 EXCEPT ![r] = Rating!Idle] /\ x1' = x1 /\ x2' = x2 /\ x3' = x3
  BY DEF Rating!Refused, Rating!Crash, Rating!Finish
<1>2. x4 \in BOOLEAN
  BY DEF RatingInv
<1>3. CASE Rating!Refused(r)
  <2>1. ~(x5[r].pc \in {"aggregate", "copy"}) /\ x4' = x4
    BY <1>3 DEF Rating!Refused, Rating!At
  <2> QED BY <1>1, <1>2, <2>1, RatingIdle, RatingQuiet
<1>4. CASE Rating!Crash(r)
  <2>1. x4' \in BOOLEAN /\ (x4' = FALSE => x4 = FALSE /\ ~(x5[r].pc \in {"aggregate", "copy"}))
    BY <1>2, <1>4, Zenon DEF Rating!Crash
  <2> QED BY <1>1, <2>1, RatingIdle, RatingQuiet
<1> QED BY <1>3, <1>4

LEMMA RatingAggregates ==
  ASSUME RatingInv, NEW r \in Requests, Rating!AggregateReviews(r) PROVE RatingInv'
<1> DEFINE total == Rating!Total
           new == [pc |-> "copy", who |-> x5[r].who, sum |-> total.sum, count |-> total.count]
<1>1. RatingRows /\ RatingTasks /\ x5[r] \in Rating!TaskType
  BY DEF RatingInv, RatingTasks
<1>2. total \in [sum : Nat, count : Nat]
  BY <1>1, TotalIsTyped DEF RatingRows
<1>3. /\ x5' = [x5 EXCEPT ![r].pc = "copy", ![r].sum = total.sum, ![r].count = total.count]
      /\ x1' = x1 /\ x2' = x2 /\ x3' = x3 /\ x4' = x4
  BY DEF Rating!AggregateReviews
<1>4. total' = total
  BY <1>3, TotalIsKept
<1> HIDE DEF total
<1>5. x5' = [x5 EXCEPT ![r] = new]
  <2>1. x5' = [x5 EXCEPT ![r] = [[[x5[r] EXCEPT !.pc = "copy"] EXCEPT !.sum = total.sum]
                                   EXCEPT !.count = total.count]]
    BY <1>1, <1>3 DEF RatingTasks
  <2>2. [x5[r] EXCEPT !.pc = "copy"]
          = [pc |-> "copy", who |-> x5[r].who, sum |-> x5[r].sum, count |-> x5[r].count]
    BY <1>1 DEF Rating!TaskType
  <2>3. [[pc |-> "copy", who |-> x5[r].who, sum |-> x5[r].sum, count |-> x5[r].count]
           EXCEPT !.sum = total.sum]
          = [pc |-> "copy", who |-> x5[r].who, sum |-> total.sum, count |-> x5[r].count]
    OBVIOUS
  <2>4. [[pc |-> "copy", who |-> x5[r].who, sum |-> total.sum, count |-> x5[r].count]
           EXCEPT !.count = total.count] = new
    OBVIOUS
  <2> QED BY <2>1, <2>2, <2>3, <2>4, Zenon
<1>6. new \in Rating!TaskType
  BY <1>1, <1>2 DEF Rating!TaskType
<1>7. new.pc = "copy" /\ [sum |-> new.sum, count |-> new.count] = total
  BY <1>2
<1> HIDE DEF new
<1>8. /\ RatingTasks' /\ x5'[r] = new
      /\ \A o \in Requests : o # r => x5'[o] = x5[o]
  BY <1>1, <1>5, <1>6, RatingMoves
<1>9. RatingRows' /\ (x4 \in BOOLEAN)'
  BY <1>1, <1>3 DEF RatingInv, RatingRows
<1>10. CopyFollows'
  BY <1>7, <1>8 DEF CopyFollows
<1>11. ASSUME x4' = FALSE PROVE AggregateHolds'
  <2>1. AggregateHolds
    BY <1>3, <1>11 DEF RatingInv
  <2> SUFFICES ASSUME NEW o \in Requests, x5'[o].pc = "copy"
               PROVE  [sum |-> x5'[o].sum, count |-> x5'[o].count] = total'
    BY DEF AggregateHolds, total
  <2>2. CASE o = r
    BY <2>2, <1>4, <1>7, <1>8
  <2>3. CASE o # r
    BY <2>1, <2>3, <1>4, <1>8 DEF AggregateHolds, total
  <2> QED BY <2>2, <2>3
<1> QED BY <1>8, <1>9, <1>10, <1>11 DEF RatingInv

LEMMA RatingCopies ==
  ASSUME RatingInv, NEW r \in Requests, Rating!CopyRating(r) PROVE RatingInv'
<1>1. /\ x5[r].pc = "copy" /\ x2' = [sum |-> x5[r].sum, count |-> x5[r].count]
      /\ x5' = [x5 EXCEPT ![r] = Rating!Idle] /\ x1' = x1 /\ x3' = x3 /\ x4' = x4
  BY DEF Rating!CopyRating, Rating!At, Rating!Finish
<1>2. /\ RatingTasks' /\ x5'[r] = Rating!Idle
      /\ \A o \in Requests : o # r => x5'[o] = x5[o]
  BY <1>1, RatingIdle, RatingMoves DEF RatingInv
<1>3. RatingRows' /\ (x4 \in BOOLEAN)'
  BY <1>1 DEF RatingInv, RatingRows, RatingTasks, Rating!TaskType
<1>4. Rating!Total' = Rating!Total
  BY <1>1, TotalIsKept
<1>5. x4' = FALSE => AggregateHolds'
  BY <1>1, <1>2, <1>4, RatingIdle DEF RatingInv, AggregateHolds
<1>6. x4' = FALSE => CopyFollows'
  BY <1>1, <1>4 DEF RatingInv, AggregateHolds, CopyFollows
<1> QED BY <1>2, <1>3, <1>5, <1>6 DEF RatingInv

LEMMA RatingInductive == RatingInv /\ [Rating!Next]_(Rating!vars) => RatingInv'
<1> SUFFICES ASSUME RatingInv, [Rating!Next]_(Rating!vars) PROVE RatingInv'
  OBVIOUS
<1>1. ASSUME NEW r \in Requests, Rating!ReadReview(r) PROVE RatingInv'
  BY <1>1, RatingReads
<1>2. ASSUME NEW r \in Requests, Rating!Refused(r) \/ Rating!Crash(r) PROVE RatingInv'
  BY <1>2, RatingEnds
<1>3. ASSUME NEW r \in Requests, Rating!WriteReview(r) \/ Rating!DeleteReview(r) PROVE RatingInv'
  BY <1>3, RatingWrites
<1>4. ASSUME NEW r \in Requests, Rating!AggregateReviews(r) PROVE RatingInv'
  BY <1>4, RatingAggregates
<1>5. ASSUME NEW r \in Requests, Rating!CopyRating(r) PROVE RatingInv'
  BY <1>5, RatingCopies
<1>6. ASSUME NEW s \in Students, Rating!Enroll(s) PROVE RatingInv'
  <2>1. x1' = x1 /\ x2' = x2 /\ x3' = x3 \union {s} /\ x4' = x4 /\ x5' = x5
    BY <1>6 DEF Rating!Enroll
  <2>2. Rating!Total' = Rating!Total
    BY <2>1, TotalIsKept
  <2> QED BY <2>1, <2>2 DEF RatingInv, RatingRows, RatingTasks, AggregateHolds, CopyFollows
<1>7. ASSUME UNCHANGED Rating!vars PROVE RatingInv'
  <2>1. x1' = x1 /\ x2' = x2 /\ x3' = x3 /\ x4' = x4 /\ x5' = x5
    BY <1>7 DEF Rating!vars
  <2>2. Rating!Total' = Rating!Total
    BY <2>1, TotalIsKept
  <2> QED BY <2>1, <2>2 DEF RatingInv, RatingRows, RatingTasks, AggregateHolds, CopyFollows
<1> QED BY <1>1, <1>2, <1>3, <1>4, <1>5, <1>6, <1>7 DEF Rating!Next

LEMMA RatingMeans == RatingInv => Rating!TypeOK /\ Rating!RatingMatchesReviews
<1> SUFFICES ASSUME RatingInv PROVE Rating!TypeOK /\ Rating!RatingMatchesReviews
  OBVIOUS
<1>1. Rating!TypeOK
  BY Zenon DEF RatingInv, RatingRows, RatingTasks, Rating!TypeOK
<1>2. ~x4 => CopyFollows
  BY Zenon DEF RatingInv
<1>3. Rating!RatingMatchesReviews
  BY <1>2, Zenon DEF Rating!RatingMatchesReviews, CopyFollows
<1> QED BY <1>1, <1>3

------------------------------------------------------------------------------
(***************************************************************************)
(* EnrollmentRestore: x1 and x2 are the enrolment's status and percent, x3 *)
(* the progress of each lesson, x4 the course's lessons, x5 and x6 the     *)
(* best they were, x7 says whether a restore was to overwrite, x8 whether  *)
(* a row changed under a restore, x9 are the restores.  If neither, what a *)
(* restore read of the row it is about to write is still so.               *)
(***************************************************************************)
Status == {"none", "ACTIVE", "COMPLETED", "REFUNDED"}
RestoreRows ==
  /\ x1 \in Status /\ x2 \in Restore!Level /\ x3 \in [RestoredLessons -> Restore!Level]
  /\ x4 \subseteq RestoredLessons /\ x5 \in [RestoredLessons -> Restore!Level] /\ x6 \in Restore!Level
RestoreFlags == x7 \in BOOLEAN /\ x8 \in BOOLEAN
RestoreTasks == x9 \in [Clients -> Restore!TaskType]
NothingLost ==
  /\ x1 = "none" => x2 = 0
  /\ x2 >= x6 /\ \A l \in RestoredLessons : x3[l] >= x5[l]
InTurn(t) ==
  /\ t.pc # "idle" => t.strategy # "OVERWRITE"
  /\ t.pc = "writeEnrolment" => t.seen = x2 /\ (t.found = "none" <=> x1 = "none")
  /\ t.pc = "writeLesson" =>
       /\ t.lesson \in x4 => t.seen = x3[t.lesson]
       /\ t.strategy = "SKIP" => t.seen = 0
RestoresInTurn == \A r \in Clients : InTurn(x9[r])
RestoreInv ==
  /\ RestoreRows /\ RestoreFlags /\ RestoreTasks
  /\ x7 = FALSE /\ x8 = FALSE => NothingLost /\ RestoresInTurn

LEMMA RestoreConstants == RestoredLessons # {}
BY StudentAssumption, Zenon DEF Restore!ConstantsAssumption

LEMMA HigherOfTwo ==
  ASSUME NEW a \in Restore!Level, NEW b \in Restore!Level
  PROVE  /\ Restore!Higher(a, b) \in Restore!Level
         /\ Restore!Higher(a, b) >= a /\ Restore!Higher(a, b) >= b
         /\ Restore!Higher(a, b) = a \/ Restore!Higher(a, b) = b
<1>1. Restore!Higher(a, b) = CHOOSE x \in {a, b} : \A y \in {a, b} : x >= y
  BY Zenon DEF Restore!Higher, Restore!Max
<1>2. \E x \in {a, b} : \A y \in {a, b} : x >= y
  BY DEF Restore!Level
<1>3. Restore!Higher(a, b) \in {a, b} /\ \A y \in {a, b} : Restore!Higher(a, b) >= y
  BY <1>1, <1>2
<1> QED BY <1>3

LEMMA RestoreIdle == Restore!Idle \in Restore!TaskType /\ Restore!Idle.pc = "idle"
<1>1. (CHOOSE l \in RestoredLessons : TRUE) \in RestoredLessons
  BY RestoreConstants
<1> QED BY <1>1 DEF Restore!Idle, Restore!TaskType, Restore!Level, Restore!Strategies

LEMMA RestoreInitially == Restore!Init => RestoreInv
<1> SUFFICES ASSUME Restore!Init PROVE RestoreInv
  OBVIOUS
<1>1. /\ x1 = "none" /\ x2 = 0 /\ x3 = [l \in RestoredLessons |-> 0] /\ x4 = RestoredLessons
      /\ x5 = [l \in RestoredLessons |-> 0] /\ x6 = 0 /\ x7 = FALSE /\ x8 = FALSE
      /\ x9 = [r \in Clients |-> Restore!Idle]
  BY DEF Restore!Init
<1>2. RestoreRows
  BY <1>1 DEF RestoreRows, Restore!Level, Status
<1>3. RestoreFlags
  BY <1>1, Zenon DEF RestoreFlags
<1>4. RestoreTasks
  BY <1>1, RestoreIdle DEF RestoreTasks
<1>5. NothingLost
  BY <1>1 DEF NothingLost
<1>6. RestoresInTurn
  BY <1>1, RestoreIdle DEF RestoresInTurn, InTurn
<1> QED BY <1>2, <1>3, <1>4, <1>5, <1>6 DEF RestoreInv

LEMMA RestoreMoves ==
  ASSUME RestoreTasks, NEW r \in Clients, NEW new \in Restore!TaskType, x9' = [x9 EXCEPT ![r] = new]
  PROVE  RestoreTasks' /\ x9'[r] = new /\ \A o \in Clients : o # r => x9'[o] = x9[o]
BY DEF RestoreTasks

\* A restore that reads, or ends: no row is written.
LEMMA RestoreReads ==
  ASSUME RestoreInv, NEW r \in Clients, NEW new \in Restore!TaskType, x9' = [x9 EXCEPT ![r] = new],
         x1' = x1, x2' = x2, x3' = x3, x4' = x4, x5' = x5, x6' = x6, x8' = x8,
         x7' \in BOOLEAN, x7' = FALSE => x7 = FALSE,
         x7' = FALSE /\ x8 = FALSE => InTurn(new)
  PROVE  RestoreInv'
<1>1. /\ RestoreTasks' /\ x9'[r] = new
      /\ \A o \in Clients : o # r => x9'[o] = x9[o]
  BY RestoreMoves DEF RestoreInv
<1>2. RestoreRows'
  BY DEF RestoreInv, RestoreRows
<1>3. RestoreFlags'
  BY Zenon DEF RestoreInv, RestoreFlags
<1>4. ASSUME x7' = FALSE /\ x8' = FALSE PROVE NothingLost' /\ RestoresInTurn'
  <2>1. NothingLost /\ RestoresInTurn /\ InTurn(new)
    BY <1>4 DEF RestoreInv
  <2>2. NothingLost'
    BY <2>1 DEF NothingLost
  <2>3. RestoresInTurn'
    BY <1>1, <2>1 DEF RestoresInTurn, InTurn
  <2> QED BY <2>2, <2>3
<1> QED BY <1>1, <1>2, <1>3, <1>4 DEF RestoreInv

LEMMA RestoreStops ==
  ASSUME RestoreInv, NEW r \in Clients, x9' = [x9 EXCEPT ![r] = Restore!Idle],
         x1' = x1, x2' = x2, x3' = x3, x4' = x4, x5' = x5, x6' = x6, x7' = x7, x8' = x8
  PROVE  RestoreInv'
<1>1. InTurn(Restore!Idle)
  BY RestoreIdle DEF InTurn
<1>2. x7' \in BOOLEAN /\ (x7' = FALSE => x7 = FALSE)
  BY Zenon DEF RestoreInv, RestoreFlags
<1> QED BY <1>1, <1>2, RestoreIdle, RestoreReads

LEMMA RestoreValidates ==
  ASSUME RestoreInv, NEW r \in Clients, Restore!Validate(r) PROVE RestoreInv'
<1>1. PICK strategy \in Restore!Strategies, record \in [RestoredLessons -> Restore!Level],
           p \in Restore!Level, s \in {"ACTIVE", "COMPLETED", "REFUNDED"} :
        /\ x9' = [x9 EXCEPT ![r] =
             [Restore!Idle EXCEPT !.pc = "readEnrolment", !.strategy = strategy, !.record = record,
                                  !.percent = p, !.status = s, !.valid = x4]]
        /\ x7' = (x7 \/ strategy = "OVERWRITE")
  BY DEF Restore!Validate
<1> DEFINE new == [Restore!Idle EXCEPT !.pc = "readEnrolment", !.strategy = strategy,
                     !.record = record, !.percent = p, !.status = s, !.valid = x4]
<1>2. x9' = [x9 EXCEPT ![r] = new]
  BY <1>1, Zenon
<1>3. x4 \subseteq RestoredLessons
  BY DEF RestoreInv, RestoreRows
<1>4. new \in Restore!TaskType
  BY <1>3, RestoreIdle DEF Restore!TaskType
<1>5. new.pc = "readEnrolment" /\ new.strategy = strategy
  BY RestoreIdle DEF Restore!TaskType
<1> HIDE DEF new
<1>6. x7' \in BOOLEAN /\ (x7' = FALSE => x7 = FALSE /\ strategy # "OVERWRITE")
  BY <1>1, Zenon DEF RestoreInv, RestoreFlags
<1>7. x1' = x1 /\ x2' = x2 /\ x3' = x3 /\ x4' = x4 /\ x5' = x5 /\ x6' = x6 /\ x8' = x8
  BY DEF Restore!Validate, Restore!student
<1>8. x7' = FALSE => InTurn(new)
  BY <1>5, <1>6 DEF InTurn
<1> QED BY <1>2, <1>4, <1>6, <1>7, <1>8, RestoreReads

LEMMA RestoreReadsEnrolment ==
  ASSUME RestoreInv, NEW r \in Clients, Restore!ReadEnrolment(r) PROVE RestoreInv'
<1> DEFINE t == x9[r]
           pc == IF x1 # "none" /\ t.strategy = "SKIP" THEN "lessons" ELSE "writeEnrolment"
           new == [[[t EXCEPT !.pc = pc] EXCEPT !.found = x1] EXCEPT !.seen = x2]
<1>1. RestoreRows /\ RestoreTasks /\ t \in Restore!TaskType /\ t.pc = "readEnrolment"
  BY DEF Restore!ReadEnrolment, Restore!At, RestoreInv, RestoreTasks
<1>2. /\ x9' = [x9 EXCEPT ![r].pc = pc, ![r].found = x1, ![r].seen = x2]
      /\ x1' = x1 /\ x2' = x2 /\ x3' = x3 /\ x4' = x4 /\ x5' = x5 /\ x6' = x6
      /\ x7' = x7 /\ x8' = x8
  BY DEF Restore!ReadEnrolment, Restore!student, Restore!history
<1>3. pc \in {"lessons", "writeEnrolment"}
  OBVIOUS
<1> HIDE DEF pc
<1>4. x9' = [x9 EXCEPT ![r] = new]
  BY <1>1, <1>2 DEF RestoreTasks
<1> HIDE DEF t
<1>5. new \in Restore!TaskType
  BY <1>1, <1>3 DEF Restore!TaskType, RestoreRows, Status
<1>6. new.pc = pc /\ new.strategy = t.strategy /\ new.found = x1 /\ new.seen = x2
  BY <1>1 DEF Restore!TaskType
<1> HIDE DEF new
<1>7. x7 = FALSE /\ x8 = FALSE => InTurn(new)
  <2>1. x7 = FALSE /\ x8 = FALSE => t.strategy # "OVERWRITE"
    BY <1>1 DEF RestoreInv, RestoresInTurn, InTurn, t
  <2> QED BY <1>3, <1>6, <2>1 DEF InTurn
<1>8. x7' \in BOOLEAN /\ (x7' = FALSE => x7 = FALSE)
  BY <1>2, Zenon DEF RestoreInv, RestoreFlags
<1> QED BY <1>2, <1>4, <1>5, <1>7, <1>8, RestoreReads

LEMMA RestoreReadsLesson ==
  ASSUME RestoreInv, NEW r \in Clients, NEW l \in RestoredLessons, Restore!ReadLesson(r, l)
  PROVE  RestoreInv'
<1> DEFINE t == x9[r]
<1>1. RestoreRows /\ RestoreTasks /\ t \in Restore!TaskType /\ t.pc = "lessons"
  BY DEF Restore!ReadLesson, Restore!At, RestoreInv, RestoreTasks
<1>2. /\ x9' = [x9 EXCEPT ![r] =
           IF x3[l] # 0 /\ t.strategy = "SKIP" THEN [t EXCEPT !.valid = t.valid \ {l}]
           ELSE [t EXCEPT !.pc = "writeLesson", !.lesson = l, !.seen = x3[l]]]
      /\ x1' = x1 /\ x2' = x2 /\ x3' = x3 /\ x4' = x4 /\ x5' = x5 /\ x6' = x6
      /\ x7' = x7 /\ x8' = x8
  BY DEF Restore!ReadLesson, Restore!student, Restore!history
<1>3. x7 = FALSE /\ x8 = FALSE => t.strategy # "OVERWRITE"
  BY <1>1 DEF RestoreInv, RestoresInTurn, InTurn
<1>4. x7' \in BOOLEAN /\ (x7' = FALSE => x7 = FALSE)
  BY <1>2, Zenon DEF RestoreInv, RestoreFlags
<1>5. CASE x3[l] # 0 /\ t.strategy = "SKIP"
  <2> DEFINE new == [t EXCEPT !.valid = t.valid \ {l}]
  <2>1. x9' = [x9 EXCEPT ![r] = new]
    BY <1>2, <1>5
  <2>2. new \in Restore!TaskType /\ new.pc = "lessons" /\ new.strategy = t.strategy
    BY <1>1 DEF Restore!TaskType
  <2> HIDE DEF new, t
  <2>3. x7 = FALSE /\ x8 = FALSE => InTurn(new)
    BY <1>3, <2>2 DEF InTurn
  <2> QED BY <1>2, <1>4, <2>1, <2>2, <2>3, RestoreReads
<1>6. CASE ~(x3[l] # 0 /\ t.strategy = "SKIP")
  <2> DEFINE level == x3[l]
             new == [t EXCEPT !.pc = "writeLesson", !.lesson = l, !.seen = level]
  <2>1. x9' = [x9 EXCEPT ![r] = new]
    BY <1>2, <1>6
  <2>2. level \in Restore!Level
    BY <1>1 DEF RestoreRows
  <2> HIDE DEF level
  <2>3. new \in Restore!TaskType
    BY <1>1, <2>2 DEF Restore!TaskType
  <2>4. new.pc = "writeLesson" /\ new.strategy = t.strategy /\ new.lesson = l /\ new.seen = level
    BY <1>1 DEF Restore!TaskType
  <2> HIDE DEF new, t
  <2>5. x7 = FALSE /\ x8 = FALSE => InTurn(new)
    BY <1>3, <1>6, <2>4 DEF InTurn, level
  <2> QED BY <1>2, <1>4, <2>1, <2>3, <2>5, RestoreReads
<1> QED BY <1>5, <1>6

\* The enrolment's row is written, by a restore or by the student: no restore that
\* stays is about to write it, or the history is raced.
LEMMA EnrolmentIsWritten ==
  ASSUME RestoreInv, RestoreTasks', NEW out \in SUBSET Clients,
         x1' \in Status, x2' \in Restore!Level, x6' \in Restore!Level,
         x3' = x3, x4' = x4, x5' = x5, x7' = x7, x8' = (x8 \/ Restore!EnrolmentHeld(out)),
         x7 = FALSE /\ x8 = FALSE /\ NothingLost /\ RestoresInTurn =>
           x1' # "none" /\ x2' >= x6',
         \A o \in Clients \ out : x9'[o] = x9[o],
         \A o \in out : x9'[o].pc = "lessons" /\ x9'[o].strategy = x9[o].strategy /\ x9[o].pc # "idle"
  PROVE  RestoreInv'
<1>1. RestoreRows /\ RestoreFlags
  BY DEF RestoreInv
<1>2. RestoreRows'
  BY <1>1 DEF RestoreRows
<1>3. RestoreFlags' /\ (x8' = FALSE => x8 = FALSE /\ ~Restore!EnrolmentHeld(out))
  BY <1>1, Zenon DEF RestoreFlags
<1>4. ASSUME x7' = FALSE /\ x8' = FALSE PROVE NothingLost' /\ RestoresInTurn'
  <2>1. x7 = FALSE /\ x8 = FALSE
    BY <1>3, <1>4
  <2>2. NothingLost /\ RestoresInTurn
    BY <2>1 DEF RestoreInv
  <2>3. NothingLost'
    BY <2>1, <2>2 DEF NothingLost
  <2>4. ASSUME NEW o \in Clients PROVE InTurn(x9[o])'
    <3>1. InTurn(x9[o])
      BY <2>2 DEF RestoresInTurn
    <3>2. CASE o \in out
      BY <3>1, <3>2 DEF InTurn
    <3>3. CASE ~(o \in out)
      <4>1. x9'[o] = x9[o]
        BY <3>3
      <4>2. x9[o].pc # "writeEnrolment"
        BY <1>3, <1>4, <3>3 DEF Restore!EnrolmentHeld, Restore!At
      <4> QED BY <3>1, <4>1, <4>2 DEF InTurn
    <3> QED BY <3>2, <3>3
  <2> QED BY <2>3, <2>4 DEF RestoresInTurn
<1> QED BY <1>2, <1>3, <1>4 DEF RestoreInv

\* The progress of one lesson is written.
LEMMA ProgressIsWritten ==
  ASSUME RestoreInv, RestoreTasks', NEW out \in SUBSET Clients, NEW l \in RestoredLessons,
         NEW level \in Restore!Level, NEW top \in Restore!Level,
         x3' = [x3 EXCEPT ![l] = level], x5' = [x5 EXCEPT ![l] = top],
         x7 = FALSE /\ x8 = FALSE => level >= top,
         x1' = x1, x2' = x2, x4' = x4, x6' = x6, x7' = x7,
         x8' = (x8 \/ Restore!ProgressHeld(l, out)),
         \A o \in Clients \ out : x9'[o] = x9[o],
         \A o \in out : x9'[o].pc = "lessons" /\ x9'[o].strategy = x9[o].strategy /\ x9[o].pc # "idle"
  PROVE  RestoreInv'
<1>1. RestoreRows /\ RestoreFlags
  BY DEF RestoreInv
<1>2. RestoreRows'
  BY <1>1 DEF RestoreRows
<1>3. RestoreFlags' /\ (x8' = FALSE => x8 = FALSE /\ ~Restore!ProgressHeld(l, out))
  BY <1>1, Zenon DEF RestoreFlags
<1>4. ASSUME x7' = FALSE /\ x8' = FALSE PROVE NothingLost' /\ RestoresInTurn'
  <2>1. x7 = FALSE /\ x8 = FALSE
    BY <1>3, <1>4
  <2>2. NothingLost /\ RestoresInTurn
    BY <2>1 DEF RestoreInv
  <2>3. NothingLost'
    BY <1>1, <2>1, <2>2 DEF NothingLost, RestoreRows
  <2>4. ASSUME NEW o \in Clients PROVE InTurn(x9[o])'
    <3>1. InTurn(x9[o])
      BY <2>2 DEF RestoresInTurn
    <3>2. CASE o \in out
      BY <3>1, <3>2 DEF InTurn
    <3>3. CASE ~(o \in out)
      <4>1. x9'[o] = x9[o]
        BY <3>3
      <4>2. x9[o].pc = "writeLesson" => x9[o].lesson # l
        BY <1>3, <1>4, <3>3 DEF Restore!ProgressHeld, Restore!At
      <4>3. x9[o].pc = "writeLesson" /\ x9[o].lesson \in x4 => x3'[x9[o].lesson] = x3[x9[o].lesson]
        BY <1>1, <4>2 DEF RestoreRows
      <4> QED BY <3>1, <4>1, <4>3 DEF InTurn
    <3> QED BY <3>2, <3>3
  <2> QED BY <2>3, <2>4 DEF RestoresInTurn
<1> QED BY <1>2, <1>3, <1>4 DEF RestoreInv

LEMMA RestoreCreates ==
  ASSUME RestoreInv, NEW r \in Clients, Restore!CreateEnrolment(r) PROVE RestoreInv'
<1> DEFINE t == x9[r]
           new == [t EXCEPT !.pc = "lessons"]
<1>1. /\ RestoreRows /\ RestoreTasks /\ t \in Restore!TaskType /\ t.pc = "writeEnrolment"
      /\ t.found = "none" /\ x3' = x3 /\ x4' = x4 /\ x5' = x5 /\ x7' = x7
  BY DEF Restore!CreateEnrolment, Restore!At, RestoreInv, RestoreTasks
<1>2. CASE x1 # "none"
  <2>1. x9' = [x9 EXCEPT ![r] = Restore!Idle] /\ x1' = x1 /\ x2' = x2 /\ x6' = x6 /\ x8' = x8
    BY <1>2 DEF Restore!CreateEnrolment, Restore!Finish
  <2> QED BY <1>1, <2>1, RestoreStops
<1>3. CASE x1 = "none"
  <2>1. /\ x1' = t.status /\ x2' = t.percent /\ x6' = Restore!Higher(x6, t.percent)
        /\ x8' = (x8 \/ Restore!EnrolmentHeld({r}))
    BY <1>3, Zenon DEF Restore!CreateEnrolment
  <2>2. x9' = [x9 EXCEPT ![r] = new]
    BY <1>3 DEF Restore!CreateEnrolment
  <2>3. new \in Restore!TaskType /\ new.pc = "lessons" /\ new.strategy = t.strategy
    BY <1>1 DEF Restore!TaskType
  <2> HIDE DEF new
  <2>4. RestoreTasks' /\ x9'[r] = new /\ \A o \in Clients : o # r => x9'[o] = x9[o]
    BY <1>1, <2>2, <2>3, RestoreMoves
  <2>5. t.percent \in Restore!Level /\ t.status \in {"ACTIVE", "COMPLETED", "REFUNDED"}
    BY <1>1 DEF Restore!TaskType
  <2>6. x6 \in Restore!Level
    BY <1>1 DEF RestoreRows
  <2>7. x6' \in Restore!Level /\ (x6' = x6 \/ x6' = x2')
    BY <2>1, <2>5, <2>6, HigherOfTwo
  <2>8. NothingLost => x2' >= x6'
    <3>1. NothingLost => x6 = 0
      BY <1>3, <2>6 DEF NothingLost, Restore!Level
    <3> QED BY <2>1, <2>5, <2>7, <3>1 DEF Restore!Level
  <2>9. x1' \in Status /\ x1' # "none" /\ x2' \in Restore!Level
    BY <2>1, <2>5 DEF Status
  <2>10. \A o \in Clients \ {r} : x9'[o] = x9[o]
    BY <2>4
  <2>11. \A o \in {r} : x9'[o].pc = "lessons" /\ x9'[o].strategy = x9[o].strategy /\ x9[o].pc # "idle"
    BY <1>1, <2>3, <2>4
  <2>12. {r} \in SUBSET Clients
    OBVIOUS
  <2> HIDE DEF t
  <2> QED BY <1>1, <2>1, <2>4, <2>7, <2>8, <2>9, <2>10, <2>11, <2>12, EnrolmentIsWritten
<1> QED BY <1>2, <1>3

LEMMA RestoreUpdates ==
  ASSUME RestoreInv, NEW r \in Clients, Restore!UpdateEnrolment(r) PROVE RestoreInv'
<1> DEFINE t == x9[r]
           new == [t EXCEPT !.pc = "lessons"]
<1>1. /\ RestoreRows /\ RestoreTasks /\ t \in Restore!TaskType /\ t.pc = "writeEnrolment"
      /\ t.found # "none" /\ x3' = x3 /\ x4' = x4 /\ x5' = x5 /\ x7' = x7
  BY DEF Restore!UpdateEnrolment, Restore!At, RestoreInv, RestoreTasks
<1>2. /\ x1' = IF t.strategy = "OVERWRITE" \/ t.percent >= t.seen THEN t.status ELSE t.found
      /\ x2' = IF t.strategy = "OVERWRITE" THEN t.percent ELSE Restore!Merged(t.seen, t.percent)
      /\ x6' = Restore!Higher(x6, x2')
      /\ x9' = [x9 EXCEPT ![r] = new]
  BY DEF Restore!UpdateEnrolment
<1>3. x8' = (x8 \/ Restore!EnrolmentHeld({r}))
  BY DEF Restore!UpdateEnrolment
<1>4. new \in Restore!TaskType /\ new.pc = "lessons" /\ new.strategy = t.strategy
  BY <1>1 DEF Restore!TaskType
<1> HIDE DEF new
<1>5. RestoreTasks' /\ x9'[r] = new /\ \A o \in Clients : o # r => x9'[o] = x9[o]
  BY <1>1, <1>2, <1>4, RestoreMoves
<1>6. /\ t.percent \in Restore!Level /\ t.status \in {"ACTIVE", "COMPLETED", "REFUNDED"}
      /\ t.found \in {"ACTIVE", "COMPLETED", "REFUNDED"} /\ t.seen \in Restore!Level
      /\ x6 \in Restore!Level
  BY <1>1 DEF Restore!TaskType, RestoreRows
<1>7. x1' \in Status /\ x1' # "none" /\ x2' \in Restore!Level
  BY <1>2, <1>6, HigherOfTwo DEF Status, Restore!Merged
<1>8. x6' \in Restore!Level /\ (x6' = x6 \/ x6' = x2')
  BY <1>2, <1>6, <1>7, HigherOfTwo
<1>9. x7 = FALSE /\ x8 = FALSE /\ NothingLost /\ RestoresInTurn => x2' >= x6'
  <2> SUFFICES ASSUME NothingLost, RestoresInTurn PROVE x2' >= x6'
    OBVIOUS
  <2>1. t.strategy # "OVERWRITE" /\ t.seen = x2
    BY <1>1 DEF RestoresInTurn, InTurn
  <2>2. x2' >= x2
    BY <1>2, <1>6, <2>1, HigherOfTwo DEF Restore!Merged
  <2>3. x2 >= x6 /\ x2 \in Restore!Level
    BY <1>1 DEF NothingLost, RestoreRows
  <2> QED BY <1>6, <1>7, <1>8, <2>2, <2>3 DEF Restore!Level
<1>10. \A o \in Clients \ {r} : x9'[o] = x9[o]
  BY <1>5
<1>11. \A o \in {r} : x9'[o].pc = "lessons" /\ x9'[o].strategy = x9[o].strategy /\ x9[o].pc # "idle"
  BY <1>1, <1>4, <1>5
<1>12. {r} \in SUBSET Clients
  OBVIOUS
<1> HIDE DEF t
<1> QED BY <1>1, <1>3, <1>5, <1>7, <1>8, <1>9, <1>10, <1>11, <1>12, EnrolmentIsWritten

LEMMA RestoreWritesLesson ==
  ASSUME RestoreInv, NEW r \in Clients, Restore!WriteLesson(r) PROVE RestoreInv'
<1> DEFINE t == x9[r]
           l == t.lesson
           level == IF t.strategy = "MERGE" THEN Restore!Merged(t.seen, t.record[l]) ELSE t.record[l]
           top == Restore!Higher(x5[l], level)
           new == [[t EXCEPT !.pc = "lessons"] EXCEPT !.valid = t.valid \ {l}]
<1>1. /\ RestoreRows /\ RestoreTasks /\ t \in Restore!TaskType /\ t.pc = "writeLesson"
      /\ x1' = x1 /\ x2' = x2 /\ x4' = x4 /\ x6' = x6 /\ x7' = x7
  BY DEF Restore!WriteLesson, Restore!At, RestoreInv, RestoreTasks
<1>2. CASE (t.seen = 0) # (x3[l] = 0) \/ l \notin x4
  <2>1. x9' = [x9 EXCEPT ![r] = Restore!Idle] /\ x3' = x3 /\ x5' = x5 /\ x8' = x8
    BY <1>2 DEF Restore!WriteLesson, Restore!Finish
  <2> QED BY <1>1, <2>1, RestoreStops
<1>3. CASE ~((t.seen = 0) # (x3[l] = 0) \/ l \notin x4)
  <2>1. /\ x3' = [x3 EXCEPT ![l] = level] /\ x5' = [x5 EXCEPT ![l] = Restore!Higher(x5[l], x3'[l])]
        /\ x8' = (x8 \/ Restore!ProgressHeld(l, {r}))
        /\ x9' = [x9 EXCEPT ![r].pc = "lessons", ![r].valid = t.valid \ {l}]
    BY <1>3, Zenon DEF Restore!WriteLesson
  <2>2. x9' = [x9 EXCEPT ![r] = new]
    BY <1>1, <2>1 DEF RestoreTasks
  <2>3. new \in Restore!TaskType /\ new.pc = "lessons" /\ new.strategy = t.strategy
    BY <1>1 DEF Restore!TaskType
  <2> HIDE DEF new
  <2>4. RestoreTasks' /\ x9'[r] = new /\ \A o \in Clients : o # r => x9'[o] = x9[o]
    BY <1>1, <2>2, <2>3, RestoreMoves
  <2>5. /\ l \in RestoredLessons /\ t.record[l] \in Restore!Level /\ t.seen \in Restore!Level
        /\ t.strategy \in Restore!Strategies
    BY <1>1 DEF Restore!TaskType
  <2>6. x3[l] \in Restore!Level /\ x5[l] \in Restore!Level
    BY <1>1, <2>5 DEF RestoreRows
  <2>7. level \in Restore!Level /\ (t.strategy = "MERGE" => level >= t.seen)
    BY <2>5, HigherOfTwo DEF Restore!Merged
  <2> HIDE DEF level
  <2>8. top \in Restore!Level /\ (top = x5[l] \/ top = level)
    BY <2>6, <2>7, HigherOfTwo
  <2>9. x5' = [x5 EXCEPT ![l] = top]
    <3>1. x3'[l] = level
      BY <1>1, <2>1, <2>5 DEF RestoreRows
    <3> QED BY <2>1, <3>1
  <2> HIDE DEF top
  <2>10. x7 = FALSE /\ x8 = FALSE => level >= top
    <3> SUFFICES ASSUME x7 = FALSE, x8 = FALSE PROVE level >= top
      OBVIOUS
    <3>1. NothingLost /\ RestoresInTurn
      BY DEF RestoreInv
    <3>2. t.strategy # "OVERWRITE" /\ t.seen = x3[l] /\ (t.strategy = "SKIP" => t.seen = 0)
      BY <1>1, <1>3, <3>1 DEF RestoresInTurn, InTurn
    <3>3. level >= x3[l]
      BY <2>5, <2>7, <3>2 DEF Restore!Strategies, Restore!Level
    <3>4. x3[l] >= x5[l]
      BY <2>5, <3>1 DEF NothingLost
    <3> HIDE DEF l, t
    <3> DEFINE a == x3[l]
               b == x5[l]
    <3>5. a \in Nat /\ b \in Nat /\ level \in Nat /\ level >= a /\ a >= b /\ (top = b \/ top = level)
      BY <2>6, <2>7, <2>8, <3>3, <3>4 DEF Restore!Level
    <3> HIDE DEF a, b
    <3> QED BY <3>5
  <2>11. \A o \in Clients \ {r} : x9'[o] = x9[o]
    BY <2>4
  <2>12. \A o \in {r} : x9'[o].pc = "lessons" /\ x9'[o].strategy = x9[o].strategy /\ x9[o].pc # "idle"
    BY <1>1, <2>3, <2>4
  <2>13. {r} \in SUBSET Clients
    OBVIOUS
  <2>14. /\ x3' = [x3 EXCEPT ![l] = level] /\ x8' = (x8 \/ Restore!ProgressHeld(l, {r}))
         /\ l \in RestoredLessons /\ x1' = x1 /\ x2' = x2 /\ x4' = x4 /\ x6' = x6 /\ x7' = x7
    BY <1>1, <2>1, <2>5, Zenon
  <2>15. RestoreTasks' /\ level \in Restore!Level /\ top \in Restore!Level
    BY <2>4, <2>7, <2>8
  <2> HIDE DEF l, t
  <2> QED BY <2>9, <2>10, <2>11, <2>12, <2>13, <2>14, <2>15, ProgressIsWritten
<1> QED BY <1>2, <1>3

LEMMA StudentLearns ==
  ASSUME RestoreInv, NEW l \in RestoredLessons, Restore!Learn(l) PROVE RestoreInv'
<1> DEFINE level == x3[l] + 1
           top == Restore!Higher(x5[l], level)
<1>1. /\ x3[l] < 2 /\ x3' = [x3 EXCEPT ![l] = level] /\ x5' = [x5 EXCEPT ![l] = top]
      /\ x8' = (x8 \/ Restore!ProgressHeld(l, {}))
      /\ x1' = x1 /\ x2' = x2 /\ x4' = x4 /\ x6' = x6 /\ x7' = x7 /\ x9' = x9
  BY DEF Restore!Learn
<1>2. RestoreRows /\ RestoreTasks'
  BY <1>1 DEF RestoreInv, RestoreTasks
<1>3. x3[l] \in Restore!Level /\ x5[l] \in Restore!Level
  BY <1>2 DEF RestoreRows
<1>4. level \in Restore!Level /\ level >= x3[l]
  BY <1>1, <1>3 DEF Restore!Level
<1> HIDE DEF level
<1>5. top \in Restore!Level /\ (top = x5[l] \/ top = level)
  BY <1>3, <1>4, HigherOfTwo
<1> HIDE DEF top
<1>6. x7 = FALSE /\ x8 = FALSE => level >= top
  <2> SUFFICES ASSUME NothingLost PROVE level >= top
    BY DEF RestoreInv
  <2>1. x3[l] >= x5[l]
    BY DEF NothingLost
  <2> QED BY <1>3, <1>4, <1>5, <2>1 DEF Restore!Level
<1>7. \A o \in Clients \ {} : x9'[o] = x9[o]
  BY <1>1
<1>8. /\ {} \in SUBSET Clients
      /\ \A o \in {} : x9'[o].pc = "lessons" /\ x9'[o].strategy = x9[o].strategy /\ x9[o].pc # "idle"
  OBVIOUS
<1> QED BY <1>1, <1>2, <1>4, <1>5, <1>6, <1>7, <1>8, ProgressIsWritten

LEMMA StudentEnrolsOrAdvances ==
  ASSUME RestoreInv, Restore!Enroll \/ Restore!Advance PROVE RestoreInv'
<1>1. /\ x3' = x3 /\ x4' = x4 /\ x5' = x5 /\ x7' = x7 /\ x9' = x9
      /\ x8' = (x8 \/ Restore!EnrolmentHeld({}))
  BY Zenon DEF Restore!Enroll, Restore!Advance
<1>2. RestoreRows /\ RestoreTasks'
  BY <1>1 DEF RestoreInv, RestoreTasks
<1>3. /\ {} \in SUBSET Clients /\ \A o \in Clients \ {} : x9'[o] = x9[o]
      /\ \A o \in {} : x9'[o].pc = "lessons" /\ x9'[o].strategy = x9[o].strategy /\ x9[o].pc # "idle"
  BY <1>1
<1>4. CASE Restore!Enroll
  <2>1. x1' = "ACTIVE" /\ x2' = x2 /\ x6' = x6
    BY <1>4 DEF Restore!Enroll
  <2>2. x1' \in Status /\ x1' # "none" /\ x2' \in Restore!Level /\ x6' \in Restore!Level
    BY <2>1, <1>2 DEF RestoreRows, Status
  <2>3. NothingLost => x2' >= x6'
    BY <2>1 DEF NothingLost
  <2> QED BY <1>1, <1>2, <1>3, <2>2, <2>3, EnrolmentIsWritten
<1>5. CASE Restore!Advance
  <2>1. /\ x1 \in {"ACTIVE", "COMPLETED"} /\ x2 < 2 /\ x2' = x2 + 1
        /\ x6' = Restore!Higher(x6, x2 + 1)
        /\ x1' = IF x2' = 2 THEN "COMPLETED" ELSE x1
    BY <1>5 DEF Restore!Advance
  <2>2. x2 \in Restore!Level /\ x6 \in Restore!Level
    BY <1>2 DEF RestoreRows
  <2>3. x1' \in Status /\ x1' # "none" /\ x2' \in Restore!Level /\ x2' >= x2
    BY <2>1, <2>2 DEF Status, Restore!Level
  <2>4. x6' \in Restore!Level /\ (x6' = x6 \/ x6' = x2')
    BY <2>1, <2>2, <2>3, HigherOfTwo
  <2>5. NothingLost => x2' >= x6'
    <3>1. NothingLost => x2 >= x6
      BY DEF NothingLost
    <3> QED BY <2>2, <2>3, <2>4, <3>1 DEF Restore!Level
  <2> QED BY <1>1, <1>2, <1>3, <2>3, <2>4, <2>5, EnrolmentIsWritten
<1> QED BY <1>4, <1>5

LEMMA RestoreInductive == RestoreInv /\ [Restore!Next]_(Restore!vars) => RestoreInv'
<1> SUFFICES ASSUME RestoreInv, [Restore!Next]_(Restore!vars) PROVE RestoreInv'
  OBVIOUS
<1>1. ASSUME Restore!Enroll \/ Restore!Advance PROVE RestoreInv'
  BY <1>1, StudentEnrolsOrAdvances
<1>2. ASSUME Restore!Refund PROVE RestoreInv'
  <2>1. /\ x1 = "ACTIVE" /\ x1' = "REFUNDED" /\ x2' = x2 /\ x3' = x3 /\ x4' = x4 /\ x5' = x5
        /\ x6' = x6 /\ x7' = x7 /\ x8' = x8 /\ x9' = x9
    BY <1>2 DEF Restore!Refund, Restore!history
  <2>2. RestoreRows' /\ RestoreTasks'
    BY <2>1 DEF RestoreInv, RestoreRows, RestoreTasks, Status
  <2>3. RestoreFlags'
    BY <2>1, Zenon DEF RestoreInv, RestoreFlags
  <2>4. NothingLost /\ RestoresInTurn => NothingLost' /\ RestoresInTurn'
    BY <2>1 DEF NothingLost, RestoresInTurn, InTurn
  <2> QED BY <2>1, <2>2, <2>3, <2>4 DEF RestoreInv
<1>3. ASSUME NEW l \in RestoredLessons, Restore!Learn(l) PROVE RestoreInv'
  BY <1>3, StudentLearns
<1>4. ASSUME NEW l \in RestoredLessons, Restore!RemoveLesson(l) PROVE RestoreInv'
  <2>1. /\ x4' = x4 \ {l} /\ x3' = [x3 EXCEPT ![l] = 0] /\ x5' = [x5 EXCEPT ![l] = 0]
        /\ x1' = x1 /\ x2' = x2 /\ x6' = x6 /\ x7' = x7 /\ x8' = x8 /\ x9' = x9
    BY <1>4 DEF Restore!RemoveLesson
  <2>2. RestoreRows
    BY DEF RestoreInv
  <2>3. RestoreRows' /\ RestoreTasks'
    BY <2>1 DEF RestoreInv, RestoreRows, RestoreTasks, Restore!Level
  <2>4. RestoreFlags'
    BY <2>1, Zenon DEF RestoreInv, RestoreFlags
  <2>5. NothingLost => NothingLost'
    BY <2>1, <2>2 DEF NothingLost, RestoreRows
  <2>6. \A m \in x4' : x3'[m] = x3[m]
    BY <2>1, <2>2 DEF RestoreRows
  <2>7. RestoresInTurn => RestoresInTurn'
    BY <2>1, <2>6 DEF RestoresInTurn, InTurn
  <2> QED BY <2>1, <2>3, <2>4, <2>5, <2>7 DEF RestoreInv
<1>5. ASSUME NEW r \in Clients, Restore!Validate(r) PROVE RestoreInv'
  BY <1>5, RestoreValidates
<1>6. ASSUME NEW r \in Clients, Restore!ReadEnrolment(r) PROVE RestoreInv'
  BY <1>6, RestoreReadsEnrolment
<1>7. ASSUME NEW r \in Clients, Restore!CreateEnrolment(r) PROVE RestoreInv'
  BY <1>7, RestoreCreates
<1>8. ASSUME NEW r \in Clients, Restore!UpdateEnrolment(r) PROVE RestoreInv'
  BY <1>8, RestoreUpdates
<1>9. ASSUME NEW r \in Clients, Restore!WriteLesson(r) PROVE RestoreInv'
  BY <1>9, RestoreWritesLesson
<1>10. ASSUME NEW r \in Clients, Restore!Stop(r) PROVE RestoreInv'
  <2>1. /\ x9' = [x9 EXCEPT ![r] = Restore!Idle] /\ x1' = x1 /\ x2' = x2 /\ x3' = x3
        /\ x4' = x4 /\ x5' = x5 /\ x6' = x6 /\ x7' = x7 /\ x8' = x8
    BY <1>10 DEF Restore!Stop, Restore!Finish, Restore!student, Restore!history
  <2> QED BY <2>1, RestoreStops
<1>11. ASSUME NEW r \in Clients, NEW l \in RestoredLessons, Restore!ReadLesson(r, l) PROVE RestoreInv'
  BY <1>11, RestoreReadsLesson
<1>12. ASSUME UNCHANGED Restore!vars PROVE RestoreInv'
  <2>1. /\ x1' = x1 /\ x2' = x2 /\ x3' = x3 /\ x4' = x4 /\ x5' = x5 /\ x6' = x6 /\ x7' = x7
        /\ x8' = x8 /\ x9' = x9
    BY <1>12 DEF Restore!vars
  <2>2. RestoreRows' /\ RestoreTasks'
    BY <2>1 DEF RestoreInv, RestoreRows, RestoreTasks
  <2>3. RestoreFlags'
    BY <2>1, Zenon DEF RestoreInv, RestoreFlags
  <2>4. NothingLost /\ RestoresInTurn => NothingLost' /\ RestoresInTurn'
    BY <2>1 DEF NothingLost, RestoresInTurn, InTurn
  <2> QED BY <2>1, <2>2, <2>3, <2>4 DEF RestoreInv
<1> QED BY <1>1, <1>2, <1>3, <1>4, <1>5, <1>6, <1>7, <1>8, <1>9, <1>10, <1>11, <1>12
        DEF Restore!Next

LEMMA RestoreMeans == RestoreInv => Restore!TypeOK /\ Restore!RestoreLosesNothing
<1> SUFFICES ASSUME RestoreInv PROVE Restore!TypeOK /\ Restore!RestoreLosesNothing
  OBVIOUS
<1>1. Restore!TypeOK
  BY Zenon DEF RestoreInv, RestoreRows, RestoreTasks, RestoreFlags, Restore!TypeOK, Status
<1>2. ~x7 /\ ~x8 => NothingLost
  BY Zenon DEF RestoreInv, RestoreFlags
<1>3. Restore!RestoreLosesNothing
  BY <1>2, Zenon DEF Restore!RestoreLosesNothing, NothingLost
<1> QED BY <1>1, <1>3

------------------------------------------------------------------------------
(***************************************************************************)
(* The run: a behaviour stays with the service in focus, and keeps its     *)
(* invariant.                                                              *)
(***************************************************************************)
StudentInv ==
  /\ focus = "quiz" => Quiz!QuizInv
  /\ focus = "grading" => KeyInv
  /\ focus = "exam" => ExamInv
  /\ focus = "templates" => TemplateInv
  /\ focus = "drip" => DripInv
  /\ focus = "work" => WorkInv
  /\ focus = "fraud" => FraudInv
  /\ focus = "reviews" => RatingInv
  /\ focus = "restore" => RestoreInv

LEMMA StudentInitially == InitOne => StudentInv
<1> SUFFICES ASSUME InitOne PROVE StudentInv
  OBVIOUS
<1>1. focus = "quiz" => Quiz!QuizInv
  <2>1. focus = "quiz" => Quiz!Init
    BY Zenon DEF InitOne
  <2> QED BY <2>1, Quiz!QuizInitially, StudentAssumption, Zenon
<1>2. focus = "grading" => KeyInv
  <2>1. focus = "grading" => Key!Init
    BY Zenon DEF InitOne
  <2> QED BY <2>1, KeyInitially, Zenon
<1>3. focus = "exam" => ExamInv
  <2>1. focus = "exam" => Exam!Init
    BY Zenon DEF InitOne
  <2> QED BY <2>1, ExamInitially, Zenon
<1>4. focus = "templates" => TemplateInv
  <2>1. focus = "templates" => Template!Init
    BY Zenon DEF InitOne
  <2> QED BY <2>1, TemplateInitially, Zenon
<1>5. focus = "drip" => DripInv
  <2>1. focus = "drip" => Drip!Init
    BY Zenon DEF InitOne
  <2> QED BY <2>1, DripInitially, Zenon
<1>6. focus = "work" => WorkInv
  <2>1. focus = "work" => Work!Init
    BY Zenon DEF InitOne
  <2> QED BY <2>1, WorkInitially, Zenon
<1>7. focus = "fraud" => FraudInv
  <2>1. focus = "fraud" => Fraud!Init
    BY Zenon DEF InitOne
  <2> QED BY <2>1, FraudInitially, Zenon
<1>8. focus = "reviews" => RatingInv
  <2>1. focus = "reviews" => Rating!Init
    BY Zenon DEF InitOne
  <2> QED BY <2>1, RatingInitially, Zenon
<1>9. focus = "restore" => RestoreInv
  <2>1. focus = "restore" => Restore!Init
    BY Zenon DEF InitOne
  <2> QED BY <2>1, RestoreInitially, Zenon
<1> QED BY <1>1, <1>2, <1>3, <1>4, <1>5, <1>6, <1>7, <1>8, <1>9, Zenon DEF StudentInv

\* A step that does not change the variables of a service keeps its invariant, as one
\* of its own does.
LEMMA StudentInductive ==
  StudentInv /\ [StudentStep]_<<focus, vars, slots>> => StudentInv'
<1> SUFFICES ASSUME StudentInv, [StudentStep]_<<focus, vars, slots>> PROVE StudentInv'
  OBVIOUS
<1>0. focus' = focus
  BY Zenon DEF StudentStep, EnrollmentStep, QuizStep, KeyStep, ExamStep, TemplateStep,
    DripStep, WorkStep, FraudStep, RatingStep, RestoreStep
<1>1. focus = "quiz" => Quiz!QuizInv'
  <2> SUFFICES ASSUME focus = "quiz" PROVE Quiz!QuizInv'
    OBVIOUS
  <2>1. [Quiz!Next]_(Quiz!vars)
    BY DEF StudentStep, EnrollmentStep, QuizStep, KeyStep, ExamStep, TemplateStep, DripStep,
      WorkStep, FraudStep, RatingStep, RestoreStep, slots, Quiz!vars
  <2>2. Quiz!QuizInv
    BY Zenon DEF StudentInv
  <2> QED BY <2>1, <2>2, Quiz!QuizInductive, StudentAssumption, Zenon
<1>2. focus = "grading" => KeyInv'
  <2> SUFFICES ASSUME focus = "grading" PROVE KeyInv'
    OBVIOUS
  <2>1. [Key!Next]_(Key!vars)
    BY DEF StudentStep, EnrollmentStep, QuizStep, KeyStep, ExamStep, TemplateStep, DripStep,
      WorkStep, FraudStep, RatingStep, RestoreStep, slots, Key!vars
  <2>2. KeyInv
    BY Zenon DEF StudentInv
  <2> QED BY <2>1, <2>2, KeyInductive, Zenon
<1>3. focus = "exam" => ExamInv'
  <2> SUFFICES ASSUME focus = "exam" PROVE ExamInv'
    OBVIOUS
  <2>1. [Exam!Next]_(Exam!vars)
    BY DEF StudentStep, EnrollmentStep, QuizStep, KeyStep, ExamStep, TemplateStep, DripStep,
      WorkStep, FraudStep, RatingStep, RestoreStep, slots, Exam!vars
  <2>2. ExamInv
    BY Zenon DEF StudentInv
  <2> QED BY <2>1, <2>2, ExamInductive, Zenon
<1>4. focus = "templates" => TemplateInv'
  <2> SUFFICES ASSUME focus = "templates" PROVE TemplateInv'
    OBVIOUS
  <2>1. [Template!Next]_(Template!vars)
    BY DEF StudentStep, EnrollmentStep, QuizStep, KeyStep, ExamStep, TemplateStep, DripStep,
      WorkStep, FraudStep, RatingStep, RestoreStep, slots, Template!vars
  <2>2. TemplateInv
    BY Zenon DEF StudentInv
  <2> QED BY <2>1, <2>2, TemplateInductive, Zenon
<1>5. focus = "drip" => DripInv'
  <2> SUFFICES ASSUME focus = "drip" PROVE DripInv'
    OBVIOUS
  <2>1. [Drip!Next]_(Drip!vars)
    BY DEF StudentStep, EnrollmentStep, QuizStep, KeyStep, ExamStep, TemplateStep, DripStep,
      WorkStep, FraudStep, RatingStep, RestoreStep, slots, Drip!vars
  <2>2. DripInv
    BY Zenon DEF StudentInv
  <2> QED BY <2>1, <2>2, DripInductive, Zenon
<1>6. focus = "work" => WorkInv'
  <2> SUFFICES ASSUME focus = "work" PROVE WorkInv'
    OBVIOUS
  <2>1. [Work!Next]_(Work!vars)
    BY DEF StudentStep, EnrollmentStep, QuizStep, KeyStep, ExamStep, TemplateStep, DripStep,
      WorkStep, FraudStep, RatingStep, RestoreStep, slots, Work!vars
  <2>2. WorkInv
    BY Zenon DEF StudentInv
  <2> QED BY <2>1, <2>2, WorkInductive, Zenon
<1>7. focus = "fraud" => FraudInv'
  <2> SUFFICES ASSUME focus = "fraud" PROVE FraudInv'
    OBVIOUS
  <2>1. [Fraud!Next]_(Fraud!vars)
    BY DEF StudentStep, EnrollmentStep, QuizStep, KeyStep, ExamStep, TemplateStep, DripStep,
      WorkStep, FraudStep, RatingStep, RestoreStep, slots, Fraud!vars
  <2>2. FraudInv
    BY Zenon DEF StudentInv
  <2> QED BY <2>1, <2>2, FraudInductive, Zenon
<1>8. focus = "reviews" => RatingInv'
  <2> SUFFICES ASSUME focus = "reviews" PROVE RatingInv'
    OBVIOUS
  <2>1. [Rating!Next]_(Rating!vars)
    BY DEF StudentStep, EnrollmentStep, QuizStep, KeyStep, ExamStep, TemplateStep, DripStep,
      WorkStep, FraudStep, RatingStep, RestoreStep, slots, Rating!vars
  <2>2. RatingInv
    BY Zenon DEF StudentInv
  <2> QED BY <2>1, <2>2, RatingInductive, Zenon
<1>9. focus = "restore" => RestoreInv'
  <2> SUFFICES ASSUME focus = "restore" PROVE RestoreInv'
    OBVIOUS
  <2>1. [Restore!Next]_(Restore!vars)
    BY DEF StudentStep, EnrollmentStep, QuizStep, KeyStep, ExamStep, TemplateStep, DripStep,
      WorkStep, FraudStep, RatingStep, RestoreStep, slots, Restore!vars
  <2>2. RestoreInv
    BY Zenon DEF StudentInv
  <2> QED BY <2>1, <2>2, RestoreInductive, Zenon
<1> QED BY <1>0, <1>1, <1>2, <1>3, <1>4, <1>5, <1>6, <1>7, <1>8, <1>9, Zenon DEF StudentInv

LEMMA StudentMeans ==
  StudentInv => StudentTypesOK /\ GradingSound /\ CourseworkSound /\ RecordsSound
<1> SUFFICES ASSUME StudentInv
    PROVE  StudentTypesOK /\ GradingSound /\ CourseworkSound /\ RecordsSound
  OBVIOUS
<1>1. focus = "quiz" => Quiz!TypeOK /\ Quiz!KeyHidden /\ Quiz!AttemptsWithinLimit
  BY Quiz!QuizMeans, Zenon DEF StudentInv
<1>2. focus = "grading" => Key!TypeOK /\ Key!KeyEarnsFullMarks
  BY KeyMeans, Zenon DEF StudentInv
<1>3. focus = "exam" => Exam!TypeOK /\ Exam!ExamTakenInTurn /\ Exam!CertificateEarned
  BY ExamMeans, Zenon DEF StudentInv
<1>4. focus = "templates" => Template!TypeOK /\ Template!ActiveIsComplete
  BY TemplateMeans, Zenon DEF StudentInv, TemplateInv
<1>5. focus = "drip" => Drip!TypeOK /\ Drip!OverrideStands /\ Drip!AnnouncedOnce
  BY DripMeans, Zenon DEF StudentInv
<1>6. focus = "work" => Work!TypeOK /\ Work!VerdictMatchesWork
  BY WorkMeans, Zenon DEF StudentInv
<1>7. focus = "fraud" => Fraud!TypeOK /\ Fraud!FlaggedIsRecorded
  BY FraudMeans, Zenon DEF StudentInv
<1>8. focus = "reviews" => Rating!TypeOK /\ Rating!RatingMatchesReviews
  BY RatingMeans, Zenon DEF StudentInv
<1>9. focus = "restore" => Restore!TypeOK /\ Restore!RestoreLosesNothing
  BY RestoreMeans, Zenon DEF StudentInv
<1> QED
  BY <1>1, <1>2, <1>3, <1>4, <1>5, <1>6, <1>7, <1>8, <1>9, Zenon
  DEF StudentTypesOK, GradingSound, CourseworkSound, RecordsSound

LEMMA StudentInvariant == SpecOne => []StudentInv
BY StudentInitially, StudentInductive, PTL DEF SpecOne

\* The variables of every service beside the enrolment keep their types, for any number
\* of its requests, rows and lessons.
THEOREM StudentTypes == SpecOne => []StudentTypesOK
BY StudentInvariant, StudentMeans, PTL

\* Judging is sound: whoever was shown the answer key has passed or has no attempt left,
\* and attempts that do not overlap keep their limit (QuizSessions); the key of a
\* question whose edits did not overlap earns full marks in any order (Grading); exams
\* are taken in turn and certificates earned, whatever overlaps (Certification).
THEOREM GradingIsSound == SpecOne => []GradingSound
BY StudentInvariant, StudentMeans, PTL

\* Coursework is sound: a lesson opened by hand stays open whatever overlaps and is
\* announced once if nothing does (DripSchedule); requests that do not overlap leave
\* active templates complete (CertificateTemplates) and verdicts beside the work they
\* are about (Assignments).
THEOREM CourseworkIsSound == SpecOne => []CourseworkSound
BY StudentInvariant, StudentMeans, PTL

\* Records are sound: while scores only grow, every enrolment let through with the answer
\* FLAG has a flag (FraudDetection); a restore takes no progress away unless it was to
\* overwrite or a row changed under it (EnrollmentRestore); and without overlapping
\* recomputations a course's rating is that of its reviews (Reviews).
THEOREM RecordsAreSound == SpecOne => []RecordsSound
BY StudentInvariant, StudentMeans, PTL

\* Whatever is in focus, enrolments move as Enrollment says or not at all, so what
\* is proved of its specification above holds of the run.
THEOREM EnrollmentWithin == SpecOne => Spec
<1>1. InitOne => Init
  BY DEF InitOne
<1>2. [StudentStep]_<<focus, vars, slots>> => [Next]_vars
  BY DEF StudentStep, EnrollmentStep, QuizStep, KeyStep, ExamStep, TemplateStep, DripStep,
    WorkStep, FraudStep, RatingStep, RestoreStep
<1> QED BY <1>1, <1>2, PTL DEF SpecOne, Spec

=============================================================================
