----------------------------- MODULE Enrollment -----------------------------
(***************************************************************************)
(* EnrollmentsService.create and BundlesService.enroll: HTTP requests that *)
(* run concurrently against one database.  Each request is a sequence of   *)
(* awaited reads and writes; others run between any two of them, so what a *)
(* request checked early may be stale when it writes, and only the unique  *)
(* indexes decide.  create writes the payment, the enrolment and the       *)
(* course statistics one by one; enroll writes them in one transaction.    *)
(*                                                                         *)
(* totalRevenue moves with totalEnrollments in the same update and is left *)
(* out, as are the amounts.                                                *)
(***************************************************************************)
EXTENDS Naturals, FiniteSets

CONSTANTS
  Students, Courses,
  Bundle,           \* the bundle on sale
  BundleCourses,    \* its courses
  Txs,              \* payment transactions a client may name
  Confirmed,        \* those that succeeded on-chain
  None,
  Requests,         \* bound: requests made
  MaxCrashes        \* bound: process crashes

ASSUME ConstantsAssumption ==
  /\ IsFiniteSet(Students) /\ IsFiniteSet(Requests)
  /\ BundleCourses \subseteq Courses
  /\ Bundle \notin Courses
  /\ Confirmed \subseteq Txs
  /\ None \notin Students \union Txs
  /\ MaxCrashes \in Nat

VARIABLES
  active,           \* courses in status ACTIVE, and the bundle when isActive
  payments,         \* payments row of each transaction: the student, or None
  enrollments,      \* enrollments row of each student and course: its txHash, or None
  bundles,          \* bundle_enrollments row of each student: its txHash, or None
  totalEnrollments, \* courses.totalEnrollments
  req,              \* the requests
  crashes,
  uncounted         \* history: rows whose request crashed before counting them

dbVars == <<payments, enrollments, bundles, totalEnrollments>>
vars == <<active, dbVars, req, crashes, uncounted>>

Steps ==
  {"new", "course", "payable", "existing", "checks", "pay", "enroll", "stats",
   "bundle", "bundleExisting", "owned", "commit", "post", "done", "failed"}

\* wanted: the courses still to be enrolled in; seen: those read as ACTIVE.
RequestType ==
  [pc : Steps, bundle : BOOLEAN, student : Students \union {None},
   wanted : SUBSET Courses, seen : SUBSET Courses, tx : Txs \union {None}]

Idle == [pc |-> "new", bundle |-> FALSE, student |-> None, wanted |-> {}, seen |-> {},
         tx |-> None]

Goto(r, step) == req' = [req EXCEPT ![r].pc = step]

Reply(r, ok, step) == Goto(r, IF ok THEN step ELSE "failed")

Enrolled(s, c) == enrollments[<<s, c>>] # None

(***************************************************************************)
(* Requests arrive; courses and the bundle are paused and resumed meanwhile *)
(***************************************************************************)
Submit(r, bundle, courses) ==
  /\ req[r].pc = "new"
  /\ \E s \in Students, t \in Txs :
       req' = [req EXCEPT ![r] =
                 [pc |-> IF bundle THEN "bundle" ELSE "course", bundle |-> bundle,
                  student |-> s, wanted |-> courses, seen |-> {}, tx |-> t]]
  /\ UNCHANGED <<active, dbVars, crashes, uncounted>>

SubmitCreate(r) == \E c \in Courses : Submit(r, FALSE, {c})

SubmitBundle(r) == Submit(r, TRUE, BundleCourses)

ChangeStatus ==
  /\ \E c \in Courses \union {Bundle} :
       active' = IF c \in active THEN active \ {c} ELSE active \union {c}
  /\ UNCHANGED <<dbVars, req, crashes, uncounted>>

(***************************************************************************)
(* Checks                                                                  *)
(***************************************************************************)

\* create: the course must be ACTIVE.
ReadCourse(r) ==
  /\ req[r].pc = "course"
  /\ Reply(r, req[r].wanted \subseteq active, "payable")
  /\ UNCHANGED <<active, dbVars, crashes, uncounted>>

\* enroll: findOne reads the bundle and the status of its courses.
ReadBundle(r) ==
  /\ req[r].pc = "bundle"
  /\ req' = [req EXCEPT ![r].pc = IF Bundle \in active THEN "bundleExisting" ELSE "failed",
                        ![r].seen = active \intersect Courses]
  /\ UNCHANGED <<active, dbVars, crashes, uncounted>>

\* Not bought before, and the amount named covers the price.
CheckBundleExisting(r) ==
  /\ req[r].pc = "bundleExisting"
  /\ \E enough \in BOOLEAN : Reply(r, enough /\ bundles[req[r].student] = None, "payable")
  /\ UNCHANGED <<active, dbVars, crashes, uncounted>>

Payable(t) == t \in Confirmed /\ payments[t] = None

VerifyPaymentTransaction(r) ==
  /\ req[r].pc = "payable"
  /\ Reply(r, Payable(req[r].tx), IF req[r].bundle THEN "owned" ELSE "existing")
  /\ UNCHANGED <<active, dbVars, crashes, uncounted>>

CheckExisting(r) ==
  /\ req[r].pc = "existing"
  /\ Reply(r, \A c \in req[r].wanted : ~Enrolled(req[r].student, c), "checks")
  /\ UNCHANGED <<active, dbVars, crashes, uncounted>>

\* (mutant) the lookup forgets whose enrolments it wants
OwnedByAnyone(s) == {c \in BundleCourses : \E t \in Students : Enrolled(t, c)}

Owned(s) == {c \in BundleCourses : Enrolled(s, c)}

\* enroll skips what the student owns and judges the rest by the statuses
\* read at the start.
ReadOwned(r) ==
  LET missing == BundleCourses \ Owned(req[r].student)
  IN /\ req[r].pc = "owned"
     /\ req' = [req EXCEPT ![r].wanted = missing,
                           ![r].pc = IF missing \subseteq req[r].seen THEN "checks" ELSE "failed"]
     /\ UNCHANGED <<active, dbVars, crashes, uncounted>>

\* Prerequisites and fraud score, of every wanted course.
RunPreEnrollmentChecks(r) ==
  /\ req[r].pc = "checks"
  /\ \E pass \in BOOLEAN :
       /\ req[r].wanted = {} => pass
       /\ Reply(r, pass, IF req[r].bundle THEN "commit" ELSE "pay")
  /\ UNCHANGED <<active, dbVars, crashes, uncounted>>

(***************************************************************************)
(* Writes                                                                  *)
(***************************************************************************)

\* (mutant) the unique index on payments.txHash missing
NeverTaken(t) == FALSE

TxTaken(t) == payments[t] # None

\* (mutant) create's own payment step records what was bought, not who paid
PayerWrong(r) == CHOOSE c \in req[r].wanted : TRUE

Payer(r) == req[r].student

CreatePayment(r) ==
  /\ req[r].pc = "pay"
  /\ \/ /\ TxTaken(req[r].tx)
        /\ Goto(r, "failed")
        /\ UNCHANGED payments
     \/ /\ ~TxTaken(req[r].tx)
        /\ payments' = [payments EXCEPT ![req[r].tx] = Payer(r)]
        /\ Goto(r, "enroll")
  /\ UNCHANGED <<active, enrollments, bundles, totalEnrollments, crashes, uncounted>>

WriteRows(s, courses, t) ==
  enrollments' = [p \in Students \X Courses |->
                    IF p[1] = s /\ p[2] \in courses THEN t ELSE enrollments[p]]

CreateEnrollment(r) ==
  /\ req[r].pc = "enroll"
  /\ \/ /\ \E c \in req[r].wanted : Enrolled(req[r].student, c)
        /\ Goto(r, "failed")
        /\ UNCHANGED enrollments
     \/ /\ \A c \in req[r].wanted : ~Enrolled(req[r].student, c)
        /\ WriteRows(req[r].student, req[r].wanted, req[r].tx)
        /\ Goto(r, "stats")
  /\ UNCHANGED <<active, payments, bundles, totalEnrollments, crashes, uncounted>>

Count(courses) ==
  totalEnrollments' = [c \in Courses |-> totalEnrollments[c] + IF c \in courses THEN 1 ELSE 0]

UpdateStats(r) ==
  /\ req[r].pc = "stats"
  /\ Count(req[r].wanted)
  /\ Goto(r, "post")
  /\ UNCHANGED <<active, payments, enrollments, bundles, crashes, uncounted>>

\* (mutant) the count of the skip-duplicates insert ignored
AllWanted(r) == req[r].wanted

NewRows(r) == {c \in req[r].wanted : ~Enrolled(req[r].student, c)}

\* One transaction: payment, bundle row, and the enrolments and statistics
\* of the courses the student still lacks; or nothing of it.
CommitBundle(r) ==
  /\ req[r].pc = "commit"
  /\ \/ /\ TxTaken(req[r].tx) \/ bundles[req[r].student] # None
        /\ Goto(r, "failed")
        /\ UNCHANGED dbVars
     \/ /\ ~TxTaken(req[r].tx) /\ bundles[req[r].student] = None
        /\ payments' = [payments EXCEPT ![req[r].tx] = req[r].student]
        /\ bundles' = [bundles EXCEPT ![req[r].student] = req[r].tx]
        /\ WriteRows(req[r].student, NewRows(r), req[r].tx)
        /\ Count(NewRows(r))
        /\ Goto(r, "post")
  /\ UNCHANGED <<active, crashes, uncounted>>

\* Notifications, invoice, referral, drip schedule; a notification that fails
\* fails the response.
RunPostEnrollmentSteps(r) ==
  /\ req[r].pc = "post"
  /\ \E ok \in BOOLEAN : Reply(r, ok, "done")
  /\ UNCHANGED <<active, dbVars, crashes, uncounted>>

Uncounting(c) == {r \in Requests : req[r].pc = "stats" /\ c \in req[r].wanted}

Crash ==
  /\ crashes < MaxCrashes
  /\ crashes' = crashes + 1
  /\ uncounted' = [c \in Courses |-> uncounted[c] + Cardinality(Uncounting(c))]
  /\ req' = [r \in Requests |->
               IF req[r].pc \in {"new", "done"} THEN req[r] ELSE [req[r] EXCEPT !.pc = "failed"]]
  /\ UNCHANGED <<active, dbVars>>

-----------------------------------------------------------------------------
Init ==
  /\ active = Courses \union {Bundle}
  /\ payments = [t \in Txs |-> None]
  /\ enrollments = [p \in Students \X Courses |-> None]
  /\ bundles = [s \in Students |-> None]
  /\ totalEnrollments = [c \in Courses |-> 0]
  /\ req = [r \in Requests |-> Idle]
  /\ crashes = 0
  /\ uncounted = [c \in Courses |-> 0]

Step(r) ==
  \/ SubmitCreate(r) \/ SubmitBundle(r)
  \/ ReadCourse(r) \/ ReadBundle(r) \/ CheckBundleExisting(r)
  \/ VerifyPaymentTransaction(r) \/ CheckExisting(r) \/ ReadOwned(r)
  \/ RunPreEnrollmentChecks(r)
  \/ CreatePayment(r) \/ CreateEnrollment(r) \/ UpdateStats(r)
  \/ CommitBundle(r) \/ RunPostEnrollmentSteps(r)

Next == ChangeStatus \/ Crash \/ \E r \in Requests : Step(r)

Spec == Init /\ [][Next]_vars

-----------------------------------------------------------------------------
(***************************************************************************)
(* Properties                                                              *)
(***************************************************************************)

TypeOK ==
  /\ active \subseteq Courses \union {Bundle}
  /\ payments \in [Txs -> Students \union {None}]
  /\ enrollments \in [Students \X Courses -> Txs \union {None}]
  /\ bundles \in [Students -> Txs \union {None}]
  /\ totalEnrollments \in [Courses -> Nat]
  /\ req \in [Requests -> RequestType]
  /\ \A r \in Requests : req[r].pc # "new" => req[r].student \in Students /\ req[r].tx \in Txs
  /\ crashes \in Nat
  /\ uncounted \in [Courses -> Nat]

\* One transaction maps to one purchase: two enrolments paid by the same
\* transaction belong to one student, and came with that student's bundle.
\* Holds however the checks of concurrent requests interleave and whatever
\* crashes, because the payment is written before what it pays for.
OneTxOnePurchase ==
  \A p, q \in Students \X Courses :
    enrollments[p] = enrollments[q] /\ enrollments[p] # None /\ p # q =>
      p[1] = q[1] /\ bundles[p[1]] = enrollments[p]

\* A bundle purchase leaves the student enrolled in every course of the
\* bundle: those owned before, and those a parallel purchase wrote meanwhile,
\* are the only ones it may skip.
BundleComplete ==
  \A s \in Students : bundles[s] # None => \A c \in BundleCourses : Enrolled(s, c)

\* The statistics count every enrolment once: they are short of exactly the
\* rows whose request has not reached its increment, or crashed before it.
StatsCountRows ==
  \A c \in Courses :
    totalEnrollments[c] + Cardinality(Uncounting(c)) + uncounted[c]
      = Cardinality({s \in Students : Enrolled(s, c)})

\* The two services together implement the promise of Purchases.
Sales == INSTANCE Purchases WITH
  sold <- [t \in Txs |-> {p \in Students \X Courses : enrollments[p] = t}]

ImplementsPurchases == Sales!Spec
=============================================================================
