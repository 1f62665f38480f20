---------------------------- MODULE LessonProgress ----------------------------
(***************************************************************************)
(* LessonsService: a student's progress through one course.  Each request  *)
(* writes its lesson_progress row and then recomputes the enrolment's      *)
(* percentage from a fresh read of the course, a fresh count of completed  *)
(* rows and an unconditional write, with other requests, the chain's       *)
(* course_completed event, refunds and new lessons between any two of      *)
(* these awaits.                                                           *)
(*                                                                         *)
(* Left out: watch positions, timestamps, the ownership checks, and        *)
(* courses.totalLessons, which progress never reads.                       *)
(***************************************************************************)
EXTENDS Naturals, FiniteSets, FiniteSetTheorems, TLC, TLAPS

CONSTANTS
  Lessons,     \* the lessons that move in this history
  Initial,     \* those in the course from the start
  Old,         \* further lessons, all completed before
  Requests,    \* bound: requests made
  Others,      \* who else acts: "chain", "refund", "crash"
  NoLesson

ASSUME ConstantsAssumption ==
  /\ IsFiniteSet(Lessons)
  /\ Initial \subseteq Lessons
  /\ Old \in Nat
  /\ Others \subseteq {"chain", "refund", "crash"}
  /\ NoLesson \notin Lessons

VARIABLES
  lessons,       \* lessons of the course, besides the old ones
  rows,          \* lessons with a lesson_progress row
  completed,     \* rows with completed = true
  percent,       \* enrollments.progressPercent
  status,        \* enrollments.status
  completedAt,   \* whether enrollments.completedAt is set
  req,           \* the requests
  settled,       \* history: the course has not grown, nor the chain completed it
  crashed        \* history: requests have been cut short

enrollment == <<percent, status, completedAt>>
history == <<settled, crashed>>
vars == <<lessons, rows, completed, enrollment, req, history>>

RequestType ==
  [pc : {"new", "complete", "watch", "course", "count", "write", "done"},
   lesson : Lessons \union {NoLesson},
   total : Nat,      \* lessons read
   counted : Nat]    \* completed rows counted

Goto(r, step) == req' = [req EXCEPT ![r].pc = step]

\* (mutant) the lesson is not checked against the course
AnyLesson == Lessons

CourseLessonIds == lessons

\* verifyEnrollmentAndLesson
Verify(r, step) ==
  /\ req[r].pc = "new"
  /\ \E l \in CourseLessonIds : req' = [req EXCEPT ![r].pc = step, ![r].lesson = l]
  /\ UNCHANGED <<lessons, rows, completed, enrollment, history>>

VerifyComplete(r) == Verify(r, "complete")

VerifyWatch(r) == Verify(r, "watch")

UpsertComplete(r) ==
  /\ req[r].pc = "complete"
  /\ rows' = rows \union {req[r].lesson}
  /\ completed' = completed \union {req[r].lesson}
  /\ Goto(r, "course")
  /\ UNCHANGED <<lessons, enrollment, history>>

UpdateWatchProgress(r) ==
  /\ req[r].pc = "watch"
  /\ rows' = rows \union {req[r].lesson}
  /\ Goto(r, "done")
  /\ UNCHANGED <<lessons, completed, enrollment, history>>

(***************************************************************************)
(* recalculateProgress                                                     *)
(***************************************************************************)
Total == Old + Cardinality(lessons)

ReadCourse(r) ==
  /\ req[r].pc = "course"
  /\ req' = [req EXCEPT ![r].pc = IF Total = 0 THEN "done" ELSE "count", ![r].total = Total]
  /\ UNCHANGED <<lessons, rows, completed, enrollment, history>>

\* (mutant) the count ignores the completed flag
AnyRow(r) == rows

\* (mutant) the count runs beside the request's own upsert and misses it
ExceptOwn(r) == completed \ {req[r].lesson}

Counted(r) == completed

CountCompleted(r) ==
  /\ req[r].pc = "count"
  /\ req' = [req EXCEPT ![r].pc = "write", ![r].counted = Old + Cardinality(Counted(r))]
  /\ UNCHANGED <<lessons, rows, completed, enrollment, history>>

\* Math.round((completed / total) * 100)
Percent(done, total) == (200 * done + total) \div (2 * total)

Progress(r) == Percent(req[r].counted, req[r].total)

Write(r) ==
  /\ req[r].pc = "write"
  /\ percent' = Progress(r)
  /\ \/ Progress(r) = 100 /\ status' = "COMPLETED" /\ completedAt' = TRUE
     \/ Progress(r) # 100 /\ UNCHANGED <<status, completedAt>>
  /\ Goto(r, "done")
  /\ UNCHANGED <<lessons, rows, completed, history>>

(***************************************************************************)
(* The other writers                                                       *)
(***************************************************************************)
CreateLesson ==
  /\ \E l \in Lessons \ lessons : lessons' = lessons \union {l}
  /\ settled' = FALSE
  /\ UNCHANGED <<rows, completed, enrollment, req, crashed>>

CourseCompletedOnChain ==
  /\ "chain" \in Others
  /\ percent' = 100
  /\ status' = "COMPLETED"
  /\ completedAt' = TRUE
  /\ settled' = FALSE
  /\ UNCHANGED <<lessons, rows, completed, req, crashed>>

ProcessFullRefund ==
  /\ "refund" \in Others
  /\ status' = "REFUNDED"
  /\ UNCHANGED <<lessons, rows, completed, percent, completedAt, req, history>>

Crash ==
  /\ "crash" \in Others
  /\ req' = [r \in Requests |->
               IF req[r].pc = "new" THEN req[r] ELSE [req[r] EXCEPT !.pc = "done"]]
  /\ crashed' = TRUE
  /\ UNCHANGED <<lessons, rows, completed, enrollment, settled>>

-----------------------------------------------------------------------------
Init ==
  /\ lessons = Initial
  /\ rows = {}
  /\ completed = {}
  /\ percent = IF Old = 0 THEN 0 ELSE Percent(Old, Old + Cardinality(Initial))
  /\ status = "ACTIVE"
  /\ completedAt = FALSE
  /\ req = [r \in Requests |-> [pc |-> "new", lesson |-> NoLesson, total |-> 0, counted |-> 0]]
  /\ settled = TRUE
  /\ crashed = FALSE

Step(r) ==
  \/ VerifyComplete(r) \/ VerifyWatch(r)
  \/ UpsertComplete(r) \/ UpdateWatchProgress(r)
  \/ ReadCourse(r) \/ CountCompleted(r) \/ Write(r)

Next ==
  \/ CreateLesson \/ CourseCompletedOnChain \/ ProcessFullRefund \/ Crash
  \/ \E r \in Requests : Step(r)

Spec == Init /\ [][Next]_vars

-----------------------------------------------------------------------------
(***************************************************************************)
(* Properties                                                              *)
(***************************************************************************)

TypeOK ==
  /\ lessons \subseteq Lessons
  /\ completed \subseteq rows /\ rows \subseteq lessons
  /\ percent \in Nat
  /\ status \in {"ACTIVE", "COMPLETED", "REFUNDED"}
  /\ completedAt \in BOOLEAN /\ settled \in BOOLEAN /\ crashed \in BOOLEAN
  /\ req \in [Requests -> RequestType]
  /\ \A r \in Requests :
       /\ req[r].pc \in {"complete", "watch"} => req[r].lesson \in lessons
       /\ req[r].pc \in {"count", "write"} => req[r].total > 0

Answered == \A r \in Requests : req[r].pc \in {"new", "done"}

\* Completion is never lost: once no request is under way and every lesson of
\* the course is done, the enrolment has been completed, in whatever order the
\* recalculations of parallel requests wrote.  The request whose row was last
\* reads the course and the count after it; only a crash may cut it short.
CompletionRecorded ==
  ~crashed /\ Answered /\ lessons # {} /\ lessons \subseteq completed => completedAt

\* COMPLETED means that every lesson was finished, as long as the course does
\* not grow and the chain does not say so itself: no stale total or count of a
\* recalculation completes the enrolment early, crashed or not.
CompletedMeansFinished == settled /\ status = "COMPLETED" => lessons \subseteq completed

\* README.md:877: "Student completes all lessons -> progressPercent = 100", which
\* interleaved requests do not keep.
AllLessonsMeans100 == Answered /\ lessons \subseteq completed => percent = 100

\* Requests are alike.
Symmetry == Permutations(Requests)

-----------------------------------------------------------------------------
(***************************************************************************)
(* Proofs: types, that completion is recorded, and for courses of fewer    *)
(* than 200 lessons that COMPLETED means finished.  200 is exact: 199      *)
(* lessons of 200 are 99.5 %, which Math.round makes 100.                  *)
(***************************************************************************)
LEMMA SubsetCardinality ==
  ASSUME NEW S \in SUBSET Lessons
  PROVE  IsFiniteSet(S) /\ Cardinality(S) \in Nat /\ Cardinality(S) <= Cardinality(Lessons)
BY ConstantsAssumption, FS_Subset, FS_CardinalityType

LEMMA PercentType ==
  ASSUME NEW d \in Nat, NEW t \in Nat, t > 0
  PROVE  Percent(d, t) \in Nat
BY DEF Percent

\* Below 200 lessons only all of them round to 100 %.
LEMMA RoundsTo100 ==
  ASSUME NEW d \in Nat, NEW t \in Nat, t > 0, t < 200, Percent(d, t) = 100
  PROVE  d >= t
<1> DEFINE a == 200 * d + t
           b == 2 * t
<1>1. a \in Nat /\ b \in Nat /\ b > 0 /\ a \div b = 100
  BY DEF Percent
<1>2. b * 100 <= a
  <2> HIDE DEF a, b
  <2> QED
    BY <1>1
<1> QED
  BY <1>2

LEMMA GotoType ==
  ASSUME TypeOK, NEW r \in Requests, NEW step, Goto(r, step),
         step \in {"course", "done"}
  PROVE  /\ req' \in [Requests -> RequestType]
         /\ \A q \in Requests : q # r => req'[q] = req[q]
         /\ req'[r].pc = step
<1>1. req[r] \in RequestType /\ req \in [Requests -> RequestType]
  BY DEF TypeOK
<1>2. [req[r] EXCEPT !.pc = step] \in RequestType
  BY <1>1 DEF RequestType
<1>3. req' = [req EXCEPT ![r] = [req[r] EXCEPT !.pc = step]]
  BY <1>1 DEF Goto
<1> QED
  BY <1>1, <1>2, <1>3 DEF RequestType

LEMMA TypeInductive == TypeOK /\ [Next]_vars => TypeOK'
<1> SUFFICES ASSUME TypeOK, [Next]_vars PROVE TypeOK'
  OBVIOUS
<1> USE DEF enrollment, history
<1>1. CASE CreateLesson
  BY <1>1 DEF CreateLesson, TypeOK
<1>2. CASE CourseCompletedOnChain
  BY <1>2 DEF CourseCompletedOnChain, TypeOK
<1>3. CASE ProcessFullRefund
  BY <1>3 DEF ProcessFullRefund, TypeOK
<1>4. CASE Crash
  <2>1. \A r \in Requests : req'[r] = req[r] \/ req'[r] = [req[r] EXCEPT !.pc = "done"]
    BY <1>4 DEF Crash
  <2>2. \A r \in Requests : [req[r] EXCEPT !.pc = "done"] \in RequestType
    BY DEF TypeOK, RequestType
  <2>3. req' \in [Requests -> RequestType]
    BY <1>4, <2>2 DEF Crash, TypeOK
  <2>4. \A r \in Requests : req'[r].pc \in {"complete", "watch", "count", "write"} => req'[r] = req[r]
    BY <2>1 DEF TypeOK, RequestType
  <2> QED
    BY <1>4, <2>3, <2>4 DEF Crash, TypeOK
<1>5. ASSUME NEW r \in Requests, Step(r) PROVE TypeOK'
  <2>a. req[r] \in RequestType
    BY DEF TypeOK
  <2>b. ASSUME NEW step, Verify(r, step), step \in {"complete", "watch"} PROVE TypeOK'
    <3>1. PICK l \in CourseLessonIds : req' = [req EXCEPT ![r].pc = step, ![r].lesson = l]
      BY <2>b DEF Verify
    <3>2. l \in lessons /\ l \in Lessons
      BY DEF TypeOK, CourseLessonIds
    <3>3. [req[r] EXCEPT !.pc = step, !.lesson = l] \in RequestType
      BY <2>a, <2>b, <3>2 DEF RequestType
    <3>4. req' = [req EXCEPT ![r] = [req[r] EXCEPT !.pc = step, !.lesson = l]]
      BY <2>a, <3>1 DEF TypeOK
    <3>5. req' \in [Requests -> RequestType]
      BY <3>3, <3>4 DEF TypeOK
    <3>6. /\ \A q \in Requests : q # r => req'[q] = req[q]
          /\ req'[r].pc = step /\ req'[r].lesson = l
      BY <2>a, <3>1 DEF TypeOK, RequestType
    <3> QED
      BY <2>b, <3>2, <3>5, <3>6 DEF Verify, TypeOK
  <2>1. CASE VerifyComplete(r) \/ VerifyWatch(r)
    BY <2>1, <2>b DEF VerifyComplete, VerifyWatch
  <2>2. CASE UpsertComplete(r)
    <3>1. Goto(r, "course") /\ req[r].lesson \in lessons
      BY <2>2 DEF UpsertComplete, TypeOK
    <3> QED
      BY <2>2, <3>1, GotoType DEF UpsertComplete, TypeOK
  <2>3. CASE UpdateWatchProgress(r)
    <3>1. Goto(r, "done") /\ req[r].lesson \in lessons
      BY <2>3 DEF UpdateWatchProgress, TypeOK
    <3> QED
      BY <2>3, <3>1, GotoType DEF UpdateWatchProgress, TypeOK
  <2>4. CASE ReadCourse(r)
    <3> DEFINE step == IF Total = 0 THEN "done" ELSE "count"
    <3>1. Total \in Nat
      BY SubsetCardinality, ConstantsAssumption DEF Total, TypeOK
    <3>2. req' = [req EXCEPT ![r] = [req[r] EXCEPT !.pc = step, !.total = Total]]
      BY <2>4, <2>a DEF ReadCourse, TypeOK
    <3>3. [req[r] EXCEPT !.pc = step, !.total = Total] \in RequestType
      BY <2>a, <3>1 DEF RequestType
    <3>4. /\ \A q \in Requests : q # r => req'[q] = req[q]
          /\ req'[r].pc \in {"done", "count"} /\ req'[r].total = Total
          /\ req'[r].pc = "count" => Total > 0
      BY <2>a, <3>1, <3>2 DEF TypeOK, RequestType
    <3>5. req' \in [Requests -> RequestType]
      BY <3>2, <3>3 DEF TypeOK
    <3> QED
      BY <2>4, <3>4, <3>5 DEF ReadCourse, TypeOK
  <2>5. CASE CountCompleted(r)
    <3> DEFINE n == Old + Cardinality(Counted(r))
    <3>1. n \in Nat
      BY SubsetCardinality, ConstantsAssumption DEF Counted, TypeOK
    <3>2. req' = [req EXCEPT ![r] = [req[r] EXCEPT !.pc = "write", !.counted = n]]
      BY <2>5, <2>a DEF CountCompleted, TypeOK
    <3>3. [req[r] EXCEPT !.pc = "write", !.counted = n] \in RequestType
      BY <2>a, <3>1 DEF RequestType
    <3>4. /\ \A q \in Requests : q # r => req'[q] = req[q]
          /\ req'[r].pc = "write" /\ req'[r].total = req[r].total /\ req[r].total > 0
      BY <2>5, <2>a, <3>2 DEF CountCompleted, TypeOK, RequestType
    <3>5. req' \in [Requests -> RequestType]
      BY <3>2, <3>3 DEF TypeOK
    <3> QED
      BY <2>5, <3>4, <3>5 DEF CountCompleted, TypeOK
  <2>6. CASE Write(r)
    <3>1. percent' \in Nat
      BY <2>6, <2>a, PercentType DEF Write, Progress, TypeOK, RequestType
    <3>2. Goto(r, "done")
      BY <2>6 DEF Write
    <3>3. /\ req' \in [Requests -> RequestType]
          /\ \A q \in Requests : q # r => req'[q] = req[q]
          /\ req'[r].pc = "done"
      BY <3>2, GotoType
    <3>4. UNCHANGED <<lessons, rows, completed, settled, crashed>>
      BY <2>6 DEF Write
    <3>5. status' \in {"ACTIVE", "COMPLETED", "REFUNDED"}
      BY <2>6 DEF Write, TypeOK
    <3>6. completedAt' \in BOOLEAN
      BY <2>6, Zenon DEF Write, TypeOK
    <3> QED
      BY <3>1, <3>3, <3>4, <3>5, <3>6 DEF TypeOK
  <2> QED
    BY <1>5, <2>1, <2>2, <2>3, <2>4, <2>5, <2>6 DEF Step
<1>6. CASE UNCHANGED vars
  BY <1>6 DEF vars, TypeOK
<1> QED
  BY <1>1, <1>2, <1>3, <1>4, <1>5, <1>6 DEF Next

\* Every reachable state is well typed; in particular no percentage is taken
\* of an empty course, and a lesson under way belongs to the course.
THEOREM TypeCorrect == Spec => []TypeOK
<1>1. Init => TypeOK
  <2> SUFFICES ASSUME Init PROVE TypeOK
    OBVIOUS
  <2>1. percent \in Nat
    BY SubsetCardinality, PercentType, ConstantsAssumption DEF Init
  <2>2. completedAt \in BOOLEAN
    BY Zenon DEF Init
  <2>3. req \in [Requests -> RequestType]
    BY DEF Init, RequestType
  <2> QED
    BY <2>1, <2>2, <2>3, ConstantsAssumption DEF Init, TypeOK
<1> QED
  BY <1>1, TypeInductive, PTL DEF Spec

(***************************************************************************)
(* COMPLETED means finished.  While the course is settled, the total a     *)
(* request read is the course's, the rows it counted are still completed   *)
(* when it writes, and only a full count rounds to 100 %.                  *)
(***************************************************************************)
SmallCourse == Old + Cardinality(Lessons) < 200

FinishInv ==
  settled =>
    /\ \A r \in Requests :
         /\ req[r].pc \in {"count", "write"} => req[r].total = Total
         /\ req[r].pc = "write" => req[r].counted <= Old + Cardinality(completed)
    /\ CompletedMeansFinished

LEMMA TotalType ==
  ASSUME TypeOK
  PROVE  Total \in Nat /\ (SmallCourse => Total < 200)
BY SubsetCardinality, ConstantsAssumption DEF Total, TypeOK, SmallCourse

\* A step of r that keeps the course and the status, and unmarks no lesson.
LEMMA QuietStep ==
  ASSUME TypeOK, TypeOK', FinishInv, NEW r \in Requests,
         UNCHANGED <<lessons, status, settled>>, completed \subseteq completed',
         \A q \in Requests : q # r => req'[q] = req[q],
         req'[r].pc \notin {"count", "write"}
  PROVE  FinishInv'
<1> SUFFICES ASSUME settled PROVE FinishInv'
  BY DEF FinishInv
<1>1. Cardinality(completed) \in Nat /\ Cardinality(completed') \in Nat
      /\ Cardinality(completed) <= Cardinality(completed')
  <2>1. completed \in SUBSET Lessons /\ completed' \in SUBSET Lessons
    BY DEF TypeOK
  <2> QED
    BY <2>1, SubsetCardinality, FS_Subset
<1>2. ASSUME NEW q \in Requests, req'[q].pc = "write"
      PROVE  req'[q].counted <= Old + Cardinality(completed')
  <2>1. req'[q] = req[q] /\ q # r
    BY <1>2
  <2>2. req[q].counted <= Old + Cardinality(completed) /\ req[q].counted \in Nat
    BY <1>2, <2>1 DEF FinishInv, TypeOK, RequestType
  <2> QED
    BY <1>1, <2>1, <2>2, ConstantsAssumption
<1>3. \A q \in Requests : req'[q].pc \in {"count", "write"} => req'[q].total = Total'
  BY DEF FinishInv, Total
<1>4. CompletedMeansFinished'
  BY DEF FinishInv, CompletedMeansFinished
<1> QED
  BY <1>2, <1>3, <1>4 DEF FinishInv

LEMMA FinishInductive ==
  ASSUME SmallCourse, TypeOK, TypeOK', FinishInv, [Next]_vars
  PROVE  FinishInv'
<1> USE DEF enrollment, history
<1>1. CASE CreateLesson
  BY <1>1 DEF CreateLesson, FinishInv
<1>2. CASE CourseCompletedOnChain
  BY <1>2 DEF CourseCompletedOnChain, FinishInv
<1>3. CASE ProcessFullRefund
  BY <1>3 DEF ProcessFullRefund, FinishInv, CompletedMeansFinished, Total
<1>4. CASE Crash
  <2>1. \A r \in Requests : req'[r].pc \in {"new", "done"}
    BY <1>4 DEF Crash, TypeOK, RequestType
  <2> QED
    BY <1>4, <2>1 DEF Crash, FinishInv, CompletedMeansFinished
<1>5. ASSUME NEW r \in Requests, Step(r) PROVE FinishInv'
  <2>a. req[r] \in RequestType /\ req \in [Requests -> RequestType]
    BY DEF TypeOK
  <2>b. \A step \in {"complete", "watch"} : Verify(r, step) => FinishInv'
    <3> SUFFICES ASSUME NEW step \in {"complete", "watch"}, Verify(r, step) PROVE FinishInv'
      OBVIOUS
    <3>1. /\ \A q \in Requests : q # r => req'[q] = req[q]
          /\ req'[r].pc = step
      BY <2>a DEF Verify, RequestType
    <3> QED
      BY <3>1, QuietStep DEF Verify
  <2>1. CASE VerifyComplete(r) \/ VerifyWatch(r)
    BY <2>1, <2>b DEF VerifyComplete, VerifyWatch
  <2>2. CASE UpsertComplete(r)
    BY <2>2, GotoType, QuietStep DEF UpsertComplete
  <2>3. CASE UpdateWatchProgress(r)
    BY <2>3, GotoType, QuietStep DEF UpdateWatchProgress
  <2>4. CASE ReadCourse(r)
    <3>1. \A q \in Requests : q # r => req'[q] = req[q]
      BY <2>4, <2>a DEF ReadCourse
    <3>2. req'[r].pc \in {"done", "count"} /\ req'[r].total = Total
      BY <2>4, <2>a DEF ReadCourse, RequestType
    <3> QED
      BY <2>4, <3>1, <3>2 DEF ReadCourse, FinishInv, CompletedMeansFinished, Total
  <2>5. CASE CountCompleted(r)
    <3>1. \A q \in Requests : q # r => req'[q] = req[q]
      BY <2>5, <2>a DEF CountCompleted
    <3>2. req'[r].total = req[r].total /\ req'[r].counted = Old + Cardinality(completed)
      BY <2>5, <2>a DEF CountCompleted, Counted, RequestType
    <3>3. Cardinality(completed) \in Nat
      BY SubsetCardinality DEF TypeOK
    <3>4. req'[r].counted <= Old + Cardinality(completed)
      BY <3>2, <3>3, ConstantsAssumption
    <3>5. req[r].pc = "count" /\ UNCHANGED <<lessons, rows, completed, percent, status, completedAt, settled>>
      BY <2>5 DEF CountCompleted
    <3> QED
      BY <3>1, <3>2, <3>4, <3>5 DEF FinishInv, CompletedMeansFinished, Total
  <2>6. CASE Write(r)
    <3>1. /\ \A q \in Requests : q # r => req'[q] = req[q]
          /\ req'[r].pc = "done"
      BY <2>6, GotoType DEF Write
    <3>2. UNCHANGED <<lessons, rows, completed, settled>>
      BY <2>6 DEF Write
    <3>3. CASE settled /\ Progress(r) = 100
      <4> DEFINE d == req[r].counted
                 t == req[r].total
      <4>1. /\ d \in Nat /\ t \in Nat /\ t > 0 /\ t < 200
            /\ t = Total /\ d <= Old + Cardinality(completed)
        BY <2>6, <2>a, <3>3, TotalType DEF Write, TypeOK, RequestType, FinishInv
      <4>2. Percent(d, t) = 100
        BY <3>3 DEF Progress
      <4> HIDE DEF d, t
      <4>3. d >= t
        BY <4>1, <4>2, RoundsTo100
      <4>4. completed \in SUBSET lessons /\ lessons \in SUBSET Lessons /\ completed \in SUBSET Lessons
        BY DEF TypeOK
      <4>5. IsFiniteSet(lessons) /\ Cardinality(completed) >= Cardinality(lessons)
        BY <4>1, <4>3, <4>4, SubsetCardinality, ConstantsAssumption DEF Total
      <4>6. completed = lessons
        BY <4>4, <4>5, FS_Subset, SubsetCardinality
      <4> QED
        BY <3>1, <3>2, <4>6 DEF FinishInv, CompletedMeansFinished, Total
    <3>4. CASE Progress(r) # 100
      <4>1. UNCHANGED <<lessons, completed, status, settled>>
        BY <2>6, <3>4 DEF Write
      <4> QED
        BY <3>1, <4>1, QuietStep
    <3>5. CASE ~settled
      BY <3>2, <3>5 DEF FinishInv
    <3> QED
      BY <3>3, <3>4, <3>5
  <2> QED
    BY <1>5, <2>1, <2>2, <2>3, <2>4, <2>5, <2>6 DEF Step
<1>6. CASE UNCHANGED vars
  BY <1>6 DEF vars, FinishInv, CompletedMeansFinished, Total
<1> QED
  BY <1>1, <1>2, <1>3, <1>4, <1>5, <1>6 DEF Next

\* However many requests run in parallel, and whatever crashes: an enrolment
\* in a course of fewer than 200 lessons that shows as COMPLETED, while the
\* course has not grown, has every lesson finished.
THEOREM CompletedIsFinished ==
  ASSUME SmallCourse
  PROVE  Spec => []CompletedMeansFinished
<1>1. Init => FinishInv
  BY DEF Init, FinishInv, CompletedMeansFinished
<1>2. FinishInv /\ TypeOK /\ TypeOK' /\ [Next]_vars => FinishInv'
  BY FinishInductive
<1>3. FinishInv => CompletedMeansFinished
  BY DEF FinishInv, CompletedMeansFinished
<1> QED
  BY <1>1, <1>2, <1>3, TypeCorrect, PTL DEF Spec

(***************************************************************************)
(* Completion is recorded.  Once every lesson is completed, the request    *)
(* whose row was the last still has to read the total, to count, or to     *)
(* write what rounds to 100 %; nothing that happens in between takes that  *)
(* from it, except a new lesson, which makes another row the last.         *)
(***************************************************************************)
Completes(r) ==
  \/ req[r].pc = "course"
  \/ req[r].pc = "count" /\ req[r].total = Total
  \/ req[r].pc = "write" /\ Progress(r) = 100

AllDone == ~crashed /\ lessons # {} /\ lessons \subseteq completed

RecordInv == AllDone /\ completedAt = FALSE => \E r \in Requests : Completes(r)

LEMMA FullCountRounds ==
  ASSUME NEW t \in Nat, t > 0
  PROVE  Percent(t, t) = 100
BY DEF Percent

LEMMA NonemptyTotal ==
  ASSUME TypeOK, lessons # {}
  PROVE  Total \in Nat /\ Total > 0
<1>1. IsFiniteSet(lessons) /\ Cardinality(lessons) \in Nat
  BY SubsetCardinality DEF TypeOK
<1>2. Cardinality(lessons) # 0
  BY <1>1, FS_EmptySet
<1> QED
  BY <1>1, <1>2, ConstantsAssumption DEF Total

\* A step of one request leaves what the others are about to do alone.
LEMMA OthersStillComplete ==
  ASSUME NEW r \in Requests, NEW q \in Requests, Completes(q), q # r,
         req'[q] = req[q], UNCHANGED lessons
  PROVE  Completes(q)'
BY DEF Completes, Total, Progress

LEMMA RecordInductive ==
  ASSUME TypeOK, TypeOK', RecordInv, [Next]_vars
  PROVE  RecordInv'
<1> USE DEF enrollment, history
<1> SUFFICES ASSUME AllDone', (completedAt = FALSE)'
             PROVE  (\E r \in Requests : Completes(r))'
  BY DEF RecordInv
<1>1. ASSUME NEW r \in Requests, Step(r) PROVE (\E q \in Requests : Completes(q))'
  <2>1. /\ req \in [Requests -> RequestType]
        /\ UNCHANGED <<lessons, crashed>> /\ lessons # {} /\ ~crashed
    BY <1>1, Zenon DEF Step, Verify, VerifyComplete, VerifyWatch, UpsertComplete,
         UpdateWatchProgress, ReadCourse, CountCompleted, Write, AllDone, TypeOK
  <2>2. \A q \in Requests : q # r => req'[q] = req[q]
    BY <1>1, <2>1 DEF Step, Verify, VerifyComplete, VerifyWatch, UpsertComplete,
         UpdateWatchProgress, ReadCourse, CountCompleted, Write, Goto
  <2>3. CASE UpsertComplete(r)
    <3>1. req'[r].pc = "course"
      BY <2>1, <2>3 DEF UpsertComplete, Goto, RequestType
    <3> QED
      BY <3>1 DEF Completes
  <2>4. CASE ~UpsertComplete(r)
    <3>1. UNCHANGED completed
      BY <1>1, <2>4 DEF Step, Verify, VerifyComplete, VerifyWatch,
           UpdateWatchProgress, ReadCourse, CountCompleted, Write
    <3>2. completedAt = FALSE
      BY <1>1, <2>4 DEF Step, Verify, VerifyComplete, VerifyWatch,
           UpdateWatchProgress, ReadCourse, CountCompleted, Write, TypeOK
    <3>3. PICK q \in Requests : Completes(q)
      BY <2>1, <3>1, <3>2 DEF RecordInv, AllDone
    <3>4. CASE q # r
      BY <2>1, <2>2, <3>3, <3>4, OthersStillComplete
    <3>5. CASE q = r
      <4>1. CASE req[r].pc = "course"
        <5>1. ReadCourse(r)
          BY <1>1, <4>1 DEF Step, Verify, VerifyComplete, VerifyWatch, UpsertComplete,
               UpdateWatchProgress, CountCompleted, Write
        <5>2. req'[r].pc = "count" /\ req'[r].total = Total /\ Total' = Total
          BY <2>1, <5>1, NonemptyTotal DEF ReadCourse, RequestType, Total
        <5> QED
          BY <5>2 DEF Completes
      <4>2. CASE req[r].pc = "count" /\ req[r].total = Total
        <5>1. CountCompleted(r)
          BY <1>1, <4>2 DEF Step, Verify, VerifyComplete, VerifyWatch, UpsertComplete,
               UpdateWatchProgress, ReadCourse, Write
        <5>2. completed = lessons
          BY <2>1, <3>1 DEF AllDone, TypeOK
        <5>3. /\ req'[r].pc = "write" /\ req'[r].total = Total
              /\ req'[r].counted = Total
          BY <2>1, <4>2, <5>1, <5>2 DEF CountCompleted, Counted, RequestType, Total
        <5>4. Progress(r)' = Percent(Total, Total)
          BY <5>3 DEF Progress, Percent
        <5>5. Progress(r)' = 100
          BY <2>1, <5>4, NonemptyTotal, FullCountRounds
        <5> QED
          BY <5>3, <5>5 DEF Completes
      <4>3. CASE req[r].pc = "write" /\ Progress(r) = 100
        <5>1. Write(r)
          BY <1>1, <4>3 DEF Step, Verify, VerifyComplete, VerifyWatch, UpsertComplete,
               UpdateWatchProgress, ReadCourse, CountCompleted
        <5>2. completedAt' = TRUE
          BY <4>3, <5>1, Zenon DEF Write
        <5> QED
          BY <5>2
      <4> QED
        BY <3>3, <3>5, <4>1, <4>2, <4>3 DEF Completes
    <3> QED
      BY <3>4, <3>5
  <2> QED
    BY <2>3, <2>4
<1>2. CASE CreateLesson
  \* The new lesson has no row.
  <2>1. PICK l \in Lessons \ lessons : lessons' = lessons \union {l}
    BY <1>2 DEF CreateLesson
  <2>2. l \notin completed' /\ l \in lessons'
    BY <1>2, <2>1 DEF CreateLesson, TypeOK
  <2> QED
    BY <2>2 DEF AllDone
<1>3. CASE CourseCompletedOnChain
  BY <1>3, Zenon DEF CourseCompletedOnChain
<1>4. CASE ProcessFullRefund
  <2>1. UNCHANGED <<lessons, completed, completedAt, crashed, req>>
    BY <1>4 DEF ProcessFullRefund
  <2> QED
    BY <2>1 DEF RecordInv, AllDone, Completes, Total, Progress
<1>5. CASE Crash
  BY <1>5, Zenon DEF Crash, AllDone
<1>6. CASE UNCHANGED vars
  BY <1>6 DEF vars, RecordInv, AllDone, Completes, Total, Progress
<1> QED
  BY <1>1, <1>2, <1>3, <1>4, <1>5, <1>6 DEF Next

\* Whatever the number of lessons and of parallel requests, and however often
\* the course grows or the enrolment is refunded: when every lesson is done and
\* nobody is being answered, completion has been recorded, unless a request was
\* cut short.
THEOREM CompletionIsRecorded == Spec => []CompletionRecorded
<1>1. Init => RecordInv
  BY DEF Init, RecordInv, AllDone
<1>2. RecordInv /\ TypeOK /\ TypeOK' /\ [Next]_vars => RecordInv'
  BY RecordInductive
<1>3. RecordInv /\ TypeOK => CompletionRecorded
  <2> SUFFICES ASSUME RecordInv, TypeOK, AllDone, Answered, completedAt = FALSE PROVE FALSE
    BY DEF CompletionRecorded, AllDone, TypeOK
  <2> QED
    BY DEF RecordInv, Completes, Answered
<1> QED
  BY <1>1, <1>2, <1>3, TypeCorrect, PTL DEF Spec
=============================================================================
