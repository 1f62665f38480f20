---------------------------- MODULE MCEnrollment ----------------------------
(***************************************************************************)
(* Small instances of Enrollment - two requests of either kind by two      *)
(* students, over the courses of one bundle - and of what happens to a     *)
(* student's enrolment elsewhere.  These services share no step and no     *)
(* lock, so interleaving them shows nothing: a behaviour is of one of      *)
(* them, as focus says.  The variables of the one in focus, if it is not   *)
(* Enrollment, are x1, x2, ... in the order its module declares them.      *)
(***************************************************************************)
EXTENDS Enrollment, Sequences, TLC

CONSTANTS
  s1, s2, c1, c2, t1, t2, r1, r2,
  Clients, Crons,                        \* requests beside Requests, and cron processes
  Sessions, Limits, MaxQuestions, Batch,    \* of a quiz
  AnswerKeys, Keep,                      \* the keys an instructor may send
  MaxTries,                              \* bound: exam attempts, versions of a submission
  Templates, Categories,
  LessonCount, MaxDay,
  SuspectCourses, MaxPerWindow, MaxDaily, MaxActive, HighRisk, Critical,
  Ratings, RestoredLessons

VARIABLES
  focus,
  x1, x2, x3, x4, x5, x6, x7, x8, x9, x10, x11, x12

Symmetry == Permutations({s1, s2}) \union Permutations({t1, t2}) \union
            Permutations(Requests)

\* Keys of all kinds, and the case of a category.
SomeKeys == {<<>>, <<"n0">>, <<"n1", "n0">>, <<"true">>, <<"x", "1">>}
LowerCase(c) == IF c = "A" THEN "a" ELSE c

Quiz == INSTANCE QuizSessions WITH
  Requests <- Clients, NoSession <- None, MaxStuck <- 0, stuck <- 0, bank <- x1, maxAttempts <- x2,
  enrolled <- x3, cooling <- x4, attempts <- x5, status <- x6, due <- x7,
  task <- x8, swept <- x9, keySeen <- x10, disturbed <- x11, crashes <- x12
Key == INSTANCE Grading WITH
  Editors <- Requests, Keys <- AnswerKeys, NoQuestion <- None, question <- x1,
  edit <- x2, raced <- x3
Exam == INSTANCE Certification WITH
  MaxAttempts <- MaxTries, Free <- None, exam <- x1, attempts <- x2, cooling <- x3,
  lock <- x4, enrolled <- x5, finished <- x6, template <- x7, certificate <- x8,
  waived <- x9, task <- x10
Template == INSTANCE CertificateTemplates WITH
  Fold <- LowerCase, rows <- x1, task <- x2, raced <- x3
Drip == INSTANCE DripSchedule WITH
  today <- x1, enabled <- x2, delay <- x3, unlocks <- x4, task <- x5, notices <- x6,
  early <- x7, overridden <- x8, disturbed <- x9
Work == INSTANCE Assignments WITH
  MaxVersions <- MaxTries, status <- x1, version <- x2, judged <- x3,
  enrolled <- x4, versions <- x5, task <- x6, raced <- x7
Fraud == INSTANCE FraudDetection WITH
  Courses <- SuspectCourses, Rows <- Txs, age <- x1, active <- x2,
  flags <- x3, task <- x4, judged <- x5, disturbed <- x6
Rating == INSTANCE Reviews WITH
  reviews <- x1, rating <- x2, enrolled <- x3, disturbed <- x4, task <- x5
Restore == INSTANCE EnrollmentRestore WITH
  Restorers <- Clients, Lessons <- RestoredLessons, status <- x1, percent <- x2, progress <- x3,
  structure <- x4, best <- x5, bestPercent <- x6, overwritten <- x7, raced <- x8,
  task <- x9

ASSUME StudentAssumption ==
  /\ Quiz!ConstantsAssumption /\ Key!ConstantsAssumption /\ Exam!ConstantsAssumption
  /\ Template!ConstantsAssumption /\ Drip!ConstantsAssumption
  /\ Work!ConstantsAssumption /\ Fraud!ConstantsAssumption
  /\ Rating!ConstantsAssumption /\ Restore!ConstantsAssumption

\* The variables left over, and what they hold.
Zero10 == x11 = 0 /\ x12 = 0
rest10 == <<x11, x12>>
Zero9 == x10 = 0 /\ Zero10
rest9 == <<x10, rest10>>
Zero7 == x8 = 0 /\ x9 = 0 /\ Zero9
rest7 == <<x8, x9, rest9>>
Zero6 == x7 = 0 /\ Zero7
rest6 == <<x7, rest7>>
Zero5 == x6 = 0 /\ Zero6
rest5 == <<x6, rest6>>
Zero3 == x4 = 0 /\ x5 = 0 /\ Zero5
rest3 == <<x4, x5, rest5>>

slots == <<x1, x2, x3, x4, x5, x6, x7, x8, x9, x10, x11, x12>>
ZeroAll == x1 = 0 /\ x2 = 0 /\ x3 = 0 /\ Zero3

------------------------------------------------------------------------------
InitOne ==
  /\ Init
  /\ \/ focus = "enrollment" /\ ZeroAll
     \/ focus = "quiz" /\ Quiz!Init
     \/ focus = "grading" /\ Key!Init /\ Zero3
     \/ focus = "exam" /\ Exam!Init /\ Zero10
     \/ focus = "templates" /\ Template!Init /\ Zero3
     \/ focus = "drip" /\ Drip!Init /\ Zero9
     \/ focus = "work" /\ Work!Init /\ Zero7
     \/ focus = "fraud" /\ Fraud!Init /\ Zero6
     \/ focus = "reviews" /\ Rating!Init /\ Zero5
     \/ focus = "restore" /\ Restore!Init /\ Zero9

EnrollmentStep == focus = "enrollment" /\ Next /\ UNCHANGED <<focus, slots>>
QuizStep == focus = "quiz" /\ Quiz!Next /\ UNCHANGED <<focus, vars>>
KeyStep == focus = "grading" /\ Key!Next /\ UNCHANGED <<focus, vars, rest3>>
ExamStep == focus = "exam" /\ Exam!Next /\ UNCHANGED <<focus, vars, rest10>>
TemplateStep == focus = "templates" /\ Template!Next /\ UNCHANGED <<focus, vars, rest3>>
DripStep == focus = "drip" /\ Drip!Next /\ UNCHANGED <<focus, vars, rest9>>
WorkStep == focus = "work" /\ Work!Next /\ UNCHANGED <<focus, vars, rest7>>
FraudStep == focus = "fraud" /\ Fraud!Next /\ UNCHANGED <<focus, vars, rest6>>
RatingStep == focus = "reviews" /\ Rating!Next /\ UNCHANGED <<focus, vars, rest5>>
RestoreStep == focus = "restore" /\ Restore!Next /\ UNCHANGED <<focus, vars, rest9>>

StudentStep ==
  \/ EnrollmentStep
  \/ QuizStep
  \/ KeyStep
  \/ ExamStep
  \/ TemplateStep
  \/ DripStep
  \/ WorkStep
  \/ FraudStep
  \/ RatingStep
  \/ RestoreStep

SpecOne == InitOne /\ [][StudentStep]_<<focus, vars, slots>>

\* Of a fraud check TLC follows the behaviours only until something disturbs it: from then
\* on FlaggedIsRecorded says nothing.
Undisturbed == focus = "fraud" => x6 = FALSE

------------------------------------------------------------------------------
\* The variables keep their types.
StudentTypesOK ==
  /\ focus = "quiz" => Quiz!TypeOK
  /\ focus = "grading" => Key!TypeOK
  /\ focus = "exam" => Exam!TypeOK
  /\ focus = "templates" => Template!TypeOK
  /\ focus = "drip" => Drip!TypeOK
  /\ focus = "work" => Work!TypeOK
  /\ focus = "fraud" => Fraud!TypeOK
  /\ focus = "reviews" => Rating!TypeOK
  /\ focus = "restore" => Restore!TypeOK

\* What a student is judged by: the answer key stays hidden and the attempts within
\* their limit (QuizSessions), a right answer earns full marks (Grading), exams are
\* taken in turn and a certificate is earned (Certification).
GradingSound ==
  /\ focus = "quiz" => Quiz!KeyHidden /\ Quiz!AttemptsWithinLimit
  /\ focus = "grading" => Key!KeyEarnsFullMarks
  /\ focus = "exam" => Exam!ExamTakenInTurn /\ Exam!CertificateEarned

\* What a student works with: an active template is complete (CertificateTemplates),
\* an override opens a lesson for good and a lesson is announced once (DripSchedule),
\* a verdict is about the work it stands beside (Assignments).
CourseworkSound ==
  /\ focus = "templates" => Template!ActiveIsComplete
  /\ focus = "drip" => Drip!OverrideStands /\ Drip!AnnouncedOnce
  /\ focus = "work" => Work!VerdictMatchesWork

\* What the enrolment leaves behind: a flag in every suspicious case (FraudDetection),
\* progress no restore may lose (EnrollmentRestore), a rating of all reviews (Reviews).
RecordsSound ==
  /\ focus = "fraud" => Fraud!FlaggedIsRecorded
  /\ focus = "restore" => Restore!RestoreLosesNothing
  /\ focus = "reviews" => Rating!RatingMatchesReviews
=============================================================================
