--------------------------- MODULE EnrollmentRestore ---------------------------
(***************************************************************************)
(* EnrollmentRestoreService and EnrollmentsService.upsertFromBackup: an    *)
(* administrator writes backed-up enrolments back while students learn.    *)
(* The enrolment of one student in one course: each row (the enrolment,    *)
(* the progress of each lesson) is read in one await and written, by its   *)
(* id, in a later one.  Progress is a level: 0 no row, 1 started, 2        *)
(* completed.                                                              *)
(***************************************************************************)
EXTENDS Integers, FiniteSetsExt

CONSTANTS
  Lessons,
  Restorers     \* requests of administrators

ConstantsAssumption == Lessons # {}

VARIABLES
  status,       \* Enrollment.status, or "none" without a row
  percent,      \* Enrollment.progressPercent, as a level
  progress,     \* per lesson its level
  structure,    \* lessons of the course
  best,         \* history: per lesson the highest level reached
  bestPercent,  \* history: the highest percent of the row
  overwritten,  \* history: a restore was asked to overwrite
  raced,        \* history: a row was written between a restore's read and write of it
  task

vars == <<status, percent, progress, structure, best, bestPercent, overwritten, raced, task>>
history == <<best, bestPercent, overwritten, raced>>
student == <<status, percent, progress>>

Level == 0..2
Strategies == {"SKIP", "OVERWRITE", "MERGE"}
Idle ==
  [pc |-> "idle", strategy |-> "SKIP", record |-> [l \in Lessons |-> 0], percent |-> 0,
   status |-> "ACTIVE", valid |-> {}, found |-> "none", seen |-> 0,
   lesson |-> CHOOSE l \in Lessons : TRUE]
TaskType ==
  [pc : {"idle", "readEnrolment", "writeEnrolment", "lessons", "writeLesson"},
   strategy : Strategies, record : [Lessons -> Level], percent : Level,
   status : {"ACTIVE", "COMPLETED", "REFUNDED"}, valid : SUBSET Lessons,
   found : {"none", "ACTIVE", "COMPLETED", "REFUNDED"}, seen : Level, lesson : Lessons]

Higher(a, b) == Max({a, b})
At(r, pc) == task[r].pc = pc
Finish(r) == task' = [task EXCEPT ![r] = Idle]

\* A row another restore has read and not written.
EnrolmentHeld(except) == \E o \in Restorers \ except : At(o, "writeEnrolment")
ProgressHeld(l, except) == \E o \in Restorers \ except : At(o, "writeLesson") /\ task[o].lesson = l

------------------------------------------------------------------------------
\* The student and the instructor

Enroll ==
  /\ status = "none" /\ status' = "ACTIVE"
  /\ raced' = (raced \/ EnrolmentHeld({}))
  /\ UNCHANGED <<percent, progress, structure, best, bestPercent, overwritten, task>>

Learn(l) ==
  /\ status \in {"ACTIVE", "COMPLETED"} /\ l \in structure /\ progress[l] < 2
  /\ progress' = [progress EXCEPT ![l] = @ + 1]
  /\ best' = [best EXCEPT ![l] = Higher(@, progress[l] + 1)]
  /\ raced' = (raced \/ ProgressHeld(l, {}))
  /\ UNCHANGED <<status, percent, structure, bestPercent, overwritten, task>>

Advance ==
  /\ status \in {"ACTIVE", "COMPLETED"} /\ percent < 2
  /\ percent' = percent + 1 /\ bestPercent' = Higher(bestPercent, percent + 1)
  /\ status' = IF percent' = 2 THEN "COMPLETED" ELSE status
  /\ raced' = (raced \/ EnrolmentHeld({}))
  /\ UNCHANGED <<progress, structure, best, overwritten, task>>

Refund ==
  /\ status = "ACTIVE" /\ status' = "REFUNDED"
  /\ UNCHANGED <<percent, progress, structure, task>> /\ UNCHANGED history

RemoveLesson(l) ==
  /\ l \in structure /\ structure' = structure \ {l}
  /\ progress' = [progress EXCEPT ![l] = 0] /\ best' = [best EXCEPT ![l] = 0]
  /\ UNCHANGED <<status, percent, bestPercent, overwritten, raced, task>>

------------------------------------------------------------------------------
\* The restore of a record

\* validateAgainstCourseStructure, for a record whose student and course exist.
Validate(r) ==
  /\ task[r] = Idle
  /\ \E strategy \in Strategies, record \in [Lessons -> Level], p \in Level,
        s \in {"ACTIVE", "COMPLETED", "REFUNDED"} :
       /\ task' = [task EXCEPT ![r] =
            [Idle EXCEPT !.pc = "readEnrolment", !.strategy = strategy, !.record = record,
                         !.percent = p, !.status = s, !.valid = structure]]
       /\ overwritten' = (overwritten \/ strategy = "OVERWRITE")
  /\ UNCHANGED student /\ UNCHANGED <<structure, best, bestPercent, raced>>

\* upsertFromBackup: an existing row is left alone by SKIP.
ReadEnrolment(r) ==
  /\ At(r, "readEnrolment")
  /\ task' = [task EXCEPT
       ![r].pc = IF status # "none" /\ task[r].strategy = "SKIP" THEN "lessons"
                 ELSE "writeEnrolment",
       ![r].found = status, ![r].seen = percent]
  /\ UNCHANGED student /\ UNCHANGED <<structure>> /\ UNCHANGED history

\* A row that appeared since fails the request.
CreateEnrolment(r) ==
  LET t == task[r] IN
  /\ At(r, "writeEnrolment") /\ t.found = "none"
  /\ IF status = "none"
     THEN /\ status' = t.status /\ percent' = t.percent
          /\ bestPercent' = Higher(bestPercent, t.percent)
          /\ raced' = (raced \/ EnrolmentHeld({r}))
          /\ task' = [task EXCEPT ![r].pc = "lessons"]
     ELSE Finish(r) /\ UNCHANGED <<status, percent, bestPercent, raced>>
  /\ UNCHANGED <<progress, structure, best, overwritten>>

\* (mutant) a merge takes over the backup's numbers
Incoming(seen, incoming) == incoming

Merged(seen, incoming) == Higher(seen, incoming)

\* The merge takes the backup's status when the backup is not behind.
UpdateEnrolment(r) ==
  LET t == task[r] IN
  /\ At(r, "writeEnrolment") /\ t.found # "none"
  /\ status' = IF t.strategy = "OVERWRITE" \/ t.percent >= t.seen THEN t.status ELSE t.found
  /\ percent' = IF t.strategy = "OVERWRITE" THEN t.percent ELSE Merged(t.seen, t.percent)
  /\ bestPercent' = Higher(bestPercent, percent')
  /\ raced' = (raced \/ EnrolmentHeld({r}))
  /\ task' = [task EXCEPT ![r].pc = "lessons"]
  /\ UNCHANGED <<progress, structure, best, overwritten>>

\* restoreLessonProgress: the lessons of the record that were in the course.
ReadLesson(r, l) ==
  LET t == task[r] IN
  /\ At(r, "lessons") /\ l \in t.valid /\ t.record[l] # 0
  /\ task' = [task EXCEPT ![r] =
       IF progress[l] # 0 /\ t.strategy = "SKIP" THEN [t EXCEPT !.valid = @ \ {l}]
       ELSE [t EXCEPT !.pc = "writeLesson", !.lesson = l, !.seen = progress[l]]]
  /\ UNCHANGED student /\ UNCHANGED structure /\ UNCHANGED history

\* Creating a row that appeared, or changing one that is gone, fails the request.
WriteLesson(r) ==
  LET t == task[r]
      l == t.lesson
      fails == (t.seen = 0) # (progress[l] = 0) \/ l \notin structure
  IN
  /\ At(r, "writeLesson")
  /\ IF fails
     THEN Finish(r) /\ UNCHANGED <<progress, best, raced>>
     ELSE /\ progress' = [progress EXCEPT ![l] =
               IF t.strategy = "MERGE" THEN Merged(t.seen, t.record[l]) ELSE t.record[l]]
          /\ best' = [best EXCEPT ![l] = Higher(@, progress'[l])]
          /\ raced' = (raced \/ ProgressHeld(l, {r}))
          /\ task' = [task EXCEPT ![r].pc = "lessons", ![r].valid = @ \ {l}]
  /\ UNCHANGED <<status, percent, structure, bestPercent, overwritten>>

\* The end of the record, or an error or crash that leaves the rest undone.
Stop(r) ==
  /\ task[r] # Idle /\ Finish(r)
  /\ UNCHANGED student /\ UNCHANGED structure /\ UNCHANGED history

Init ==
  /\ status = "none" /\ percent = 0 /\ progress = [l \in Lessons |-> 0]
  /\ structure = Lessons
  /\ best = [l \in Lessons |-> 0] /\ bestPercent = 0 /\ overwritten = FALSE /\ raced = FALSE
  /\ task = [r \in Restorers |-> Idle]

Next ==
  \/ Enroll \/ Advance \/ Refund
  \/ \E l \in Lessons : Learn(l) \/ RemoveLesson(l)
  \/ \E r \in Restorers :
       \/ Validate(r) \/ ReadEnrolment(r) \/ CreateEnrolment(r) \/ UpdateEnrolment(r)
       \/ WriteLesson(r) \/ Stop(r)
       \/ \E l \in Lessons : ReadLesson(r, l)

Spec == Init /\ [][Next]_vars

------------------------------------------------------------------------------

TypeOK ==
  /\ status \in {"none", "ACTIVE", "COMPLETED", "REFUNDED"} /\ percent \in Level
  /\ progress \in [Lessons -> Level] /\ best \in [Lessons -> Level] /\ bestPercent \in Level
  /\ structure \subseteq Lessons /\ overwritten \in BOOLEAN /\ raced \in BOOLEAN
  /\ task \in [Restorers -> TaskType]

\* Unless a restore was asked to overwrite, or the student's row changed between a
\* restore's read and its write of it, a restore takes no progress away
\* (enrollments.service.ts:449-468, enrollment-restore.service.ts:274-301).
RestoreLosesNothing ==
  ~overwritten /\ ~raced => percent >= bestPercent /\ \A l \in Lessons : progress[l] >= best[l]
==============================================================================
