---------------------------- MODULE CourseRestores ----------------------------
(***************************************************************************)
(* RestoreService: the jobs that write backed-up courses back, executed by *)
(* the request itself or, when scheduled, by the cron.  A job takes its    *)
(* courses one by one; each replaces the course's modules and lessons in a *)
(* transaction of its own, and the rows come back with the ids they had.   *)
(***************************************************************************)
EXTENDS Integers, FiniteSets

CONSTANTS
  Courses,
  Known,         \* courses whose instructor has an account
  Parts,         \* ids of modules and lessons
  Jobs,
  Runners,       \* requests and ticks of the cron
  MaxReruns      \* bound: executions of a job

ConstantsAssumption == Known \subseteq Courses /\ MaxReruns \in Nat

VARIABLES
  exists,        \* courses in the database
  parts,         \* per course its parts
  job,           \* per job its row
  run,           \* per runner the execution under way
  raced,         \* history: jobs executed by two runners, or twice
  wrote          \* history: per job the courses it wrote

vars == <<exists, parts, job, run, raced, wrote>>

NoJob == [status |-> "none", payload |-> {}, overwrite |-> FALSE, runs |-> 0]
NoRun ==
  [pc |-> "idle", job |-> CHOOSE j \in Jobs : TRUE, todo |-> {},
   course |-> CHOOSE c \in Courses : TRUE, exists |-> FALSE, cleared |-> {},
   restored |-> {}, skipped |-> {}, failed |-> {}]

\* The instructor adds a part or removes one.
EditCourse(c) ==
  /\ c \in exists
  /\ \E p \in Parts : parts' = [parts EXCEPT ![c] = IF p \in @ THEN @ \ {p} ELSE @ \union {p}]
  /\ UNCHANGED <<exists, job, run, raced, wrote>>

\* What a job may hold: courses, each with its parts, that passed the schema.
Payloads == UNION {[C -> SUBSET Parts] : C \in (SUBSET Courses) \ {{}}}
Requested(status) == [status : {status}, payload : Payloads, overwrite : BOOLEAN, runs : {0}]

RequestRestore(k, j) ==
  /\ job[j] = NoJob /\ run[k] = NoRun
  /\ \E row \in Requested("PENDING") : job' = [job EXCEPT ![j] = row]
  /\ run' = [run EXCEPT ![k] = [NoRun EXCEPT !.pc = "begin", !.job = j]]
  /\ UNCHANGED <<exists, parts, raced, wrote>>

ScheduleRestore(j) ==
  /\ job[j] = NoJob
  /\ \E row \in Requested("SCHEDULED") : job' = [job EXCEPT ![j] = row]
  /\ UNCHANGED <<exists, parts, run, raced, wrote>>

\* executeJob, called by the cron for the jobs it read as due some time before, or by an
\* administrator for any: a job under way or completed by now is left alone, and a FAILED
\* one is not.
MayRun(status) == status \in {"PENDING", "SCHEDULED", "FAILED"}

ReadJob(k, j) ==
  /\ run[k] = NoRun /\ MayRun(job[j].status) /\ job[j].runs < MaxReruns
  /\ run' = [run EXCEPT ![k] = [NoRun EXCEPT !.pc = "begin", !.job = j]]
  /\ raced' = IF job[j].status = "FAILED" \/ \E o \in Runners : run[o] # NoRun /\ run[o].job = j
              THEN raced \union {j} ELSE raced
  /\ UNCHANGED <<exists, parts, job, wrote>>

BeginJob(k) ==
  LET j == run[k].job IN
  /\ run[k].pc = "begin"
  /\ job' = [job EXCEPT ![j].status = "IN_PROGRESS", ![j].runs = @ + 1]
  /\ run' = [run EXCEPT ![k].pc = "next", ![k].todo = DOMAIN job[j].payload]
  /\ UNCHANGED <<exists, parts, raced, wrote>>

\* The next course: skipped without its instructor, or when it exists and may not be
\* overwritten.
LookUpCourse(k, c) ==
  LET skip == c \notin Known \/ (c \in exists /\ ~job[run[k].job].overwrite) IN
  /\ run[k].pc = "next" /\ c \in run[k].todo
  /\ run' = [run EXCEPT ![k] =
       IF skip THEN [run[k] EXCEPT !.todo = @ \ {c}, !.skipped = @ \union {c}]
       ELSE [run[k] EXCEPT !.pc = "clear", !.course = c, !.exists = c \in exists]]
  /\ UNCHANGED <<exists, parts, job, raced, wrote>>

\* The transaction: what it deletes is gone, for the others, when it commits.
ClearCourse(k) ==
  /\ run[k].pc = "clear"
  /\ run' = [run EXCEPT ![k].pc = "write",
                        ![k].cleared = IF run[k].exists THEN parts[run[k].course] ELSE {}]
  /\ UNCHANGED <<exists, parts, job, raced, wrote>>

\* (mutant) a course is counted as restored only after its progress was noted
NotedFirst(t, written, failed) ==
  IF failed THEN [t EXCEPT !.failed = @ \union {t.course}]
  ELSE [t EXCEPT !.restored = @ \union {t.course}]

Counted(courses, holds, c) == IF holds THEN courses \union {c} ELSE courses
Tallied(t, written, failed) ==
  [t EXCEPT !.restored = Counted(@, written, t.course), !.failed = Counted(@, failed, t.course)]

NextCourse(k, written, failed) ==
  run' = [run EXCEPT ![k] =
    [Tallied(run[k], written, failed) EXCEPT
       !.pc = "next", !.todo = @ \ {run[k].course}, !.cleared = {}]]

\* Inserting an id that is still there, or a course that appeared, fails the
\* transaction and nothing of it stays.
Blocked(k) ==
  LET c == run[k].course IN
  \/ run[k].exists # (c \in exists)
  \/ (parts[c] \ run[k].cleared) \intersect job[run[k].job].payload[c] # {}

\* After the commit the course is counted as restored, then the job's progress is noted,
\* within the same try: when that fails, the course is counted as failed too.
WriteCourse(k) ==
  LET c == run[k].course IN
  /\ run[k].pc = "write" /\ ~Blocked(k)
  /\ parts' = [parts EXCEPT ![c] = (@ \ run[k].cleared) \union job[run[k].job].payload[c]]
  /\ exists' = exists \union {c}
  /\ wrote' = [wrote EXCEPT ![run[k].job] = @ \union {c}]
  /\ \E failed \in BOOLEAN : NextCourse(k, TRUE, failed)
  /\ UNCHANGED <<job, raced>>

\* This error, as any other in the transaction, is caught and counted.
WriteFails(k) ==
  /\ run[k].pc \in {"clear", "write"}
  /\ NextCourse(k, FALSE, TRUE)
  /\ UNCHANGED <<exists, parts, job, raced, wrote>>

Outcome(t) ==
  IF t.failed # {} /\ t.restored = {} /\ t.skipped = {} THEN "FAILED" ELSE "COMPLETED"

FinishJob(k) ==
  /\ run[k].pc = "next" /\ run[k].todo = {}
  /\ job' = [job EXCEPT ![run[k].job].status = Outcome(run[k])]
  /\ run' = [run EXCEPT ![k] = NoRun]
  /\ UNCHANGED <<exists, parts, raced, wrote>>

\* A crash, or a progress that cannot be noted outside the try or in its catch, leaves the
\* job IN_PROGRESS, and no runner takes it up again.
CrashRun(k) ==
  /\ run[k] # NoRun
  /\ run' = [run EXCEPT ![k] = NoRun]
  /\ UNCHANGED <<exists, parts, job, raced, wrote>>

Init ==
  /\ exists \in SUBSET Courses /\ parts = [c \in Courses |-> {}]
  /\ job = [j \in Jobs |-> NoJob] /\ run = [k \in Runners |-> NoRun]
  /\ raced = {} /\ wrote = [j \in Jobs |-> {}]

Next ==
  \/ \E c \in Courses : EditCourse(c)
  \/ \E j \in Jobs : ScheduleRestore(j)
  \/ \E k \in Runners :
       \/ \E j \in Jobs : RequestRestore(k, j) \/ ReadJob(k, j)
       \/ \E c \in Courses : LookUpCourse(k, c)
       \/ BeginJob(k) \/ ClearCourse(k) \/ WriteCourse(k) \/ WriteFails(k)
       \/ FinishJob(k) \/ CrashRun(k)

Spec == Init /\ [][Next]_vars

------------------------------------------------------------------------------

TypeOK ==
  /\ exists \subseteq Courses /\ parts \in [Courses -> SUBSET Parts]
  /\ \A j \in Jobs : job[j].status \in
       {"none", "PENDING", "SCHEDULED", "IN_PROGRESS", "COMPLETED", "FAILED"}
  /\ \A k \in Runners :
       run[k].pc \in {"idle", "begin", "next", "clear", "write"}
         /\ run[k].todo \subseteq Courses /\ run[k].cleared \subseteq Parts
  /\ raced \subseteq Jobs /\ wrote \in [Jobs -> SUBSET Courses]

\* Unless it was executed twice, a job that FAILED wrote no course, though a course whose
\* progress could not be noted once it was written counts as failed too, and one that is
\* COMPLETED wrote a course or had one to skip, whatever was interleaved: what a failed
\* course's transaction did is rolled back (restore.service.ts:281-330).
OutcomeIsTrue ==
  \A j \in Jobs \ raced :
    /\ job[j].status = "FAILED" => wrote[j] = {}
    /\ job[j].status = "COMPLETED" =>
         \/ wrote[j] # {}
         \/ \E c \in DOMAIN job[j].payload : c \notin Known \/ ~job[j].overwrite
==============================================================================
