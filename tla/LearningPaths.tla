----------------------------- MODULE LearningPaths -----------------------------
(***************************************************************************)
(* LearningPathsService, for one path, with the prerequisites of its       *)
(* courses (CoursesService) and one student who follows it                 *)
(* (EnrollmentsService.checkPrerequisites, getPathProgress).  What a       *)
(* request checked may have changed when it writes.                        *)
(***************************************************************************)
EXTENDS Integers, Sequences, FiniteSets, SequencesExt

CONSTANTS
  Courses,
  Requests,
  Lists           \* bound: the lists of courses a request may give

ConstantsAssumption == Lists \subseteq Seq(Courses)

VARIABLES
  status,         \* of the path: "none", "DRAFT" or "PUBLISHED"
  list,           \* its courses, in order
  active,         \* ACTIVE courses
  requires,       \* pairs of a course and its prerequisite
  enrollment,     \* of the student, per course
  task,
  doubled,        \* history: a list that named a course twice was stored
  raced,          \* history: requests over the path overlapped
  loosened,       \* history: prerequisites were added after the list was checked
  stale           \* history: requests whose list was checked before that

vars == <<status, list, active, requires, enrollment, task, doubled, raced, loosened, stale>>
path == <<status, list>>
courses == <<active, requires>>
history == <<doubled, raced, loosened, stale>>

Idle == [pc |-> "idle", given |-> <<>>]
Finish(r) == task' = [task EXCEPT ![r] = Idle]
Overlapping(r) == \E o \in Requests \ {r} : task[o].pc \in {"create", "validate", "replace", "publish"}

\* [...new Set(courseIds)]: each course where it is named first, in that order.
Unique(given) ==
  LET first == {i \in DOMAIN given : \A j \in DOMAIN given : j < i => given[j] # given[i]}
      Nth(n) == CHOOSE i \in first : Cardinality({j \in first : j < i}) = n - 1
  IN [n \in 1..Cardinality(first) |-> given[Nth(n)]]

\* (mutant) a prerequisite is looked for on the wrong side
Reversed(l) == \A i, j \in DOMAIN l : i < j => <<l[j], l[i]>> \notin requires

\* A course comes before its prerequisite nowhere in the list.
InOrder(l) == \A i, j \in DOMAIN l : i < j => <<l[i], l[j]>> \notin requires

\* validateOrderedCourses
Valid(given) == ToSet(given) \subseteq active /\ InOrder(Unique(given))

Begin(r, pc, given) ==
  /\ task[r] = Idle
  /\ task' = [task EXCEPT ![r] = [Idle EXCEPT !.pc = pc, !.given = given]]
  /\ raced' = (raced \/ Overlapping(r))
  /\ stale' = stale \ {r}
  /\ UNCHANGED <<enrollment, doubled, loosened>> /\ UNCHANGED path /\ UNCHANGED courses

StartCreate(r) == status = "none" /\ \E l \in Lists : Valid(l) /\ Begin(r, "create", l)

\* The length of what was given, before the doubles go.
StartReplace(r) ==
  \E l \in Lists \ {<<>>} :
    /\ status = "DRAFT" \/ (status = "PUBLISHED" /\ Len(l) >= 2)
    /\ Begin(r, "validate", l)

StartPublish(r) == status = "DRAFT" /\ Len(list) >= 2 /\ Valid(list) /\ Begin(r, "publish", list)

\* A list that is not valid is refused.
Validate(r) ==
  /\ task[r].pc = "validate"
  /\ IF Valid(task[r].given) THEN task' = [task EXCEPT ![r].pc = "replace"] ELSE Finish(r)
  /\ stale' = stale \ {r}
  /\ UNCHANGED <<enrollment, doubled, raced, loosened>> /\ UNCHANGED path /\ UNCHANGED courses

Store(r) ==
  /\ list' = Unique(task[r].given)
  /\ doubled' = (Len(list') < Len(task[r].given))
  /\ loosened' = (r \in stale)
  /\ Finish(r)

\* The title is unique: of two creations one fails.
CreatePath(r) ==
  /\ task[r].pc = "create"
  /\ IF status = "none" THEN status' = "DRAFT" /\ Store(r)
     ELSE Finish(r) /\ UNCHANGED path /\ UNCHANGED <<doubled, loosened>>
  /\ UNCHANGED <<enrollment, raced, stale>> /\ UNCHANGED courses

ReplaceCourses(r) ==
  /\ task[r].pc = "replace"
  /\ IF status = "none" THEN Finish(r) /\ UNCHANGED <<list, doubled, loosened>> ELSE Store(r)
  /\ UNCHANGED <<status, enrollment, raced, stale>> /\ UNCHANGED courses

Publish(r) ==
  /\ task[r].pc = "publish"
  /\ status' = IF status = "none" THEN "none" ELSE "PUBLISHED"
  /\ Finish(r)
  /\ UNCHANGED <<list, enrollment>> /\ UNCHANGED courses /\ UNCHANGED history

Abort(r) ==
  /\ task[r] # Idle /\ Finish(r)
  /\ UNCHANGED enrollment /\ UNCHANGED path /\ UNCHANGED courses /\ UNCHANGED history

\* unpublish and remove write what they have just read.
Unpublish ==
  /\ status = "PUBLISHED" /\ status' = "DRAFT"
  /\ UNCHANGED <<list, enrollment, task>> /\ UNCHANGED courses /\ UNCHANGED history

RemovePath ==
  /\ status # "none" /\ status' = "none" /\ list' = <<>>
  /\ UNCHANGED <<enrollment, task>> /\ UNCHANGED courses /\ UNCHANGED history

------------------------------------------------------------------------------
\* CoursesService

\* setPrerequisites: anything but the course itself.
SetPrerequisites(c, prerequisites) ==
  /\ c \notin prerequisites
  /\ requires' = {e \in requires : e[1] # c} \union {<<c, p>> : p \in prerequisites}
  /\ IF requires' \subseteq requires THEN UNCHANGED <<loosened, stale>>
     ELSE loosened' = TRUE /\ stale' = Requests
  /\ UNCHANGED <<active, enrollment, task, doubled, raced>> /\ UNCHANGED path

RemovePrerequisite(c, p) ==
  /\ <<c, p>> \in requires /\ requires' = requires \ {<<c, p>>}
  /\ UNCHANGED <<active, enrollment, task>> /\ UNCHANGED path /\ UNCHANGED history

\* Paused or approved (CourseLifecycle).
ToggleActive(c) ==
  /\ active' = IF c \in active THEN active \ {c} ELSE active \union {c}
  /\ UNCHANGED <<requires, enrollment, task>> /\ UNCHANGED path /\ UNCHANGED history

------------------------------------------------------------------------------
\* The student

Completed == {c \in Courses : enrollment[c] = "COMPLETED"}
Missing(c) == {p \in Courses : <<c, p>> \in requires} \ Completed

\* checkPrerequisites, then the enrolment (Enrollment); a refund frees nothing.
Enroll(c) ==
  /\ enrollment[c] = "none" /\ c \in active /\ Missing(c) = {}
  /\ enrollment' = [enrollment EXCEPT ![c] = "ACTIVE"]
  /\ UNCHANGED task /\ UNCHANGED path /\ UNCHANGED courses /\ UNCHANGED history

Advance(c) ==
  /\ enrollment[c] = "ACTIVE"
  /\ \E to \in {"COMPLETED", "REFUNDED"} : enrollment' = [enrollment EXCEPT ![c] = to]
  /\ UNCHANGED task /\ UNCHANGED path /\ UNCHANGED courses /\ UNCHANGED history

\* getPathProgress: the first course that can be enrolled in, or else the first that is
\* not completed.
Available(i) ==
  /\ Missing(list[i]) = {} /\ enrollment[list[i]] = "none"
  /\ \A j \in 1..(i - 1) : list[j] \in Completed
NextCourse ==
  LET open == {i \in DOMAIN list : Available(i)}
      left == {i \in DOMAIN list : list[i] \notin Completed}
  IN IF open # {} THEN {list[Min(open)]} ELSE IF left # {} THEN {list[Min(left)]} ELSE {}

Init ==
  /\ status = "none" /\ list = <<>> /\ active = Courses /\ requires = {}
  /\ enrollment = [c \in Courses |-> "none"] /\ task = [r \in Requests |-> Idle]
  /\ doubled = FALSE /\ raced = FALSE /\ loosened = FALSE /\ stale = {}

Next ==
  \/ \E r \in Requests :
       \/ StartCreate(r) \/ StartReplace(r) \/ StartPublish(r) \/ Validate(r)
       \/ CreatePath(r) \/ ReplaceCourses(r) \/ Publish(r) \/ Abort(r)
  \/ Unpublish \/ RemovePath
  \/ \E c \in Courses :
       \/ \E prerequisites \in SUBSET Courses : SetPrerequisites(c, prerequisites)
       \/ \E p \in Courses : RemovePrerequisite(c, p)
       \/ ToggleActive(c) \/ Enroll(c) \/ Advance(c)

Spec == Init /\ [][Next]_vars

------------------------------------------------------------------------------

TypeOK ==
  /\ status \in {"none", "DRAFT", "PUBLISHED"} /\ ToSet(list) \subseteq Courses
  /\ active \subseteq Courses /\ requires \subseteq Courses \X Courses
  /\ enrollment \in [Courses -> {"none", "ACTIVE", "COMPLETED", "REFUNDED"}]
  /\ \A r \in Requests :
       task[r].pc \in {"idle", "create", "validate", "replace", "publish"}
  /\ doubled \in BOOLEAN /\ raced \in BOOLEAN /\ loosened \in BOOLEAN /\ stale \subseteq Requests

\* A published path has two courses, unless requests overlapped or the list named a
\* course twice (learning-paths.service.ts:247-251 counts what was given).  While no
\* prerequisite is added to those the list was checked against, the course the student
\* is pointed to (:374-403) can be enrolled in, when every prerequisite is on the path.
PathLeadsOn ==
  /\ status = "PUBLISHED" /\ ~raced /\ ~doubled => Len(list) >= 2
  /\ ~loosened /\ (\A e \in requires : e[1] \in ToSet(list) => e[2] \in ToSet(list)) =>
       \A c \in NextCourse : Missing(c) = {}

\* "Guards against self-reference, unknown IDs and cycles so that ... the overall graph
\* stays acyclic" (courses.service.ts:548-549).
GraphStaysAcyclic == ~\E c, d \in Courses : <<c, d>> \in requires /\ <<d, c>> \in requires
===============================================================================
