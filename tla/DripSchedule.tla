------------------------------ MODULE DripSchedule ------------------------------
(***************************************************************************)
(* DripScheduleService for one active enrolment: the instructor configures *)
(* when the lessons of the course unlock, a synchronisation writes the     *)
(* unlock row of each lesson in an await of its own from the rows and the  *)
(* configuration it read at its start, an override opens lessons by hand,  *)
(* and a cron job announces the lessons that have unlocked.  Times are     *)
(* days since the enrolment; lessons are their positions.                  *)
(***************************************************************************)
EXTENDS Naturals, FiniteSets

CONSTANTS
  LessonCount,
  MaxDay,            \* bound: the clock
  Requests, Crons

ConstantsAssumption ==
  LessonCount \in Nat \ {0} /\ MaxDay \in Nat /\ Requests \cap Crons = {}

VARIABLES
  today,
  enabled,           \* CourseDripConfig
  delay,             \* LessonDripConfig: days or date; 0 for none
  unlocks,           \* EnrollmentLessonUnlock of each lesson
  task,              \* requests and cron runs under way
  notices,           \* notifications sent for each lesson, counted up to 2
  early,             \* history: one was sent for a lesson that was not locked before, or still is
  overridden,        \* history: lessons an override has opened
  disturbed          \* history: tasks overlapped or crashed

vars == <<today, enabled, delay, unlocks, task, notices, early, overridden, disturbed>>
configVars == <<today, enabled, delay>>
historyVars == <<notices, early, overridden>>

Lessons == 0..(LessonCount - 1)
Days == 0..MaxDay
Unlock == [there : BOOLEAN, at : Days, override : BOOLEAN, notified : BOOLEAN]
Absent == [there |-> FALSE, at |-> 0, override |-> FALSE, notified |-> FALSE]

Processes == Requests \union Crons
\* left: lessons to do; skip: those the loop passes over; day: an override's, or
\* the lesson just announced.
Idle == [pc |-> "idle", left |-> {}, enabled |-> FALSE, times |-> [l \in Lessons |-> 0],
         skip |-> {}, day |-> 0]
TaskType == [pc : {"idle", "sync", "override", "notify", "mark"}, left : SUBSET Lessons,
             enabled : BOOLEAN, times : [Lessons -> Days], skip : SUBSET Lessons,
             day : Days \union Lessons]
First(S) == CHOOSE l \in S : \A m \in S : l <= m
Disturb(p) == disturbed' = (disturbed \/ \E o \in Processes \ {p} : task[o] # Idle)
Done(p, l) ==
  task' = [task EXCEPT ![p] =
             IF task[p].left = {l} THEN Idle ELSE [task[p] EXCEPT !.left = @ \ {l}]]

(***************************************************************************)
(* calculateAndSyncUnlockSchedule                                          *)
(***************************************************************************)

\* A delay or date of its own, or one lesson a day; all at once without drip.
UnlockDay(l, on, delays) ==
  IF ~on THEN 0 ELSE IF delays[l] > 0 THEN delays[l]
  ELSE IF l > MaxDay THEN MaxDay ELSE l

\* The rows and the configuration are read once.
Sync(p, on, delays) ==
  task' = [task EXCEPT ![p] =
    [pc |-> "sync", left |-> Lessons, enabled |-> on, day |-> 0,
     skip |-> {l \in Lessons : unlocks[l].override},
     times |-> [l \in Lessons |-> UnlockDay(l, on, delays)]]]

\* (mutant) a rescheduled lesson is announced again
Forgotten(p, l) == FALSE

\* Without drip, a lesson never announced counts as announced.
NotifiedAfter(p, l) ==
  IF task[p].enabled THEN unlocks[l].notified ELSE TRUE

SyncLesson(p) ==
  /\ task[p].pc = "sync"
  /\ LET l == First(task[p].left) IN
       /\ unlocks' = IF l \in task[p].skip THEN unlocks
            ELSE [unlocks EXCEPT ![l] =
                   [there |-> TRUE, at |-> task[p].times[l],
                    override |-> unlocks[l].override, notified |-> NotifiedAfter(p, l)]]
       /\ Done(p, l)
  /\ UNCHANGED <<configVars, historyVars, disturbed>>

(***************************************************************************)
(* Requests                                                                *)
(***************************************************************************)

ConfigureCourseDrip(r) ==
  /\ task[r] = Idle
  /\ enabled' \in BOOLEAN
  /\ Sync(r, enabled', delay)
  /\ Disturb(r)
  /\ UNCHANGED <<today, delay, unlocks, historyVars>>

ConfigureLessonDrip(r) ==
  /\ task[r] = Idle
  /\ \E l \in Lessons, d \in Days : delay' = [delay EXCEPT ![l] = d]
  /\ Sync(r, enabled, delay')
  /\ Disturb(r)
  /\ UNCHANGED <<today, enabled, unlocks, historyVars>>

\* validateLessonAccess: the schedule is computed on the first visit.
VisitUnscheduled(r) ==
  /\ task[r] = Idle
  /\ \E l \in Lessons : ~unlocks[l].there
  /\ Sync(r, enabled, delay)
  /\ Disturb(r)
  /\ UNCHANGED <<configVars, unlocks, historyVars>>

Accessible(l) == unlocks[l].there /\ (unlocks[l].override \/ today >= unlocks[l].at)

\* overrideInstructorDrip: one lesson or all, one row at a time.
StartOverride(r) ==
  /\ task[r] = Idle
  /\ \E some \in {Lessons} \union {{l} : l \in Lessons}, d \in Days :
       task' = [task EXCEPT ![r] = [Idle EXCEPT !.pc = "override", !.left = some, !.day = d]]
  /\ Disturb(r)
  /\ UNCHANGED <<configVars, unlocks, historyVars>>

OverrideLesson(r) ==
  /\ task[r].pc = "override"
  /\ LET l == First(task[r].left) IN
       /\ unlocks' = [unlocks EXCEPT ![l] = [@ EXCEPT
                        !.there = TRUE, !.override = TRUE, !.at = task[r].day]]
       /\ overridden' = overridden \union {l}
       /\ Done(r, l)
  /\ UNCHANGED <<configVars, notices, early, disturbed>>

(***************************************************************************)
(* notifyNewlyUnlockedLessons                                              *)
(***************************************************************************)

StartNotify(c) ==
  /\ task[c] = Idle
  /\ \E due \in {{l \in Lessons : unlocks[l].there /\ ~unlocks[l].notified
                                 /\ unlocks[l].at <= today}} :
       /\ due # {}
       /\ task' = [task EXCEPT ![c] =
            [Idle EXCEPT !.pc = "notify", !.left = due,
                         !.skip = {l \in due : unlocks[l].at = 0}]]
  /\ Disturb(c)
  /\ UNCHANGED <<configVars, unlocks, historyVars>>

\* A lesson open since the enrolment is marked without a notice.
SkipNotice(c) ==
  /\ task[c].pc = "notify"
  /\ \E l \in task[c].left \cap task[c].skip :
       /\ unlocks' = [unlocks EXCEPT ![l].notified = TRUE]
       /\ Done(c, l)
  /\ UNCHANGED <<configVars, historyVars, disturbed>>

SendNotice(c) ==
  /\ task[c].pc = "notify"
  /\ \E l \in task[c].left \ task[c].skip :
       /\ notices' = [notices EXCEPT ![l] = IF @ = 2 THEN 2 ELSE @ + 1]
       /\ early' = (early \/ ~Accessible(l) \/ unlocks[l].at = 0)
       /\ task' = [task EXCEPT ![c].pc = "mark", ![c].day = l]
  /\ UNCHANGED <<configVars, unlocks, overridden, disturbed>>

\* The notice failed: the row stays unmarked for a later run.
NoticeFails(c) ==
  /\ task[c].pc = "notify"
  /\ \E l \in task[c].left \ task[c].skip : Done(c, l)
  /\ UNCHANGED <<configVars, unlocks, historyVars, disturbed>>

MarkNotified(c) ==
  /\ task[c].pc = "mark"
  /\ unlocks' = [unlocks EXCEPT ![task[c].day].notified = TRUE]
  /\ task' = [task EXCEPT ![c] =
       IF task[c].left = {task[c].day} THEN Idle
       ELSE [task[c] EXCEPT !.pc = "notify", !.left = @ \ {task[c].day}, !.day = 0]]
  /\ UNCHANGED <<configVars, historyVars, disturbed>>

(***************************************************************************)
(* The environment                                                         *)
(***************************************************************************)

NextDay ==
  /\ today < MaxDay /\ today' = today + 1
  /\ UNCHANGED <<enabled, delay, unlocks, task, historyVars, disturbed>>

Crash(p) ==
  /\ task[p] # Idle
  /\ task' = [task EXCEPT ![p] = Idle] /\ disturbed' = TRUE
  /\ UNCHANGED <<configVars, unlocks, historyVars>>

Init ==
  /\ today = 0 /\ enabled = FALSE /\ delay = [l \in Lessons |-> 0]
  /\ unlocks = [l \in Lessons |-> Absent]
  /\ task = [p \in Processes |-> Idle]
  /\ notices = [l \in Lessons |-> 0] /\ early = FALSE
  /\ overridden = {} /\ disturbed = FALSE

Next ==
  \/ \E r \in Requests :
       \/ ConfigureCourseDrip(r) \/ ConfigureLessonDrip(r) \/ VisitUnscheduled(r)
       \/ SyncLesson(r) \/ StartOverride(r) \/ OverrideLesson(r)
  \/ \E c \in Crons :
       StartNotify(c) \/ SkipNotice(c) \/ SendNotice(c) \/ NoticeFails(c) \/ MarkNotified(c)
  \/ NextDay
  \/ \E p \in Processes : Crash(p)

Spec == Init /\ [][Next]_vars

------------------------------------------------------------------------------

TypeOK ==
  /\ today \in Days /\ {enabled, early, disturbed} \subseteq BOOLEAN
  /\ delay \in [Lessons -> Days] /\ unlocks \in [Lessons -> Unlock]
  /\ notices \in [Lessons -> 0..2] /\ overridden \subseteq Lessons
  /\ task \in [Processes -> TaskType]

\* A lesson opened by hand stays open, whatever synchronisation computed its
\* schedule before or after (drip-schedule.service.ts:166-201, 246).
OverrideStands == \A l \in overridden : Accessible(l)

\* Unless tasks overlapped or crashed, a lesson is announced at most once, however
\* often it is rescheduled, and only when it was locked and no longer is
\* (drip-schedule.service.ts:192-204, 417-460).
AnnouncedOnce == ~disturbed => ~early /\ \A l \in Lessons : notices[l] <= 1
==============================================================================
