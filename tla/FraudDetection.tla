----------------------------- MODULE FraudDetection -----------------------------
(***************************************************************************)
(* Fraud scoring of one student's enrolments: FraudDetectionService and    *)
(* the two calls EnrollmentsService makes to it, before the enrolment is   *)
(* written and, when that call answered FLAG, after it.  Every call scores *)
(* the student anew from the rows it finds.                                *)
(***************************************************************************)
EXTENDS Naturals, FiniteSets

CONSTANTS
  Courses, Requests,
  Rows,                                   \* rows the flags may take
  MaxPerWindow, MaxDaily, MaxActive,      \* FRAUD_MAX_... settings
  HighRisk, Critical                      \* the two score thresholds

ConstantsAssumption ==
  /\ IsFiniteSet(Courses) /\ Courses # {} /\ Rows # {}
  /\ {MaxPerWindow, MaxDaily, MaxActive, HighRisk, Critical} \subseteq Nat

VARIABLES
  age,         \* of the enrolment in each course: none, window, day or old
  active,      \* courses whose enrolment is ACTIVE
  flags,       \* EnrollmentFraudFlag: per row what it holds
  task,
  judged,      \* history: enrolments written although the first call answered FLAG
  disturbed    \* history: rows aged, were refunded, or a task crashed, while one ran; or
               \* a flag one review had confirmed was cleared by another

vars == <<age, active, flags, task, judged, disturbed>>

NoFlag == [status |-> "none"]
Flag == {NoFlag} \union
  [course : Courses, enrolled : BOOLEAN, status : {"OPEN", "HELD", "CLEARED", "CONFIRMED"}]
Idle == [pc |-> "idle"]
TaskType == {Idle} \union
  [pc : {"pre", "create", "post"}, course : Courses, high : BOOLEAN, flagged : BOOLEAN] \union
  [pc : {"review"}, flag : Rows]
Running == \E r \in Requests : task[r] # Idle
Goto(r, pc) == task' = [task EXCEPT ![r].pc = pc]
Finish(r) == task' = [task EXCEPT ![r] = Idle]
PriorConfirmed == \E f \in Rows : flags[f].status = "CONFIRMED"

\* A new row.
CreateFlag(c, enrolled, status) ==
  \E f \in Rows :
    /\ flags[f] = NoFlag
    /\ flags' = [flags EXCEPT ![f] = [course |-> c, enrolled |-> enrolled, status |-> status]]

(***************************************************************************)
(* scoreEnrollment                                                         *)
(***************************************************************************)

Aged(ages) == Cardinality({c \in Courses : age[c] \in ages})
Points(holds, points) == IF holds THEN points ELSE 0

Signals(c, high) ==
  Points(Aged({"window"}) >= MaxPerWindow, 40)
  + Points(Aged({"window", "day"}) >= MaxDaily, 25)
  + Points(PriorConfirmed, 35)
  + Points(high, 15)
  + Points(Cardinality(active) >= MaxActive, 20)
  + Points(age[c] # "none", 30)

Score(c, high) == IF Signals(c, high) > 100 THEN 100 ELSE Signals(c, high)

MapScoreToAction(score) ==
  IF score >= Critical THEN "HOLD" ELSE IF score >= HighRisk THEN "FLAG" ELSE "ALLOW"

\* (mutant) a score that crossed into HOLD is not stored
FlagOnly(action) == action = "FLAG"

\* processFraudCheck stores a flag, but none for a FLAG without an enrolment.
Stored(action) == action # "ALLOW"

(***************************************************************************)
(* An enrolment                                                            *)
(***************************************************************************)

\* The student is not enrolled in the course when the request checks.
StartEnroll(r) ==
  /\ task[r] = Idle
  /\ \E c \in Courses, high \in BOOLEAN :
       /\ age[c] = "none"
       /\ task' = [task EXCEPT ![r] =
                     [pc |-> "pre", course |-> c, high |-> high, flagged |-> FALSE]]
  /\ UNCHANGED <<age, active, flags, judged, disturbed>>

PreEnrollmentCheck(r) ==
  /\ task[r].pc = "pre"
  /\ LET c == task[r].course
         action == MapScoreToAction(Score(c, task[r].high))
     IN IF action = "HOLD"
          THEN CreateFlag(c, FALSE, "HELD") /\ Finish(r)
          ELSE /\ task' = [task EXCEPT ![r].pc = "create", ![r].flagged = action = "FLAG"]
               /\ UNCHANGED flags
  /\ UNCHANGED <<age, active, judged, disturbed>>

CreateEnrollment(r) ==
  /\ task[r].pc = "create"
  /\ LET c == task[r].course IN
       IF age[c] # "none" THEN Finish(r) /\ UNCHANGED <<age, active, judged>>
       ELSE /\ age' = [age EXCEPT ![c] = "window"] /\ active' = active \union {c}
            /\ IF task[r].flagged
                 THEN Goto(r, "post") /\ judged' = judged \union {c}
                 ELSE Finish(r) /\ UNCHANGED judged
  /\ UNCHANGED <<flags, disturbed>>

\* runPostEnrollmentSteps scores again, the new enrolment included.
PostEnrollmentCheck(r) ==
  /\ task[r].pc = "post"
  /\ LET c == task[r].course
         action == MapScoreToAction(Score(c, task[r].high))
     IN IF Stored(action)
          THEN CreateFlag(c, TRUE, IF action = "HOLD" THEN "HELD" ELSE "OPEN")
          ELSE UNCHANGED flags
  /\ Finish(r)
  /\ UNCHANGED <<age, active, judged, disturbed>>

(***************************************************************************)
(* reviewFlag: open or held when read; written by id, so that of two       *)
(* reviews of one flag the last one counts                                 *)
(***************************************************************************)

StartReview(r) ==
  /\ task[r] = Idle
  /\ \E f \in Rows :
       /\ flags[f].status \in {"OPEN", "HELD"}
       /\ task' = [task EXCEPT ![r] = [pc |-> "review", flag |-> f]]
  /\ UNCHANGED <<age, active, flags, judged, disturbed>>

ReviewFlag(r) ==
  /\ task[r].pc = "review"
  /\ \E verdict \in {"CLEARED", "CONFIRMED"} :
       /\ flags' = [flags EXCEPT ![task[r].flag].status = verdict]
       /\ disturbed' = (disturbed \/
            (flags[task[r].flag].status = "CONFIRMED" /\ verdict = "CLEARED"))
  /\ Finish(r)
  /\ UNCHANGED <<age, active, judged>>

(***************************************************************************)
(* The environment                                                         *)
(***************************************************************************)

Age(c) ==
  /\ age[c] \in {"window", "day"}
  /\ age' = [age EXCEPT ![c] = IF @ = "window" THEN "day" ELSE "old"]
  /\ disturbed' = (disturbed \/ Running)
  /\ UNCHANGED <<active, flags, task, judged>>

Refund(c) ==
  /\ c \in active /\ active' = active \ {c}
  /\ disturbed' = (disturbed \/ Running)
  /\ UNCHANGED <<age, flags, task, judged>>

Crash(r) ==
  /\ task[r] # Idle
  /\ Finish(r) /\ disturbed' = TRUE
  /\ UNCHANGED <<age, active, flags, judged>>

Init ==
  /\ age = [c \in Courses |-> "none"] /\ active = {}
  /\ flags = [f \in Rows |-> NoFlag]
  /\ task = [r \in Requests |-> Idle] /\ judged = {} /\ disturbed = FALSE

Next ==
  \/ \E r \in Requests :
       \/ StartEnroll(r) \/ PreEnrollmentCheck(r) \/ CreateEnrollment(r)
       \/ PostEnrollmentCheck(r) \/ StartReview(r) \/ ReviewFlag(r) \/ Crash(r)
  \/ \E c \in Courses : Age(c) \/ Refund(c)

Spec == Init /\ [][Next]_vars

------------------------------------------------------------------------------

TypeOK ==
  /\ age \in [Courses -> {"none", "window", "day", "old"}]
  /\ active \subseteq Courses /\ judged \subseteq Courses
  /\ flags \in [Rows -> Flag]
  /\ task \in [Requests -> TaskType]
  /\ disturbed \in BOOLEAN

\* Every enrolment that was let through with the answer FLAG has a flag of its own to be
\* reviewed, though the call that stores it scores the student a second time and other
\* enrolments and reviews go on - unless what was scored aged, was refunded or crashed
\* meanwhile, or one administrator cleared what another had confirmed: the second score
\* may then be lower (fraud-detection.service.ts:127-172, enrollments.service.ts:239-245).
FlaggedIsRecorded ==
  ~disturbed => \A c \in judged :
    \/ \E r \in Requests : task[r].pc = "post" /\ task[r].course = c
    \/ \E f \in Rows : flags[f].status # "none" /\ flags[f].course = c /\ flags[f].enrolled

\* "When action is HOLD, the enrollment itself should NOT be created"
\* (fraud-detection.service.ts:118): no held flag belongs to an enrolment.
HeldIsNotEnrolled == \A f \in Rows : flags[f].status = "HELD" => ~flags[f].enrolled
==============================================================================
