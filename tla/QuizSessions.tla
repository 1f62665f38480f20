------------------------------ MODULE QuizSessions ------------------------------
(***************************************************************************)
(* Timed sessions and attempts of one student at the quiz of one lesson:   *)
(* QuizSessionsService and QuizAttemptsService, with the instructor's      *)
(* edits of the question bank (QuizzesService) in between.  A request runs *)
(* from await to await; the cron job that closes overdue sessions is a     *)
(* process of its own.  Scores are a free outcome here (see Grading).      *)
(***************************************************************************)
EXTENDS Naturals, Sequences, FiniteSets, TLAPS

CONSTANTS
  Requests, Crons,    \* requests of the student; runs of the cron job
  Sessions,           \* rows a session may take
  Limits,             \* values of maxAttempts to try
  Batch,              \* rows of one sweep
  MaxQuestions, MaxCrashes, MaxStuck, NoSession

ConstantsAssumption ==
  /\ Limits \subseteq Nat /\ MaxQuestions \in Nat /\ MaxCrashes \in Nat
  /\ Batch \in Nat \ {0} /\ MaxStuck \in Nat
  /\ NoSession \notin Sessions /\ Requests \cap Crons = {}

VARIABLES
  bank,          \* number of questions of the lesson
  maxAttempts, enrolled, cooling,     \* cooling: within the cooldown of the last attempt
  stuck,         \* overdue sessions of other lessons that cannot be graded
  attempts,      \* rows in order: passed, and the session submitted
  status, due,   \* of each session; due: its expiresAt has passed
  task,          \* the requests and cron runs under way
  swept,         \* sessions the cron run has yet to close
  keySeen,       \* history: the student was shown the answer key
  disturbed,     \* history: two of them overlapped, or one crashed
  crashes

vars == <<bank, maxAttempts, enrolled, cooling, stuck, attempts, status, due, task, swept,
          keySeen, disturbed, crashes>>
lessonVars == <<bank, maxAttempts, enrolled, cooling, stuck>>

Processes == Requests \union Crons
Idle == [pc |-> "idle", of |-> NoSession, prior |-> 0]
Goto(p, pc) == task' = [task EXCEPT ![p].pc = pc]
Finish(p) == task' = [task EXCEPT ![p] = Idle]
Begin(p, pc, s) ==
  /\ task[p] = Idle
  /\ task' = [task EXCEPT ![p] = [Idle EXCEPT !.pc = pc, !.of = s]]
  /\ disturbed' = (disturbed \/ \E o \in Processes \ {p} : task[o] # Idle)

InProgress(s) == status[s] = "IN_PROGRESS"

(***************************************************************************)
(* The rules of an attempt                                                 *)
(***************************************************************************)

\* (mutant) one attempt more than the limit passes
LaxLimit == Len(attempts) <= maxAttempts

WithinLimit == Len(attempts) < maxAttempts

AttemptAllowed == WithinLimit /\ (attempts # <<>> => ~cooling)
CanAttempt == enrolled /\ AttemptAllowed
Passed == \E i \in DOMAIN attempts : attempts[i].passed

\* (mutant) the key is shown one attempt early
RevealEarly(used, passed) == passed \/ used + 1 >= maxAttempts

ShouldRevealAnswers(used, passed) == passed \/ used >= maxAttempts

(***************************************************************************)
(* Requests                                                                *)
(***************************************************************************)

\* startSession: the rules and the bank are checked, the row written later.
StartSession(r) ==
  /\ CanAttempt /\ bank > 0
  /\ Begin(r, "open", NoSession)
  /\ UNCHANGED <<lessonVars, attempts, status, due, swept, keySeen, crashes>>

OpenSession(r) ==
  /\ task[r].pc = "open"
  /\ \E s \in Sessions :
       /\ status[s] = "none"
       /\ status' = [status EXCEPT ![s] = "IN_PROGRESS"]
  /\ Finish(r)
  /\ UNCHANGED <<lessonVars, attempts, due, swept, keySeen, disturbed, crashes>>

\* getSessionStatus and submitSession begin alike: the session is loaded, and
\* one that ran out is to be marked before anything else.
LoadSession(r, s, next) ==
  /\ status[s] # "none"
  /\ \/ InProgress(s) /\ due[s] /\ Begin(r, "expire", s)
     \/ InProgress(s) /\ ~due[s] /\ next = "check" /\ Begin(r, "check", s)
  /\ UNCHANGED <<lessonVars, attempts, status, due, swept, keySeen, crashes>>

GetSessionStatus(r) == \E s \in Sessions : LoadSession(r, s, "reply")
SubmitSession(r) == \E s \in Sessions : LoadSession(r, s, "check")

PersistExpirationIfElapsed(r) ==
  /\ task[r].pc = "expire"
  /\ status' = [status EXCEPT ![task[r].of] = "EXPIRED"]
  /\ Finish(r)
  /\ UNCHANGED <<lessonVars, attempts, due, swept, keySeen, disturbed, crashes>>

\* An attempt without a session.
SubmitDirectly(r) ==
  /\ Begin(r, "check", NoSession)
  /\ UNCHANGED <<lessonVars, attempts, status, due, swept, keySeen, crashes>>

(***************************************************************************)
(* submitQuizAttempt, for a request or for the cron job                    *)
(***************************************************************************)

CheckAttempt(p) ==
  /\ task[p].pc = "check"
  /\ CanAttempt /\ bank > 0
  /\ task' = [task EXCEPT ![p].pc = "create", ![p].prior = Len(attempts)]
  /\ UNCHANGED <<lessonVars, attempts, status, due, swept, keySeen, disturbed, crashes>>

\* Forbidden: a request is answered so; the cron job closes the session without
\* a result.  An empty bank is a bad request, which the cron job only logs.
\* (mutant) the cron job gives up on every refusal
GivesUp(p) == "idle"

AfterRefusal(p) == IF p \in Crons THEN "close" ELSE "idle"

AttemptRefused(p) ==
  /\ task[p].pc = "check"
  /\ \/ ~CanAttempt /\ AfterRefusal(p) = "close" /\ Goto(p, "close")
     \/ ~CanAttempt /\ AfterRefusal(p) = "idle" /\ Finish(p)
     \/ CanAttempt /\ bank = 0 /\ Finish(p)
  /\ UNCHANGED <<lessonVars, attempts, status, due, swept, keySeen, disturbed, crashes>>

CreateAttempt(p) ==
  /\ task[p].pc = "create"
  /\ \E passed \in (IF p \in Crons THEN {FALSE} ELSE BOOLEAN) :
       /\ attempts' = Append(attempts, [passed |-> passed, of |-> task[p].of])
       /\ keySeen' = (keySeen \/
            (p \in Requests /\ ShouldRevealAnswers(task[p].prior + 1, passed)))
  /\ cooling' = TRUE
  /\ IF task[p].of = NoSession THEN Finish(p) ELSE Goto(p, "close")
  /\ UNCHANGED <<bank, maxAttempts, enrolled, stuck, status, due, swept, disturbed, crashes>>

\* The session is updated by id alone.
CloseSession(p) ==
  /\ task[p].pc = "close"
  /\ status' = [status EXCEPT ![task[p].of] =
                  IF p \in Crons THEN "EXPIRED" ELSE "COMPLETED"]
  /\ Finish(p)
  /\ UNCHANGED <<lessonVars, attempts, due, swept, keySeen, disturbed, crashes>>

\* getAttemptHistory
ViewHistory ==
  /\ keySeen' = (keySeen \/ (attempts # <<>> /\ ShouldRevealAnswers(Len(attempts), Passed)))
  /\ UNCHANGED <<lessonVars, attempts, status, due, task, swept, disturbed, crashes>>

(***************************************************************************)
(* handleAutoSubmitOnTimeout: a batch of overdue sessions, one by one.     *)
(* The query is not ordered: when more sessions are overdue than one batch *)
(* takes, any of them are left out, and those that cannot be graded stay   *)
(* overdue and take their places again.                                    *)
(***************************************************************************)

Overdue == {s \in Sessions : InProgress(s) /\ due[s]}

Sweep(c) ==
  /\ task[c] = Idle /\ swept[c] = {}
  /\ \E page \in SUBSET Overdue, others \in 0..stuck :
       /\ Cardinality(page) + others <= Batch
       /\ (page = Overdue /\ others = stuck) \/ Cardinality(page) + others = Batch
       /\ swept' = [swept EXCEPT ![c] = page]
  /\ UNCHANGED <<lessonVars, attempts, status, due, task, keySeen, disturbed, crashes>>

\* autoSubmitSession: loaded again, and skipped when no longer in progress.
AutoSubmitSession(c) ==
  \E s \in swept[c] :
    /\ swept' = [swept EXCEPT ![c] = @ \ {s}]
    /\ IF InProgress(s) THEN Begin(c, "check", s)
       ELSE task[c] = Idle /\ UNCHANGED <<task, disturbed>>
    /\ UNCHANGED <<lessonVars, attempts, status, due, keySeen, crashes>>

(***************************************************************************)
(* The environment                                                         *)
(***************************************************************************)

CreateQuestion ==
  /\ bank < MaxQuestions /\ bank' = bank + 1
  /\ UNCHANGED <<maxAttempts, enrolled, cooling, stuck, attempts, status, due, task, swept,
                 keySeen, disturbed, crashes>>

DeleteQuestion ==
  /\ bank > 0 /\ bank' = bank - 1
  /\ UNCHANGED <<maxAttempts, enrolled, cooling, stuck, attempts, status, due, task, swept,
                 keySeen, disturbed, crashes>>

\* A refund ends the enrolment.
Unenroll ==
  /\ enrolled /\ enrolled' = FALSE
  /\ UNCHANGED <<bank, maxAttempts, cooling, stuck, attempts, status, due, task, swept,
                 keySeen, disturbed, crashes>>

CooldownEnds ==
  /\ cooling /\ cooling' = FALSE
  /\ UNCHANGED <<bank, maxAttempts, enrolled, stuck, attempts, status, due, task, swept,
                 keySeen, disturbed, crashes>>

\* Sessions at lessons whose bank was emptied run out, or the bank is filled again.
OtherLessons ==
  /\ stuck' \in 0..MaxStuck
  /\ UNCHANGED <<bank, maxAttempts, enrolled, cooling, attempts, status, due, task, swept,
                 keySeen, disturbed, crashes>>

TimeOut(s) ==
  /\ status[s] # "none" /\ ~due[s]
  /\ due' = [due EXCEPT ![s] = TRUE]
  /\ UNCHANGED <<lessonVars, attempts, status, task, swept, keySeen, disturbed, crashes>>

Crash(p) ==
  /\ task[p] # Idle /\ crashes < MaxCrashes
  /\ Finish(p)
  /\ swept' = IF p \in Crons THEN [swept EXCEPT ![p] = {}] ELSE swept
  /\ disturbed' = TRUE /\ crashes' = crashes + 1
  /\ UNCHANGED <<lessonVars, attempts, status, due, keySeen>>

Init ==
  /\ bank \in 0..MaxQuestions /\ maxAttempts \in Limits /\ enrolled = TRUE
  /\ cooling = FALSE /\ stuck = 0 /\ attempts = <<>>
  /\ status = [s \in Sessions |-> "none"] /\ due = [s \in Sessions |-> FALSE]
  /\ task = [p \in Processes |-> Idle] /\ swept = [c \in Crons |-> {}]
  /\ keySeen = FALSE /\ disturbed = FALSE /\ crashes = 0

Attempt(p) == CheckAttempt(p) \/ AttemptRefused(p) \/ CreateAttempt(p) \/ CloseSession(p)
Cron(c) == Sweep(c) \/ AutoSubmitSession(c) \/ Attempt(c)

Next ==
  \/ \E r \in Requests :
       \/ StartSession(r) \/ OpenSession(r) \/ GetSessionStatus(r) \/ SubmitSession(r)
       \/ PersistExpirationIfElapsed(r) \/ SubmitDirectly(r) \/ Attempt(r)
  \/ \E c \in Crons : Cron(c)
  \/ \E p \in Processes : Crash(p)
  \/ \E s \in Sessions : TimeOut(s)
  \/ ViewHistory \/ CreateQuestion \/ DeleteQuestion \/ Unenroll \/ CooldownEnds
  \/ OtherLessons

Spec == Init /\ [][Next]_vars

\* The scheduler starts the job every minute and each of its awaits returns.
FairSpec == Spec /\ \A c \in Crons : WF_vars(Cron(c))

------------------------------------------------------------------------------

TypeOK ==
  /\ bank \in 0..MaxQuestions /\ maxAttempts \in Limits /\ stuck \in 0..MaxStuck
  /\ {enrolled, cooling, keySeen, disturbed} \subseteq BOOLEAN
  /\ \A i \in DOMAIN attempts :
       attempts[i] \in [passed : BOOLEAN, of : Sessions \union {NoSession}]
  /\ status \in [Sessions -> {"none", "IN_PROGRESS", "COMPLETED", "EXPIRED"}]
  /\ due \in [Sessions -> BOOLEAN] /\ swept \in [Crons -> SUBSET Sessions]
  /\ task \in [Processes -> [pc : {"idle", "open", "expire", "check", "create", "close"},
                             of : Sessions \union {NoSession}, prior : 0..Len(attempts)]]
  /\ crashes \in 0..MaxCrashes

\* The answer key stays hidden while it could still help: whoever was shown it
\* has passed or has used up the attempts, whatever overlaps
\* (quiz-attempts.service.ts:204-210, 309, 347).
KeyHidden == keySeen => Passed \/ Len(attempts) >= maxAttempts

\* Unless tasks overlapped or crashed, sessions opened side by side and closed by
\* hand or by the cron job use at most the attempts allowed, each session one
\* (quiz-attempts.service.ts:153-182, quiz-sessions.service.ts:130-191).
AttemptsWithinLimit ==
  ~disturbed =>
    /\ Len(attempts) <= maxAttempts
    /\ \A i, j \in DOMAIN attempts :
         attempts[i].of = attempts[j].of /\ attempts[i].of # NoSession => i = j

\* Every session that ran out is closed in the end, allowed another attempt or not, as
\* long as the lesson has questions and the sessions that cannot be graded elsewhere
\* leave it a place in the batch (quiz-sessions.service.ts:152-220).
OverdueCloses ==
  \A s \in Sessions :
    (InProgress(s) /\ due[s]) ~> (~InProgress(s) \/ bank = 0 \/ stuck >= Batch)

------------------------------------------------------------------------------
(***************************************************************************)
(* Proofs, for any number of requests, cron runs, sessions and questions.  *)
(***************************************************************************)
AttemptRow == [passed : BOOLEAN, of : Sessions \union {NoSession}]
Submitting == {"check", "create"}

\* A process keeps at most the number of attempts there were.
TypeInv == attempts \in Seq(AttemptRow) /\ maxAttempts \in Nat /\ TypeOK

\* With one process at a time: what it works on has no attempt yet, and a session with
\* an attempt is closed, or about to be by the process that made it.
OneByOne ==
  /\ \A p, q \in Processes : task[p].pc # "idle" /\ task[q].pc # "idle" => p = q
  /\ Len(attempts) <= maxAttempts
  /\ \A p \in Processes :
       /\ task[p].pc = "create" => Len(attempts) < maxAttempts
       /\ task[p].pc \in Submitting /\ task[p].of # NoSession =>
            /\ status[task[p].of] # "none"
            /\ \A i \in DOMAIN attempts : attempts[i].of # task[p].of
  /\ \A i \in DOMAIN attempts : attempts[i].of # NoSession =>
       /\ status[attempts[i].of] # "none"
       /\ status[attempts[i].of] = "IN_PROGRESS" =>
            \E p \in Processes : task[p].pc = "close" /\ task[p].of = attempts[i].of
  /\ \A i, j \in DOMAIN attempts :
       attempts[i].of = attempts[j].of /\ attempts[i].of # NoSession => i = j

QuizInv == TypeInv /\ KeyHidden /\ (disturbed = FALSE => OneByOne)

Tasks(n) ==
  [pc : {"idle", "open", "expire", "check", "create", "close"},
   of : Sessions \union {NoSession}, prior : 0 .. n]
TasksOK == task \in [Processes -> Tasks(Len(attempts))]
OnlyTask(p) == \A q \in Processes : q # p => task'[q] = task[q]
Grows == attempts' \in Seq(AttemptRow) /\ Len(attempts) <= Len(attempts')

LEMMA Moves ==
  ASSUME TypeInv, Grows, NEW p \in Processes, NEW new \in Tasks(Len(attempts)),
         task' = [task EXCEPT ![p] = new]
  PROVE  TasksOK' /\ OnlyTask(p) /\ task'[p] = new
<1>1. Len(attempts) \in Nat /\ Len(attempts') \in Nat /\ task \in [Processes -> Tasks(Len(attempts))]
  BY DEF TypeInv, TypeOK, Grows, Tasks
<1>2. Tasks(Len(attempts)) \subseteq Tasks(Len(attempts'))
  BY <1>1 DEF Grows, Tasks
<1> QED BY <1>1, <1>2 DEF TasksOK, OnlyTask

LEMMA IdleTask == TypeInv => Idle \in Tasks(Len(attempts)) /\ Idle.pc = "idle"
BY DEF TypeInv, Idle, Tasks

LEMMA FinishMoves ==
  ASSUME TypeInv, Grows, NEW p \in Processes, Finish(p)
  PROVE  TasksOK' /\ OnlyTask(p) /\ task'[p].pc = "idle"
BY IdleTask, Moves DEF Finish

LEMMA GotoMoves ==
  ASSUME TypeInv, Grows, NEW p \in Processes, Goto(p, "close")
  PROVE  TasksOK' /\ OnlyTask(p) /\ task'[p].pc = "close" /\ task'[p].of = task[p].of
<1> DEFINE new == [task[p] EXCEPT !.pc = "close"]
<1>1. task[p] \in Tasks(Len(attempts)) /\ task' = [task EXCEPT ![p] = new]
  BY DEF TypeInv, TypeOK, Tasks, Goto
<1>2. new \in Tasks(Len(attempts)) /\ new.pc = "close" /\ new.of = task[p].of
  BY <1>1 DEF Tasks
<1> HIDE DEF new
<1> QED BY <1>1, <1>2, Moves

LEMMA BeginMoves ==
  ASSUME TypeInv, Grows, NEW p \in Processes,
         NEW pc \in {"open", "expire", "check"}, NEW s \in Sessions \union {NoSession}, Begin(p, pc, s)
  PROVE  /\ TasksOK' /\ OnlyTask(p) /\ task'[p].pc = pc /\ task'[p].of = s
         /\ task[p].pc = "idle" /\ disturbed' \in BOOLEAN
         /\ disturbed' = FALSE => disturbed = FALSE /\ \A q \in Processes : task[q].pc = "idle"
<1> DEFINE new == [Idle EXCEPT !.pc = pc, !.of = s]
<1>1. new \in Tasks(Len(attempts)) /\ new.pc = pc /\ new.of = s
  BY IdleTask DEF Tasks, Idle
<1> HIDE DEF new
<1>2. task[p] = Idle /\ task' = [task EXCEPT ![p] = new]
  BY DEF Begin, new
<1>3. disturbed' = (disturbed \/ \E o \in Processes \ {p} : task[o] # Idle)
  BY DEF Begin
<1>4. disturbed \in BOOLEAN /\ (\E o \in Processes \ {p} : task[o] # Idle) \in BOOLEAN
  BY Zenon DEF TypeInv, TypeOK
<1>5. disturbed' \in BOOLEAN
  BY <1>3, <1>4, Zenon
<1>6. ASSUME disturbed' = FALSE
      PROVE  disturbed = FALSE /\ \A o \in Processes \ {p} : task[o] = Idle
  BY <1>3, <1>4, <1>6, Zenon
<1>7. \A q \in Processes : task[q] = Idle => task[q].pc = "idle"
  BY IdleTask
<1> QED BY <1>1, <1>2, <1>5, <1>6, <1>7, Moves

(***************************************************************************)
(* Types                                                                   *)
(***************************************************************************)
LessonOK ==
  /\ bank \in 0 .. MaxQuestions /\ maxAttempts \in Limits /\ maxAttempts \in Nat
  /\ enrolled \in BOOLEAN /\ cooling \in BOOLEAN /\ stuck \in 0 .. MaxStuck
SessionsOK ==
  /\ status \in [Sessions -> {"none", "IN_PROGRESS", "COMPLETED", "EXPIRED"}]
  /\ due \in [Sessions -> BOOLEAN] /\ swept \in [Crons -> SUBSET Sessions]
HistoryOK == keySeen \in BOOLEAN /\ disturbed \in BOOLEAN /\ crashes \in 0 .. MaxCrashes

LEMMA TypeParts ==
  TypeInv <=> attempts \in Seq(AttemptRow) /\ LessonOK /\ SessionsOK /\ HistoryOK /\ TasksOK
<1>1. {enrolled, cooling, keySeen, disturbed} \subseteq BOOLEAN <=>
        enrolled \in BOOLEAN /\ cooling \in BOOLEAN /\ keySeen \in BOOLEAN /\ disturbed \in BOOLEAN
  BY Zenon
<1>2. attempts \in Seq(AttemptRow) => \A i \in DOMAIN attempts : attempts[i] \in AttemptRow
  OBVIOUS
<1> QED BY <1>1, <1>2, Zenon
        DEF TypeInv, TypeOK, LessonOK, SessionsOK, HistoryOK, TasksOK, Tasks, AttemptRow

LEMMA TypePartsNext ==
  ASSUME (attempts \in Seq(AttemptRow))', LessonOK', SessionsOK', HistoryOK', TasksOK'
  PROVE  TypeInv'
<1>1. ({enrolled, cooling, keySeen, disturbed} \subseteq BOOLEAN)'
  BY Zenon DEF LessonOK, HistoryOK
<1>2. (\A i \in DOMAIN attempts : attempts[i] \in AttemptRow)'
  OBVIOUS
<1> QED BY <1>1, <1>2, Zenon
        DEF TypeInv, TypeOK, LessonOK, SessionsOK, HistoryOK, TasksOK, Tasks, AttemptRow

LEMMA TypesInitially == ASSUME ConstantsAssumption, Init PROVE TypeInv
<1>1. task \in [Processes -> Tasks(0)]
  BY DEF Init, Tasks, Idle
<1>2. LessonOK /\ SessionsOK /\ HistoryOK
  <2>1. /\ enrolled \in BOOLEAN /\ cooling \in BOOLEAN
        /\ keySeen \in BOOLEAN /\ disturbed \in BOOLEAN
    BY Zenon DEF Init
  <2> QED BY <2>1 DEF Init, ConstantsAssumption, LessonOK, SessionsOK, HistoryOK
<1>3. attempts \in Seq(AttemptRow) /\ Len(attempts) = 0
  BY DEF Init
<1> QED BY <1>1, <1>2, <1>3, TypeParts DEF TasksOK

LEMMA AttemptStored ==
  ASSUME TypeInv, NEW p \in Processes, CreateAttempt(p)
  PROVE  \E passed \in BOOLEAN :
           LET row == [passed |-> passed, of |-> task[p].of]
           IN  /\ row \in AttemptRow /\ attempts' = Append(attempts, row)
               /\ keySeen' = (keySeen \/ (p \in Requests /\ ShouldRevealAnswers(task[p].prior + 1, passed)))
               /\ Grows /\ Len(attempts') = Len(attempts) + 1
<1>1. PICK passed \in BOOLEAN :
        /\ attempts' = Append(attempts, [passed |-> passed, of |-> task[p].of])
        /\ keySeen' = (keySeen \/ (p \in Requests /\ ShouldRevealAnswers(task[p].prior + 1, passed)))
  BY DEF CreateAttempt
<1> DEFINE row == [passed |-> passed, of |-> task[p].of]
<1>2. row \in AttemptRow
  BY DEF TypeInv, TypeOK, AttemptRow
<1> HIDE DEF row
<1>3. attempts' = Append(attempts, row)
  BY <1>1 DEF row
<1>4. Grows /\ Len(attempts') = Len(attempts) + 1
  BY <1>2, <1>3 DEF Grows, TypeInv
<1> QED BY <1>1, <1>2, <1>3, <1>4 DEF row

LEMMA Stays == TypeInv /\ UNCHANGED attempts => Grows
BY DEF TypeInv, Grows

\* The steps that begin, continue or end a task keep the types.
TaskStep(p) ==
  \/ StartSession(p) \/ OpenSession(p) \/ GetSessionStatus(p) \/ SubmitSession(p)
  \/ PersistExpirationIfElapsed(p) \/ SubmitDirectly(p)
  \/ Attempt(p) \/ Crash(p)
  \/ p \in Crons /\ AutoSubmitSession(p)

LEMMA TaskTypes == ASSUME ConstantsAssumption, TypeInv, NEW p \in Processes, TaskStep(p) PROVE TypeInv'
<1> USE DEF lessonVars
<1>0. /\ attempts \in Seq(AttemptRow) /\ LessonOK /\ SessionsOK /\ HistoryOK
      /\ UNCHANGED attempts => Grows
  BY TypeParts, Stays
<1>1. ASSUME Grows, TasksOK', LessonOK', SessionsOK', HistoryOK' PROVE TypeInv'
  BY <1>1, TypePartsNext DEF Grows
<1>2. CASE \/ StartSession(p) \/ SubmitDirectly(p)
           \/ \E s \in Sessions, next \in {"check", "reply"} : LoadSession(p, s, next)
  <2>1. UNCHANGED <<lessonVars, attempts, status, due, swept, keySeen, crashes>>
    BY <1>2 DEF StartSession, SubmitDirectly, LoadSession
  <2>2. \E pc \in {"open", "expire", "check"}, s \in Sessions \union {NoSession} : Begin(p, pc, s)
    BY <1>2 DEF StartSession, SubmitDirectly, LoadSession
  <2>3. TasksOK' /\ disturbed' \in BOOLEAN
    BY <1>0, <2>1, <2>2, BeginMoves
  <2> QED BY <1>0, <1>1, <2>1, <2>3 DEF LessonOK, SessionsOK, HistoryOK
<1>3. CASE OpenSession(p) \/ PersistExpirationIfElapsed(p) \/ CloseSession(p)
  <2>1. UNCHANGED <<lessonVars, attempts, due, swept, keySeen, disturbed, crashes>> /\ Finish(p)
    BY <1>3 DEF OpenSession, PersistExpirationIfElapsed, CloseSession
  <2>2. \E s, to : /\ status' = [status EXCEPT ![s] = to]
                   /\ to \in {"IN_PROGRESS", "COMPLETED", "EXPIRED"}
    BY <1>3 DEF OpenSession, PersistExpirationIfElapsed, CloseSession
  <2>3. status' \in [Sessions -> {"none", "IN_PROGRESS", "COMPLETED", "EXPIRED"}]
    BY <1>0, <2>2 DEF SessionsOK
  <2>4. TasksOK'
    BY <1>0, <2>1, FinishMoves
  <2> QED BY <1>0, <1>1, <2>1, <2>3, <2>4 DEF LessonOK, SessionsOK, HistoryOK
<1>4. CASE CheckAttempt(p)
  <2> DEFINE new == [pc |-> "create", of |-> task[p].of, prior |-> Len(attempts)]
  <2>1. UNCHANGED <<lessonVars, attempts, status, due, swept, keySeen, disturbed, crashes>>
    BY <1>4 DEF CheckAttempt
  <2>2. task[p] \in Tasks(Len(attempts)) /\ Len(attempts) \in Nat
    BY DEF TypeInv, TypeOK, Tasks
  <2>3. new \in Tasks(Len(attempts))
    BY <2>2 DEF Tasks
  <2>4. task' = [task EXCEPT ![p] = new]
    <3>1. [task[p] EXCEPT !.pc = "create", !.prior = Len(attempts)] = new
      <4>1. [task[p] EXCEPT !.pc = "create"] =
              [pc |-> "create", of |-> task[p].of, prior |-> task[p].prior]
        BY <2>2 DEF Tasks
      <4>2. [[pc |-> "create", of |-> task[p].of, prior |-> task[p].prior]
              EXCEPT !.prior = Len(attempts)] = new
        OBVIOUS
      <4> QED BY <4>1, <4>2, Zenon
    <3>2. task' = [task EXCEPT ![p] = [task[p] EXCEPT !.pc = "create", !.prior = Len(attempts)]]
      BY <1>4 DEF CheckAttempt, TypeInv, TypeOK
    <3> QED BY <3>1, <3>2
  <2> HIDE DEF new
  <2>5. TasksOK'
    BY <1>0, <2>1, <2>3, <2>4, Moves
  <2> QED BY <1>0, <1>1, <2>1, <2>5 DEF LessonOK, SessionsOK, HistoryOK
<1>5. CASE AttemptRefused(p)
  <2>1. UNCHANGED <<lessonVars, attempts, status, due, swept, keySeen, disturbed, crashes>>
    BY <1>5 DEF AttemptRefused
  <2>2. Goto(p, "close") \/ Finish(p)
    BY <1>5 DEF AttemptRefused
  <2>3. TasksOK'
    BY <1>0, <2>1, <2>2, GotoMoves, FinishMoves
  <2> QED BY <1>0, <1>1, <2>1, <2>3 DEF LessonOK, SessionsOK, HistoryOK
<1>6. CASE CreateAttempt(p)
  <2>1. UNCHANGED <<bank, maxAttempts, enrolled, stuck, status, due, swept, disturbed, crashes>> /\ cooling' = TRUE
    BY <1>6 DEF CreateAttempt
  <2>2. Grows
    BY <1>6, AttemptStored
  <2>3. TasksOK'
    BY <1>6, <2>2, GotoMoves, FinishMoves DEF CreateAttempt
  <2>4. keySeen' \in BOOLEAN
    <3>1. PICK passed \in BOOLEAN :
            keySeen' = (keySeen \/ (p \in Requests /\ ShouldRevealAnswers(task[p].prior + 1, passed)))
      BY <1>6, AttemptStored
    <3>2. keySeen \in BOOLEAN
      BY <1>0 DEF HistoryOK
    <3> QED BY <3>1, <3>2, Zenon
  <2> QED BY <1>0, <1>1, <2>1, <2>2, <2>3, <2>4 DEF LessonOK, SessionsOK, HistoryOK
<1>7. CASE p \in Crons /\ AutoSubmitSession(p)
  <2>1. PICK s \in swept[p] :
          /\ swept' = [swept EXCEPT ![p] = @ \ {s}]
          /\ Begin(p, "check", s) \/ UNCHANGED <<task, disturbed>>
    BY <1>7 DEF AutoSubmitSession
  <2>2. UNCHANGED <<lessonVars, attempts, status, due, keySeen, crashes>>
    BY <1>7 DEF AutoSubmitSession
  <2>3. swept' \in [Crons -> SUBSET Sessions] /\ s \in Sessions
    BY <1>0, <1>7, <2>1 DEF SessionsOK
  <2>4. TasksOK' /\ disturbed' \in BOOLEAN
    <3>1. CASE Begin(p, "check", s)
      BY <1>0, <2>2, <2>3, <3>1, BeginMoves
    <3>2. CASE UNCHANGED <<task, disturbed>>
      BY <2>2, <3>2, TypeParts DEF TasksOK, HistoryOK
    <3> QED BY <2>1, <3>1, <3>2
  <2> QED BY <1>0, <1>1, <2>2, <2>3, <2>4 DEF LessonOK, SessionsOK, HistoryOK
<1>8. CASE Crash(p)
  <2>1. /\ UNCHANGED <<lessonVars, attempts, status, due, keySeen>>
        /\ Finish(p) /\ disturbed' = TRUE /\ crashes < MaxCrashes /\ crashes' = crashes + 1
        /\ swept' = IF p \in Crons THEN [swept EXCEPT ![p] = {}] ELSE swept
    BY <1>8 DEF Crash
  <2>2. TasksOK'
    BY <1>0, <2>1, FinishMoves
  <2>3. swept' \in [Crons -> SUBSET Sessions]
    BY <1>0, <2>1 DEF SessionsOK
  <2>4. crashes' \in 0 .. MaxCrashes
    BY <1>0, <2>1 DEF HistoryOK, ConstantsAssumption
  <2> QED BY <1>0, <1>1, <2>1, <2>2, <2>3, <2>4 DEF LessonOK, SessionsOK, HistoryOK
<1> QED BY <1>2, <1>3, <1>4, <1>5, <1>6, <1>7, <1>8
        DEF TaskStep, Attempt, GetSessionStatus, SubmitSession

LEMMA TypesKept == ASSUME ConstantsAssumption, TypeInv, [Next]_vars PROVE TypeInv'
<1> USE DEF lessonVars
<1>1. ASSUME NEW r \in Requests,
             \/ StartSession(r) \/ OpenSession(r) \/ GetSessionStatus(r) \/ SubmitSession(r)
             \/ PersistExpirationIfElapsed(r) \/ SubmitDirectly(r) \/ Attempt(r)
      PROVE  TypeInv'
  <2>1. r \in Processes /\ TaskStep(r)
    BY <1>1 DEF Processes, TaskStep
  <2> QED BY <2>1, TaskTypes
<1>2. ASSUME NEW c \in Crons, AutoSubmitSession(c) \/ Attempt(c) PROVE TypeInv'
  <2>1. c \in Processes /\ TaskStep(c)
    BY <1>2 DEF Processes, TaskStep
  <2> QED BY <2>1, TaskTypes
<1>3. ASSUME NEW p \in Processes, Crash(p) PROVE TypeInv'
  BY <1>3, TaskTypes DEF TaskStep
<1>4. attempts \in Seq(AttemptRow) /\ LessonOK /\ SessionsOK /\ HistoryOK /\ TasksOK
  BY TypeParts
<1>5. ASSUME UNCHANGED attempts, LessonOK', SessionsOK', HistoryOK', UNCHANGED task PROVE TypeInv'
  BY <1>4, <1>5, TypePartsNext DEF TasksOK
<1>6. ASSUME NEW c \in Crons, Sweep(c) PROVE TypeInv'
  <2>1. PICK page \in SUBSET Overdue : swept' = [swept EXCEPT ![c] = page]
    BY <1>6 DEF Sweep
  <2>2. swept' \in [Crons -> SUBSET Sessions]
    BY <1>4, <2>1 DEF Overdue, SessionsOK
  <2> QED BY <1>4, <1>5, <1>6, <2>2 DEF Sweep, lessonVars, LessonOK, SessionsOK, HistoryOK
<1>7. ASSUME NEW s \in Sessions, TimeOut(s) PROVE TypeInv'
  <2>1. due' \in [Sessions -> BOOLEAN]
    BY <1>4, <1>7 DEF TimeOut, SessionsOK
  <2> QED BY <1>4, <1>5, <1>7, <2>1 DEF TimeOut, LessonOK, SessionsOK, HistoryOK
<1>8. CASE CreateQuestion \/ DeleteQuestion
  <2>1. bank' \in 0 .. MaxQuestions
    BY <1>4, <1>8 DEF CreateQuestion, DeleteQuestion, LessonOK, ConstantsAssumption
  <2> QED BY <1>4, <1>5, <1>8, <2>1
          DEF CreateQuestion, DeleteQuestion, LessonOK, SessionsOK, HistoryOK
<1>9. CASE Unenroll \/ CooldownEnds
  <2>1. enrolled' \in BOOLEAN /\ cooling' \in BOOLEAN
    BY <1>4, <1>9, Zenon DEF Unenroll, CooldownEnds, LessonOK
  <2> QED BY <1>4, <1>5, <1>9, <2>1
          DEF Unenroll, CooldownEnds, LessonOK, SessionsOK, HistoryOK
<1>10. CASE ViewHistory
  <2>1. keySeen' = (keySeen \/ (attempts # <<>> /\ ShouldRevealAnswers(Len(attempts), Passed)))
    BY <1>10 DEF ViewHistory
  <2>2. keySeen' \in BOOLEAN
    BY <1>4, <2>1, Zenon DEF HistoryOK
  <2> QED BY <1>4, <1>5, <1>10, <2>2 DEF ViewHistory, LessonOK, SessionsOK, HistoryOK
<1>11. CASE UNCHANGED vars
  BY <1>4, <1>5, <1>11 DEF vars, LessonOK, SessionsOK, HistoryOK
<1>12. CASE OtherLessons
  BY <1>4, <1>5, <1>12 DEF OtherLessons, LessonOK, SessionsOK, HistoryOK
<1> QED BY <1>1, <1>2, <1>3, <1>6, <1>7, <1>8, <1>9, <1>10, <1>11, <1>12 DEF Next, Cron

(***************************************************************************)
(* The answer key                                                          *)
(***************************************************************************)
LEMMA KeyKept == ASSUME TypeInv, KeyHidden, [Next]_vars PROVE KeyHidden'
<1> USE DEF lessonVars
<1>1. /\ keySeen \in BOOLEAN /\ attempts \in Seq(AttemptRow) /\ maxAttempts \in Nat
      /\ \A p \in Processes : task[p].prior \in 0 .. Len(attempts)
  BY TypeParts DEF HistoryOK, LessonOK, TasksOK, Tasks
<1>2. CASE UNCHANGED <<keySeen, attempts, maxAttempts>>
  BY <1>2 DEF KeyHidden, Passed
<1>3. ASSUME NEW p \in Processes, CreateAttempt(p) PROVE KeyHidden'
  <2>1. PICK passed \in BOOLEAN :
          /\ attempts' = Append(attempts, [passed |-> passed, of |-> task[p].of])
          /\ keySeen' = (keySeen \/ (p \in Requests /\ ShouldRevealAnswers(task[p].prior + 1, passed)))
          /\ Len(attempts') = Len(attempts) + 1 /\ attempts' \in Seq(AttemptRow)
    BY <1>3, AttemptStored DEF Grows
  <2>2. maxAttempts' = maxAttempts
    BY <1>3 DEF CreateAttempt
  <2>3. \A i \in DOMAIN attempts : i \in DOMAIN attempts' /\ attempts'[i] = attempts[i]
    BY <1>1, <2>1
  <2>4. Passed => Passed'
    BY <2>3 DEF Passed
  <2>5. CASE keySeen
    <3>1. Passed \/ Len(attempts) >= maxAttempts
      BY <2>5, Zenon DEF KeyHidden
    <3>2. Passed' \/ Len(attempts') >= maxAttempts'
      BY <1>1, <2>1, <2>2, <2>4, <3>1
    <3> QED BY <3>2, Zenon DEF KeyHidden
  <2>6. CASE passed = TRUE
    <3>1. Len(attempts') \in DOMAIN attempts' /\ attempts'[Len(attempts')].passed = TRUE
      BY <1>1, <2>1, <2>6
    <3>2. Passed'
      BY <3>1, Zenon DEF Passed
    <3> QED BY <3>2, Zenon DEF KeyHidden
  <2>7. CASE ~keySeen /\ passed = FALSE
    <3>1. SUFFICES ASSUME keySeen' PROVE Len(attempts') >= maxAttempts'
      BY Zenon DEF KeyHidden
    <3>2. task[p].prior + 1 >= maxAttempts
      BY <2>1, <2>7, <3>1, Zenon DEF ShouldRevealAnswers
    <3> QED BY <1>1, <2>1, <2>2, <3>2
  <2> QED BY <2>5, <2>6, <2>7
<1>4. CASE ViewHistory
  <2>1. /\ keySeen' = (keySeen \/ (attempts # <<>> /\ ShouldRevealAnswers(Len(attempts), Passed)))
        /\ UNCHANGED <<attempts, maxAttempts>>
    BY <1>4 DEF ViewHistory
  <2>2. Passed' = Passed /\ (Len(attempts) >= maxAttempts)' = (Len(attempts) >= maxAttempts)
    BY <2>1 DEF Passed
  <2> QED BY <2>1, <2>2, Zenon DEF KeyHidden, ShouldRevealAnswers
<1>5. ASSUME NEW p \in Processes,
             \/ StartSession(p) \/ OpenSession(p) \/ GetSessionStatus(p) \/ SubmitSession(p)
             \/ PersistExpirationIfElapsed(p) \/ SubmitDirectly(p) \/ CheckAttempt(p)
             \/ AttemptRefused(p) \/ CloseSession(p) \/ Sweep(p) \/ AutoSubmitSession(p) \/ Crash(p)
      PROVE  UNCHANGED <<keySeen, attempts, maxAttempts>>
  BY <1>5
     DEF StartSession, OpenSession, GetSessionStatus, SubmitSession, LoadSession,
         PersistExpirationIfElapsed, SubmitDirectly, CheckAttempt, AttemptRefused, CloseSession,
         Sweep, AutoSubmitSession, Crash
<1>6. (\E s \in Sessions : TimeOut(s)) \/ CreateQuestion \/ DeleteQuestion \/ Unenroll
        \/ CooldownEnds \/ OtherLessons =>
        UNCHANGED <<keySeen, attempts, maxAttempts>>
  BY DEF TimeOut, CreateQuestion, DeleteQuestion, Unenroll, CooldownEnds, OtherLessons
<1> QED BY <1>2, <1>3, <1>4, <1>5, <1>6 DEF Next, Cron, Attempt, Processes, vars

(***************************************************************************)
(* One process at a time                                                   *)
(***************************************************************************)
AllIdle == \A p \in Processes : task[p].pc = "idle"

\* With nobody under way, a session with an attempt is closed.
LEMMA Closed ==
  ASSUME OneByOne, AllIdle, NEW s \in Sessions, status[s] = "IN_PROGRESS", NoSession \notin Sessions
  PROVE  \A i \in DOMAIN attempts : attempts[i].of # s
BY DEF OneByOne, AllIdle

LEMMA AtRest ==
  ASSUME OneByOne, UNCHANGED <<attempts, maxAttempts, status, task>>
  PROVE  OneByOne'
BY DEF OneByOne, Processes

\* A task begins, on a session under way or on none.
LEMMA BeginTurn ==
  ASSUME ConstantsAssumption, TypeInv, OneByOne, AllIdle, NEW p \in Processes,
         NEW s \in Sessions \union {NoSession}, s # NoSession => status[s] = "IN_PROGRESS",
         OnlyTask(p), task'[p].pc \in {"open", "expire", "check"}, task'[p].of = s,
         UNCHANGED <<attempts, maxAttempts, status>>
  PROVE  OneByOne'
<1>1. s # NoSession => \A i \in DOMAIN attempts : attempts[i].of # s
  BY Closed DEF ConstantsAssumption
<1>2. \A q \in Processes : q # p => task'[q].pc = "idle"
  BY DEF AllIdle, OnlyTask
<1>3. \A i \in DOMAIN attempts : attempts[i].of # NoSession =>
        status[attempts[i].of] # "none" /\ status[attempts[i].of] # "IN_PROGRESS"
  BY DEF AllIdle, OneByOne
<1> QED BY <1>1, <1>2, <1>3 DEF OneByOne, Submitting

\* A task ends; what it was closing is closed.
LEMMA EndTurn ==
  ASSUME OneByOne, NEW p \in Processes, task[p].pc # "idle", OnlyTask(p), task'[p].pc = "idle",
         UNCHANGED <<attempts, maxAttempts>>,
         \A i \in DOMAIN attempts :
           attempts[i].of # NoSession => status'[attempts[i].of] \notin {"none", "IN_PROGRESS"}
  PROVE  OneByOne'
<1>1. \A q \in Processes : task'[q].pc = "idle"
  BY DEF OneByOne, OnlyTask
<1> QED BY <1>1 DEF OneByOne, Submitting

LEMMA CreateTurn ==
  ASSUME TypeInv, OneByOne, NEW p \in Processes, CreateAttempt(p)
  PROVE  OneByOne'
<1>1. /\ task[p].pc = "create" /\ UNCHANGED <<maxAttempts, status>>
      /\ IF task[p].of = NoSession THEN Finish(p) ELSE Goto(p, "close")
  BY DEF CreateAttempt
<1>2. PICK row \in AttemptRow :
        /\ attempts' = Append(attempts, row) /\ row.of = task[p].of
        /\ Grows /\ Len(attempts') = Len(attempts) + 1
  BY AttemptStored
<1>3. /\ OnlyTask(p)
      /\ \/ task[p].of = NoSession /\ task'[p].pc = "idle"
         \/ task[p].of # NoSession /\ task'[p].pc = "close" /\ task'[p].of = task[p].of
  BY <1>1, <1>2, FinishMoves, GotoMoves
<1>4. attempts \in Seq(AttemptRow) /\ maxAttempts \in Nat
  BY DEF TypeInv
<1>5. /\ DOMAIN attempts' = DOMAIN attempts \union {Len(attempts')}
      /\ \A i \in DOMAIN attempts : attempts'[i] = attempts[i]
      /\ attempts'[Len(attempts')] = row
  BY <1>2, <1>4
<1>6. Len(attempts') <= maxAttempts
  BY <1>1, <1>2, <1>4 DEF OneByOne
<1>7. \A q \in Processes : q # p => task[q].pc = "idle" /\ task'[q].pc = "idle"
  BY <1>1, <1>3 DEF OneByOne, OnlyTask
<1>8. row.of # NoSession =>
        status[row.of] # "none" /\ \A i \in DOMAIN attempts : attempts[i].of # row.of
  BY <1>1, <1>2 DEF OneByOne, Submitting
<1>9. \A i \in DOMAIN attempts : attempts[i].of # NoSession =>
        status[attempts[i].of] # "none" /\ status[attempts[i].of] # "IN_PROGRESS"
  BY <1>1, <1>7 DEF OneByOne
<1>10. ASSUME NEW i \in DOMAIN attempts', attempts'[i].of # NoSession
       PROVE  /\ status'[attempts'[i].of] # "none"
              /\ status'[attempts'[i].of] = "IN_PROGRESS" =>
                   \E q \in Processes : task'[q].pc = "close" /\ task'[q].of = attempts'[i].of
  <2>1. CASE i \in DOMAIN attempts
    BY <1>1, <1>5, <1>9, <1>10, <2>1
  <2>2. CASE i = Len(attempts')
    BY <1>1, <1>2, <1>3, <1>5, <1>8, <1>10, <2>2
  <2> QED BY <1>5, <2>1, <2>2
<1>11. ASSUME NEW i \in DOMAIN attempts', NEW j \in DOMAIN attempts',
              attempts'[i].of = attempts'[j].of, attempts'[i].of # NoSession
       PROVE  i = j
  <2>1. CASE i \in DOMAIN attempts /\ j \in DOMAIN attempts
    BY <1>5, <1>11, <2>1 DEF OneByOne
  <2>2. CASE i = Len(attempts') /\ j \in DOMAIN attempts
    BY <1>5, <1>8, <1>11, <2>2
  <2>3. CASE j = Len(attempts') /\ i \in DOMAIN attempts
    BY <1>5, <1>8, <1>11, <2>3
  <2> QED BY <1>5, <2>1, <2>2, <2>3
<1>12. \A q \in Processes : task'[q].pc \notin Submitting
  BY <1>3, <1>7 DEF Submitting
<1>13. \A q, r \in Processes : task'[q].pc # "idle" /\ task'[r].pc # "idle" => q = r
  BY <1>7
<1>14. \A q \in Processes : task'[q].pc # "create"
  BY <1>12 DEF Submitting
<1> QED BY <1>1, <1>6, <1>10, <1>11, <1>12, <1>13, <1>14 DEF OneByOne

LEMMA BegunTurn ==
  ASSUME ConstantsAssumption, TypeInv, disturbed = FALSE => OneByOne, NEW p \in Processes,
         NEW pc \in {"open", "expire", "check"}, NEW s \in Sessions \union {NoSession},
         s # NoSession => status[s] = "IN_PROGRESS", Begin(p, pc, s),
         UNCHANGED <<attempts, maxAttempts, status>>, disturbed' = FALSE
  PROVE  OneByOne'
<1>1. Grows
  BY Stays
<1>2. /\ OnlyTask(p) /\ task'[p].pc = pc /\ task'[p].of = s
      /\ disturbed = FALSE /\ AllIdle
  BY <1>1, BeginMoves DEF AllIdle
<1> QED BY <1>2, BeginTurn

LEMMA TurnKept ==
  ASSUME ConstantsAssumption, TypeInv, disturbed = FALSE => OneByOne, [Next]_vars, disturbed' = FALSE
  PROVE  OneByOne'
<1> USE DEF lessonVars
<1>0. UNCHANGED attempts => Grows
  BY Stays
<1>1. ASSUME NEW p \in Processes, StartSession(p) \/ SubmitDirectly(p) PROVE OneByOne'
  <2>1. UNCHANGED <<attempts, maxAttempts, status>>
    BY <1>1 DEF StartSession, SubmitDirectly
  <2>2. Begin(p, "open", NoSession) \/ Begin(p, "check", NoSession)
    BY <1>1 DEF StartSession, SubmitDirectly
  <2> QED BY <2>1, <2>2, BegunTurn
<1>2. ASSUME NEW p \in Processes, NEW s \in Sessions, NEW next \in {"check", "reply"}, LoadSession(p, s, next)
      PROVE  OneByOne'
  <2>1. UNCHANGED <<attempts, maxAttempts, status>> /\ status[s] = "IN_PROGRESS"
    BY <1>2 DEF LoadSession, InProgress
  <2>2. Begin(p, "expire", s) \/ Begin(p, "check", s)
    BY <1>2 DEF LoadSession
  <2> QED BY <2>1, <2>2, BegunTurn
<1>3. ASSUME NEW c \in Crons, AutoSubmitSession(c) PROVE OneByOne'
  <2>1. c \in Processes /\ UNCHANGED <<attempts, maxAttempts, status>>
    BY <1>3 DEF AutoSubmitSession, Processes
  <2>2. PICK s \in swept[c] :
          \/ status[s] = "IN_PROGRESS" /\ Begin(c, "check", s)
          \/ UNCHANGED <<task, disturbed>>
    BY <1>3 DEF AutoSubmitSession, InProgress
  <2>3. s \in Sessions
    BY <2>2 DEF TypeInv, TypeOK
  <2>4. CASE status[s] = "IN_PROGRESS" /\ Begin(c, "check", s)
    BY <2>1, <2>3, <2>4, BegunTurn
  <2>5. CASE UNCHANGED <<task, disturbed>>
    BY <2>1, <2>5, AtRest
  <2> QED BY <2>2, <2>4, <2>5
<1>4. ASSUME NEW p \in Processes, OpenSession(p) \/ PersistExpirationIfElapsed(p) PROVE OneByOne'
  <2>1. /\ UNCHANGED <<attempts, maxAttempts, disturbed>> /\ Finish(p)
        /\ task[p].pc \in {"open", "expire"}
    BY <1>4 DEF OpenSession, PersistExpirationIfElapsed
  <2>2. OnlyTask(p) /\ task'[p].pc = "idle"
    BY <1>0, <2>1, FinishMoves
  <2>3. OneByOne
    BY <2>1
  <2>4. \A i \in DOMAIN attempts : attempts[i].of # NoSession =>
          status[attempts[i].of] # "none" /\ status[attempts[i].of] # "IN_PROGRESS"
    BY <2>1, <2>3 DEF OneByOne
  <2>5. \E s, to : /\ status' = [status EXCEPT ![s] = to]
                   /\ to = "EXPIRED" \/ status[s] = "none"
    BY <1>4 DEF OpenSession, PersistExpirationIfElapsed
  <2>6. attempts \in Seq(AttemptRow) /\ DOMAIN status = Sessions
    BY DEF TypeInv, TypeOK
  <2>7. \A i \in DOMAIN attempts : attempts[i].of \in Sessions \union {NoSession}
    <3>1. \A i \in DOMAIN attempts : attempts[i] \in AttemptRow
      BY <2>6
    <3> QED BY <3>1 DEF AttemptRow
  <2>8. \A i \in DOMAIN attempts :
          attempts[i].of # NoSession => status'[attempts[i].of] \notin {"none", "IN_PROGRESS"}
    BY <2>4, <2>5, <2>6, <2>7
  <2> QED BY <2>1, <2>2, <2>3, <2>8, EndTurn
<1>5. ASSUME NEW p \in Processes, CloseSession(p) PROVE OneByOne'
  <2>1. /\ UNCHANGED <<attempts, maxAttempts, disturbed>> /\ Finish(p) /\ task[p].pc = "close"
        /\ status' = [status EXCEPT ![task[p].of] = IF p \in Crons THEN "EXPIRED" ELSE "COMPLETED"]
    BY <1>5 DEF CloseSession
  <2>2. OnlyTask(p) /\ task'[p].pc = "idle"
    BY <1>0, <2>1, FinishMoves
  <2>3. OneByOne
    BY <2>1
  <2>4. \A i \in DOMAIN attempts : attempts[i].of # NoSession =>
          /\ status[attempts[i].of] # "none"
          /\ status[attempts[i].of] # "IN_PROGRESS" \/ attempts[i].of = task[p].of
    BY <2>1, <2>3 DEF OneByOne
  <2>5. attempts \in Seq(AttemptRow) /\ DOMAIN status = Sessions
    BY DEF TypeInv, TypeOK
  <2>6. \A i \in DOMAIN attempts : attempts[i].of \in Sessions \union {NoSession}
    <3>1. \A i \in DOMAIN attempts : attempts[i] \in AttemptRow
      BY <2>5
    <3> QED BY <3>1 DEF AttemptRow
  <2>7. \A i \in DOMAIN attempts :
          attempts[i].of # NoSession => status'[attempts[i].of] \notin {"none", "IN_PROGRESS"}
    BY <2>1, <2>4, <2>5, <2>6
  <2> QED BY <2>1, <2>2, <2>3, <2>7, EndTurn
<1>6. ASSUME NEW p \in Processes, CheckAttempt(p) PROVE OneByOne'
  <2>1. /\ task[p].pc = "check" /\ Len(attempts) < maxAttempts
        /\ UNCHANGED <<attempts, maxAttempts, status, disturbed>>
    BY <1>6 DEF CheckAttempt, CanAttempt, AttemptAllowed, WithinLimit
  <2>2. OneByOne
    BY <2>1
  <2>3. task[p] \in Tasks(Len(attempts)) /\ task \in [Processes -> Tasks(Len(attempts))]
    BY TypeParts DEF TasksOK
  <2>4. task'[p].pc = "create" /\ task'[p].of = task[p].of /\ OnlyTask(p)
    BY <1>6, <2>3 DEF CheckAttempt, Tasks, OnlyTask
  <2>5. \A q \in Processes : q # p => task[q].pc = "idle" /\ task'[q].pc = "idle"
    BY <2>1, <2>2, <2>4 DEF OneByOne, OnlyTask
  <2>6. \A i \in DOMAIN attempts : attempts[i].of # NoSession =>
          status[attempts[i].of] # "none" /\ status[attempts[i].of] # "IN_PROGRESS"
    BY <2>1, <2>2, <2>5 DEF OneByOne
  <2> QED BY <2>1, <2>2, <2>4, <2>5, <2>6 DEF OneByOne, Submitting
<1>7. ASSUME NEW p \in Processes, AttemptRefused(p) PROVE OneByOne'
  <2>1. /\ task[p].pc = "check" /\ UNCHANGED <<attempts, maxAttempts, status, disturbed>>
        /\ Goto(p, "close") \/ Finish(p)
    BY <1>7 DEF AttemptRefused
  <2>2. OneByOne
    BY <2>1
  <2>3. OnlyTask(p) /\ task'[p].pc \in {"idle", "close"}
    BY <1>0, <2>1, GotoMoves, FinishMoves
  <2>4. \A q \in Processes : q # p => task[q].pc = "idle" /\ task'[q].pc = "idle"
    BY <2>1, <2>2, <2>3 DEF OneByOne, OnlyTask
  <2>5. \A i \in DOMAIN attempts : attempts[i].of # NoSession =>
          status[attempts[i].of] # "none" /\ status[attempts[i].of] # "IN_PROGRESS"
    BY <2>1, <2>2, <2>4 DEF OneByOne
  <2> QED BY <2>1, <2>2, <2>3, <2>4, <2>5 DEF OneByOne, Submitting
<1>8. ASSUME NEW p \in Processes, CreateAttempt(p) PROVE OneByOne'
  <2>1. disturbed' = disturbed
    BY <1>8 DEF CreateAttempt
  <2> QED BY <1>8, <2>1, CreateTurn
<1>9. ASSUME NEW p \in Processes, Crash(p) PROVE FALSE
  BY <1>9 DEF Crash
<1>10. CASE \/ \E c \in Crons : Sweep(c)
            \/ \E s \in Sessions : TimeOut(s)
            \/ ViewHistory \/ CreateQuestion \/ DeleteQuestion \/ Unenroll \/ CooldownEnds
            \/ OtherLessons \/ UNCHANGED vars
  <2>1. UNCHANGED <<attempts, maxAttempts, status, task, disturbed>>
    BY <1>10 DEF Sweep, TimeOut, ViewHistory, CreateQuestion, DeleteQuestion, Unenroll,
                 CooldownEnds, OtherLessons, vars
  <2> QED BY <2>1, AtRest
<1>11. Requests \subseteq Processes /\ Crons \subseteq Processes
  BY DEF Processes
<1>12. ASSUME NEW p \in Processes, Attempt(p) PROVE OneByOne'
  BY <1>5, <1>6, <1>7, <1>8, <1>12 DEF Attempt
<1>13. ASSUME NEW r \in Requests, GetSessionStatus(r) \/ SubmitSession(r) PROVE OneByOne'
  BY <1>2, <1>11, <1>13 DEF GetSessionStatus, SubmitSession
<1>14. ASSUME NEW c \in Crons, Cron(c) PROVE OneByOne'
  BY <1>3, <1>10, <1>11, <1>12, <1>14 DEF Cron
<1> QED BY <1>1, <1>4, <1>9, <1>10, <1>11, <1>12, <1>13, <1>14 DEF Next

LEMMA QuizInitially == ConstantsAssumption /\ Init => QuizInv
<1> SUFFICES ASSUME ConstantsAssumption, Init PROVE QuizInv
  OBVIOUS
<1>1. TypeInv
  BY TypesInitially
<1>2. KeyHidden
  BY Zenon DEF Init, KeyHidden
<1>3. OneByOne
  <2>1. attempts = <<>> /\ Len(attempts) = 0 /\ DOMAIN attempts = {} /\ maxAttempts \in Nat
    BY <1>1 DEF Init, TypeInv
  <2>2. \A p \in Processes : task[p].pc = "idle"
    BY <1>1, IdleTask DEF Init
  <2> QED BY <2>1, <2>2 DEF OneByOne, Submitting
<1> QED BY <1>1, <1>2, <1>3 DEF QuizInv

LEMMA QuizInductive == ConstantsAssumption /\ QuizInv /\ [Next]_vars => QuizInv'
BY TypesKept, KeyKept, TurnKept DEF QuizInv

LEMMA QuizMeans == QuizInv => TypeOK /\ KeyHidden /\ AttemptsWithinLimit
<1> SUFFICES ASSUME QuizInv PROVE AttemptsWithinLimit
  BY DEF QuizInv, TypeInv
<1>1. ~disturbed => disturbed = FALSE
  BY TypeParts, Zenon DEF QuizInv, HistoryOK
<1>2. ~disturbed => OneByOne
  BY <1>1 DEF QuizInv
<1>3. OneByOne =>
        /\ Len(attempts) <= maxAttempts
        /\ \A i, j \in DOMAIN attempts :
             attempts[i].of = attempts[j].of /\ attempts[i].of # NoSession => i = j
  BY DEF OneByOne
<1> QED BY <1>2, <1>3, Zenon DEF AttemptsWithinLimit

\* However many requests and cron runs overlap, whoever was shown the answer key has passed
\* or has no attempt left.
THEOREM KeyStaysHidden == ASSUME ConstantsAssumption PROVE Spec => []KeyHidden
BY QuizInitially, QuizInductive, QuizMeans, PTL DEF Spec

\* One process after the other, the attempts are at most those allowed, one for a session.
THEOREM AttemptsLimited == ASSUME ConstantsAssumption PROVE Spec => []AttemptsWithinLimit
BY QuizInitially, QuizInductive, QuizMeans, PTL DEF Spec

==============================================================================
