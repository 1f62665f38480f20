------------------------------ MODULE Discussions ------------------------------
(***************************************************************************)
(* The discussion of one course: a question, its answers, which of them is *)
(* marked as the best, and one comment with its moderation.  Two services  *)
(* take questions and mark answers (DiscussionsService for the instructor, *)
(* QuestionsService for who asked), each in a READ COMMITTED transaction   *)
(* that holds the rows it cleared until it commits.                        *)
(***************************************************************************)
EXTENDS Naturals, FiniteSets

CONSTANTS Requests, Answers

VARIABLES
  enrollment,     \* of the student who posts: "none", "ACTIVE" or "REFUNDED"
  free,           \* the question's lesson is free: told when it is created
  asked,          \* the question is stored
  answers,        \* answers stored
  best,           \* answers with isBestAnswer
  comment,
  reviewed,       \* history: an administrator has judged the comment
  raced,          \* history: two markings overlapped
  task

discussion == <<enrollment, free, asked, answers, best, comment, reviewed>>
vars == <<discussion, raced, task>>

Review == {"PENDING", "APPROVED", "REJECTED"}
NoComment == [there |-> FALSE, flagged |-> FALSE, hidden |-> FALSE, review |-> "PENDING"]
Idle == [pc |-> "idle", of |-> {}, cleared |-> {}]
TaskType ==
  [pc : {"idle", "ask", "answer", "comment", "clearOthers", "clearAll", "set", "hide"},
   of : SUBSET Answers,            \* the answer at hand
   cleared : SUBSET Answers]       \* rows written by the open transaction

Go(r, pc, of) == task' = [task EXCEPT ![r] = [Idle EXCEPT !.pc = pc, !.of = of]]
Finish(r) == task' = [task EXCEPT ![r] = Idle]
Locked(r) == UNION {task[o].cleared : o \in Requests \ {r}}

\* QuestionsService lets anyone ask and answer in a free lesson, elsewhere whoever was ever
\* enrolled; DiscussionsService (assertCanPost) refuses a refunded enrolment too.
MayPost == enrollment # "none" \/ free

StartAskAnywhere(r) ==
  /\ task[r] = Idle /\ ~asked
  /\ MayPost
  /\ Go(r, "ask", {})
  /\ UNCHANGED <<discussion, raced>>

StartAsk(r) ==
  /\ task[r] = Idle /\ ~asked /\ enrollment = "ACTIVE"
  /\ Go(r, "ask", {})
  /\ UNCHANGED <<discussion, raced>>

CreateQuestion(r) ==
  /\ task[r].pc = "ask" /\ ~asked /\ asked' = TRUE
  /\ Finish(r)
  /\ UNCHANGED <<enrollment, free, answers, best, comment, reviewed, raced>>

StartAnswer(r) ==
  /\ task[r] = Idle /\ asked /\ MayPost
  /\ \E a \in Answers \ answers : Go(r, "answer", {a})
  /\ UNCHANGED <<discussion, raced>>

CreateAnswer(r) ==
  /\ task[r].pc = "answer"
  /\ answers' = answers \union task[r].of
  /\ Finish(r)
  /\ UNCHANGED <<enrollment, free, asked, best, comment, reviewed, raced>>

\* markBestAnswer, of either service: the answer is read first.
StartMark(r) ==
  /\ task[r] = Idle
  /\ \E a \in answers, pc \in {"clearOthers", "clearAll"} : Go(r, pc, {a})
  /\ UNCHANGED <<discussion, raced>>

\* (mutant) the answer marked before keeps its mark
ClearNone(r) == {}

\* The rows the updateMany finds: the question's best answers, the own one
\* excepted by DiscussionsService.
Cleared(r) == IF task[r].pc = "clearAll" THEN best ELSE best \ task[r].of

\* A row another transaction has written is waited for.
ClearBest(r) ==
  /\ task[r].pc \in {"clearOthers", "clearAll"}
  /\ Cleared(r) \intersect Locked(r) = {}
  /\ task' = [task EXCEPT ![r].pc = "set", ![r].cleared = Cleared(r)]
  /\ raced' = (raced \/ \E o \in Requests : task[o].pc = "set")
  /\ UNCHANGED discussion

SetBest(r) ==
  /\ task[r].pc = "set"
  /\ task[r].of \intersect Locked(r) = {}
  /\ best' = (best \ task[r].cleared) \union task[r].of
  /\ Finish(r)
  /\ UNCHANGED <<enrollment, free, asked, answers, comment, reviewed, raced>>

\* createComment: assertCanComment asks for an enrolment in force.
StartComment(r) ==
  /\ task[r] = Idle /\ enrollment = "ACTIVE" /\ ~comment.there
  /\ Go(r, "comment", {})
  /\ UNCHANGED <<discussion, raced>>

\* (mutant) a flagged comment waits for its review in the open
Shown(flagged) == FALSE

\* autoHideThreshold is one
HiddenAtFirst(flagged) == flagged

CreateComment(r) ==
  /\ task[r].pc = "comment" /\ ~comment.there
  /\ \E flagged \in BOOLEAN :
       comment' = [there |-> TRUE, flagged |-> flagged, hidden |-> HiddenAtFirst(flagged),
                   review |-> IF flagged THEN "PENDING" ELSE "APPROVED"]
  /\ Finish(r)
  /\ UNCHANGED <<enrollment, free, asked, answers, best, reviewed, raced>>

\* moderateComment: any verdict, at any time; hidden as told, or when rejected.
ModerateComment ==
  /\ comment.there
  /\ \E verdict \in Review, told \in {"no", "hide", "show"} :
       comment' = [comment EXCEPT !.review = verdict,
                     !.hidden = IF told = "no" THEN verdict = "REJECTED" ELSE told = "hide"]
  /\ reviewed' = TRUE
  /\ UNCHANGED <<enrollment, free, asked, answers, best, raced, task>>

\* handleAutoUnpublish, once enough people reported the comment (see CourseLifecycle).
StartHide(r) ==
  /\ task[r] = Idle /\ comment.there /\ ~comment.hidden
  /\ Go(r, "hide", {})
  /\ UNCHANGED <<discussion, raced>>

HideComment(r) ==
  /\ task[r].pc = "hide"
  /\ comment' = [comment EXCEPT !.hidden = TRUE]
  /\ Finish(r)
  /\ UNCHANGED <<enrollment, free, asked, answers, best, reviewed, raced>>

\* findCommentsForDiscussion, findCommentById
Visible == comment.there /\ ~comment.hidden /\ comment.review # "REJECTED"

Enroll ==
  /\ enrollment = "none" /\ enrollment' = "ACTIVE"
  /\ UNCHANGED <<free, asked, answers, best, comment, reviewed, raced, task>>

Refund ==
  /\ enrollment = "ACTIVE" /\ enrollment' = "REFUNDED"
  /\ UNCHANGED <<free, asked, answers, best, comment, reviewed, raced, task>>

\* A crash, a failed query, or the database ends a deadlock of two transactions.
Abort(r) ==
  /\ task[r] # Idle
  /\ Finish(r)
  /\ UNCHANGED <<discussion, raced>>

Init ==
  /\ enrollment = "none" /\ free \in BOOLEAN /\ asked = FALSE /\ answers = {} /\ best = {}
  /\ comment = NoComment /\ reviewed = FALSE /\ raced = FALSE
  /\ task = [r \in Requests |-> Idle]

Next ==
  \/ \E r \in Requests :
       \/ StartAskAnywhere(r) \/ StartAsk(r) \/ CreateQuestion(r)
       \/ StartAnswer(r) \/ CreateAnswer(r)
       \/ StartMark(r) \/ ClearBest(r) \/ SetBest(r)
       \/ StartComment(r) \/ CreateComment(r) \/ StartHide(r) \/ HideComment(r)
       \/ Abort(r)
  \/ ModerateComment \/ Enroll \/ Refund

Spec == Init /\ [][Next]_vars

------------------------------------------------------------------------------

TypeOK ==
  /\ enrollment \in {"none", "ACTIVE", "REFUNDED"}
  /\ free \in BOOLEAN /\ asked \in BOOLEAN
  /\ best \subseteq answers /\ answers \subseteq Answers
  /\ comment \in [there : BOOLEAN, flagged : BOOLEAN, hidden : BOOLEAN, review : Review]
  /\ reviewed \in BOOLEAN /\ raced \in BOOLEAN
  /\ task \in [Requests -> TaskType]

\* In a lesson that is not free nobody who was never enrolled asks or answers
\* (discussions.service.ts:42, 183-196, questions.service.ts:46-60, 154-169).  Unless two
\* markings overlapped, a question has at most one best answer, though two services
\* mark them, each with an updateMany of its own (discussions.service.ts:165-175,
\* questions.service.ts:208-221).  A comment the scan flagged is read by others only
\* once an administrator judged it (comment-moderation.service.ts:89-110, 143-160).
DiscussionSound ==
  /\ (asked \/ answers # {}) /\ ~free => enrollment # "none"
  /\ ~raced => Cardinality(best) <= 1
  /\ Visible /\ comment.flagged => reviewed
==============================================================================
