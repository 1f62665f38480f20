-------------------------------- MODULE Reviews --------------------------------
(***************************************************************************)
(* ReviewsService: the reviews of one course and the rating copied into    *)
(* the course's row.  A handler reads the review, writes it, aggregates    *)
(* the table and writes the copy, each in an await of its own.             *)
(***************************************************************************)
EXTENDS Integers, FiniteSets

CONSTANTS
  Requests,
  Students,
  Ratings      \* ratings that are given

ConstantsAssumption ==
  IsFiniteSet(Students) /\ Students # {} /\ Ratings \subseteq Nat \ {0}

VARIABLES
  reviews,      \* rating of each student's review, 0 without one
  rating,       \* avgRating and totalReviews, as the sum and the number of ratings
  enrolled,     \* students with an enrolment, refunded ones included
  disturbed,    \* history: recomputations overlapped, or one did not happen
  task

vars == <<reviews, rating, enrolled, disturbed, task>>

NoStudent == CHOOSE s \in Students : TRUE
Idle == [pc |-> "idle", who |-> NoStudent, sum |-> 0, count |-> 0]
TaskType ==
  [pc : {"idle", "create", "update", "delete", "aggregate", "copy"},
   who : Students, sum : Nat, count : Nat]      \* the aggregate read

At(r, pc) == task[r].pc = pc
Begin(r, pc, who) ==
  /\ task[r] = Idle
  /\ task' = [task EXCEPT ![r] = [Idle EXCEPT !.pc = pc, !.who = who]]
Finish(r) == task' = [task EXCEPT ![r] = Idle]
Recompute(r) == task' = [task EXCEPT ![r] = [Idle EXCEPT !.pc = "aggregate"]]

Reviewers == {s \in Students : reviews[s] # 0}
\* One element for each point given: their number is the sum of the ratings.
Points == UNION {{s} \X (1 .. reviews[s]) : s \in Students}
Total == [sum |-> Cardinality(Points), count |-> Cardinality(Reviewers)]

\* create: enrolled, and without a review; updates and deletions need one.
ReadReview(r) ==
  /\ \E s \in Students :
       \/ s \in enrolled /\ reviews[s] = 0 /\ Begin(r, "create", s)
       \/ reviews[s] # 0 /\ (Begin(r, "update", s) \/ Begin(r, "delete", s))
  /\ UNCHANGED <<reviews, rating, enrolled, disturbed>>

\* A second review, or a change of a row that is gone, is refused by the database.
Refused(r) ==
  /\ \/ At(r, "create") /\ reviews[task[r].who] # 0
     \/ task[r].pc \in {"update", "delete"} /\ reviews[task[r].who] = 0
  /\ Finish(r)
  /\ UNCHANGED <<reviews, rating, enrolled, disturbed>>

Overlapped == \E o \in Requests : At(o, "copy")

WriteReview(r) ==
  /\ \/ At(r, "create") /\ reviews[task[r].who] = 0
     \/ At(r, "update") /\ reviews[task[r].who] # 0
  /\ \E n \in Ratings : reviews' = [reviews EXCEPT ![task[r].who] = n]
  /\ disturbed' = (disturbed \/ Overlapped)
  /\ Recompute(r)
  /\ UNCHANGED <<rating, enrolled>>

\* (mutant) a deletion leaves the copy as it is
NoRecompute(r) == Finish(r)

AfterDelete(r) == Recompute(r)

\* deleteMyReview and adminDeleteReview
DeleteReview(r) ==
  /\ At(r, "delete") /\ reviews[task[r].who] # 0
  /\ reviews' = [reviews EXCEPT ![task[r].who] = 0]
  /\ disturbed' = (disturbed \/ Overlapped)
  /\ AfterDelete(r)
  /\ UNCHANGED <<rating, enrolled>>

AggregateReviews(r) ==
  /\ At(r, "aggregate")
  /\ task' = [task EXCEPT ![r].pc = "copy", ![r].sum = Total.sum, ![r].count = Total.count]
  /\ UNCHANGED <<reviews, rating, enrolled, disturbed>>

CopyRating(r) ==
  /\ At(r, "copy")
  /\ rating' = [sum |-> task[r].sum, count |-> task[r].count]
  /\ Finish(r)
  /\ UNCHANGED <<reviews, enrolled, disturbed>>

Enroll(s) ==
  /\ s \notin enrolled
  /\ enrolled' = enrolled \union {s}
  /\ UNCHANGED <<reviews, rating, disturbed, task>>

Crash(r) ==
  /\ task[r] # Idle
  /\ disturbed' = (disturbed \/ task[r].pc \in {"aggregate", "copy"})
  /\ Finish(r)
  /\ UNCHANGED <<reviews, rating, enrolled>>

Init ==
  /\ reviews = [s \in Students |-> 0] /\ rating = [sum |-> 0, count |-> 0]
  /\ enrolled = {} /\ disturbed = FALSE
  /\ task = [r \in Requests |-> Idle]

Next ==
  \/ \E r \in Requests :
       \/ ReadReview(r) \/ Refused(r) \/ WriteReview(r) \/ DeleteReview(r)
       \/ AggregateReviews(r) \/ CopyRating(r)
       \/ Crash(r)
  \/ \E s \in Students : Enroll(s)

Spec == Init /\ [][Next]_vars

------------------------------------------------------------------------------

TypeOK ==
  /\ reviews \in [Students -> Ratings \union {0}]
  /\ rating \in [sum : Nat, count : Nat]
  /\ enrolled \subseteq Students
  /\ disturbed \in BOOLEAN /\ task \in [Requests -> TaskType]

\* When no handler is half way, the course's rating is that of its reviews, unless
\* a review changed between the aggregate and the write of another handler, or a
\* crash came between a review and its copy (reviews.service.ts:98-112).
RatingMatchesReviews ==
  ~disturbed /\ (\A r \in Requests : task[r].pc \notin {"aggregate", "copy"}) =>
    rating = Total
==============================================================================
