---------------------------- MODULE CourseLifecycle ----------------------------
(***************************************************************************)
(* One course of the catalogue: its status as the instructor, the          *)
(* administrators, chain events and abuse reports change it, the search    *)
(* index and the cached list that follow, and the readers that fill the    *)
(* cache.  Every handler stops at every await; whoever changes the status  *)
(* writes it by id, then the index, then drops the cached lists.           *)
(***************************************************************************)
EXTENDS Naturals, FiniteSets

CONSTANTS
  Requests,
  Reporters,
  Threshold,      \* DEFAULT_UNPUBLISH_THRESHOLD
  MaxReports      \* bound: reports filed by one reporter

ConstantsAssumption == IsFiniteSet(Reporters) /\ Threshold \in Nat /\ MaxReports \in Nat

VARIABLES
  status,
  indexed,        \* status in the indexed document, or "none"
  cached,         \* what the cached list says: "none", "shown" or "hidden"
  open,           \* reports of each reporter that are not resolved
  filed,          \* history: reporters who ever reported the course
  disturbed,      \* history: the index was updated for a status that has changed,
                  \* or not updated at all
  stale,          \* history: the same for the cached list
  task

catalogue == <<status, indexed, cached>>
reporting == <<open, filed>>
vars == <<catalogue, reporting, disturbed, stale, task>>

Statuses == {"DRAFT", "PENDING", "ACTIVE", "PAUSED", "ARCHIVED"}
Idle == [pc |-> "idle", to |-> "none", doc |-> "none", by |-> "none"]
TaskType ==
  [pc : {"idle", "write", "readDoc", "index", "remove", "invalidate",
         "fetch", "fill", "file", "count", "check"},
   to : Statuses \union {"none", "same"},     \* the status to be written
   doc : Statuses \union {"none"},            \* the status as read
   by : Reporters \union {"none"}]

At(r, pc) == task[r].pc = pc
Goto(r, pc) == task' = [task EXCEPT ![r] = [Idle EXCEPT !.pc = pc]]
Finish(r) == task' = [task EXCEPT ![r] = Idle]
WriteNext(r, to) == task' = [task EXCEPT ![r] = [Idle EXCEPT !.pc = "write", !.to = to]]

Create(r) ==
  /\ task[r] = Idle /\ status = "none"
  /\ status' = "DRAFT"
  /\ Goto(r, "invalidate")
  /\ UNCHANGED <<indexed, cached, reporting, disturbed, stale>>

\* submitForReview, approve, reject and update read the course first.
ReadCourse(r) ==
  /\ task[r] = Idle
  /\ \/ status = "DRAFT" /\ WriteNext(r, "PENDING")
     \/ status = "PENDING" /\ (WriteNext(r, "ACTIVE") \/ WriteNext(r, "DRAFT"))
     \/ status \notin {"none", "ARCHIVED"} /\ WriteNext(r, "same")
  /\ UNCHANGED <<catalogue, reporting, disturbed, stale>>

\* approveCourse, pauseCourse and archiveCourse read nothing.
HandleChainEvent(r) ==
  /\ task[r] = Idle /\ status # "none"
  /\ \E to \in {"ACTIVE", "PAUSED", "ARCHIVED"} : WriteNext(r, to)
  /\ UNCHANGED <<catalogue, reporting, disturbed, stale>>

\* (mutant) a course that leaves the catalogue stays in the index
NeverRemoved(to) == IF to = "ACTIVE" THEN "readDoc" ELSE "invalidate"

\* What follows a status: a submission changes no list, a delisting leaves the index.
Follow(to) ==
  CASE to = "ACTIVE" -> "readDoc"
    [] to \in {"PAUSED", "ARCHIVED"} -> "remove"
    [] OTHER -> "invalidate"

Indexing(o) == task[o].pc \in {"index", "remove"}

\* A late submission or rejection is written over a status it never saw.
Unread(to) == to \in {"PENDING", "DRAFT"} /\ status = "ACTIVE"

WriteStatus(r) ==
  LET to == task[r].to IN
  /\ At(r, "write")
  /\ status' = IF to = "same" THEN status ELSE to
  /\ CASE to = "PENDING" -> Finish(r)
       [] to = "same" -> Goto(r, IF status = "ACTIVE" THEN "readDoc" ELSE "invalidate")
       [] OTHER -> Goto(r, Follow(to))
  /\ disturbed' = (disturbed \/ Unread(to) \/ (status' # status /\ \E o \in Requests : Indexing(o)))
  /\ stale' = (stale \/ Unread(to))
  /\ UNCHANGED <<indexed, cached, reporting>>

\* indexCourseForSearch reads the course again and indexes whatever it is by then.
ReadDocument(r) ==
  /\ At(r, "readDoc")
  /\ task' = [task EXCEPT ![r].pc = "index", ![r].doc = status]
  /\ UNCHANGED <<catalogue, reporting, disturbed, stale>>

IndexCourse(r) ==
  /\ At(r, "index")
  /\ indexed' = task[r].doc
  /\ Goto(r, "invalidate")
  /\ UNCHANGED <<status, cached, reporting, disturbed, stale>>

RemoveCourse(r) ==
  /\ At(r, "remove")
  /\ indexed' = "none"
  /\ Goto(r, "invalidate")
  /\ UNCHANGED <<status, cached, reporting, disturbed, stale>>

\* A failure of the search service is logged only.
SearchFails(r) ==
  /\ task[r].pc \in {"readDoc", "index", "remove"}
  /\ disturbed' = TRUE
  /\ Goto(r, "invalidate")
  /\ UNCHANGED <<catalogue, reporting, stale>>

\* What a list of ACTIVE courses made of a status shows.
Listed(s) == IF s = "ACTIVE" THEN "shown" ELSE "hidden"

InvalidateCourseCaches(r) ==
  /\ At(r, "invalidate")
  /\ cached' = "none"
  /\ stale' = (stale \/ \E o \in Requests :
                          At(o, "fill") /\ Listed(task[o].doc) # Listed(status))
  /\ Finish(r)
  /\ UNCHANGED <<status, indexed, reporting, disturbed>>

\* HttpCacheInterceptor: on a miss the list is read and stored.
Miss(r) ==
  /\ task[r] = Idle /\ cached = "none"
  /\ Goto(r, "fetch")
  /\ UNCHANGED <<catalogue, reporting, disturbed, stale>>

FetchList(r) ==
  /\ At(r, "fetch")
  /\ task' = [task EXCEPT ![r].pc = "fill", ![r].doc = status]
  /\ UNCHANGED <<catalogue, reporting, disturbed, stale>>

FillCache(r) ==
  /\ At(r, "fill")
  /\ cached' = Listed(task[r].doc)
  /\ Finish(r)
  /\ UNCHANGED <<status, indexed, reporting, disturbed, stale>>

Expire ==
  /\ cached # "none"
  /\ cached' = "none"
  /\ UNCHANGED <<status, indexed, reporting, disturbed, stale, task>>

\* createFlag: one open report for each reporter, as read.
StartReport(r, who) ==
  /\ task[r] = Idle /\ status # "none" /\ open[who] = 0
  /\ task' = [task EXCEPT ![r].pc = "file", ![r].by = who]
  /\ UNCHANGED <<catalogue, reporting, disturbed, stale>>

FileReport(r) ==
  LET who == task[r].by IN
  /\ At(r, "file") /\ open[who] < MaxReports
  /\ open' = [open EXCEPT ![who] = @ + 1]
  /\ filed' = filed \union {who}
  /\ Goto(r, "count")
  /\ UNCHANGED <<catalogue, disturbed, stale>>

\* (mutant) reports are counted, not the reporters
Rows == IF \E w \in Reporters : open[w] >= Threshold THEN Threshold
        ELSE Cardinality({w \in Reporters : open[w] > 0})

PendingCount == Cardinality({w \in Reporters : open[w] > 0})

CountReporters(r) ==
  /\ At(r, "count")
  /\ IF PendingCount >= Threshold THEN Goto(r, "check") ELSE Finish(r)
  /\ UNCHANGED <<catalogue, reporting, disturbed, stale>>

\* handleAutoUnpublish: any course that is not paused already.
AutoUnpublish(r) ==
  /\ At(r, "check")
  /\ IF status = "PAUSED" THEN Finish(r)
     ELSE WriteNext(r, "PAUSED")
  /\ UNCHANGED <<catalogue, reporting, disturbed, stale>>

ResolveFlag(who) ==
  /\ open[who] > 0
  /\ open' = [open EXCEPT ![who] = @ - 1]
  /\ UNCHANGED <<catalogue, filed, disturbed, stale, task>>

\* A crash between two steps.  An index or a cache not yet updated stays behind.
Crash(r) ==
  /\ task[r] # Idle
  /\ disturbed' = (disturbed \/ task[r].pc \in {"readDoc", "index", "remove"})
  /\ stale' = (stale \/ task[r].pc \in {"readDoc", "index", "remove", "invalidate"})
  /\ Finish(r)
  /\ UNCHANGED <<catalogue, reporting>>

Init ==
  /\ status = "none" /\ indexed = "none" /\ cached = "none"
  /\ open = [w \in Reporters |-> 0] /\ filed = {}
  /\ disturbed = FALSE /\ stale = FALSE
  /\ task = [r \in Requests |-> Idle]

Step(r) ==
  \/ Create(r) \/ ReadCourse(r) \/ HandleChainEvent(r) \/ WriteStatus(r)
  \/ ReadDocument(r) \/ IndexCourse(r) \/ RemoveCourse(r) \/ SearchFails(r)
  \/ InvalidateCourseCaches(r)
  \/ Miss(r) \/ FetchList(r) \/ FillCache(r)
  \/ FileReport(r) \/ CountReporters(r) \/ AutoUnpublish(r)
  \/ Crash(r)

Next ==
  \/ \E r \in Requests : Step(r) \/ \E w \in Reporters : StartReport(r, w)
  \/ \E w \in Reporters : ResolveFlag(w)
  \/ Expire

Spec == Init /\ [][Next]_vars

------------------------------------------------------------------------------

TypeOK ==
  /\ status \in Statuses \union {"none"} /\ indexed \in Statuses \union {"none"}
  /\ cached \in {"none", "shown", "hidden"}
  /\ open \in [Reporters -> 0..MaxReports] /\ filed \subseteq Reporters
  /\ disturbed \in BOOLEAN /\ stale \in BOOLEAN
  /\ task \in [Requests -> TaskType]

Settling(r) == task[r].pc \in {"readDoc", "index", "remove", "invalidate"}

\* "Each transition keeps the Meilisearch index and the Redis course-list caches
\* in step with the DB status" (courses.service.ts:415-417): when no handler is
\* half way, search finds the course exactly when it is ACTIVE, and a cached list
\* shows it exactly then, unless the status changed while another handler was at
\* the index, a late submission or rejection overwrote ACTIVE, or a list read before
\* an invalidation was stored after it.
CatalogueInStep ==
  (\A r \in Requests : ~Settling(r)) =>
    /\ ~disturbed => (indexed = "ACTIVE" <=> status = "ACTIVE")
    /\ ~stale /\ cached # "none" => cached = Listed(status)

\* Reports pause a course only when enough different people filed one, however
\* often one of them does (moderation.service.ts:58-71).
PausedByMany ==
  (\E r \in Requests : At(r, "check")) => Cardinality(filed) >= Threshold
==============================================================================
