---------------------------- MODULE CourseEditing ----------------------------
(***************************************************************************)
(* What is edited beside a course: its tags, which admins create, rename,  *)
(* merge and attach (TagsService), and the draft that the open tabs of     *)
(* its instructor save again and again (CourseAutosaveService).            *)
(***************************************************************************)
EXTENDS Integers, FiniteSets

CONSTANTS
  Tags,
  Slugs,          \* what labels are normalised to
  Courses,
  Requests,       \* of admins, over tags
  Drafts,         \* ids of draft rows
  Tabs,           \* open editors of one course, of its instructor
  MaxSaves,       \* bound: saves
  None

ConstantsAssumption ==
  /\ IsFiniteSet(Courses) /\ MaxSaves \in Nat
  /\ None \notin Slugs /\ None \notin Drafts /\ None \notin [version : Nat, save : Nat]

VARIABLES
  slug,           \* of each tag, None when there is no such tag
  links,          \* pairs of a course and a tag
  usage,          \* usageCount of each tag
  task,           \* of each request over tags
  overlapped,     \* history: a tag request wrote between a merge's count and its commit
  draft,          \* rows: version and the save it holds, or None
  tab,            \* of each editor: what it saw last and what it is doing
  saves,          \* saves so far; each has its number
  tabsRaced,      \* history: saves overlapped
  blind,          \* history: a save named no version
  reborn,         \* history: a draft was deleted while a tab was open on it
  overwritten     \* history: a save replaced one its tab had not seen

tagVars == <<slug, links, usage, task, overlapped>>
draftVars == <<draft, tab, saves, tabsRaced, blind, reborn, overwritten>>
vars == <<tagVars, draftVars>>

Exists(t) == slug[t] # None
CoursesOf(t) == {c \in Courses : <<c, t>> \in links}
NoTask == [pc |-> "idle", tag |-> None, sources |-> {}, moved |-> {}, count |-> 0,
           course |-> None]
Finish(r) == task' = [task EXCEPT ![r] = NoTask]

\* The merges that have counted and not yet committed hold the rows of their sources.
Counting == {r \in Requests : task[r].pc = "commit"}
Locked(t) == \E r \in Counting : t \in task[r].sources
Overlaps(t, r) == overlapped' = (overlapped \/ \E o \in Counting \ {r} : task[o].tag = t)

------------------------------------------------------------------------------
\* TagsService

\* create and update: the unique index decides between two that saw the slug free.  An id
\* is not given twice while a request still names it.
Create(t, s) ==
  /\ ~Exists(t) /\ \A r \in Requests : t \notin task[r].sources /\ task[r].tag # t
  /\ s \notin {slug[u] : u \in Tags}
  /\ slug' = [slug EXCEPT ![t] = s] /\ usage' = [usage EXCEPT ![t] = 0]
  /\ UNCHANGED <<links, task, overlapped>> /\ UNCHANGED draftVars

Rename(t, s) ==
  /\ Exists(t) /\ ~Locked(t) /\ s \notin {slug[u] : u \in Tags \ {t}}
  /\ slug' = [slug EXCEPT ![t] = s]
  /\ UNCHANGED <<links, usage, task, overlapped>> /\ UNCHANGED draftVars

\* The links of a deleted tag go with it.
Delete(gone) ==
  /\ slug' = [t \in Tags |-> IF t \in gone THEN None ELSE slug[t]]
  /\ usage' = [t \in Tags |-> IF t \in gone THEN 0 ELSE usage[t]]

RemoveTag(t) ==
  /\ Exists(t) /\ ~Locked(t) /\ Delete({t})
  /\ links' = {l \in links : l[2] # t}
  /\ UNCHANGED <<task, overlapped>> /\ UNCHANGED draftVars

\* merge: the checks and the transaction's reads of the links of the sources ...
StartMerge(r, t) ==
  /\ task[r] = NoTask /\ Exists(t)
  /\ \E sources \in (SUBSET {s \in Tags \ {t} : Exists(s) /\ ~Locked(s)}) \ {{}} :
       task' = [task EXCEPT ![r] = [@ EXCEPT !.pc = "merge", !.tag = t, !.sources = sources,
                                             !.moved = UNION {CoursesOf(s) : s \in sources}]]
  /\ UNCHANGED <<slug, links, usage, overlapped>> /\ UNCHANGED draftVars

\* (mutant) what was moved is added up, links the target had already too
AddedUp(r) ==
  usage[task[r].tag] + Cardinality(task[r].moved)

\* ... what it then counts on the target, its own links among them ...
Counted(r) ==
  Cardinality(CoursesOf(task[r].tag) \union task[r].moved)

CountLinks(r) ==
  LET t == task[r].tag
  IN /\ task[r].pc = "merge"
     /\ IF \A u \in {t} \union task[r].sources : Exists(u) /\ ~Locked(u)
        THEN task' = [task EXCEPT ![r].pc = "commit", ![r].count = Counted(r)] ELSE Finish(r)
     /\ UNCHANGED <<slug, links, usage, overlapped>> /\ UNCHANGED draftVars

\* ... and the count it writes.
CommitMerge(r) ==
  LET t == task[r].tag
      gone == task[r].sources
  IN /\ task[r].pc = "commit"
     /\ IF Exists(t)
        THEN /\ slug' = [u \in Tags |-> IF u \in gone THEN None ELSE slug[u]]
             /\ usage' = [u \in Tags |-> IF u = t THEN task[r].count
                                         ELSE IF u \in gone THEN 0 ELSE usage[u]]
             /\ links' = {l \in links : l[2] \notin gone} \union task[r].moved \X {t}
        ELSE UNCHANGED <<slug, links, usage>>
     /\ Overlaps(t, r) /\ Finish(r) /\ UNCHANGED draftVars

\* attachToCourse and detachFromCourse check, then write link and count in one transaction.
StartLink(r, pc, c, t) ==
  /\ task[r] = NoTask /\ Exists(t)
  /\ (pc = "attach") = (<<c, t>> \notin links)
  /\ task' = [task EXCEPT ![r] = [@ EXCEPT !.pc = pc, !.tag = t, !.course = c]]
  /\ UNCHANGED <<slug, links, usage, overlapped>> /\ UNCHANGED draftVars

\* A tag that is gone, or a link another merge is writing, refuses the insert.
Attach(r) ==
  LET t == task[r].tag  l == <<task[r].course, t>>
  IN /\ task[r].pc = "attach" /\ ~Locked(t)
     /\ ~\E m \in Counting : task[m].tag = t /\ task[r].course \in task[m].moved
     /\ IF Exists(t) /\ l \notin links
        THEN links' = links \union {l} /\ usage' = [usage EXCEPT ![t] = @ + 1] /\ Overlaps(t, r)
        ELSE UNCHANGED <<links, usage, overlapped>>
     /\ Finish(r) /\ UNCHANGED slug /\ UNCHANGED draftVars

\* A link that is gone fails the transaction; GREATEST keeps the count at zero.
Detach(r) ==
  LET t == task[r].tag  l == <<task[r].course, t>>
  IN /\ task[r].pc = "detach" /\ ~Locked(t)
     /\ IF l \in links
        THEN /\ links' = links \ {l} /\ Overlaps(t, r)
             /\ usage' = [usage EXCEPT ![t] = IF @ > 0 THEN @ - 1 ELSE 0]
        ELSE UNCHANGED <<links, usage, overlapped>>
     /\ Finish(r) /\ UNCHANGED slug /\ UNCHANGED draftVars

------------------------------------------------------------------------------
\* CourseAutosaveService

Fresh == [version |-> 1, save |-> saves + 1]
NoTab == [version |-> 0, save |-> 0, pc |-> "idle", row |-> None, read |-> 0]
Rows == {d \in Drafts : draft[d] # None}

\* getRecoveredDraft, getDraftById
Open(w) ==
  /\ tab[w].pc = "idle"
  /\ \E d \in Rows :
       tab' = [tab EXCEPT ![w] = [@ EXCEPT !.version = draft[d].version, !.save = draft[d].save]]
  /\ UNCHANGED <<draft, saves, tabsRaced, blind, reborn, overwritten>> /\ UNCHANGED tagVars

\* (mutant) any version is taken
AnyVersion(w, d) ==
  TRUE

\* The version the tab names is the one of the row.
Current(w, d) ==
  tab[w].version = draft[d].version

\* autosave: the row by its id or by the course (any row, when two were created), and the
\* check of the version, when one is given.
StartSave(w) ==
  /\ tab[w].pc = "idle"
  /\ tabsRaced' = (tabsRaced \/ \E o \in Tabs \ {w} : tab[o].pc = "save")
  /\ \/ /\ Rows = {} /\ blind' = blind
        /\ tab' = [tab EXCEPT ![w] = [@ EXCEPT !.pc = "save", !.row = None]]
     \/ \E d \in Rows, given \in BOOLEAN :
          /\ given => Current(w, d)
          /\ blind' = (blind \/ ~given)
          /\ tab' = [tab EXCEPT ![w] = [@ EXCEPT !.pc = "save", !.row = d,
                                                 !.read = draft[d].version]]
  /\ UNCHANGED <<draft, saves, reborn, overwritten>> /\ UNCHANGED tagVars

\* The update by id, with the version that was read plus one; a deleted row refuses it.
Save(w) ==
  LET d == tab[w].row
      stored == [version |-> tab[w].read + 1, save |-> saves + 1]
      done == [NoTab EXCEPT !.version = stored.version, !.save = stored.save]
  IN /\ tab[w].pc = "save" /\ d # None /\ saves < MaxSaves
     /\ IF draft[d] # None
        THEN /\ draft' = [draft EXCEPT ![d] = stored] /\ saves' = saves + 1
             /\ overwritten' = (overwritten \/ draft[d].save # tab[w].save)
             /\ tab' = [tab EXCEPT ![w] = done]
        ELSE /\ tab' = [tab EXCEPT ![w] = [@ EXCEPT !.pc = "idle", !.row = None, !.read = 0]]
             /\ UNCHANGED <<draft, saves, overwritten>>
     /\ UNCHANGED <<tabsRaced, blind, reborn>> /\ UNCHANGED tagVars

CreateDraft(w) ==
  /\ tab[w].pc = "save" /\ tab[w].row = None /\ saves < MaxSaves
  /\ \E d \in Drafts \ (Rows \union {tab[o].row : o \in Tabs}) :
       draft' = [draft EXCEPT ![d] = Fresh]
  /\ saves' = saves + 1
  /\ tab' = [tab EXCEPT ![w] = [NoTab EXCEPT !.version = 1, !.save = saves + 1]]
  /\ UNCHANGED <<tabsRaced, blind, reborn, overwritten>> /\ UNCHANGED tagVars

\* discardDraft, or clearDraftOnSubmit, which takes every row of the course.
Discard(gone) ==
  /\ gone \subseteq Rows /\ gone # {}
  /\ draft' = [d \in Drafts |-> IF d \in gone THEN None ELSE draft[d]]
  /\ reborn' = (reborn \/ \E w \in Tabs : tab[w].version > 0)
  /\ UNCHANGED <<tab, saves, tabsRaced, blind, overwritten>> /\ UNCHANGED tagVars

Init ==
  /\ slug = [t \in Tags |-> None] /\ links = {} /\ usage = [t \in Tags |-> 0]
  /\ task = [r \in Requests |-> NoTask] /\ overlapped = FALSE
  /\ draft = [d \in Drafts |-> None] /\ tab = [w \in Tabs |-> NoTab] /\ saves = 0
  /\ tabsRaced = FALSE /\ blind = FALSE /\ reborn = FALSE /\ overwritten = FALSE

TagStep ==
  \/ \E t \in Tags :
       \/ \E s \in Slugs : Create(t, s) \/ Rename(t, s)
       \/ RemoveTag(t)
       \/ \E r \in Requests :
            \/ StartMerge(r, t)
            \/ \E c \in Courses, pc \in {"attach", "detach"} : StartLink(r, pc, c, t)
  \/ \E r \in Requests : CountLinks(r) \/ CommitMerge(r) \/ Attach(r) \/ Detach(r)

DraftStep ==
  \/ \E w \in Tabs : Open(w) \/ StartSave(w) \/ Save(w) \/ CreateDraft(w)
  \/ Discard(Rows) \/ \E d \in Drafts : Discard({d})

Next == TagStep \/ DraftStep

Spec == Init /\ [][Next]_vars

------------------------------------------------------------------------------

TypeOK ==
  /\ slug \in [Tags -> Slugs \union {None}] /\ links \subseteq Courses \X Tags
  /\ usage \in [Tags -> Nat] /\ overlapped \in BOOLEAN
  /\ \A r \in Requests : task[r].pc \in {"idle", "merge", "commit", "attach", "detach"}
  /\ \A d \in Rows : draft[d] \in [version : 1..MaxSaves, save : 1..MaxSaves]
  /\ \A w \in Tabs : tab[w].pc \in {"idle", "save"}
  /\ saves \in 0..MaxSaves /\ {tabsRaced, blind, reborn, overwritten} \subseteq BOOLEAN

\* A tag's usageCount is the number of its courses, whatever was attached, detached and
\* merged, unless a link was written between the count of a merge and its commit
\* (tags.service.ts:284-288, 335-341, 365-375).  A save of the draft replaces only one its
\* tab has seen, unless two saves overlapped (course-autosave.service.ts:46-57, 82-95), a
\* save gave no version, or the draft was deleted and begun again at version 1.
EditingSound ==
  /\ ~overlapped => \A t \in Tags : usage[t] = Cardinality(CoursesOf(t))
  /\ ~tabsRaced /\ ~blind /\ ~reborn => ~overwritten
===============================================================================
