----------------------------- MODULE CourseBackups -----------------------------
(***************************************************************************)
(* BackupsService: the numbered snapshots of one course.  An export reads  *)
(* the course, then the newest version, then inserts, each in an await of  *)
(* its own, for a request or for the midnight cron.  A course's structure  *)
(* maps the ids of modules and lessons to what is wrong with the part, "-" *)
(* for a part that is not there: an "untitled" part is refused by a        *)
(* restore, an "empty" one (no video, no text) only reported by an export. *)
(***************************************************************************)
EXTENDS Integers, Sequences

CONSTANTS
  Parts,         \* ids of modules and lessons
  Exporters,     \* requests and the cron
  MaxEdits,      \* bound: edits of the course
  MaxVersions    \* bound: backups of the course

ConstantsAssumption == MaxEdits \in Nat /\ MaxVersions \in Nat

VARIABLES
  status,        \* Course.status
  structure,
  edits,         \* how often the course changed
  backups,       \* the course's backups, version = index
  export,        \* per exporter what it has read
  raced          \* history: two exports overlapped

vars == <<status, structure, edits, backups, export, raced>>

Structures == [Parts -> {"-", "none", "untitled", "empty"}]
PartsOf(s) == {p \in Parts : s[p] # "-"}

\* validateCompleteness: parts, all titled, each with its content.
Complete(s) == PartsOf(s) # {} /\ \A p \in PartsOf(s) : s[p] = "none"

\* validateBackupAgainstSchema: what the rows cannot do without.
Restorable(s) == \A p \in PartsOf(s) : s[p] # "untitled"

Idle == [pc |-> "idle", parts |-> [p \in Parts |-> "-"], age |-> 0, next |-> 0]

EditCourse ==
  /\ edits < MaxEdits
  /\ \E s \in Structures : s # structure /\ structure' = s
  /\ status' \in {"ACTIVE", "DRAFT", "PENDING", "ARCHIVED"}
  /\ edits' = edits + 1
  /\ UNCHANGED <<backups, export, raced>>

StartExport(x) ==
  /\ export[x] = Idle
  /\ export' = [export EXCEPT ![x] =
       [Idle EXCEPT !.pc = "version", !.parts = structure, !.age = edits]]
  /\ raced' = (raced \/ \E o \in Exporters \ {x} : export[o] # Idle)
  /\ UNCHANGED <<status, structure, edits, backups>>

\* runScheduledBackups: courses that are not archived or withdrawn, whatever
\* becomes of them before their turn.
ScheduledExport(x) == status \in {"ACTIVE", "DRAFT", "PENDING"} /\ StartExport(x)

\* The read of the newest version, of which only a request over the course's own
\* backups is a guard: an administrator's, or the instructor's.
ReadLatestVersion(x) ==
  /\ export[x].pc = "version"
  /\ export' = [export EXCEPT ![x].pc = "insert", ![x].next = Len(backups) + 1]
  /\ UNCHANGED <<status, structure, edits, backups, raced>>

\* (mutant) the snapshot is taken again at the insert, its number is older
ReadAgain(x) == [parts |-> structure, age |-> edits, complete |-> Complete(export[x].parts)]

Snapshot(x) ==
  [parts |-> export[x].parts, age |-> export[x].age, complete |-> Complete(export[x].parts)]

\* The number is unique per course: of two exports with one number the second fails.
InsertBackup(x) ==
  /\ export[x].pc = "insert" /\ Len(backups) < MaxVersions
  /\ backups' = IF export[x].next = Len(backups) + 1 THEN Append(backups, Snapshot(x))
                ELSE backups
  /\ export' = [export EXCEPT ![x] = Idle]
  /\ UNCHANGED <<status, structure, edits, raced>>

\* An error or a crash; the cron goes on with its next course.
ExportFails(x) ==
  /\ export[x] # Idle
  /\ export' = [export EXCEPT ![x] = Idle]
  /\ UNCHANGED <<status, structure, edits, backups, raced>>

Init ==
  /\ status = "DRAFT" /\ structure = [p \in Parts |-> "-"] /\ edits = 0
  /\ backups = <<>> /\ export = [x \in Exporters |-> Idle] /\ raced = FALSE

Next ==
  \/ EditCourse
  \/ \E x \in Exporters :
       \/ StartExport(x) \/ ScheduledExport(x)
       \/ ReadLatestVersion(x) \/ InsertBackup(x) \/ ExportFails(x)

Spec == Init /\ [][Next]_vars

------------------------------------------------------------------------------

TypeOK ==
  /\ structure \in Structures /\ edits \in 0..MaxEdits /\ Len(backups) <= MaxVersions
  /\ \A x \in Exporters :
       export[x].pc \in {"idle", "version", "insert"} /\ export[x].next \in 0..MaxVersions + 1
  /\ raced \in BOOLEAN

\* Unless two exports overlapped, a higher version never holds an older state of
\* the course; and what a version calls complete is what it holds, so that it
\* passes the validation of a restore (backups.service.ts:60-91, 153-163).
VersionsSound ==
  /\ ~raced => \A i, k \in DOMAIN backups : i < k => backups[i].age <= backups[k].age
  /\ \A i \in DOMAIN backups : backups[i].complete => Restorable(backups[i].parts)
==============================================================================
