---------------------------- MODULE DatabaseBackup ----------------------------
(***************************************************************************)
(* DbBackupService: the nightly pg_dump of the whole database, uploaded to *)
(* an object store where backups past the retention are deleted.  Each     *)
(* process of the back end has its own flag and its own last status; the   *)
(* bucket is theirs together.                                              *)
(***************************************************************************)
EXTENDS Integers, FiniteSets

CONSTANTS
  Processes,
  Retention,     \* BACKUP_RETENTION_DAYS
  MaxDay         \* bound: days

ConstantsAssumption == Retention \in Nat \ {0} /\ MaxDay \in Nat

VARIABLES
  today,
  objects,       \* days of upload of the backups in the bucket
  stored,        \* history: a backup was stored
  run,           \* per process the run under way
  inProgress,    \* backupInProgress
  lastRun        \* lastRunStatus: state, and the day of its object, -1 without

vars == <<today, objects, stored, run, inProgress, lastRun>>

Idle == [pc |-> "idle", day |-> -1, started |-> 0, before |-> 0]

\* Assumed: no run takes as long as the retention.
Tick ==
  /\ today < MaxDay
  /\ \A p \in Processes : run[p] = Idle \/ today + 1 - run[p].started < Retention
  /\ today' = today + 1
  /\ UNCHANGED <<objects, stored, run, inProgress, lastRun>>

\* (mutant) old backups make room before the new one is stored
RoomFirst == [dump |-> "rotate", upload |-> "done", rotate |-> "upload"]

After == [dump |-> "upload", upload |-> "rotate", rotate |-> "done"]

\* runBackup, by the cron or a request: skipped while a run of this process is under
\* way, and where backups are disabled.
SkipRun(p) ==
  /\ lastRun' = [lastRun EXCEPT ![p] = [state |-> "SKIPPED", day |-> -1]]
  /\ UNCHANGED <<today, objects, stored, run, inProgress>>

StartRun(p) ==
  /\ ~inProgress[p]
  /\ inProgress' = [inProgress EXCEPT ![p] = TRUE]
  /\ run' = [run EXCEPT ![p] = [Idle EXCEPT !.pc = "dump", !.started = today]]
  /\ UNCHANGED <<today, objects, stored, lastRun>>

Proceed(p) ==
  run' = [run EXCEPT ![p].pc = After[run[p].pc],
                     ![p].before = IF After[run[p].pc] = "rotate" THEN today - Retention ELSE @]

\* createDump, then its size, validateDump and calculateChecksum.
Dump(p) ==
  /\ run[p].pc = "dump" /\ Proceed(p)
  /\ UNCHANGED <<today, objects, stored, inProgress, lastRun>>

Upload(p) ==
  /\ run[p].pc = "upload"
  /\ objects' = objects \union {today} /\ stored' = TRUE
  /\ run' = [run EXCEPT ![p].pc = After["upload"], ![p].day = today,
                        ![p].before = today - Retention]
  /\ UNCHANGED <<today, inProgress, lastRun>>

\* rotateExpiredBackups, page by page: what was stored before the retention began.
Expired(p) == {d \in objects : d < run[p].before}

RotatePage(p) ==
  /\ run[p].pc = "rotate" /\ Expired(p) # {}
  /\ \E page \in SUBSET Expired(p) \ {{}} : objects' = objects \ page
  /\ UNCHANGED <<today, stored, run, inProgress, lastRun>>

RotationEnds(p) ==
  /\ run[p].pc = "rotate" /\ Expired(p) = {} /\ Proceed(p)
  /\ UNCHANGED <<today, objects, stored, inProgress, lastRun>>

\* The status, then the temporary directory, then the flag.
End(p, state) ==
  /\ lastRun' = [lastRun EXCEPT ![p] = [state |-> state, day |-> run[p].day]]
  /\ run' = [run EXCEPT ![p] = [Idle EXCEPT !.pc = "cleanUp", !.started = run[p].started]]
  /\ UNCHANGED <<today, objects, stored, inProgress>>
Succeed(p) == run[p].pc = "done" /\ End(p, "SUCCESS")
Fail(p) == run[p].pc \in {"dump", "upload", "rotate"} /\ End(p, "FAILED")

CleanUp(p) ==
  /\ run[p].pc = "cleanUp"
  /\ run' = [run EXCEPT ![p] = Idle]
  /\ inProgress' = [inProgress EXCEPT ![p] = FALSE]
  /\ UNCHANGED <<today, objects, stored, lastRun>>

Restart(p) ==
  /\ run' = [run EXCEPT ![p] = Idle]
  /\ inProgress' = [inProgress EXCEPT ![p] = FALSE]
  /\ lastRun' = [lastRun EXCEPT ![p] = [state |-> "none", day |-> -1]]
  /\ UNCHANGED <<today, objects, stored>>

Init ==
  /\ today = 0 /\ objects = {} /\ stored = FALSE
  /\ run = [p \in Processes |-> Idle] /\ inProgress = [p \in Processes |-> FALSE]
  /\ lastRun = [p \in Processes |-> [state |-> "none", day |-> -1]]

Next ==
  \/ Tick
  \/ \E p \in Processes :
       \/ SkipRun(p) \/ StartRun(p) \/ Dump(p) \/ Upload(p)
       \/ RotatePage(p) \/ RotationEnds(p) \/ Succeed(p) \/ Fail(p)
       \/ CleanUp(p) \/ Restart(p)

Spec == Init /\ [][Next]_vars

------------------------------------------------------------------------------

TypeOK ==
  /\ today \in 0..MaxDay /\ objects \subseteq 0..MaxDay /\ stored \in BOOLEAN
  /\ \A p \in Processes :
       /\ run[p].pc \in {"idle", "dump", "upload", "rotate", "done", "cleanUp"}
       /\ lastRun[p].state \in {"none", "SUCCESS", "FAILED", "SKIPPED"}
       /\ inProgress[p] = (run[p] # Idle)

\* Once a backup was stored the bucket is never empty, whichever step of whichever
\* run fails: old backups are deleted only after a new one was stored
\* (db-backup.service.ts:106-120, 221-270).
NeverWithoutBackup == stored => objects # {}
==============================================================================
