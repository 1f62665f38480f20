------------------------------ MODULE CronMonitor ------------------------------
(***************************************************************************)
(* CronMonitorService and its scheduler: one row per execution of a cron   *)
(* job, written when it starts and when it ends.  Rows still RUNNING after *)
(* a threshold are read by a cleanup and marked FAILED by id.              *)
(***************************************************************************)
EXTENDS Naturals, FiniteSets

CONSTANTS
  Runs,          \* executions of jobs
  Cleaners       \* ticks of the cleanup cron

VARIABLES
  status,        \* per run its CronJobRun.status, or "none"
  stale,         \* runs that started longer than the threshold ago
  outcome,       \* history: what became of the job itself
  pc,            \* per run where its process is
  found,         \* per cleaner the rows it read
  disturbed      \* history: runs whose row a cleanup or an error of the database changed

vars == <<status, stale, outcome, pc, found, disturbed>>

Settled == {"SUCCESS", "FAILED", "SKIPPED"}

Start(r) ==
  /\ status[r] = "none"
  /\ status' = [status EXCEPT ![r] = "RUNNING"]
  /\ \E skip \in BOOLEAN :
       /\ pc' = [pc EXCEPT ![r] = IF skip THEN "finish" ELSE "callback"]
       /\ outcome' = [outcome EXCEPT ![r] = IF skip THEN "SKIPPED" ELSE "none"]
  /\ UNCHANGED <<stale, found, disturbed>>

Callback(r) ==
  /\ pc[r] = "callback"
  /\ \E end \in {"SUCCESS", "FAILED"} : outcome' = [outcome EXCEPT ![r] = end]
  /\ pc' = [pc EXCEPT ![r] = "finish"]
  /\ UNCHANGED <<status, stale, found, disturbed>>

\* (mutant) the row keeps what the cleanup wrote
KeepStale(r) == IF status[r] = "FAILED" THEN "FAILED" ELSE outcome[r]

Recorded(r) == outcome[r]

\* finish writes by id, over whatever the row says by now.
FinishRun(r) ==
  /\ pc[r] = "finish"
  /\ status' = [status EXCEPT ![r] = Recorded(r)]
  /\ disturbed' = disturbed \ {r}
  /\ pc' = [pc EXCEPT ![r] = "over"]
  /\ UNCHANGED <<stale, outcome, found>>

\* The write of a success fails: the catch records a failure, if that write works.
FinishFails(r) ==
  /\ pc[r] = "finish" /\ outcome[r] = "SUCCESS"
  /\ status' \in {status, [status EXCEPT ![r] = "FAILED"]}
  /\ disturbed' = disturbed \union {r}
  /\ pc' = [pc EXCEPT ![r] = "over"]
  /\ UNCHANGED <<stale, outcome, found>>

Crash(r) ==
  /\ pc[r] \in {"callback", "finish"}
  /\ pc' = [pc EXCEPT ![r] = "over"]
  /\ outcome' = [outcome EXCEPT ![r] = "crashed"]
  /\ UNCHANGED <<status, stale, found, disturbed>>

PassThreshold(r) ==
  /\ status[r] # "none" /\ r \notin stale
  /\ stale' = stale \union {r}
  /\ UNCHANGED <<status, outcome, pc, found, disturbed>>

\* (mutant) looks for the runs that started within the threshold
Fresh == {r \in Runs : status[r] = "RUNNING" /\ r \notin stale}

StaleRuns == {r \in stale : status[r] = "RUNNING"}

\* markStaleRunsFailed
FindStaleRuns(c) ==
  /\ found[c] = {} /\ StaleRuns # {}
  /\ found' = [found EXCEPT ![c] = StaleRuns]
  /\ UNCHANGED <<status, stale, outcome, pc, disturbed>>

MarkStaleRuns(c) ==
  /\ found[c] # {}
  /\ status' = [r \in Runs |-> IF r \in found[c] /\ status[r] # "none" THEN "FAILED" ELSE status[r]]
  /\ disturbed' = disturbed \union found[c]
  /\ found' = [found EXCEPT ![c] = {}]
  /\ UNCHANGED <<stale, outcome, pc>>

\* purgeOldRuns: rows older than the retention, much longer than any run takes.
Purge(r) ==
  /\ r \in stale /\ pc[r] = "over" /\ status[r] # "none"
  /\ status' = [status EXCEPT ![r] = "none"]
  /\ stale' = stale \ {r} /\ outcome' = [outcome EXCEPT ![r] = "none"]
  /\ pc' = [pc EXCEPT ![r] = "idle"] /\ disturbed' = disturbed \ {r}
  /\ UNCHANGED found

Init ==
  /\ status = [r \in Runs |-> "none"] /\ stale = {} /\ outcome = [r \in Runs |-> "none"]
  /\ pc = [r \in Runs |-> "idle"] /\ found = [c \in Cleaners |-> {}] /\ disturbed = {}

Next ==
  \/ \E r \in Runs :
       \/ Start(r) \/ Callback(r) \/ FinishRun(r) \/ FinishFails(r) \/ Crash(r)
       \/ PassThreshold(r) \/ Purge(r)
  \/ \E c \in Cleaners : FindStaleRuns(c) \/ MarkStaleRuns(c)

Spec == Init /\ [][Next]_vars

\* The clock moves and the cleanup is called again and again.
Fairness ==
  /\ \A r \in Runs : WF_vars(PassThreshold(r))
  /\ \A c \in Cleaners : WF_vars(FindStaleRuns(c) \/ MarkStaleRuns(c))
FairSpec == Spec /\ Fairness

------------------------------------------------------------------------------

TypeOK ==
  /\ status \in [Runs -> Settled \union {"none", "RUNNING"}]
  /\ outcome \in [Runs -> Settled \union {"none", "crashed"}]
  /\ pc \in [Runs -> {"idle", "callback", "finish", "over"}]
  /\ stale \subseteq Runs /\ disturbed \subseteq Runs /\ found \in [Cleaners -> SUBSET Runs]

\* When a run is over, its row says how it ended, unless its process died, the cleanup
\* overtook it or the database refused the write: a run the cleanup gave up on too
\* early is put right when it ends (cron-monitor.service.ts:55-75, 292-305).
RowTellsOutcome ==
  \A r \in Runs \ disturbed :
    pc[r] = "over" /\ outcome[r] # "crashed" => status[r] = outcome[r]

\* No row stays RUNNING for good, whatever became of its process.
NoRunForever == \A r \in Runs : status[r] = "RUNNING" ~> status[r] # "RUNNING"
==============================================================================
