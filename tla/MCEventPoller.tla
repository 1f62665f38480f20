--------------------------- MODULE MCEventPoller ---------------------------
(***************************************************************************)
(* Small instances of EventPoller: what the transactions emit, the faults  *)
(* of the liveness run, and a comment of the source that does not hold.    *)
(* The other three processes that work on a schedule or from a queue - the *)
(* closing of quiz sessions, the cron monitor and the data exports - share *)
(* no table with the poller: a behaviour is of one of the four, as focus   *)
(* says, and the others stay in their initial state.                       *)
(***************************************************************************)
EXTENDS EventPoller, Sequences

CONSTANTS
  Foci,                                              \* what the run is about
  Students, Crons, Sessions, MaxQuestions, MaxCrashes, NoSession, Batch, MaxStuck,
  CronRuns, Cleaners,
  Exports, Clients, MaxTries, KeptDays, MaxDay

VARIABLES
  focus,
  bank, maxAttempts, enrolled, cooling, stuck, attempts, sessionStatus, due, task, swept,
  keySeen, overlapped, crashes,
  runStatus, stale, outcome, runAt, found, overtaken,
  exportStatus, payload, day, requested, expires, tries, working, died, request, raced,
  lost, again

Quiz == INSTANCE QuizSessions WITH
  Requests <- Students, Limits <- {1}, status <- sessionStatus, disturbed <- overlapped
Monitor == INSTANCE CronMonitor WITH
  Runs <- CronRuns, status <- runStatus, pc <- runAt, disturbed <- overtaken
Export == INSTANCE DataExport WITH
  Requests <- Clients, MaxAttempts <- MaxTries, Retention <- KeptDays,
  status <- exportStatus, attempts <- tries, task <- request

ASSUME JobsAssumption == Quiz!ConstantsAssumption /\ Export!ConstantsAssumption

quizVars ==
  <<bank, maxAttempts, enrolled, cooling, stuck, attempts, sessionStatus, due, task, swept,
    keySeen, overlapped, crashes>>
monitorVars == <<runStatus, stale, outcome, runAt, found, overtaken>>
exportVars ==
  <<exportStatus, payload, day, requested, expires, tries, working, died, request, raced,
    lost, again>>
allVars == <<focus, vars, quizVars, monitorVars, exportVars>>

\* A checkpoint from another network is left out: with an unreadable tip at
\* start-up it stays ahead of the chain for good (README).
RecoverableFaults == FaultKinds \ {"foreign"}

OneEventPerTx == [e \in 1..MaxEvents |-> e]

\* The second and third event come from one transaction.
TwoEventsInOneTx == [e \in 1..MaxEvents |-> IF e = 1 THEN 1 ELSE 2]

------------------------------------------------------------------------------
InitOne ==
  /\ focus \in Foci
  /\ Init /\ Quiz!Init /\ Monitor!Init /\ Export!Init
  /\ focus # "poller" => ckpt = NoPosition
  /\ focus # "quiz" => bank = 0

PollerStep ==
  focus = "poller" /\ Next /\ UNCHANGED <<focus, quizVars, monitorVars, exportVars>>
QuizStep ==
  focus = "quiz" /\ Quiz!Next /\ UNCHANGED <<focus, vars, monitorVars, exportVars>>
MonitorStep ==
  focus = "monitor" /\ Monitor!Next /\ UNCHANGED <<focus, vars, quizVars, exportVars>>
ExportStep ==
  focus = "export" /\ Export!Next /\ UNCHANGED <<focus, vars, quizVars, monitorVars>>

SpecOne == InitOne /\ [][PollerStep \/ QuizStep \/ MonitorStep \/ ExportStep]_allVars

\* The fairness of each module, for the behaviours that are of it.
Fairness ==
  /\ WF_vars(focus = "poller" /\ Poller)
  /\ \A c \in Crons : WF_quizVars(focus = "quiz" /\ Quiz!Cron(c))
  /\ \A r \in CronRuns : WF_monitorVars(focus = "monitor" /\ Monitor!PassThreshold(r))
  /\ \A c \in Cleaners :
       WF_monitorVars(focus = "monitor" /\ (Monitor!FindStaleRuns(c) \/ Monitor!MarkStaleRuns(c)))
  /\ \A e \in Exports : WF_exportVars(focus = "export" /\ Export!Process(e))

FairSpecOne == SpecOne /\ Fairness

------------------------------------------------------------------------------
\* Types of the three modules; a run's row says how it ended (CronMonitor), one export
\* is in flight and its data is where its status says (DataExport).
JobsSound ==
  /\ Quiz!TypeOK /\ Monitor!TypeOK /\ Export!TypeOK
  /\ Monitor!RowTellsOutcome /\ Export!ExportsSound

\* What a schedule or a queue has to end it ends: sessions that ran out
\* (QuizSessions), rows left RUNNING (CronMonitor), exports (DataExport).
WorkEnds == Quiz!OverdueCloses /\ Monitor!NoRunForever /\ Export!ExportSettles

\* events.service.ts:228-229: "Only advance the checkpoint past an event once
\* it has been durably recorded".
CheckpointOnlyPastRecorded ==
  \A e \in Events : e <= ckpt.cursor => rows[e] # "absent" \/ e \in abandoned
=============================================================================
