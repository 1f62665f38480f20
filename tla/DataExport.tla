------------------------------ MODULE DataExport ------------------------------
(***************************************************************************)
(* DataExportService with its queue: a user's requests for a copy of their *)
(* data.  A request looks for one in flight, then at the last one, creates *)
(* the row and then the job, each in an await of its own.  The queue       *)
(* delivers a job again after an error, up to its number of attempts, and  *)
(* once more when its worker died.                                         *)
(***************************************************************************)
EXTENDS Integers, FiniteSets

CONSTANTS
  Exports,       \* rows
  Requests,      \* requests of the one user
  MaxAttempts,   \* attempts of a job
  Retention,     \* days a finished export is kept
  MaxDay         \* bound: days

ConstantsAssumption == MaxAttempts \in Nat \ {0} /\ Retention \in Nat /\ MaxDay \in Nat

VARIABLES
  status,        \* per row its DataExportJobStatus, or "none"
  payload,       \* rows that hold the data
  day,
  requested, expires,   \* per row a day
  attempts,      \* per row the attempts its job has left, 0 without a job
  working,       \* rows a worker is on
  died,          \* rows whose worker died
  task,
  raced,         \* history: two requests overlapped
  lost,          \* history: rows the queue was never told of, or gave up on silently:
                 \* its worker died twice, or the last attempt could not write the row
  again          \* history: rows a job was delivered for after it had finished

vars == <<status, payload, day, requested, expires, attempts, working, died, task, raced,
          lost, again>>
times == <<day, requested, expires>>
queue == <<attempts, working, died>>
history == <<raced, lost, again>>

Settled == {"COMPLETED", "FAILED", "EXPIRED"}
Idle == [pc |-> "idle", export |-> CHOOSE e \in Exports : TRUE]

\* (mutant) an export under way no longer counts as in flight
OnlyPending == {"PENDING"}

InFlightStatuses == {"PENDING", "PROCESSING"}

InFlight == {e \in Exports : status[e] \in InFlightStatuses}

\* requestExport: none in flight, and none requested within the day.
CheckRequest(r) ==
  /\ task[r] = Idle /\ InFlight = {}
  /\ \A e \in Exports : status[e] # "none" => requested[e] < day
  /\ task' = [task EXCEPT ![r].pc = "create"]
  /\ raced' = (raced \/ \E o \in Requests : task[o] # Idle)
  /\ UNCHANGED <<status, payload, lost, again>> /\ UNCHANGED times /\ UNCHANGED queue

CreateRow(r, e) ==
  /\ task[r].pc = "create" /\ status[e] = "none"
  /\ status' = [status EXCEPT ![e] = "PENDING"]
  /\ requested' = [requested EXCEPT ![e] = day]
  /\ task' = [task EXCEPT ![r] = [pc |-> "enqueue", export |-> e]]
  /\ UNCHANGED <<payload, day, expires>> /\ UNCHANGED queue /\ UNCHANGED history

Enqueue(r) ==
  /\ task[r].pc = "enqueue"
  /\ attempts' = [attempts EXCEPT ![task[r].export] = MaxAttempts]
  /\ task' = [task EXCEPT ![r] = Idle]
  /\ UNCHANGED <<status, payload, working, died>> /\ UNCHANGED times /\ UNCHANGED history

\* The queue refuses, or the process dies: a row that was created stays PENDING.
RequestFails(r) ==
  /\ task[r] # Idle /\ task' = [task EXCEPT ![r] = Idle]
  /\ lost' = IF task[r].pc = "enqueue" THEN lost \union {task[r].export} ELSE lost
  /\ UNCHANGED <<status, payload, raced, again>> /\ UNCHANGED times /\ UNCHANGED queue

\* processExport, whatever the row's status is by now.
StartProcessing(e) ==
  /\ attempts[e] > 0 /\ e \notin working
  /\ status' = [status EXCEPT ![e] = "PROCESSING"]
  /\ again' = IF status[e] \in {"COMPLETED", "EXPIRED"} THEN again \union {e} ELSE again
  /\ working' = working \union {e}
  /\ UNCHANGED <<payload, attempts, died, task, raced, lost>> /\ UNCHANGED times

CompleteExport(e) ==
  /\ e \in working
  /\ status' = [status EXCEPT ![e] = "COMPLETED"] /\ payload' = payload \union {e}
  /\ expires' = [expires EXCEPT ![e] = day + Retention]
  /\ working' = working \ {e} /\ attempts' = [attempts EXCEPT ![e] = 0]
  /\ UNCHANGED <<day, requested, died, task>> /\ UNCHANGED history

\* History: the last attempt ended and the row does not say so.
Untold(e) == IF attempts[e] = 1 /\ status[e] \notin Settled THEN lost \union {e} ELSE lost

\* The update that should say PROCESSING fails, and the attempt with it.
StartFails(e) ==
  /\ attempts[e] > 0 /\ e \notin working
  /\ attempts' = [attempts EXCEPT ![e] = @ - 1] /\ lost' = Untold(e)
  /\ UNCHANGED <<status, payload, working, died, task, raced, again>> /\ UNCHANGED times

\* (mutant) the error is passed on to the queue without a word in the row
Silent == "PROCESSING"

AfterError == "FAILED"

\* The error is written to the row, unless that write fails too, and passed on.
FailExport(e) ==
  /\ e \in working
  /\ \/ status' = [status EXCEPT ![e] = AfterError] /\ UNCHANGED lost
     \/ UNCHANGED status /\ lost' = Untold(e)
  /\ working' = working \ {e} /\ attempts' = [attempts EXCEPT ![e] = @ - 1]
  /\ UNCHANGED <<payload, died, task, raced, again>> /\ UNCHANGED times

\* A worker dies, before its row is settled or after: the job is delivered once more,
\* and given up when it happens again.
WorkerDies(e) ==
  /\ \/ e \in working /\ UNCHANGED <<status, payload, expires>>
     \/ /\ e \in working
        /\ status' = [status EXCEPT ![e] = "COMPLETED"] /\ payload' = payload \union {e}
        /\ expires' = [expires EXCEPT ![e] = day + Retention]
  /\ working' = working \ {e} /\ died' = died \union {e}
  /\ attempts' = [attempts EXCEPT ![e] = IF e \in died THEN 0 ELSE @]
  /\ lost' = IF e \in died THEN lost \union {e} ELSE lost
  /\ UNCHANGED <<day, requested, task, raced, again>>

\* (mutant) the data stays in the row that is marked expired
KeepData(gone) == payload

WithoutData(gone) == payload \ gone

Overdue == {e \in Exports : status[e] = "COMPLETED" /\ expires[e] < day}

\* cleanupExpiredExports in one statement, and downloadExport for one row.
Expire(gone) ==
  /\ gone # {} /\ gone \subseteq Overdue
  /\ status' = [e \in Exports |-> IF e \in gone THEN "EXPIRED" ELSE status[e]]
  /\ payload' = WithoutData(gone)
  /\ UNCHANGED task /\ UNCHANGED times /\ UNCHANGED queue /\ UNCHANGED history

\* Assumed: a request is over, and its job's attempts, within the day.
NextDay ==
  /\ day < MaxDay /\ \A r \in Requests : task[r] = Idle
  /\ \A e \in Exports : attempts[e] = 0
  /\ day' = day + 1
  /\ UNCHANGED <<status, payload, requested, expires, task>> /\ UNCHANGED queue
  /\ UNCHANGED history

Init ==
  /\ status = [e \in Exports |-> "none"] /\ payload = {} /\ day = 0
  /\ requested = [e \in Exports |-> 0] /\ expires = [e \in Exports |-> 0]
  /\ attempts = [e \in Exports |-> 0] /\ working = {} /\ died = {}
  /\ task = [r \in Requests |-> Idle] /\ raced = FALSE /\ lost = {} /\ again = {}

Process(e) == StartProcessing(e) \/ CompleteExport(e) \/ FailExport(e)

Next ==
  \/ \E r \in Requests :
       \/ CheckRequest(r) \/ Enqueue(r) \/ RequestFails(r)
       \/ \E e \in Exports : CreateRow(r, e)
  \/ \E e \in Exports : Process(e) \/ StartFails(e) \/ WorkerDies(e) \/ Expire({e})
  \/ Expire(Overdue)
  \/ NextDay

Spec == Init /\ [][Next]_vars

\* The queue delivers its jobs.
FairSpec == Spec /\ \A e \in Exports : WF_vars(Process(e))

------------------------------------------------------------------------------

TypeOK ==
  /\ status \in [Exports -> Settled \union {"none", "PENDING", "PROCESSING"}]
  /\ payload \subseteq Exports /\ working \subseteq Exports /\ died \subseteq Exports
  /\ attempts \in [Exports -> 0..MaxAttempts] /\ day \in 0..MaxDay
  /\ \A r \in Requests : task[r].pc \in {"idle", "create", "enqueue"}
  /\ raced \in BOOLEAN /\ lost \subseteq Exports /\ again \subseteq Exports

\* Unless two requests overlapped, a user has one export in flight, whatever was
\* retried (data-export.service.ts:142-170); an export that can be downloaded has its
\* data, and the data is in no other row, unless a job was delivered
\* again for a finished export (:271-279, 436-447).
ExportsSound ==
  /\ ~raced => \A e, f \in Exports :
       {status[e], status[f]} \subseteq {"PENDING", "PROCESSING"} => e = f
  /\ \A e \in Exports \ again : status[e] = "COMPLETED" <=> e \in payload

\* An export the queue knows of is settled in the end, though its work or a write to its
\* row fails or its worker dies once - unless the last attempt could not write the row
\* either: such a row stays as it was for good (data-export.service.ts:312-387).
ExportSettles ==
  \A e \in Exports : (attempts[e] > 0) ~> (status[e] \in Settled \/ e \in lost)
==============================================================================
