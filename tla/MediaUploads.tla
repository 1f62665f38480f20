----------------------------- MODULE MediaUploads -----------------------------
(***************************************************************************)
(* UploadsService with the virus scanner, the CDN links, the transcoding   *)
(* queue and the file route.  An upload is validated, scanned and only     *)
(* then written to disk; a video is queued for transcoding after that.     *)
(* The scanner's client is one object for all uploads of the process: it   *)
(* is opened on demand and dropped by the upload that runs out of          *)
(* attempts.  Private folders are served under signed links that expire.   *)
(***************************************************************************)
EXTENDS Integers, FiniteSets

CONSTANTS
  Uploads,        \* requests, each with the file it brings
  Malware,        \* those whose file is infected
  Private,        \* those that go to a private folder
  Videos,
  MaxAttempts,    \* that VIRUS_SCAN_MAX_RETRIES leaves to a scan: none if it is below 1
  MaxTime,        \* bound: seconds
  Ttl             \* life of a signed link

ConstantsAssumption ==
  /\ Malware \subseteq Uploads /\ Private \subseteq Uploads /\ Videos \subseteq Uploads \ Private
  /\ MaxAttempts \in Nat /\ MaxTime \in Nat /\ Ttl \in Nat

VARIABLES
  enabled,        \* VIRUS_SCAN_ENABLED
  client,         \* the process holds a client of the scanner
  row,            \* FileScanResult per upload: status and attempts
  task,           \* per upload where its request is
  stored,         \* files on disk
  jobs,           \* transcoding jobs: none, waiting, active, done, failed
  now,
  links,          \* per private upload, expiry of the links that were issued
  exposed,        \* history: a private file was served without a live link
  whole           \* VIRUS_SCAN_MAX_RETRIES is a whole number

vars == <<enabled, client, row, task, stored, jobs, now, links, exposed, whole>>
scanner == <<enabled, client, whole>>
delivery == <<now, links, exposed>>

NoRow == [status |-> "none", attempts |-> 0]
SetRow(u, status) == row' = [row EXCEPT ![u].status = status]
Go(u, pc) == task' = [task EXCEPT ![u] = pc]

------------------------------------------------------------------------------
\* scanFile

\* The controller and validateFile: size, declared type and content agree.
StartUpload(u) ==
  /\ task[u] = "idle"
  /\ row' = [row EXCEPT ![u] = [status |-> "pending", attempts |-> 0]]
  /\ Go(u, "open")
  /\ UNCHANGED <<stored, jobs>> /\ UNCHANGED scanner /\ UNCHANGED delivery

Bypass(u) ==
  /\ task[u] = "open" /\ ~enabled
  /\ SetRow(u, "clean") /\ Go(u, "store")
  /\ UNCHANGED <<stored, jobs>> /\ UNCHANGED scanner /\ UNCHANGED delivery

\* initializeScanner: with no client, one attempt to open it, shared by all.
OpenScanner(u) ==
  /\ task[u] = "open" /\ enabled
  /\ client' = TRUE
  /\ SetRow(u, "scanning") /\ Go(u, "scan")
  /\ UNCHANGED <<enabled, whole, stored, jobs>> /\ UNCHANGED delivery

ScannerUnavailable(u) ==
  /\ task[u] = "open" /\ enabled /\ ~client
  /\ SetRow(u, "error") /\ Go(u, "refused")
  /\ UNCHANGED <<stored, jobs>> /\ UNCHANGED scanner /\ UNCHANGED delivery

\* An attempt with a client that works, and the write of its verdict.
ScanFinds(u) ==
  /\ task[u] = "scan" /\ client /\ row[u].attempts < MaxAttempts
  /\ row' = [row EXCEPT ![u] =
       [status |-> IF u \in Malware THEN "infected" ELSE "clean", attempts |-> @.attempts + 1]]
  /\ Go(u, IF u \in Malware THEN "refused" ELSE "store")
  /\ UNCHANGED <<stored, jobs>> /\ UNCHANGED scanner /\ UNCHANGED delivery

\* (mutant) a file the scanner never answered for is let through
FailOpen == "store"

AfterLastAttempt == "refused"

\* An attempt that fails: the scanner, the write, or a client another upload dropped.
\* Only an attempt whose number is the limit itself is the last.
ScanFails(u) ==
  /\ task[u] = "scan" /\ row[u].attempts < MaxAttempts
  /\ IF whole /\ row[u].attempts + 1 = MaxAttempts
     THEN /\ row' = [row EXCEPT ![u] = [status |-> "error", attempts |-> MaxAttempts]]
          /\ client' = FALSE /\ Go(u, AfterLastAttempt)
     ELSE row' = [row EXCEPT ![u].attempts = @ + 1] /\ UNCHANGED <<client, task>>
  /\ UNCHANGED <<enabled, whole, stored, jobs>> /\ UNCHANGED delivery

\* The loop ends, and with it scanFile, as if the file had been scanned.
ScanRunsOut(u) ==
  /\ task[u] = "scan" /\ row[u].attempts = MaxAttempts
  /\ Go(u, "store")
  /\ UNCHANGED <<row, stored, jobs>> /\ UNCHANGED scanner /\ UNCHANGED delivery

------------------------------------------------------------------------------
\* saveFile, saveKycDocument and saveVideo after the scan

StoreFile(u) ==
  /\ task[u] = "store"
  /\ stored' = stored \union {u}
  /\ Go(u, IF u \in Videos THEN "queue" ELSE "answered")
  /\ links' = IF u \in Private THEN [links EXCEPT ![u] = @ \union {now + Ttl}] ELSE links
  /\ UNCHANGED <<row, jobs, now, exposed>> /\ UNCHANGED scanner

\* The thumbnail is made while the job may run; without one there is a default image.
QueueTranscode(u) ==
  /\ task[u] = "queue"
  /\ jobs' = [jobs EXCEPT ![u] = "waiting"] /\ Go(u, "answered")
  /\ UNCHANGED <<row, stored>> /\ UNCHANGED scanner /\ UNCHANGED delivery

\* The queue refuses, or the process dies: what was written stays.
CutShort(u) ==
  /\ task[u] \notin {"idle", "answered", "refused"} /\ Go(u, "refused")
  /\ UNCHANGED <<row, stored, jobs>> /\ UNCHANGED scanner /\ UNCHANGED delivery

\* VideoTranscodeProcessor.process: one resolution after the other; a job whose worker
\* stalled is taken up again and writes the same files.
TakeJob(u) ==
  /\ jobs[u] \in {"waiting", "active"} /\ jobs' = [jobs EXCEPT ![u] = "active"]
  /\ UNCHANGED <<row, task, stored>> /\ UNCHANGED scanner /\ UNCHANGED delivery
FinishJob(u) ==
  /\ jobs[u] = "active" /\ jobs' = [jobs EXCEPT ![u] = IF u \in stored THEN "done" ELSE "failed"]
  /\ UNCHANGED <<row, task, stored>> /\ UNCHANGED scanner /\ UNCHANGED delivery

------------------------------------------------------------------------------
\* Delivery

\* generateCdnUrl for a private file, whenever a response refers to it.
IssueLink(u) ==
  /\ u \in Private \intersect stored
  /\ links' = [links EXCEPT ![u] = @ \union {now + Ttl}]
  /\ UNCHANGED <<row, task, stored, jobs, now, exposed>> /\ UNCHANGED scanner

\* (mutant) the signature is over the expiry alone
AnyPath(u, path, expires) == now <= expires /\ expires \in links[path]

\* verifySignature: the signature is over the path and the expiry.
Verified(u, path, expires) == now <= expires /\ expires \in links[path] /\ path = u

\* serveFile, with a link that was issued for some file.
Serve(u, path, expires) ==
  /\ u \in stored /\ (u \in Private => Verified(u, path, expires))
  /\ exposed' = (exposed \/ (u \in Private /\ \A e \in links[u] : now > e))
  /\ UNCHANGED <<row, task, stored, jobs, now, links>> /\ UNCHANGED scanner

Clock ==
  /\ now < MaxTime /\ now' = now + 1
  /\ UNCHANGED <<row, task, stored, jobs, links, exposed>> /\ UNCHANGED scanner

Restart ==
  /\ client' = FALSE
  /\ task' = [u \in Uploads |-> IF task[u] \in {"idle", "answered"} THEN task[u] ELSE "refused"]
  /\ UNCHANGED <<enabled, whole, row, stored, jobs>> /\ UNCHANGED delivery

Init ==
  /\ enabled \in BOOLEAN /\ whole \in BOOLEAN /\ client = FALSE
  /\ row = [u \in Uploads |-> NoRow] /\ task = [u \in Uploads |-> "idle"]
  /\ stored = {} /\ jobs = [u \in Uploads |-> "none"]
  /\ now = 0 /\ links = [u \in Uploads |-> {}] /\ exposed = FALSE

Next ==
  \/ \E u \in Uploads :
       \/ StartUpload(u) \/ Bypass(u) \/ OpenScanner(u) \/ ScannerUnavailable(u)
       \/ ScanFinds(u) \/ ScanFails(u) \/ ScanRunsOut(u) \/ StoreFile(u)
       \/ QueueTranscode(u) \/ CutShort(u) \/ TakeJob(u) \/ FinishJob(u) \/ IssueLink(u)
       \/ \E path \in Uploads : \E expires \in links[path] \union {0} : Serve(u, path, expires)
  \/ Clock \/ Restart

Spec == Init /\ [][Next]_vars

------------------------------------------------------------------------------

TypeOK ==
  /\ {enabled, whole, client, exposed} \subseteq BOOLEAN /\ stored \subseteq Uploads /\ now \in 0..MaxTime
  /\ \A u \in Uploads :
       /\ row[u].status \in {"none", "pending", "scanning", "clean", "infected", "error"}
       /\ row[u].attempts \in 0..MaxAttempts
       /\ task[u] \in {"idle", "open", "scan", "store", "queue", "answered", "refused"}
       /\ jobs[u] \in {"none", "waiting", "active", "done", "failed"}

\* A limit that some attempt meets; the code takes any number for one.
Limited == whole /\ MaxAttempts > 0

\* Whatever uploads share and lose the scanner's client, what is stored has a row that
\* says it is clean, and an infected file never has while scanning is switched on; only
\* where no attempt is the last a file is stored that was not scanned, and its row
\* still says so (virus-scan.service.ts:100-157).  A job refers to a file that is
\* there; and a private file is served only while a link issued for it is live
\* (files.controller.ts:53).
MediaSound ==
  /\ \A u \in stored : row[u].status = "clean" \/ (row[u].status = "scanning" /\ ~Limited)
  /\ enabled => \A u \in stored \intersect Malware : row[u].status # "clean"
  /\ \A u \in Uploads : jobs[u] # "none" => u \in stored
  /\ ~exposed
==============================================================================
