----------------------------- MODULE Notifications -----------------------------
(***************************************************************************)
(* NotificationsService: a notification is a row, a mail of its own through *)
(* the queue, a push to the user's devices, and a line of the daily digest. *)
(* Every await is a step.  A device is live while its app is installed.    *)
(* SmsService sends text messages beside it and hears what became of them  *)
(* from the carrier's callbacks, which come in any order and more than     *)
(* once.                                                                   *)
(***************************************************************************)
EXTENDS Integers, FiniteSets

CONSTANTS
  Notes,          \* notifications of one user
  Devices, Channels,   \* what else there is: email, push
  Requests,
  Texts,          \* text messages
  MaxAttempts,    \* attempts of a job of the mail queue
  MaxTime         \* bound: days on the clock

ConstantsAssumption == MaxAttempts \in Nat \ {0} /\ MaxTime \in Nat

VARIABLES
  now,
  row,            \* per notification its row, or NoRow
  mails,          \* per notification the attempts its mail job has left
  wants,          \* channels the user has not switched off
  digest,         \* NotificationDigestPreference: there, emailEnabled, lastDigestAt
  token,          \* per device its token: "none", "mine", "other" or "inactive"
  live,           \* devices whose app is installed and has this token
  task,           \* per request the notifyUser call under way
  cron,           \* the digest run: the rows it found
  digested,       \* history: notifications that were in a digest
  slipped,        \* history: notifications written while a digest was under way,
                  \* or older than a day at the first one
  astray,         \* history: devices whose token was rejected with the message, or
                  \* registered while its rejection was handled
  sms,            \* per text its status, "none" before the row
  known,          \* texts whose providerMessageId is stored
  sending,        \* texts whose gateway call is under way
  carrier,        \* external: "none", "taken", "delivered" or "lost"
  reports,        \* external: callbacks still to come, "delivered" or "failed", per text
  disturbed       \* history: texts with a callback before the id or a failure reported
                  \* though it was delivered

texts == <<sms, known, sending, carrier, reports, disturbed>>
vars == <<now, row, mails, wants, digest, token, live, task, cron, digested, slipped,
          astray, texts>>
inbox == <<row, mails, digest>>
phones == <<token, live, astray>>
digesting == <<cron, digested, slipped>>

NoRow == [at |-> -1, read |-> FALSE, emailSent |-> FALSE]
Idle == [pc |-> "idle", channels |-> {}, note |-> CHOOSE n \in Notes : TRUE, tokens |-> {},
         rejected |-> {}]
NoRun == [pc |-> "idle", since |-> 0, found |-> {}]
Finish(r) == task' = [task EXCEPT ![r] = Idle]

------------------------------------------------------------------------------
\* notifyUser

ReadPreference(r) ==
  /\ task[r] = Idle
  /\ task' = [task EXCEPT ![r].pc = "create", ![r].channels = wants]
  /\ UNCHANGED <<now, wants>> /\ UNCHANGED inbox /\ UNCHANGED phones /\ UNCHANGED digesting

CreateNotification(r, n) ==
  /\ task[r].pc = "create" /\ row[n] = NoRow
  /\ row' = [row EXCEPT ![n].at = now]
  /\ slipped' = IF cron.pc = "mailed" \/ cron.pc = "found" THEN slipped \union {n} ELSE slipped
  /\ task' = [task EXCEPT ![r].pc = "digest", ![r].note = n]
  /\ UNCHANGED <<now, wants, mails, digest, cron, digested>> /\ UNCHANGED phones

\* ensureDigestPreference, created once and enabled.
EnsureDigest(r) ==
  /\ task[r].pc = "digest"
  /\ digest' = IF digest.there THEN digest ELSE [there |-> TRUE, on |-> TRUE, last |-> -1]
  /\ task' = [task EXCEPT ![r].pc = IF "email" \in task[r].channels THEN "enqueue" ELSE "list"]
  /\ UNCHANGED <<now, wants, row, mails>> /\ UNCHANGED phones /\ UNCHANGED digesting

\* A queue that refuses the job is logged only.
EnqueueEmail(r) ==
  /\ task[r].pc = "enqueue"
  /\ \/ mails' = [mails EXCEPT ![task[r].note] = MaxAttempts]
     \/ UNCHANGED mails
  /\ task' = [task EXCEPT ![r].pc = "list"]
  /\ UNCHANGED <<now, wants, row, digest>> /\ UNCHANGED phones /\ UNCHANGED digesting

ListTokens(r) ==
  /\ task[r].pc = "list"
  /\ LET tokens == {d \in Devices : token[d] = "mine"} IN
       IF "push" \notin task[r].channels \/ tokens = {} THEN Finish(r)
       ELSE task' = [task EXCEPT ![r].pc = "push", ![r].tokens = tokens]
  /\ UNCHANGED <<now, wants>> /\ UNCHANGED inbox /\ UNCHANGED phones /\ UNCHANGED digesting

\* One token after the other; a push that fails is logged only.
Push(r, d) ==
  /\ task[r].pc = "push" /\ d \in task[r].tokens /\ task[r].rejected = {} /\ d \in live
  /\ LET left == task[r].tokens \ {d} IN
       IF left = {} THEN Finish(r) ELSE task' = [task EXCEPT ![r].tokens = left]
  /\ UNCHANGED <<now, wants>> /\ UNCHANGED inbox /\ UNCHANGED phones /\ UNCHANGED digesting

\* FCM rejects the token, of an app that is gone, or the message (INVALID_ARGUMENT),
\* which says nothing of the token: both are taken for the first, and the token is
\* deactivated in the next await.
PushRejected(r, d) ==
  /\ task[r].pc = "push" /\ d \in task[r].tokens /\ task[r].rejected = {}
  /\ task' = [task EXCEPT ![r].tokens = @ \ {d}, ![r].rejected = {d}]
  /\ astray' = IF d \in live THEN astray \union {d} ELSE astray
  /\ UNCHANGED <<now, wants, token, live>> /\ UNCHANGED inbox /\ UNCHANGED digesting

DeactivateToken(r) ==
  /\ task[r].pc = "push" /\ task[r].rejected # {}
  /\ token' = [d \in Devices |->
       IF d \in task[r].rejected /\ token[d] # "none" THEN "inactive" ELSE token[d]]
  /\ IF task[r].tokens = {} THEN Finish(r) ELSE task' = [task EXCEPT ![r].rejected = {}]
  /\ UNCHANGED <<now, wants, live, astray>> /\ UNCHANGED inbox /\ UNCHANGED digesting

\* Any error is caught: no step that comes after it is taken.  So does a crash.
CutShort(r) ==
  /\ task[r] # Idle /\ Finish(r)
  /\ UNCHANGED <<now, wants>> /\ UNCHANGED inbox /\ UNCHANGED phones /\ UNCHANGED digesting

------------------------------------------------------------------------------
\* processEmailJob: a mail that was sent and not noted is sent again.

EmailSent(n) ==
  /\ mails[n] > 0
  /\ row' = [row EXCEPT ![n].emailSent = TRUE] /\ mails' = [mails EXCEPT ![n] = 0]
  /\ UNCHANGED <<now, wants, digest, task>> /\ UNCHANGED phones /\ UNCHANGED digesting

EmailFails(n) ==
  /\ mails[n] > 0 /\ mails' = [mails EXCEPT ![n] = @ - 1]
  /\ UNCHANGED <<now, wants, row, digest, task>> /\ UNCHANGED phones /\ UNCHANGED digesting

------------------------------------------------------------------------------
\* The user

\* markRead and markAllRead
MarkRead(read) ==
  /\ read # {} /\ read \subseteq {n \in Notes : row[n] # NoRow /\ ~row[n].read}
  /\ row' = [n \in Notes |-> IF n \in read THEN [row[n] EXCEPT !.read = TRUE] ELSE row[n]]
  /\ UNCHANGED <<now, wants, mails, digest, task>> /\ UNCHANGED phones /\ UNCHANGED digesting

UpdatePreference(channel) ==
  /\ wants' = IF channel \in wants THEN wants \ {channel} ELSE wants \union {channel}
  /\ UNCHANGED <<now, task>> /\ UNCHANGED inbox /\ UNCHANGED phones /\ UNCHANGED digesting

UpdateDigestPreference ==
  /\ digest' = [digest EXCEPT !.there = TRUE, !.on = ~@]
  /\ UNCHANGED <<now, wants, row, mails, task>> /\ UNCHANGED phones /\ UNCHANGED digesting

\* (mutant) a token that is known keeps its state
KnownTokenStays(d, who) == IF token[d] = "none" THEN who ELSE token[d]

Registered(d, who) == who

\* registerDeviceToken: the token belongs to whoever registered it last.
RegisterDevice(d, who) ==
  /\ token' = [token EXCEPT ![d] = Registered(d, who)]
  /\ live' = live \union {d}
  /\ astray' = IF \E r \in Requests : d \in task[r].rejected THEN astray \union {d}
               ELSE astray \ {d}
  /\ UNCHANGED <<now, wants, task>> /\ UNCHANGED inbox /\ UNCHANGED digesting

Uninstall(d) ==
  /\ d \in live /\ live' = live \ {d}
  /\ UNCHANGED <<now, wants, token, astray, task>> /\ UNCHANGED inbox /\ UNCHANGED digesting

------------------------------------------------------------------------------
\* sendDailyDigest

FindUnread ==
  LET since == IF digest.last = -1 THEN now - 1 ELSE digest.last
      found == {n \in Notes : row[n] # NoRow /\ ~row[n].read /\ row[n].at >= since}
  IN
  /\ cron = NoRun /\ digest.there /\ digest.on /\ found # {}
  /\ cron' = [pc |-> "found", since |-> since, found |-> found]
  /\ slipped' = IF digest.last # -1 THEN slipped
                ELSE slipped \union {n \in Notes : row[n] # NoRow /\ row[n].at < since}
  /\ UNCHANGED <<now, wants, digested, task>> /\ UNCHANGED inbox /\ UNCHANGED phones

SendDigest ==
  /\ cron.pc = "found"
  /\ digested' = digested \union cron.found
  /\ cron' = [cron EXCEPT !.pc = "mailed"]
  /\ UNCHANGED <<now, wants, slipped, task>> /\ UNCHANGED inbox /\ UNCHANGED phones

\* (mutant) a digest that could not be sent counts as sent
CountsAnyway == [digest EXCEPT !.last = now]

AfterFailure == digest

DigestFails ==
  /\ cron.pc = "found" /\ cron' = NoRun
  /\ digest' = AfterFailure
  /\ UNCHANGED <<now, wants, row, mails, digested, slipped, task>> /\ UNCHANGED phones

\* The time that is noted is the time of the write.
NoteDigest ==
  /\ cron.pc = "mailed" /\ cron' = NoRun
  /\ digest' = [digest EXCEPT !.last = now]
  /\ UNCHANGED <<now, wants, row, mails, digested, slipped, task>> /\ UNCHANGED phones

CrashDigest ==
  /\ cron # NoRun /\ cron' = NoRun
  /\ UNCHANGED <<now, wants, digested, slipped, task>> /\ UNCHANGED inbox /\ UNCHANGED phones

Clock ==
  /\ now < MaxTime /\ now' = now + 1
  /\ UNCHANGED <<wants, task>> /\ UNCHANGED inbox /\ UNCHANGED phones /\ UNCHANGED digesting

------------------------------------------------------------------------------
\* SmsService

\* sendSms: the row, then the gateway, when there is one.
SendSms(m) ==
  /\ sms[m] = "none"
  /\ \/ sms' = [sms EXCEPT ![m] = "PENDING"] /\ sending' = sending \union {m}
     \/ sms' = [sms EXCEPT ![m] = "FAILED"] /\ UNCHANGED sending
  /\ UNCHANGED <<known, carrier, reports, disturbed>>

GatewayTakes(m) ==
  /\ m \in sending /\ carrier[m] = "none" /\ carrier' = [carrier EXCEPT ![m] = "taken"]
  /\ UNCHANGED <<sms, known, sending, reports, disturbed>>

\* The answer is stored over whatever the row says by then.
GatewayAnswers(m) ==
  /\ m \in sending /\ sending' = sending \ {m}
  /\ IF carrier[m] # "none"
     THEN sms' = [sms EXCEPT ![m] = "SENT"] /\ known' = known \union {m}
     ELSE sms' = [sms EXCEPT ![m] = "FAILED"] /\ UNCHANGED known
  /\ UNCHANGED <<carrier, reports, disturbed>>

\* No answer came, or the process died: FAILED or PENDING without an id, though the
\* gateway may have taken the text.
CallFails(m) ==
  /\ m \in sending /\ sending' = sending \ {m}
  /\ \E status \in {"FAILED", "PENDING"} : sms' = [sms EXCEPT ![m] = status]
  /\ UNCHANGED <<known, carrier, reports, disturbed>>

CarrierReports(m) ==
  /\ carrier[m] = "taken"
  /\ \E to \in {"delivered", "lost"}, early \in {{}, {"failed"}} :
       /\ carrier' = [carrier EXCEPT ![m] = to]
       /\ reports' = [reports EXCEPT ![m] = early \union {IF to = "lost" THEN "failed" ELSE to}]
       /\ disturbed' = IF to = "delivered" /\ early # {} THEN disturbed \union {m} ELSE disturbed
  /\ UNCHANGED <<sms, known, sending>>

\* (mutant) the gateway's word is stored as the status
AsReported(report) == report

Reported(report) ==
  IF report \in {"success", "delivered"} THEN "DELIVERED" ELSE "FAILED"

\* handleDeliveryCallback: an id that is not stored is answered, and not asked again.
DeliveryCallback(m) ==
  /\ \E report \in reports[m] :
       /\ sms' = IF m \in known THEN [sms EXCEPT ![m] = Reported(report)] ELSE sms
       /\ \E left \in {reports[m], reports[m] \ {report}} :
            reports' = [reports EXCEPT ![m] = left]
  /\ disturbed' = IF m \in known THEN disturbed ELSE disturbed \union {m}
  /\ UNCHANGED <<known, sending, carrier>>

------------------------------------------------------------------------------
InboxStep ==
  \/ \E r \in Requests :
       \/ ReadPreference(r) \/ EnsureDigest(r) \/ EnqueueEmail(r) \/ ListTokens(r)
       \/ DeactivateToken(r) \/ CutShort(r)
       \/ \E n \in Notes : CreateNotification(r, n)
       \/ \E d \in Devices : Push(r, d) \/ PushRejected(r, d)
  \/ \E n \in Notes : EmailSent(n) \/ EmailFails(n) \/ MarkRead({n})
  \/ MarkRead({n \in Notes : row[n] # NoRow /\ ~row[n].read})

PhoneStep ==
  \/ \E c \in Channels : UpdatePreference(c)
  \/ \E d \in Devices : Uninstall(d) \/ \E who \in {"mine", "other"} : RegisterDevice(d, who)

DigestStep ==
  \/ UpdateDigestPreference
  \/ FindUnread \/ SendDigest \/ DigestFails \/ NoteDigest \/ CrashDigest \/ Clock

NotifyStep == (InboxStep \/ PhoneStep \/ DigestStep) /\ UNCHANGED texts

TextStep ==
  /\ \E m \in Texts : SendSms(m) \/ GatewayTakes(m) \/ GatewayAnswers(m) \/ CallFails(m)
                       \/ CarrierReports(m) \/ DeliveryCallback(m)
  /\ UNCHANGED <<now, wants, task>>
  /\ UNCHANGED inbox /\ UNCHANGED phones /\ UNCHANGED digesting

Init ==
  /\ now = 0 /\ row = [n \in Notes |-> NoRow] /\ mails = [n \in Notes |-> 0]
  /\ wants = Channels /\ digest = [there |-> FALSE, on |-> FALSE, last |-> -1]
  /\ token = [d \in Devices |-> "none"] /\ live = {} /\ astray = {}
  /\ task = [r \in Requests |-> Idle]
  /\ cron = NoRun /\ digested = {} /\ slipped = {}
  /\ sms = [m \in Texts |-> "none"] /\ carrier = [m \in Texts |-> "none"]
  /\ reports = [m \in Texts |-> {}] /\ known = {} /\ sending = {} /\ disturbed = {}

Next == NotifyStep \/ TextStep

Spec == Init /\ [][Next]_vars

------------------------------------------------------------------------------

TypeOK ==
  /\ now \in 0..MaxTime
  /\ \A n \in Notes : row[n].at \in -1..MaxTime /\ mails[n] \in 0..MaxAttempts
  /\ wants \subseteq Channels /\ digest.last \in -1..MaxTime
  /\ token \in [Devices -> {"none", "mine", "other", "inactive"}] /\ live \subseteq Devices
  /\ \A r \in Requests :
       task[r].pc \in {"idle", "create", "digest", "enqueue", "list", "push"}
  /\ cron.found \union digested \union slipped \subseteq Notes /\ astray \subseteq Devices
  /\ sms \in [Texts -> {"none", "PENDING", "SENT", "DELIVERED", "FAILED"}]
  /\ known \union sending \union disturbed \subseteq Texts

\* No unread notification falls between two digests: one that is older than the last
\* digest was in a digest, unless it was written while a digest was under way
\* (the cutoff is the time of the write, notifications.service.ts:308-311) or was a
\* day old at the first one (:279).  A device whose app is installed and registered
\* is pushed to, though its token was rejected or another user's before (:181-204),
\* unless that rejection was still being handled (:403-405) or was of the message
\* (:443-448), until it registers again.  A text that reached its phone and has no
\* callback to come is DELIVERED (sms.service.ts:138-156, 192-214), unless a callback
\* came before the gateway's answer was stored, or told of a failure.
NotificationsReach ==
  /\ \A n \in Notes \ slipped :
       row[n] # NoRow /\ ~row[n].read /\ row[n].at < digest.last => n \in digested
  /\ \A d \in live \ astray : token[d] # "inactive"
  /\ \A m \in Texts \ (disturbed \union sending) :
       carrier[m] = "delivered" /\ reports[m] = {} => sms[m] = "DELIVERED"
===============================================================================
