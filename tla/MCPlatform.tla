------------------------------ MODULE MCPlatform ------------------------------
(***************************************************************************)
(* Small instances of the services around a sale: accounts, the catalogue  *)
(* and what a course is made of, and operations.  They share no step and   *)
(* no lock, so interleaving them shows nothing: a behaviour is of one of   *)
(* them, as focus says, and its variables are x1, x2, ... in the order its *)
(* module declares them.  A module whose parts seldom meet has a focus for *)
(* each, whose behaviours take the steps of that part only.                *)
(***************************************************************************)
EXTENDS Integers, Sequences, FiniteSets, TLC

CONSTANTS
  a, b, w1, w2,
  Requests,                         \* to the service in focus
  Users,                            \* reporters, requests to be admitted, editors
  None,
  MaxTokens, Codes, MaxSecrets,
  OtpTries, MaxSends, MaxOtps,
  CopyTtl,
  MaxSubmissions,
  Threshold, MaxReports, Answers,
  Parts, MaxEdits, MaxVersions,
  Courses, Known, Jobs, MaxReruns, Lists,
  TaggedCourses, Tags, Slugs, DraftIds, MaxSaves,
  Retention, MaxDay,
  Sessions, Starts, Lengths, Capacities, Students, Editors, Crons,
  Uploads, Malware, Private, Videos, MaxScans, Seconds, LinkTtl,
  Notes, Devices, Channels, Notifiers, Texts, MailTries, Days

VARIABLES
  focus,
  x1, x2, x3, x4, x5, x6, x7, x8, x9, x10, x11, x12, x13, x14, x15, x16, x17,
  x18

Symmetry == Permutations(Requests) \union Permutations(Users)

\* The lists of courses a request may give a path.
CourseLists == {<<"c1", "c2">>, <<"c1", "c1">>}

Tokens == INSTANCE RefreshTokens WITH
  refreshTokens <- x1, sessions <- x2, tokenReq <- x3
SignIn == INSTANCE SignIn WITH
  nonceStored <- x1, linked <- x2, secrets <- x3, secret <- x4, enabled <- x5,
  codes <- x6, confirmed <- x7, spent <- x8, raced <- x9, signReq <- x10
Otp == INSTANCE PhoneOtp WITH
  MaxAttempts <- OtpTries, MaxRows <- MaxOtps, otps <- x1, sends <- x2,
  isPhoneVerified <- x3, wrong <- x4, sentInWindow <- x5, raced <- x6, otpReq <- x7
Account == INSTANCE AccountStatus WITH
  Checks <- Users, Ttl <- CopyTtl, isBanned <- x1, isSuspended <- x2, lapsed <- x3,
  log <- x4, raced <- x5, adminReq <- x6, cache <- x7, check <- x8, since <- x9
Kyc == INSTANCE Kyc WITH
  submissions <- x1, isVerified <- x2, raced <- x3, kycReq <- x4
Course == INSTANCE CourseLifecycle WITH
  Reporters <- Users, status <- x1, indexed <- x2, cached <- x3, open <- x4,
  filed <- x5, disturbed <- x6, stale <- x7, task <- x8
Talk == INSTANCE Discussions WITH
  enrollment <- x1, free <- x2, asked <- x3, answers <- x4, best <- x5,
  comment <- x6, reviewed <- x7, raced <- x8, task <- x9
Backup == INSTANCE CourseBackups WITH
  Exporters <- Requests, status <- x1, structure <- x2, edits <- x3, backups <- x4,
  export <- x5, raced <- x6
Restored == INSTANCE CourseRestores WITH
  Runners <- Requests, exists <- x1, parts <- x2, job <- x3, run <- x4, raced <- x5,
  wrote <- x6
Path == INSTANCE LearningPaths WITH
  status <- x1, list <- x2, active <- x3, requires <- x4,
  enrollment <- x5, task <- x6, doubled <- x7, raced <- x8, loosened <- x9,
  stale <- x10
Editing == INSTANCE CourseEditing WITH
  Courses <- TaggedCourses, Drafts <- DraftIds, Tabs <- Users, slug <- x1,
  links <- x2, usage <- x3, task <- x4, overlapped <- x5, draft <- x6, tab <- x7,
  saves <- x8, tabsRaced <- x9, blind <- x10, reborn <- x11, overwritten <- x12
Dump == INSTANCE DatabaseBackup WITH
  Processes <- Requests, today <- x1, objects <- x2, stored <- x3, run <- x4,
  inProgress <- x5, lastRun <- x6
Live == INSTANCE LiveSessions WITH
  Requests <- Editors, session <- x1, now <- x2, reminded <- x3, unchecked <- x4,
  again <- x5, task <- x6, tick <- x7, places <- x8, taking <- x9, squeezed <- x10
Media == INSTANCE MediaUploads WITH
  MaxAttempts <- MaxScans, MaxTime <- Seconds, Ttl <- LinkTtl, enabled <- x1,
  client <- x2, row <- x3, task <- x4, stored <- x5, jobs <- x6, now <- x7,
  links <- x8, exposed <- x9, whole <- x10
Notify == INSTANCE Notifications WITH
  Requests <- Notifiers, MaxAttempts <- MailTries, MaxTime <- Days, now <- x1,
  row <- x2, mails <- x3, wants <- x4, digest <- x5, token <- x6, live <- x7,
  task <- x8, cron <- x9, digested <- x10, slipped <- x11, astray <- x12,
  sms <- x13, known <- x14, sending <- x15, carrier <- x16, reports <- x17,
  disturbed <- x18

ASSUME PlatformAssumption ==
  /\ Tokens!ConstantsAssumption
  /\ SignIn!ConstantsAssumption
  /\ Otp!ConstantsAssumption
  /\ Account!ConstantsAssumption
  /\ Kyc!ConstantsAssumption
  /\ Course!ConstantsAssumption
  /\ Backup!ConstantsAssumption
  /\ Restored!ConstantsAssumption
  /\ Path!ConstantsAssumption
  /\ Editing!ConstantsAssumption
  /\ Dump!ConstantsAssumption
  /\ Live!ConstantsAssumption
  /\ Media!ConstantsAssumption
  /\ Notify!ConstantsAssumption

\* The variables left over, and what they hold.
Zero12 == x13 = 0 /\ x14 = 0 /\ x15 = 0 /\ x16 = 0 /\ x17 = 0 /\ x18 = 0
rest12 == <<x13, x14, x15, x16, x17, x18>>
Zero10 == x11 = 0 /\ x12 = 0 /\ Zero12
rest10 == <<x11, x12, rest12>>
Zero9 == x10 = 0 /\ Zero10
rest9 == <<x10, rest10>>
Zero8 == x9 = 0 /\ Zero9
rest8 == <<x9, rest9>>
Zero7 == x8 = 0 /\ Zero8
rest7 == <<x8, rest8>>
Zero6 == x7 = 0 /\ Zero7
rest6 == <<x7, rest7>>
Zero4 == x5 = 0 /\ x6 = 0 /\ Zero6
rest4 == <<x5, x6, rest6>>
Zero3 == x4 = 0 /\ Zero4
rest3 == <<x4, rest4>>

------------------------------------------------------------------------------
Init ==
  \/ focus = "tokens" /\ Tokens!Init /\ Zero3
  \/ focus = "sign in" /\ SignIn!Init /\ Zero10
  \/ focus = "phone" /\ Otp!Init /\ Zero7
  \/ focus = "status" /\ Account!Init /\ Zero9
  \/ focus = "kyc" /\ Kyc!Init /\ Zero4
  \/ focus = "course" /\ Course!Init /\ Zero8
  \/ focus = "discussion" /\ Talk!Init /\ Zero9
  \/ focus = "backup" /\ Backup!Init /\ Zero6
  \/ focus = "restore" /\ Restored!Init /\ Zero6
  \/ focus = "path" /\ Path!Init /\ Zero10
  \/ focus = "tags" /\ Editing!Init /\ Zero12
  \/ focus = "drafts" /\ Editing!Init /\ Zero12
  \/ focus = "database" /\ Dump!Init /\ Zero6
  \/ focus = "live" /\ Live!Init /\ Zero10
  \/ focus = "seats" /\ Live!Init /\ Zero10
  \/ focus = "media" /\ Media!Init /\ Zero10
  \/ focus = "digest" /\ Notify!Init
  \/ focus = "push" /\ Notify!Init
  \/ focus = "sms" /\ Notify!Init

TokensStep == focus = "tokens" /\ Tokens!Next /\ UNCHANGED <<focus, rest3>>
SignInStep == focus = "sign in" /\ SignIn!Next /\ UNCHANGED <<focus, rest10>>
OtpStep == focus = "phone" /\ Otp!Next /\ UNCHANGED <<focus, rest7>>
AccountStep == focus = "status" /\ Account!Next /\ UNCHANGED <<focus, rest9>>
KycStep == focus = "kyc" /\ Kyc!Next /\ UNCHANGED <<focus, rest4>>
CourseStep == focus = "course" /\ Course!Next /\ UNCHANGED <<focus, rest8>>
TalkStep == focus = "discussion" /\ Talk!Next /\ UNCHANGED <<focus, rest9>>
BackupStep == focus = "backup" /\ Backup!Next /\ UNCHANGED <<focus, rest6>>
RestoredStep == focus = "restore" /\ Restored!Next /\ UNCHANGED <<focus, rest6>>
PathStep == focus = "path" /\ Path!Next /\ UNCHANGED <<focus, rest10>>
TagStep == focus = "tags" /\ Editing!TagStep /\ UNCHANGED <<focus, rest12>>
DraftStep == focus = "drafts" /\ Editing!DraftStep /\ UNCHANGED <<focus, rest12>>
DumpStep == focus = "database" /\ Dump!Next /\ UNCHANGED <<focus, rest6>>
\* Two sessions of one place each, which nobody takes: they are about times.
LiveStep ==
  /\ focus = "live" /\ Live!ScheduleStep /\ UNCHANGED <<focus, rest10>>
  /\ \A r \in Editors : x6'[r].row.capacity <= 1
\* One session, which starts at once: it is about the students of it.
SeatsStep ==
  /\ focus = "seats" /\ Live!Next /\ UNCHANGED <<focus, rest10>>
  /\ \A r \in Editors : x6'[r].session = Live!Idle.session /\ x6'[r].row.start = 0
MediaStep == focus = "media" /\ Media!Next /\ UNCHANGED <<focus, rest10>>
DigestStep ==
  /\ focus = "digest" /\ (Notify!InboxStep \/ Notify!DigestStep)
  /\ UNCHANGED <<focus, rest12>>
PushStep ==
  /\ focus = "push" /\ (Notify!InboxStep \/ Notify!PhoneStep)
  /\ UNCHANGED <<focus, rest12>>
SmsStep == focus = "sms" /\ Notify!TextStep /\ UNCHANGED focus

Next ==
  \/ TokensStep \/ SignInStep \/ OtpStep \/ AccountStep \/ KycStep
  \/ CourseStep \/ TalkStep \/ BackupStep \/ RestoredStep \/ PathStep
  \/ TagStep \/ DraftStep \/ DumpStep \/ LiveStep \/ SeatsStep
  \/ MediaStep \/ DigestStep \/ PushStep \/ SmsStep

platform ==
  <<focus, x1, x2, x3, x4, x5, x6, x7, x8, x9, x10, x11, x12, x13, x14, x15, x16, x17, x18>>

Spec == Init /\ [][Next]_platform

------------------------------------------------------------------------------
\* The variables keep their types.
TypesOK ==
  /\ focus = "tokens" => Tokens!TypeOK
  /\ focus = "sign in" => SignIn!TypeOK
  /\ focus = "phone" => Otp!TypeOK
  /\ focus = "status" => Account!TypeOK
  /\ focus = "kyc" => Kyc!TypeOK
  /\ focus = "course" => Course!TypeOK
  /\ focus = "discussion" => Talk!TypeOK
  /\ focus = "backup" => Backup!TypeOK
  /\ focus = "restore" => Restored!TypeOK
  /\ focus = "path" => Path!TypeOK
  /\ focus \in {"tags", "drafts"} => Editing!TypeOK
  /\ focus = "database" => Dump!TypeOK
  /\ focus \in {"live", "seats"} => Live!TypeOK
  /\ focus = "media" => Media!TypeOK
  /\ focus \in {"digest", "push", "sms"} => Notify!TypeOK

\* Accounts: a family of refresh tokens is a chain with one live end (RefreshTokens), the
\* second factor can be used and its codes only once (SignIn), a phone number is verified
\* within the limits (PhoneOtp), bans and suspensions are as the log says and no
\* cached copy outlasts them for long (AccountStatus), the newest submission decides (Kyc).
AccountsSound ==
  /\ focus = "tokens" => Tokens!FamilyIsChain
  /\ focus = "sign in" => SignIn!FactorUsable
  /\ focus = "phone" => Otp!LimitsHold
  /\ focus = "status" => Account!StatusAgreesWithLog /\ Account!BarredWithinTtl
  /\ focus = "kyc" => Kyc!VerifiedByNewest

\* The catalogue: the index and the cached list follow the courses, and several students
\* are needed to pause one (CourseLifecycle); an answer is best alone and a flagged
\* comment hidden (Discussions); backups are what they are numbered for, and a restore
\* says what became of it (CourseBackups, CourseRestores); a path can be followed
\* (LearningPaths); tags are counted and drafts not lost (CourseEditing).
CatalogueSound ==
  /\ focus = "course" => Course!CatalogueInStep /\ Course!PausedByMany
  /\ focus = "discussion" => Talk!DiscussionSound
  /\ focus = "backup" => Backup!VersionsSound
  /\ focus = "restore" => Restored!OutcomeIsTrue
  /\ focus = "path" => Path!PathLeadsOn
  /\ focus \in {"tags", "drafts"} => Editing!EditingSound

\* Operations: once stored, there is always a database backup (DatabaseBackup); live
\* sessions do not clash, are announced once and not overbooked (LiveSessions); what is
\* stored was scanned and private files are not served (MediaUploads); what is sent
\* arrives and is counted as it went (Notifications).
OperationsSound ==
  /\ focus = "database" => Dump!NeverWithoutBackup
  /\ focus \in {"live", "seats"} => Live!SessionsSound
  /\ focus = "media" => Media!MediaSound
  /\ focus \in {"digest", "push", "sms"} => Notify!NotificationsReach
===============================================================================
