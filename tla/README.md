# Hamplard backend: a TLA+ verification project

Hamplard is a NestJS backend over PostgreSQL (Prisma) for a course marketplace
whose payments, enrolments and certificates are recorded by a Soroban contract
on Stellar. One Node process serves HTTP requests, runs cron jobs and polls the
contract's events. Node runs one callback at a time, but every `await` is a
point where another request, job or poll may run: almost all of the modules
below are about what happens between two awaits of one handler.

## 1. Inventory

| Component | State | Operations | What is hard | What makes it correct |
|---|---|---|---|---|
| Event poller (`modules/events`) | `chain_events`, `event_poller_checkpoint`, in-memory ledger, cursor and failure counter | boot, tick, fetch page, save, handle, mark, persist | crashes, re-reads, RPC retention, failed writes, page boundaries inside a ledger | nothing skipped, nothing handled twice, chain order, no stuck state |
| Enrolments, bundles (`modules/enrollments`, `modules/bundles`) | `payments`, `enrollments`, `bundle_enrollments`, course statistics | create, bundle enroll | checks and writes in separate awaits, one path with and one without a transaction, crashes | one transaction buys one purchase; bundles complete; statistics exact |
| Lesson progress (`modules/lessons`) | `lesson_progress`, percentage and status of the enrolment | complete, watch, recalculate | parallel recalculations, rounding, growing courses, other writers of the status | completion is not lost and not premature |
| Refunds (`modules/enrollments/refunds.service.ts`) | `refunds`, enrolment status | create, approve, reject, process | read-check-write without locks | refunds never exceed what was paid |
| Coupons (`modules/coupons`) | counter, limit, flags, `coupon_redemptions` | redeem, update, deactivate | conditional update against a limit read earlier and a time taken before it waits | counter exact, limit kept, no request admitted after the expiry |
| Referrals (`modules/referrals`) | code counters, `referrals`, `referral_rewards` | sign-up, conversion, redeem, expire | count-then-insert under a row lock, expiry against use | cap kept, counters exact, rewards used once |
| Bundle pricing (`allocateBundlePrice`) | none (pure) | split a price over courses | rounding | exact sum, each share fair to a cent |
| Tokens, sessions, sign-in (`modules/auth`) | `refresh_tokens`, sessions, nonce, 2FA columns | rotate, revoke, sign in, set up, use and disable 2FA | one token presented twice; columns read and written in different awaits | a family never branches; an enabled factor can be used, a code once |
| Phone codes (`modules/auth/otp.service.ts`) | `phone_otp`, in-memory rate limit | send, verify | overlapping sends and guesses, restarts | limits hold |
| Users, KYC (`modules/users`, `modules/kyc`, `auth/jwt.strategy.ts`) | ban and suspension columns, audit rows, cached user, submissions, `isVerified` | ban, suspend, admit, submit, review, revoke | two tables written in separate awaits, a copy nothing invalidates, reviews out of order | log and flag agree with the rows; a barred account is admitted for one lifetime of the copy at most |
| Courses (`modules/courses`, `search`, cache) | status, indexed document, cached lists, prerequisites | submit, approve, reject, pause, archive, list | three stores, chain events and reports against local edits | index and lists follow the status |
| Drafts, tags (`modules/courses`, `modules/tags`) | draft versions, links and `usageCount` | autosave, merge, attach, detach | several tabs; merges against new links | nothing unseen overwritten; counts exact |
| Quizzes (`modules/quizzes`) | sessions, attempts, questions | open, submit, close by cron, edit, grade | limits and cooldown read before the insert, edits merged from an old row, a sweep of 100 rows in no order | key hidden, limit kept, overdue sessions closed, the key earns full marks |
| Exams, certificates (`modules/exams`, `modules/certificates`) | attempts, certificate, template | submit, issue, revoke, share | advisory lock, a chain of awaits that may stop | attempts in turn, certificates earned |
| Assignments, drip schedule, paths | submission, unlock rows, path list | hand in, review, synchronise, override, announce, publish | verdicts on replaced work, synchronisation from old rows | verdict matches work; overrides stand; one announcement; paths lead on |
| Discussions, reviews, moderation | best answer, hidden flag, rating, reports | ask, answer, mark, comment, rate, report | two services mark answers, a copy of an aggregate | one best answer, flagged hidden, rating exact, several reporters |
| Fraud detection (`modules/enrollments`) | flags | score twice, review | the second score sees the new row | a suspicious enrolment has its flag |
| Payouts, invoices, disputes, fees | statuses, `emailSent`, cached rates | create, mail, decide, set a rate | two reviewers, retries, caches | one mail, one resolution, verified payees, fresh rates |
| Backups and restores (`modules/backups`) | snapshots, jobs, bucket | export, restore, dump, rotate | numbering and reading in separate awaits, partial failures | versions in order, outcomes true, progress not lost, always one dump |
| Cron monitor, data export | job rows, export rows, queue | start, end, clean up, process, expire | dead workers, retries, writes of the outcome that fail | no row in flight for good, row tells the outcome |
| Live sessions | times, places, reminders | schedule, move, RSVP, remind | checks before writes | no clash, one reminder, no overbooking |
| Notifications, text messages | rows, mails, tokens, digest time | create, push, digest, callbacks | failures between sending and noting; callbacks in any order | nothing between two digests; status final |
| Uploads (`modules/uploads`) | scan rows, files, jobs, links | scan, store, transcode, serve | one scanner client shared by all uploads, a limit of attempts nothing validates | nothing unscanned is stored where the limit can be met; nothing private is served without a link |
| Gamification, badges, wishlist, flags, reports, admin, analytics, audit log, health, infrastructure | rows and queries | | see "Not modelled" | not modelled |

Interactions: the poller's handlers write courses, enrolments and certificates;
enrolment calls the referral conversion, the drip schedule and notifications
after its writes; a processed refund and the lesson recalculation both write
`enrollments.status`; refunds and enrolment ask the Stellar client about
transactions; coupons read enrolments.

The hazards of this code, each at its line, are the `hazards` of `PROJECT.json`.

## 2. Modules

| Module | Models | Notes |
|---|---|---|
| `EventPoller` | `events.service.ts` | one `pc` per await; an event is its position on the chain and its paging token |
| `ChainDelivery` | what the handlers rely on | abstract: every event handled at most once, only if emitted |
| `Enrollment` | `enrollments.service.ts` `create`, `bundles.service.ts` `enroll` | a request is a record with a `pc`; several run at once |
| `Purchases` | what enrolment promises about money | abstract: a transaction buys one purchase of one student |
| `LessonProgress` | `lessons.service.ts` progress tracking | with the other writers of the enrolment |
| `Refunds` | `refunds.service.ts` | the refunds of one enrolment; a slot is a request under way |
| `Coupons` | `coupons.service.ts` `redeem`, edits | one coupon and a clock; the time a redemption compares with is taken before its update waits for the row |
| `Referrals` | `referrals.service.ts` | one referrer and code |
| `BundlePricing` | `allocateBundlePrice` | integer units, one share per step, with the running sum of the code; a total is the number of units its amounts hold |
| `RefreshTokens`, `SignIn`, `PhoneOtp` | `auth`: rotation and sessions; sign-in and second factor; phone codes | one account each; a token row is named by the order of its insert |
| `AccountStatus`, `Kyc` | `users.service.ts` bans, `jwt.strategy.ts` with its cached user; `kyc.service.ts` | one account; time is a countdown on the copy; a review is one READ COMMITTED transaction of several steps |
| `CourseLifecycle` | `courses.service.ts` status, `search.service.ts`, the cache interceptor, `moderation.service.ts` | one course; index and cached list are stores of their own |
| `CourseEditing` | `tags.service.ts`, `course-autosave.service.ts` | independent halves, a focus for each |
| `LearningPaths` | `learning-paths.service.ts`, prerequisites of courses | one path, one student; `stale` names the requests whose list was checked before a prerequisite was added |
| `QuizSessions`, `Grading` | `quiz-sessions`, `quiz-attempts`, `quizzes` services | one student at one quiz, with the number of overdue sessions elsewhere that cannot be graded (`stuck`); one question under several editors |
| `Certification`, `CertificateTemplates` | exam, certificate and share services; templates | one student in one course; the unique index as stored against names compared without case |
| `Assignments`, `DripSchedule` | their services | one submission; one enrolment |
| `FraudDetection` | `fraud-detection.service.ts` and its two calls | a score is a sum over the rows found; a flag is a row, reviewed by id |
| `Discussions`, `Reviews` | `discussions`, `questions`, `comment-moderation`, `reviews` services | one question; one course's rating |
| `BackOffice` | invoices, disputes, payouts, fee calculator | one enrolment, one instructor, one region |
| `CourseBackups`, `CourseRestores`, `EnrollmentRestore`, `DatabaseBackup` | `modules/backups` | structure as a map from parts to what is wrong with them |
| `CronMonitor`, `DataExport` | `cron-monitor`, `privacy` with its queue | with their fairness; every write to an export's row may fail |
| `LiveSessions`, `Notifications`, `MediaUploads` | their services | a device is live while its app is installed; the carrier and the scanner are external; the limit of scan attempts may be 0 or a fraction (`whole`) |
| `EventPollerProofs`, `EnrollmentProofs`, `RefundsProofs`, `AccountProofs`, `PlatformProofs` | theorems, over the `MC` module of the same components (the last two over `MCPlatform`) | see section 5; `LessonProgress`, `QuizSessions` and `MCPromotions` hold their own proofs |
| `MC*` | instances for TLC | `MCEventPoller`, `MCEnrollment`, `MCRefunds`, `MCPromotions`, `MCPlatform` join components; see below |

Joined instances. The services of one `MC` module share no step and no lock that
their models contain, so interleaving them would multiply states and show nothing. A
behaviour is of one component: the variable `focus`, chosen initially, says which,
and the others stay as they began. In `MCEnrollment` and `MCPlatform` the component
in focus keeps its variables in `x1`, `x2`, ... in the order its module declares
them. Where the two halves of a module seldom meet (tags and drafts, times and
seats, digests, devices and texts) each has a focus of its own, whose behaviours
take the steps of that half; `EditingByItself`, `LiveByItself` and `NotifyByItself`
are about all steps together. `StudentAssumption` and `PlatformAssumption` gather
what the joined modules assume of their constants; TLC evaluates them on the run,
and the theorems about `MCEnrollment` and `MCPlatform` rest on them (and on
`Enrollment`'s own) alone. The properties are conjunctions, one conjunct per
component, each named after the property of its module, where it is stated and
explained: `GradingSound` holds when, for instance, `ExamTakenInTurn` of
`Certification` does in the behaviours about exams.

Correspondence. A database row is a value of a function from its key, absent
rows included. A unique index is a guard on the insert, with a failing branch.
A Prisma `$transaction` is one action when nothing in it can be seen half done;
where READ COMMITTED lets others commit between two of its statements (coupon
read and update, referral count and insert) it is several, with the row locks as
guards. A handler's early return or exception is the branch that ends the
request. A crash drops all requests under way and the process memory, and
nothing of the database. What is outside `src/` (the chain, the RPC node) is
modelled from what the code sees of it and marked external.

History variables carry no code; properties read them: `runs`, `abandoned`,
`refused` (poller), `uncounted` (enrolment), `settled`, `crashed` (lessons), `raced`
(refunds), `lowered` (coupons). In the other modules `raced`, `overlapped` and
`disturbed` record that two handlers overlapped in a way the code does not defend
against, or that one was cut short; a property with `~raced` says what holds as long
as that does not happen, and the comment at the variable says what sets it. Where
the code does defend (a conditional update, a lock, a unique index) the property has
no such guard: `FamilyIsChain`, `ExamTakenInTurn`, `BarredWithinTtl`, `KeyHidden`,
`CertificateEarned`, `OverrideStands`, `NeverWithoutBackup`, `MediaSound`,
`InvoiceSound`.

Operators marked `(mutant)` are plausible mistakes in the definition below or
above them. Replacing that definition by the mutant makes TLC refute the property
of its module, in the instance of its run; `PROJECT.json` lists one for each
property of a run, and the modules keep those for each conjunct.

## 3. Runs, bounds and what they show

- `event_poller`: three events, the second and third of one transaction, five
  ledgers, pages of two, lookback and retention of two, any two faults of all
  ten kinds. Two faults are enough for each pair (a crash after a failed
  checkpoint write, a lost checkpoint and an unreadable tip); five ledgers let
  the RPC node prune and the poller fall behind; a page of two is shorter than
  the chain and may split a transaction's events. Properties: every event behind
  the position was read, refused or jumped over (`NoEventSkipped`); health does
  not report an unwritten checkpoint as written (`HealthyMeansPersisted`);
  handlers start in chain order unless events were given up (`HandledInOrder`);
  the poller implements `ChainDelivery`.
- `event_poller_live`: `EventuallyIngested` under weak fairness, with a refused
  event (its `courseId` names no course) and any one fault but a foreign
  checkpoint. Beside it the other work that runs by itself (`WorkEnds`): two quiz
  sessions, one request and one cron process, one attempt allowed and one crash, a
  batch of one (100 in the code), which a session elsewhere that cannot be graded may
  take and for which the two compete; two job runs and two clean-ups; two exports of
  one user, two attempts each, two days. Two of each are what may be confused or block
  one another.
  `JobsSound` holds the types of the three modules and the safety properties of
  `CronMonitor` and `DataExport`. Deadlock is not checked: an export whose row was
  written and whose job never reached the queue stays PENDING and blocks further
  requests.
- `event_poller_save_fails` (violation): see the findings.
- `enrollment`: two requests, two students, two courses that form a bundle, two
  transactions, a crash, and courses paused at any time. Two requests are what a
  unique index decides between; both kinds of purchase meet. Requests, students and
  transactions are symmetric. In focus one at a time: a quiz with one or two
  attempts allowed, two sessions and the cron job; a question with five kinds of key
  and two editors; an exam and certificate with two attempts and two requests; two
  templates over two spellings of one category; one lesson that drips, with two
  requests and the job, over two days (two lessons do not meet in any action); two
  versions of a submission; three courses for fraud scores, with limits of two so
  that the third enrolment crosses them, and two flags: a behaviour is followed
  until something disturbs the scoring (the constraint `Undisturbed`), since
  `FlaggedIsRecorded` says nothing from there on; ratings 1 and 5 of two students;
  one lesson restored while it is learned.
- `lesson_progress`: four requests over a course that may grow from two lessons
  to three. Three lost updates can follow one another; the fourth request heals.
  The course that has 198 lessons completed before (`Old`) is covered by the
  proof instead, which needs fewer than 200.
- `lesson_progress_lost` (violation): see the findings.
- `refunds`: two refunds and two requests under way at once, a price of 2 and
  amounts 1, 2 and 3. `RefundSound` holds whatever races; the other properties
  carry `~raced`, because the code checks and writes in different awaits.
  `PapersSound` is about `BackOffice`, one instance of it: one dispute, one payout,
  an amount of 0 or 1, rates 0 and 5, and two changes that the surroundings make
  of the rate or the verification; two is what takes a verification away and
  gives it back. 1.2 million states in all.
- `refunds_overpaid` (violation): see the findings.
- `promotions`: three redemptions by two users, limits 0, 1 and none, two edits, a
  clock of two moments with an expiry at, or after, the second, so that a request
  may arrive before it, wait, and commit after it; three referred users, two
  requests, a cap of one reward or none; bundle prices up to 21 units with list
  prices up to 7, one to three courses, a cent of three units, so that division
  rounds in most cases.
- `platform`: nineteen foci over fifteen components. Mostly two requests, which is
  what two awaits of one handler need to be overtaken; three token rows, so that a
  reused token has a successor; two checks of requests over a cached copy of two
  ticks, beside two administrators; two secrets and two recovery codes; an OTP limit
  of one send and two guesses; three KYC submissions; two reporters for a threshold
  of two, two reports each, so that one person's reports could be counted twice; two
  versions of a backup and two edits; a restore job over a course whose instructor
  is known and one whose is not, executed up to twice; two tags, two slugs, one
  course; two tabs, two drafts, three saves; retention of two days over four; two
  sessions of one instructor, three students for one or two places; three uploads
  (infected, private, video) with two attempts of the scanner, two and a fraction,
  or no scan; two requests that write notifications, over three days; two text
  messages. `AccountsSound`, `CatalogueSound` and `OperationsSound` name the
  property of each. In the focus on times nobody takes a place, and in the one on
  seats there is one session, which starts at once; `LiveByItself` has neither
  bound.
- `fraud_held`, `prerequisite_cycle` (violations): see the findings. They check
  `FraudDetection` and `LearningPaths` by themselves.

Deadlock is checked for `event_poller`, `refunds` and the violations of these
components. In the others requests run out, which is not a fault: their
configurations say so.

## 4. Fairness

Only `event_poller_live` assumes fairness, always weak, and only of what the
program starts by itself:

- the poller (`WF_vars(Poller)`): `setInterval` starts a poll every few seconds for
  as long as the process lives, and a crashed process is restarted by its
  supervisor, so a step that stays possible is taken;
- the job that closes quiz sessions, `Quiz!Cron(c)`: `@Cron` every minute, and each
  await returns or throws;
- the clean-up of stale runs, and the passing of its threshold
  (`FindStaleRuns`, `MarkStaleRuns`, `PassThreshold`): `@Cron` and the clock; nothing
  is assumed of the jobs themselves, which may die;
- the queue's delivery of a job, `Export!Process(e)`: Bull delivers waiting jobs and
  retries failed ones.

Nothing is assumed of users, administrators, the chain, the RPC node or faults;
faults are bounded, so that they end. `ExportSettles` leaves out an export whose
worker died too often for the queue to deliver it again, or whose last attempt could
not write its row (`lost`). `OverdueCloses` leaves out a lesson whose questions were
all deleted, where closing cannot be graded, and times when as many sessions as a
batch holds cannot be graded elsewhere: the sweep takes its rows in no order, so
those may take all places of every batch, and what is left out then starves.

## 5. What is proved

TLAPS checks every theorem for all values of the constants that satisfy the named
assumptions (`ConstantsAssumption` of each module, `StudentAssumption` and their
like of the `MC` modules), none of which bounds the number of requests, rows,
students, events or faults; TLC evaluates the assumptions on every run. Each
proof has the same shape: an inductive invariant, a lemma for each action that can
disturb it, one for the steps that only read, and a temporal step at the end. All
safety and action properties of the passing runs are theorems.

Poller and jobs (`EventPollerProofs`):

- `TypeCorrect`; `AtMostOnce` and `Implements` (the refinement of `ChainDelivery`),
  from `RowRemembersRun`: a handler is about to run only for a row inserted by this
  poll, and an event whose handler ran has its row.
- `NoSkip`, from `SkipInv`. `NoEventSkipped` alone is not inductive: `SkipInv` adds
  what the page means while it is processed (`PageOK`: whatever precedes an event
  of the page is accounted for or still in the page, and a page that was not full
  held everything up to its ledger) and where positions lie (`ChainOK`).
- `HealthIsTruthful`, from `BootInv` (a process that has just read its checkpoint
  holds that position or none). `InChainOrder`, from `StoredInOrder`: as long as
  nothing is given up, the events stored are a prefix of the chain, and the one
  being handled is the last of them.
- `JobsAlwaysSound`, the types of `QuizSessions`, `CronMonitor` and `DataExport` and
  the properties of the last two: `RowsTold` (what a run is about to write when it
  ends is what became of its job) and `ExportInv` (`OneByOne`: while requests do not
  overlap, one export at most is under way or of the day; `QueueOfToday`: a job on
  the queue is of the day of its row). `PollerWithin` carries the theorems about
  `EventPoller` over to the run.

Enrolment (`EnrollmentProofs`):

- `TypeCorrect`; `OneTxBuysOnce` and `BundlesComplete`, from `PurchaseInv`. The unique
  index decides the race, but only with `PaidFor` (an enrolment's transaction has a
  payment of its student) and `Unspent` (a request between its payment and its
  enrolment is the only one that may spend it).
- `StatsExact`: the counter of a course is the cardinality of its `Enrollees` less the
  requests that have yet to count or crashed before they did.
- `Implements`, the refinement of `Purchases`: the write of an enrolment is a purchase
  of a transaction nobody has used (`WritingBuys`), every other step a stutter.

Lesson progress (`LessonProgress`): `TypeCorrect`; `CompletedIsFinished`, from
`FinishInv` (while the course is settled, the total a request read is the course's
and its count is no higher than the completed rows) and a rounding lemma. It
assumes fewer than 200 lessons, which is exact: 199 of 200 rounds to 100.
`CompletionIsRecorded`, from `RecordInv`: as long as all lessons are done and the
enrolment is not completed, some request is still on its way to write 100 %.

Refunds and papers (`RefundsProofs`): `Sound` holds whatever races and gives
`AlwaysSound`; `Sequential` says what requests one after the other keep (what a
request has checked still holds when it writes, since nobody else writes in
between) and gives `CapHolds`, `OneAtATime`, `RefundedInFull` and `PaidOutIsFinal`.
`OfficeInv` has a part for invoices, disputes, payouts and rates and gives
`PapersAlwaysSound`. The sum of granted amounts is a cardinality here, so that
adding and changing a row can be reasoned about without induction.

Promotions (`MCPromotions`):

- coupons: `TypeCorrect`, `CounterExact`; `OnlyWhenUsable` (the time of the update
  is not before the request arrived, so an expiry it accepts is after that);
  `LimitHolds` from `LimitInv` (until a limit is lowered, the limit a redemption
  read is no higher than the coupon's), and `NeverOverLimit` from `WithinRows`,
  which counts rows;
- referrals: `RewardsCapped`, `CountersExact` and `UsedOnce`, from `ReferralInv`: the row
  locks of the code and of the referral keep conversions apart (`Apart`), so what a
  request counted (`Relies`) is still the count when it inserts;
- bundle prices: `SplitIsExact` and `SplitIsProRata`, from `PricingInv`: the shares given
  so far add up to `allocated`, each is within a cent of its proportion, and what is
  left is neither negative nor more than the rest's part plus a cent for each.

Beside the enrolment (`EnrollmentProofs`; `StudentInv` joins one invariant for each
service, and `EnrollmentWithin` carries the theorems about `Enrollment` over to the
run):

- `QuizInv` (in `QuizSessions`): the limit needs `OneByOne`, that what a process read of
  the attempts is still so; `KeyHidden` needs nothing, because attempts are never
  deleted.
- `KeyInv`: edits one after the other write back what they validated. A key that a
  valid question has is right under `EvaluateAnswer` in any order: `KeyIsRight`.
- `ExamInv`: `LockHeld` (whoever is about to record an attempt holds the advisory lock)
  makes attempts follow one another whatever overlaps; `CertificateInv` says what a
  request that is about to issue a certificate has seen.
- `TemplateInv`, `WorkInv`: a request alone on its template or submission finds it as it
  was checked.
- `DripInv`: `Overrides` needs nothing about overlaps; `AnnouncedOnce` needs `Announced`,
  in which `NoticesKept` ties the notices sent to the rows marked and `StillDue` says
  that a lesson the job chose is still locked and due. The loop over lessons rests on
  the least element of a set of numbers (`Least`).
- `FraudInv`: as long as nothing ages, is refunded, crashes, or is cleared after it was
  confirmed, a score only grows
  (`ScoreGrows`), so the second scoring finds at least what the first one did.
- `RatingInv`: an aggregate that was read is still that of the table.
- `RestoreInv`: what a restore read of the row it is about to write is still so.

The platform (`AccountProofs`, `PlatformProofs`): for each service an invariant, three
lemmas (it holds initially, its steps preserve it, it implies the type invariant and
the property), and `PlatformInv`, which has the invariant of the service in focus.
`PlatformTypes`, `AccountsAreSound`, `CatalogueIsSound` and `OperationsAreSound` follow;
so do `EditingByItself`, `LiveByItself` and `NotifyByItself` of the specifications of the
modules whose steps the run splits between foci.

- `TokensInv`: of a family only the newest row can be unconsumed (`TokensLineage`), so
  whoever has consumed a row is the only one to follow it, and `FamilyIsChain` needs
  nothing about overlaps. `OtpInv` counts the sends of a window before the first await,
  as the code does; the row a verification looks for is the greatest unused one
  (`Greatest`). `SignInv` and `KycInv`: a change alone on the account finds what it read.
- `AccountInv` relates the cached copy, the checks that are about to store one and the
  time since the status last changed: a copy that is older than the status has at most
  the rest of its lifetime. The log lacks no row but that of the handler under way.
- `CourseInv`: what a handler at the index holds is the status of now, and if the index
  does not tell it, a handler is on its way there. `TalkInv`: a request that was let in
  still holds what let it in. `BackupInv`: what an export read is not older than any
  backup. `RestoreInv`: the courses of a job are those still to do and those tallied,
  and what its one runner tallied as restored is what the job wrote, though a course may
  be tallied as failed as well when its progress could not be noted.
- `PathInv`: the list is in the order of the prerequisites, and so is the list of a
  request that is about to store it, unless one was added since it was checked
  (`stale`); it rests on what `Unique` returns (`UniqueIsList`: each course of the
  list given, once, in order of first occurrence) and on the least element of a set
  of numbers.
- `EditingInv`: the count a merge holds is the one its commit leads to, unless its tag
  is gone; a tab that knows the version of the draft knows what it holds.
- `DumpInv`: a run that deletes has stored a backup since it began, and no run is as
  long as the retention, so what any run deletes is older than the start of every
  other: two processes cannot empty the bucket between them. That no run takes as long
  as the retention is a guard on the clock of the model; nothing in the code says so.
- `LiveInv`: what a request is about to write stays free while it is the only one to
  write; a session that is not marked was not announced, but for the one a tick is
  about to mark; and whoever was let through to a session has a place left in it.
  `MediaInv`: a request about to store has a row that says clean, which nobody else
  writes, or ran out of attempts of which none was the last.
- `NotifyInv`: while a digest run is under way, what is unread was found or was in
  an earlier digest; a token that is to be deactivated is of no live device, but for
  those gone `astray`; a text that arrived and has no callback to come had its id
  stored first.

Only model-checked:

- liveness (`EventuallyIngested`, `WorkEnds`), which the prover does not do;
- that the recursive functions and folds of the models compute what their names say
  beyond the lemmas stated: the installed provers have no induction over data. Sums
  that a proof needs are therefore stated as cardinalities of sets of units.

## 6. Findings and other disagreements

Runs that TLC refutes:

1. An event whose insert fails is passed over (`events.service.ts:237` against
   its comment, 228-229).
2. A finished course may show less than 100 % (`lessons.service.ts:273` against
   `README.md:877`).
3. Parallel reviews approve more than was paid (`refunds.service.ts:179`
   against 60 and 154).
4. A HELD flag may belong to an enrolment that exists
   (`enrollments.service.ts:239-245` against `fraud-detection.service.ts:118`).
5. Prerequisites may form a cycle (`courses.service.ts:564` against 548-549;
   `findCycle`, 606, is never called).

Seen while modelling, and visible in the models although no run is kept for them:

- `chain_events.courseId` is a foreign key (`schema.prisma:812`): an event whose
  course is unknown is dropped the same way as in 1.
- `extractEventIndex` (`events.service.ts:655-663`) is 0 for tokens that are not
  numbers, and `(txHash, eventIndex)` is unique (`schema.prisma:817`): the second
  event of a transaction is taken for a duplicate of the first.
- The jump on "start ledger out of range" goes near the tip (200-205), not "to
  the oldest available ledger" (194-196).
- A crash between insert and handler leaves the event unhandled, although 370
  takes a duplicate for "ingested and handled on a previous run".
- A checkpoint of another network with an unreadable tip at start-up is kept
  (126), and every later tick returns early (173-176).
- A request that fails between payment and enrolment leaves the transaction
  spent (`enrollments.service.ts:37` against 77-105); a course paused after the
  check at 53 is still enrolled in at 91.
- Progress may exceed 100 % when a lesson is added between the two reads
  (`schema.prisma:618`), and 199 of 200 lessons complete a course
  (`lessons.service.ts:271`).
- A late recalculation or chain event turns a REFUNDED enrolment into COMPLETED.
- Two administrators may both review a refund (`refunds.service.ts:240`).
- A redemption may exceed a limit lowered after it was read
  (`coupons.service.ts:242-243` against 283).
- A course the student already owned is skipped with its share of the bundle
  price (`bundles.service.ts:190`), so that the booked amounts do not add up to
  the price as 112-114 says.
- `replaceCourses` of a published learning path counts the courses given before
  duplicates are dropped (`learning-paths.service.ts:247` against 251): the path
  may be left with one course.
- `getCheckoutBreakdown` spreads a promise it does not await
  (`courses.service.ts:310`): the breakdown is empty.
- `updatePayoutStatus` accepts any status after any other (`payouts.service.ts`).
- An export whose job could not be queued stays PENDING, and the next request is
  refused because of it (`data-export.service.ts:142-155`).
- A course that was submitted or rejected late leaves ACTIVE without the index and
  the lists being told (`courses.service.ts:112-132`).
- `VIRUS_SCAN_MAX_RETRIES` is any number (`virus-scan.service.ts:50`,
  `env.util.ts:29-35`): below 1 the loop is not entered, and of a fraction no
  attempt equals the limit (140), so `scanFile` returns as if the file were clean.
- `INVALID_ARGUMENT` from the push gateway deactivates the token, although the message
  may be what is wrong (`notifications.service.ts:443-448`).
- Sessions that cannot be graded stay overdue, and 100 of them may fill every batch of
  the sweep (`quiz-sessions.service.ts:205-211`).
- An export whose outcome cannot be written stays PENDING or PROCESSING for good when it
  was the last attempt (`data-export.service.ts:312-320`, 380-386).
- A coupon may be redeemed after its expiry by a request that waited for the row
  (`coupons.service.ts:275-288`).
- Of two reviews of one fraud flag the last one counts
  (`fraud-detection.service.ts:271`); a confirmed flag that is cleared that way
  between the two scorings of an enrolment lets the second one answer ALLOW, and the
  enrolment keeps no flag.
- A course that was restored and whose progress could not be noted is counted as restored
  and as failed (`restore.service.ts:303-323`).
- Digests note the time they were written, not the time their notifications were
  read (`notifications.service.ts:308-311`): one that arrives in between is in none.
- A restore job executed twice, or an enrolment restored while the student learns,
  may write older progress over newer (`enrollment-restore.service.ts:274-301`).

## 7. Not modelled

- Badges, wishlist, feature flags: rows written by one statement under a unique
  index; no step reads what another step writes. The leaderboard replaces its
  snapshot in one transaction, without a unique index: two recalculations at once
  leave both, and the next one removes them.
- Impersonation sessions: a list in the memory of one process, which the tokens it
  issues do not consult.
- Reports, analytics, admin, audit log, health, search queries, payout and referral
  statistics: queries, and log rows that are written once.
- Common configuration, DTOs, guards, filters, logging, middleware: the decisions
  they take appear as guards of the handlers that are modelled.
- Of modelled services, what the components of `PROJECT.json` name: first inserts
  of rows nothing competes for (coupon, bundle, assignment, referral code),
  descriptive fields, discounts and scopes of coupons, PDF and image rendering, CDN
  invalidation, download counters.
- Contract invocation by the Stellar client: its effects reach the back end as
  events, which the poller models.
- Cryptography, texts and files: right or wrong, or a member of a small set.

## 8. Plan

1. Built: the modules of section 2, and the proofs of section 5.
2. Proved as well as checked: every invariant and action property of the passing
   runs, and both refinements. Liveness stays with TLC.
3. The hazards without a property: the unhandled event after a crash
   (`events.service.ts:385`), the transaction spent without an enrolment
   (`enrollments.service.ts:91`) and the late write over REFUNDED
   (`lessons.service.ts:278`) are what the code does, so no property of theirs holds;
   section 6 lists them.
4. Hazards of which only a part is covered, because the code does what the rest
   would forbid: the ledgers a jump passes over (`events.service.ts:201`) and the
   events the unique index refuses (662) are recorded as given up and left out of
   `NoEventSkipped` and `HandledInOrder`; overlapping refund reviews and the amount
   `process` read before its chain call (`refunds.service.ts:155`, 217) are in a
   violation run, and left out by `~raced` elsewhere; a stale write-back of
   second-factor columns (`two-factor.service.ts:145`) and of restored rows
   (`enrollment-restore.service.ts:274`) is left out by `~raced`; the rounding at
   200 lessons (`lessons.service.ts:271`) is only in the hypothesis of
   `CompletedIsFinished`; a cycle of prerequisites is shown by `prerequisite_cycle`
   and by no passing run. The `note` of each hazard says so.
5. Discounts, gamification levels and rollout percentages as pure functions
   beside bundle pricing, if they grow beyond one expression.
