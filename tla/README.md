# A TLA+ model of the IELTS preparation API

The repository is the backend of an IELTS preparation site: a Go modular monolith
(`src/internal/*`, binaries in `src/cmd/*`) on PostgreSQL, with Redis for rate limits and
wake-ups, external AI providers that grade and converse, a Python speech service and a
payment provider. This directory models its core logic in TLA+, checks the models with TLC
and proves the main properties of its first modules with TLAPS. Paths below are relative to
`src/`.

What makes the code hard is not any one function but that several of them run at once:
browser tabs of one student, API replicas, grading workers, administrators and the payment
provider meet only in database rows. A handler is usually several transactions with reads
in between, so an *action* of our modules is one transaction (or one external call, or,
where a transaction waits for row locks, the part of it up to the next wait), and every
interleaving of them is a behaviour.

- [Inventory](#inventory): the system's components and what can go wrong in each
- [Plan](#plan): the modules, and what is left to prove
- [The modules](#the-modules): correspondence with the code
- [The runs](#the-runs): what each checks, bounds, fairness
- [Proofs](#proofs)
- [Findings](#findings)
- [What is not modelled](#what-is-not-modelled)
- [Running the checks](#running-the-checks)

## Inventory

Each component with its state, its operations, whom it interacts with, what is hard about
it and what makes it correct. `PROJECT.json` lists the source files of each and, under
`hazards`, the line at which each difficulty bites.

### Graded work

**Writing assessment** (`writingpipeline`, `attempts/writing_pipeline_repository.go`,
`attempts/repository.go`, `attempts/assessment_retry.go`, `jobs/writing.go`,
`cmd/worker`). State: `attempts.status` (IN_PROGRESS, PROCESSING, SUBMITTED, ABANDONED),
`attempt_answers`, `writing_assessment_jobs` (status, tries, `updated_at` as a lease),
`writing_evaluations`, `user_skill_progress`. Operations: save, submit, retry, abandon;
claim, heartbeat, recover, complete, fail. Workers are goroutines of API or worker processes;
a Redis list only wakes them. Hard: workers crash between transactions, lose leases while
they are alive, lose the acknowledgement of a commit; the student saves, retries or closes
the exam meanwhile. Correct if no submission is stranded, each is graded and counted once,
the mark belongs to the text shown, a closed attempt never changes, and each hand-in ends.

**Speaking assessment** (`speakingpipeline`, `attempts/speaking_pipeline_repository.go`,
`attempts/recordings.go`, `jobs/speaking.go`). State: recordings with revisions,
a transcription queue, an assessment queue. An assessment is deferred, its try refunded,
while a transcription is under way. Hard: a recording replaced while it is being
transcribed; files deleted under a worker; deferral that never ends. Correct if an obsolete
transcription changes nothing and every assessment is graded or given back.

**Objective attempts** (`attempts/service.go`, `attempts/repository.go`,
`attempts/review_access.go`). State: attempts, answers, per-question results. Operations:
start, save, submit (graded at once), review. Hard: submit reads the saved answers and
stores them again while other tabs save, and while a mock's clock runs out. Correct if the
grade is the one the final answers give, and only exact answers have full marks.

**Mistakes pages and the grading cache** (`attempts/mistakes.go`,
`attempts/grading_cache.go`, `cache/json.go`). State: a process-local cache of what a
version asks and a shared one in Redis. Hard: versions loaded in bulk, level by level of
nested passages, while versions are added, evicted and expire. Correct if a page shows
each attempt as its pinned version asks it.

**Full mock session** (`fullmock/service.go`, `fullmock/repository.go`,
`fullmock/handler.go`). State: session (status, current section), sections with a deadline
or the milliseconds left of a paused clock, each section's attempt. Operations: open, pause,
save, upload of a recording, submit, advance, finish, abandon; any request first deals with
an expired section.
Interacts with both grading pipelines and the daily limits. Hard: requests of several tabs
act on what they read several transactions earlier, while workers grade and the clock runs.
Correct if time is neither gained nor lost, sections are taken in order, only time that is
up forces a hand-in, and a finished report is complete and final, but for recordings on their
way.

**Mock generation and guest trials** (`fullmock/generator.go`, `fullmock/guest_*.go`,
`guest`). State: generated sessions with the versions drawn for them, `guest_trials`, the
fixed materials of the guest mock. Operations: generate, restart, curated start, retake,
claim into an account, abandon, expire. Locks: trial row, then an advisory lock per user,
then the account. Hard: start, retake and claim at once, retries of lost answers, a bank
edited meanwhile. Correct if one session at a time is under way, a retake is charged once
and a claimed trial starts nothing any more.

### Money

**Orders and entitlements** (`billing`). State: orders (PENDING, PAID, FAILED, CANCELLED,
REFUNDED, the provider's id), entitlements (a window of days, revoked or not). Operations:
checkout, provider notifications, grants, revocations. Hard: notifications are repeated,
reordered and may precede the answer to checkout; the window of an entitlement depends on
all others, and the order of the row locks, those of foreign keys included, differs from one
transaction to another. Correct if live windows form a queue without overlap, each paid order
has one entitlement, nothing settled is replayed and no transaction waits for ever.

**Free quotas** (`billing.ConsumeTx`, `attempts.CreatePractice`,
`fullmock.generateSession`, `guest.Claim`). State: `free_usage` rows, limits per skill.
Hard: concurrent starts read the same count; limits and access change under them. Correct if
no skill gives more free starts than its limit allowed and each start is charged in full or
not at all.

### People

**Accounts and sessions** (`auth`, `user`, `admin`). State: the account row (status, role,
editor rights, `auth_version`), refresh sessions in families, signed tokens. Operations:
login with a password or Google, registration, completion of a lead, rotation, logout;
blocking, roles, passwords and deletion by administrators. Hard: a login reads and signs in
separate statements; two tabs rotate one token; a change revokes sessions it cannot see yet.
Correct if an accepted token says what the account may do now, one login has one session, and
only members have any.

**Phone verification** (`phoneverification`). State: challenges with a resend interval,
bounded tries, a token used once. Hard: guesses compared outside the transaction that counts
them. Correct if guesses are bounded and a confirmed phone pays for one registration.

**MCP keys** (`mcpkeys`), **waitlist** (`waitlist`): one guarded statement per operation.

### Content

**Materials** (`reading`, `listening`, `writing`, `speaking`). State: material rows with a
revision and a published version, immutable versions, media in an object store, fixed tests
over materials. Operations: create, save, publish, archive, upload, transcribe. Each skill
checks staleness in a way of its own. Hard: two editors, and students who start meanwhile.
Correct if no save is lost, students get only public versions, and public is what the
publisher saw. The import parsers and previews transform text.

**Blog** (`blog`): posts from draft to archive and writer applications; a request reads the
row and writes in another statement. A review makes a writer, and administrators set the same
role by other ways.

### AI

**Provider routing** (`aiproviders`). State: a bank of providers with priorities and
revisions, added, edited and ordered under locks and revision checks. One operation tries them level by level with
rotation and one shared time budget. **Assistant** (`assistant`): what they write passes a
gate that lets one provider be seen. Hard: a provider that was given up may have written
already; a slow one eats the time of the others. Correct if everyone is asked in time, once,
and the page shows one answer.

**AI and daily limits** (`ailimits`, `cache`): settings in PostgreSQL, Redis and memory,
counters in Redis. Hard: copies are stale, Redis goes away. Correct if no day takes more
than what it was granted and what is read was saved.

### Planning and the rest

**Study plan** (`studyplan/service.go`, `planner.go`, `repository.go`): one plan per
student, which every request brings up to date under an advisory lock whose owner holds one
database connection and asks for a second to start an attempt. Hard: attempts are made, end
and are found outside the plan; a start may die between its two transactions; a rebuilt plan
must keep what was done. **Learning cycles** (`studyplan/learning*.go`): mistakes, drills,
corrections and delayed checks until MASTERED. Hard: editors relabel and withdraw drills
under planned checks.

**Presence** (`analytics/tracker.go`, `online.go`): daily activity behind a mark in Redis,
visitors who are online. **Analytics**, **dashboard**, **health**: reporting.
**Infrastructure** (`app`, `config`, `httpx`, `database`, `objectstorage`,
`observability`): wiring and I/O. **Operations** (`ops`, `services`, `scripts`, `deploy`):
other processes and scripts.

## Plan

Modules in the order of their importance; each stands for one component, has named
assumptions on its constants and one action per operation. None declares a RECURSIVE
operator, so that all may be proved about.

| # | Module | Models | Composed of / abstract specification | State |
|---|--------|--------|--------------------------------------|-------|
| 1 | `WritingPipeline` | writing assessment | implements `Submission` and `AssessmentJob` | checked, proved |
| 2 | `FullMock` | a full mock session | built on `AssessmentJob` | checked, proved |
| 3 | `BillingOrders`, `BillingLocks` | orders, entitlements; the row locks of their transactions over several accounts | | checked, proved (orders) |
| 4 | `FreeUsage` | free starts | | checked, proved (quotas, one attempt) |
| 5 | `SpeakingPipeline` | speaking assessment | implements `AssessmentJob` | checked, proved |
| 6 | `MockSessions` | generation, restart, guest trial, retake, claim | | checked, proved |
| 7 | `Accounts` | logins, tokens, rotation, changes by administrators, leads | | checked, proved |
| 8 | `PhoneVerification` | challenges and their use | | checked, proved |
| 9 | `Materials` | drafts, versions, media, fixed tests, pinned attempts | | checked, proved |
| 10 | `StudyPlan`, `PlanLocks` | the plan; its lock and the pool | | checked, proved (plan) |
| 11 | `LearningCycles` | mistakes until mastered | | checked, proved |
| 12 | `Objective`, `Grading` (together `Grades`), `GradingPages` | attempts, the graders, the pages of mistakes | | checked, proved |
| 13 | `ProviderBank`, `ProviderChain` | the bank; one operation and its stream | | checked, proved |
| 14 | `DailyLimits`, `Blog`, `Presence` | counters and settings, posts, who is online | | checked, proved |

## The modules

Each module's header and comments name the functions it stands for; `map` in `PROJECT.json`
gives the lines. Here are the parts that take explaining.

### `Submission` - what an assessment promises

The abstract specification: an essay is written, handed in, and then graded once, for
exactly the text that was handed in, or given back unchanged. `Spec` adds that what was
handed in is graded or given back.

### `AssessmentJob` - the rows as others see them

An attempt's status and the status of its job, with QUEUED and PROCESSING merged into
ACTIVE. It has the awkward behaviours too: an attempt that was given back may still be
graded by a worker that lost its lease, and a job may fail after its attempt was graded.
`WritingPipeline` and `SpeakingPipeline` implement it in all their behaviours; `FullMock` uses
it for its sections.

### `WritingPipeline` - the durable queue and its workers

| In the model | In the code |
|---|---|
| `status`, `answers`, `evaluation`, `completed` | rows of `attempts`, `attempt_answers`, `writing_evaluations`, `user_skill_progress` |
| `job`, `tries`, `leased` | `writing_assessment_jobs`: `status`, `attempts`, `updated_at` younger than two minutes |
| `tab` | a submit request between `SaveAnswers`, validation and `QueueWritingAssessment` |
| `worker` | a worker loop inside `processAssessment`: which attempt, which text, which step |
| `SaveAnswers`, `BeginSubmit`, `Validate`, `QueueWritingAssessment`, `RetryAssessment`, `AbandonAttempt` | the student's transactions (`attempts/service.go`, `repository.go`, `assessment_retry.go`) |
| `RecoverWritingJobs`, `ClaimWritingAssessment`, `GetAttempt`, `ReadAnswers`, `Evaluate`, `Submit`, `CompleteWritingAssessment`, `FailWritingAssessment` | the steps of the worker |
| `RenewWritingAssessment`, `LeaseLapses` | the heartbeat, and two minutes without one |
| `Crash`, `SubmitUnacknowledged` | a process dies, a commit's acknowledgement is lost |

One text stands for all tasks of an attempt, since the code reads and writes them together.
The code trims texts before it evaluates them, so "the text" is the text up to white space
around it. `MaxFaults` bounds crashes and lost writes, `MaxStalls` the leases that lapse under a
worker that is still running; the code bounds neither.

### `SpeakingPipeline` - two queues

| In the model | In the code |
|---|---|
| `status`, `answers`, `evaluation`, `completed` | as in `WritingPipeline`, part by part |
| `revision` | `speaking_recordings.revision`, equal to `recording_revision` since both change in one transaction |
| `stt`, `transcript` | `speaking_transcriptions`: status and tries, and the text heard |
| `job` | `speaking_assessment_jobs`: status and tries |
| `tab` | an upload between the check of the attempt and `UpsertSpeakingRecording`, or a submit request |
| `worker` | a worker loop inside `processTranscription` or `processAssessment`: what it holds, and the revision or the texts it has in hand |
| `BeginUpload`, `UpsertSpeakingRecording`, `SaveAnswers`, `BeginSubmit`, `Validate`, `QueueSpeakingAssessment`, `RetryAssessment`, `AbandonAttempt` | the student's transactions (`attempts/recordings.go`, `service.go`, `repository.go`, `assessment_retry.go`) |
| `ClaimTranscription`, `LoadRecording`, `Transcribe`, `CompleteTranscription`, `FailTranscription` | the steps of `processTranscription` |
| `ClaimAssessment`, `GetAttempt`, `ListAnswers`, `ListSpeakingRecordings`, `DeferAssessment`, `EvaluateSpeaking`, `Submit`, `CompleteAssessment`, `FailAssessment` | the steps of `processAssessment` |
| `RecoverSpeakingJobs`, `RenewTranscription`, `RenewAssessment`, `TranscriptionLapses`, `AssessmentLapses` | recovery, heartbeats, and two minutes without one |

A row of either queue is a status and a number of tries; the status LAPSED is a PROCESSING row
that nobody renewed for two minutes. What is heard on a recording is named by its revision, so
a transcript says which recording it is of. The recording is read after the claim commits, as
in the code, so a worker may transcribe a newer one than it claimed. A transcription may fail
at any time, which covers a replaced file that is deleted under the worker.

### `FullMock` - one session

| In the model | In the code |
|---|---|
| `session` | `full_mock_sessions.status`, `current_section` |
| `clock[p]` | `deadline_at` and `remaining_milliseconds` of a section, 0 for NULL |
| `status`, `job` | the section's attempt and job, moved by `AssessmentJob` |
| `complete[p]` | the saved response has no blank part |
| `revision[p]` | `speaking_recordings.revision` of a spoken section, 0 without a recording |
| `request[r]` | a request: the handler, its next step, the section it read at its start |
| `used[p]` | history: the ticks a section's clock has run |

`GetSession` begins a request with what it reads; `StartSection`, `ExpireSection`,
`SubmitSaved`, `QueueAssessment`, `AbandonSection`, `PauseSection`, `DecideAdvance`,
`DecideFinish`, `Advance`, `Finish` are its later transactions or checks, in the order of
`fullmock/service.go`; `ValidateAttemptAccess`, `SaveAnswers`, `Submit`, `Record`,
`RetryAssessment` are the requests about a section's attempt. `Record` is the upsert of an
uploaded recording, which does not look at the attempt again: it may come after the session is
finished. The parts of a Speaking section are one part here; its response is the transcript that
was typed or the last recording (`Recorded`). API and database share one
clock: the code compares deadlines written by the database with the clock of the API, and a
skew shifts every deadline by itself.

### `MockSessions` - how sessions come to be

`sessions` are the mocks in order of creation, each with its owner, the identity that took it,
its draw (material and version of each skill) and the report it retakes. `mtx` is a request
inside `generateSession`, `prepareGuestMock`, `guest.Start`, `retake` or `claim`; `trialLock`,
`generationLock` and `fixedLock` are the row lock of the trial and the two advisory locks, taken
in the code's order (`LockTrial`, `LockMocks`). `CommitMock` is the rest of the transaction:
what is under way is resumed (`Resumed`), or replaced (`Replaced`), or a report is taken again
(`Successor`), or the draw becomes a session unless the charge is refused. `Republish` is the
editors' bank, `ExpireTrial` the clock, `admitted` the counter in Redis. What happens inside a
session is `FullMock`, what it costs is `FreeUsage`.

### `BillingOrders` - paid time

Transactions run READ COMMITTED; only row locks keep what a transaction has read true. So a
transaction is here: locking the order (`LockOrder`), locking the account (`LockUser`, the
code's `lockUser`), reading the window (`ReadWindow`), inserting and committing
(`InsertPaid`, `InsertGranted`, `CommitRevoke`, `NotifyClosed`), or ending early
(`NotifyNothing`, `Abort`). Checkout (`CreateOrder`, `CreatePayment`, `SetProviderOrder`)
is three steps with the provider in between. `order` and `entitlements` are the rows,
`userLock` and `orderLock` the locks, `tx` the requests. What a transaction writes shows at
its commit. What the transactions on one account read and write touches no row of another, so
there is one. A notification whose provider, amount or currency differs from its order changes
nothing and is left out.

### `BillingLocks` - who waits for whom

The same transactions, those of practice starts and the deletion of an account, over several
accounts, reduced to the rows they lock, how strongly (`Modes`: PostgreSQL's FOR KEY SHARE, FOR
NO KEY UPDATE and FOR UPDATE) and in which order (`NotifyLocks`, `GrantLocks`, `DeleteLocks`, ...).
Inserting a row locks those its foreign keys refer to: `granted_by` makes a grant lock its
administrator's account. `Detected` is PostgreSQL's deadlock detector, `Gone` the cascade of a
deletion. `DeadlocksKnown` says which cycles there are: grants of administrators to each other,
and those of a deletion.

### `FreeUsage` - free starts

Practice attempts (`attempts.Service.Start`, `CreatePractice`), full mocks (`generateSession`)
and claimed guest mocks (`guest.Claim`) of one account, as transactions over the advisory lock
of mock generation and the row lock of the account; limits and paid access change at any time.
`starts` are the attempts and sessions in order of creation with the skills of their
`free_usage` rows. `highest` is a history: the highest limit a skill has had.

### `Accounts` and `PhoneVerification` - who may come in

`Accounts` is one person with an email, a Google identity and a phone. `user` is the row (its
identity, status and role, whether it may edit, whether it is blocked, and its `auth_version`),
`refresh` the refresh sessions in order with their families, `tokens` the signed access tokens
that are followed, `rowLock` and `sessionLock` PostgreSQL's row locks. A login (`Login`,
`GoogleLogin`, `Register`, `CompleteGoogleRegistration`) is the statements it executes:
`ReadUser`, `IssueToken`, `CreateSession` and the writes in between; a token is signed from what
was read before. `RotateSession` waits for the row of the session; `InspectReuse` and
`RevokeReused` are the code's answer to a token that is used twice. `ChangeUser` to
`CommitChange` are the administrator's transactions: the statement that finds the sessions sees
those that exist when it begins (`FindSessions`). `Accepted` is the middleware. `Lapse` is the
expiry of a refresh session.

`PhoneVerification`: `VerifyRight` is one statement, `VerifyWrong` and `RecordTry` two, with
other guesses in between; a registration holds the row (`LockPhone`) until it commits
(`Consume`) or is refused. `compared`, `lost` and `paid` are histories.

### `Materials` - one scheme, four times

Reading, listening, writing and speaking are four copies of one repository that differ in
what they check and bump: `Init` chooses `skill`, and `Update*`, `Publish*`, `Archive*` are the
operations of each. An editor's `desk` is a request between what the page showed and
the statement that saves; a transcription of audio is one that takes minutes. `versions` are
rows that nothing updates, with the version they were edited from. `passage` is the current
version of a passage inside a reading test, `heldBack` a place in the guest mock, `objects`
and `mediaRows` uploads before and after their row, `fixed` a fixed mock test over the
material, `starting` and `pinned` the attempts.

### `ProviderBank` and `ProviderChain` - who answers

`ProviderBank`: rows with a priority and a revision, and the row that holds the settings of
the environment's provider. `console` is a request between its reads (`CreateAsked`,
`UpdateAsked`, `OrderAsked`, which check what the page showed) and the transaction that
checks again: the number of rows under an advisory lock (`InsertProvider`), the revision
(`UpdateRow`), every row of the order with the table locked (`Reorder`).

`ProviderChain`: one operation over any bank an administrator can have made. `queue` are the levels
of the bank, `Rotate` puts each in the order of its Redis counter (any rotation), `Allotted`
divides `left`, the budget, among the providers still to be asked. A provider that is asked
writes, calls tools or answers through the `gate`; `Fail` is an error or the end of its time,
also one that comes as the answer is complete, and the recording of the call, which takes up to
a second (`RecordLimit`) out of the same budget. `screen` is the page of the student, who may
leave at any time.

### `DailyLimits` - settings and counters

The row `stored`, the copy in Redis `shared`, the copy of each replica `memory`. `Update`
changes the replica's copy of all the limits and then `Upsert`, `Remember`, `SyncRedis`; `GetStored`
reads the row when Redis has nothing and `FillRedis` gives Redis what was read, later and perhaps
in vain. `Check` (`Service.Start`) only looks, `Allow` takes a use in one
script (`UsesLeft`); either is open when Redis is away.

### `StudyPlan` and `PlanLocks` - the plan

Every request holds the plan's lock and first brings the plan up to date, so a request is one
action, except `StartAsks` / `StartCommits`, between which the attempt is made (or the request
dies, `StartDies`). `Current` is that bringing up to date: attempts made or ended elsewhere are
matched with assignments (`Claims`, `Claimable`), the past is missed, the days ahead are filled
(`FilledDay`) with what is eligible (`Eligible`, `UsedDays`), and what was done is carried
(`Carry`). `news` is the fingerprint of the inputs: whether anything the plan is made from has
changed since it was last read.

`PlanLocks` is below it: `TryLock` takes the advisory lock on a pooled connection or gives
the connection back for ten milliseconds (`WaitsOutside`); an owner asks the pool for a second
connection (`StartAttempt`). `LockAssumption` says that fewer students than connections have
commands under way: with as many owners as connections, each may hold one and wait for
another, which the code does not exclude but the size of its pool (20 by default) makes
unlikely.

### `LearningCycles` - from a mistake to mastery

`cycles` are `Learning.Cycles` (a correction, its independence, its checks), `sessions`
drills under way or handed in, `agenda` planned checks, `label` what editors say of each drill
and of the mistake's source. Every request first applies the labels of now (`SyncedCycles`,
`Refreshed`, `Reconciled`) and then acts. `Counts` is what makes a check count: an unseen
family, no help, and for one of two the delay.

### `Objective`, `Grading`, `Grades` and `GradingPages` - answers and marks

`Objective`: `SaveAnswers` is one statement; a hand-in lists what is saved (`ListAnswers`),
grades it with what it carries (`Given`, `PointsOf`) and stores all in one transaction
(`Submit`), with other tabs in between. A page is several reads (`Load`, `Mistakes`,
`ListMistakes`), so it may show a mixture; what is stored may not.

`Grading` has the two graders as functions on an answer and a key: `GradePoints` of the attempt,
`ObjectiveCorrect` of the study plan, which is given an answer object as it is, or what
`ObjectiveGiven` makes of a typed text: each of its parts that is, in either case, the letter of
one of the first 26 options (`Aliases`) becomes that option (`Resolved`). A typed text is the
sequence of its parts; identifiers with commas or spaces around them are left out. Its behaviours build up every answer and every review up
to the bounds, so that the properties compare them over all bounded inputs. A text is a word and
how it was typed (capitals, spaces, underscore), so `Normalized` and `Collapsed` are what they
do to those. `Sorted` is the sort of a preview as what it promises, an order of the items in which
equals stay as they were (`InOrder`), of which there is one. `Grades` puts the two together
and has their property.

`GradingPages`: `visit` is a page that first asks the replica's cache (`local`, with its
eviction), then Redis (`GetMany`), then loads what is missing level by level (`NextLevel`,
`LoadLevel`), assembles it (`Assemble`) and puts it into both caches. `stored` and `links`
are the versions and what they are made of.

### `Blog` and `Presence`

`Blog`: a request on a post reads it (`ReadForUpdate`, `ReadForPublish`, `ReadForArchive`)
and writes in another statement under the guards its UPDATE has (`Publishable`). Of a post
there is the body, which alone a published post refuses to have changed (`BodyOpen`); title,
description and cover may change at any time and nothing depends on them. A certificate is an
object, then a row; an application is decided under a row lock (`IsPending`). `UpdateUser`,
`SetRole` and `LogIn` are the other writers of `users.role`; `appointed` is a history: the
accounts whose role one of them was the last to set.

`Presence`: `TouchUser` marks the day in Redis and inserts the row, or takes the mark back if
the insert fails (`ForgetKey`); `ListStale` and `RemoveStale` are the two round trips of a trim,
with pings in between.

### Faulty variants

Each module has a section of *faulty variants*: the definition of a guard or helper as a
plausible slip would have it (a dropped check, an off-by-one, a missing reset). No
specification uses them. `PROJECT.json` pairs each property with one or more of them
(`mutants`): put in place of the definition it varies, TLC finds the property violated, which
shows that the property depends on that line of the code.

## The runs

| Run | Parts and instance | Question |
|---|---|---|
| `writing_stalls` | `WritingPipeline`: 1 attempt, 2 workers, 2 submit requests, 3 tries, 1 fault, 2 stalls | Is the queue safe whatever happens, and does it come to rest? `NeverStranded`, `GradedOnce`, `ClosedIsFinal`, `JobSettles`, and `RowsSafety`: it implements `AssessmentJob` |
| `writing_leases` | `WritingPipeline`: 2 attempts, 2 workers, 2 tries, 1 fault, no stalls | While live workers keep their leases: `StudentTextKept`, and `PromiseKept`: it implements `Submission` with its liveness |
| `writing_stale_worker` | 1 attempt, 2 workers, no fault, 1 stall | (violation) see [Findings](#findings) |
| `speaking` | `SpeakingPipeline`: 1 part recorded once, 2 workers, 2 tries, 1 fault or stall | `QueuesServed`: nothing queued is out of tries, and all that is queued ends, also what is put off |
| `speaking_recordings` | 2 parts recorded up to twice, 2 workers, 1 try, 1 fault or stall; workers and parts symmetric | `TranscriptIsNewest`, `GradedOnce`, `RowsSafety` |
| `full_mock` | `FullMock`: a student with 2 sections (objective, spoken with one recording), budget 2, 3 ticks; or a guest with 3 sections, budget 1, 2 ticks; 2 requests | `TimeConserved`, `NoHeadStart`, `PassedIsHandedIn`, `ReportComplete`, `OnlyExpiredIsForced`, `ReportIsFinal`, `GuestSections` |
| `fullmock_wedged` | 1 assessed section, 1 request | (violation) see [Findings](#findings) |
| `back_office` | `BillingOrders` (2 orders, 3 entitlements), `MockSessions` (a guest, an account, 2 materials, 3 mocks), `DailyLimits` (2 replicas, 2 hand-ins, a limit of 2), `ProviderBank` (a chain of one beside the environment's), `Presence`, `Blog` (a post, 2 members, of whom one may apply twice; up to 2 roles set by hand), `Materials` (2 editors, each skill, 3 versions, a student, a fixed test) | `Queued`, `PaidOnce`, `OrdersKept`, `MocksHold`, `LimitsHold`, `BankHolds`, `PresenceHolds`, `BlogHolds`, `MaterialsHold` |
| `learning` | `StudyPlan` (a span and a clock of 3 days, one day off, an exam on the third), `LearningCycles` (2 drills, 2 sessions, 2 corrections, one decision of an editor), `Objective` (2 questions, 2 requests), `Grading` (4 options, 3 of them with a letter, one called by the letter of another, keys of one and two), `GradingPages` (a replica with a cache of one, 2 requests, a test of one passage) | `PlanHolds`, `CyclesHold`, `GradesHold`, `PagesHold` |
| `accounts` | `Accounts` (2 requests, 2 rows, 3 sessions), `PhoneVerification` (2 codes of 2 tries, 2 guesses, 2 registrations), `FreeUsage` (2 materials of one of 2 skills, limits 0 or 2, 3 starts) | `SessionsHold`, `PhoneHolds`, `QuotasHold`, `OneAtATime` |
| `free_usage_off` | `FreeUsage` without the paywall | (violation) see [Findings](#findings) |
| `endings` | `BillingLocks` (3 transactions on the rows of 2 accounts, one referred by the other: an order, its entitlement), `ProviderChain` (3 providers on 2 levels, 2 rounds, recording up to a twelfth of the budget), `PlanLocks` (4 commands of 2 students, 3 connections) | What must end: `TransactionsEnd`, `RequestsEnd`; and `ChainHolds` |

`back_office`, `learning`, `accounts` and `endings` check several modules in one run. Those
modules share no rows, so their product would show nothing new: a behaviour is a behaviour
of *one* of them, chosen by a variable of the MC module (`subject`, `topic`, `ending`), while the
others stand still in one initial state. A run of this kind is the sum of the runs of its
parts, and a property of a part is checked in all behaviours of that part. In `endings` the
fairness conditions of the parts are paired: as only one part moves, a condition of each of
them joined by a disjunction says what they say separately.

What the properties of the newer modules mean (`*Hold` also contains the type invariant of its
module):

- `MocksHold`: one session of each kind is under way and nobody meets the unique index; a
  claimed trial is spent; a report is taken again once and every guest start was counted; every
  guest has the same materials; a mock under way is only given up by its student or in the step
  that replaces it.
- `SessionsHold`: an accepted token says what the account may do now; one login has one
  live session; only members have any, and none of a deleted account outlives it.
- `PhoneHolds`: a code is compared at most as often as it has tries, but for guesses that
  were compared together or died before they were recorded; a confirmed phone pays once.
- `MaterialsHold`: no save is lost; public is what the publisher was looking at; attempts are
  pinned to versions that are whole and not newer than the published one.
- `PlanHolds`: one attempt completes one assignment; what was done or decided stays; repeats keep
  their distance; reading the plan changes nothing.
- `CyclesHold`: what is mastered was earned by a correction and two independent drills, one
  of them later; one task is open per cycle.
- `GradesHold`: a grade is that of the stored answers; full marks are for exact answers, which
  the study plan accepts too, as an answer object or by letters, and by letters no others; a preview opens the same mistakes in any order.
- `PagesHold`: a page shows each version as it is read by itself; the cache keeps its bound.
- `ChainHolds`: everyone is asked once and with an equal part of the budget, less the recordings
  before, and the page shows one voice.
- `TransactionsEnd`: no transaction of billing waits for ever, and only the known cycles need the
  detector (`DeadlocksKnown`).
- `RequestsEnd`: an operation over the chain ends (`OperationEnds`), and so does a command that holds
  the lock of a plan (`OwnersEnd`).
- `BankHolds`: the bank keeps its bound; each change was made on a page that showed the rows it
  changes.
- `LimitsHold`: a day takes no more than it was granted; copies are rows that were saved.
- `BlogHolds`: archived posts stay down; an application is decided once; roles follow
  applications where nobody has set them since; a published body is only changed as
  `PublishedChangesLate` says (see [Findings](#findings)).
- `PresenceHolds`: the day's mark has its row, or somebody about to write it, or is one a failure
  left behind (`orphaned`); no path is left behind without a visitor.

### Bounds

Two concurrent requests are enough for one to act on what the other made stale, so there are two
of nearly everything that runs at once; then the smallest number of rows at which the hazard can
occur.

- *Writing*: attempts interact only through workers, so one is enough for safety and two for
  workers that are shared. Two workers and two stalls let a worker outlive its lease and that of
  the one that followed it. Three tries are the code's.
- *Speaking*: two revisions make a worker obsolete, two parts let an assessment wait for one
  while the other failed or is silent. A second try is what deferral and recovery give back.
- *Full mock*: a budget of two ticks and a clock of three let a section be paused half-way,
  resumed, run out and be expired; one recording may come before the hand-in or after the
  finish; three sections let two tabs skip one, of which a
  guest's first may run out meanwhile.
- *Row locks*: two accounts may grant to each other; three transactions let one that is in no
  cycle wait for one that is, and a deletion meet a notification and a grant.
- *Blog*: an account may apply again after a decision, and its role be set by hand while its
  application is reviewed.
- *Grading*: one option is called by the letter of another, one by its own, one has no letter.
- *Orders*: two orders for a provider id taken twice, three entitlements for a revoked one
  between two live ones; one day passes.
- *Free starts*: a limit of two with three starts lets a request be the last to be admitted while
  another reads the same count; two materials share a skill, a mock takes both skills.
- *Mocks*: three mocks let one be restarted and taken again; two draws of one skill differ.
- *Accounts*: two rows let the account be deleted and registered again, three sessions
  let one be rotated while another login succeeds, one change of `auth_version`.
- *Materials*: three changes of a row: a version is saved over and then published, or saved while
  an older one is public and an attempt is pinned to it.
- *Plan*: three days: one study day, the day off, the exam; an attempt may be made elsewhere,
  resumed, or outlive the request. *Cycles*: a delay of one day and a clock of two distinguish
  an early check from a delayed one; two corrections make a check stale.
- *Pages*: with a cache of one entry any second version evicts the first.
- *Chain*: two levels and two providers on one of them; two rounds give a preamble.
- *Locks*: three commands of one student wait for each other, the fourth, of another,
  competes for connections.

Symmetry (`back_office`, `accounts`, `speaking_recordings`) is used only in runs without
liveness. Deadlock is not checked where a bound or an end stops the system: `FullMock`
(a closed session takes no more requests) and the four sums, whose clocks, versions and orders
are bounded. The others check it.

### Fairness

*Pipelines*: each step of a worker inside a job is weakly fair: every database call and every
evaluation runs under a timeout, after which it counts as failed. The ticker branch
is strongly fair since `select` picks at random among ready channels. A claim is strongly fair per
attempt since pending jobs are listed in `next_attempt_at` order; the ticker takes one entry of
each list per tick, so a transcription does not starve behind an assessment that is put off. The
lease of a job nobody holds lapses by the clock. The student, faults and stalls have no
fairness.

*Billing transactions*: a lock that is free is given to who waits for it and a transaction
that has its locks commits (weak), and PostgreSQL finds a cycle after its second (weak,
`Detected`); each transaction is run once. *Chain*: `Execute` is a loop in which every call
has a deadline (weak); the student who leaves has none. *Plan locks*: statements return
(weak) and the pool serves those who wait in order (strong, `Connects`). `StudyPlan`,
`FullMock` and the others wait for people, so nothing is promised to happen in them.

## Proofs

TLC checks small instances; the modules `*_proofs` prove the safety properties for every
value of the constants, from the named assumptions of each module only (sets are finite
where the code counts them, sentinels differ from values, limits are natural numbers).
Every proof follows one argument: an inductive invariant `IInv` holds initially and is kept
by each action; the property follows from it.

| Module | Theorems | What the invariant adds |
|---|---|---|
| `WritingPipeline_proofs` | `TypeCorrect`, `QueueSafe`, `GradedExactlyOnce`, `ClosedStaysClosed`; with `MaxStalls = 0` also `OneWorkerPerAttempt`, `TextKept`, `ImplementsPromise`; `ImplementsRows` | `NeverStranded` alone is not inductive: a failing worker strands nothing only because `NoJobWhileEditable` (nothing is queued under an attempt the student holds) and `TriesMatchJob` tie job, tries and status together, and because a worker about to complete knows a graded attempt (`CompletingIsGraded`) and one that holds an attempt knows it was queued (`HeldWasQueued`). Without stalls, `HolderOwns` says that who holds an attempt has its lease and the text still stored. |
| `FullMock_proofs` | of `FullMock`: `TypeCorrect`, `TimeIsConserved`, `InOrder`, `LeftIsHandedIn`, `FinishedIsComplete`, `OnlyForward`, `FinalReport`, `ForcedWhenExpired`, `GivesNothingUp`, `SectionsPassInOrder` | What a request still knows of what it read transactions ago: a section it found expired has used its budget (`ForcedIsExpired`), one it found handed in stays so (`LeavingIsHandedIn`, `ClosingIsHandedIn`), and it is not ahead of the session (`NotAhead`). |
| `FullMock_proofs` | of `MockSessions`: `MocksAreOne`; with billing also `MocksKept` | `MockInv`: what a request saw of the sessions under the locks it holds still is so (`LocksOfRequest`, `SeenByRequest`), a guest's sessions are his until he is claimed and are all over then (`Owned`), each takes the one before it again (`InTurn`), and every start of a guest was counted before it was made (`StartsCounted`), so that the limit of starts refuses no retake that is under way. |
| `BillingOrders_proofs` | `TypeCorrect`, `QueueKept`, `PaidExactlyOnce`, `SettledForGood`, `GrantsStayOnRecord`, `NothingRewritten` | What the locks keep true: who is past a lock holds it (`LocksHeld`), a window that was read is still the next free one (`WindowFresh`), an order about to be paid is still PENDING (`StillPending`), a notification's id is its order's (`RefAgrees`). |
| `BillingOrders_proofs` | of `ProviderChain`: `ChainKept` | `ChainInv`: while an operation goes on every provider of its chain was asked or is listed on what is left of the levels, once (`LevelsFit`, `Apart`), so that the providers `Waiting` are those listed. There is time for them: an equal part of what the slowest readings leave for each, less the recordings of the calls so far, and a unit for each turn of a level that is still to come (`TimeLeft`, `Share`). A division of what is left among those who wait takes one part, and of the units no more than are spare (`Shares`). The gate holds nothing of a provider that was not asked, and what the one that writes wrote is what it kept, on the page too if it is the visible one (`GateFits`). |
| `Accounts_proofs` | of `FreeUsage`: `TypeCorrect`, `QuotaIsKept`, `StartsAreCharged`, `NoneTurnedAway`, `QuotasAreKept`; with the paywall `OneAttemptPerMaterial`, `TabsShare` | The same for starts: `Locked`, the free start found is left until it is taken (`StartLeft`), nothing of the material or no mock came up since it was looked for (`AloneOnMaterial`, `AloneOnMock`). |
| `Accounts_proofs` | of `Accounts`: `SessionsKept` | What every request has read of the row, or holds locked, against the row as it is now (`RequestsFit`: a change that is written and not committed is of the present row, a session about to be rotated is active); tokens of this row say nothing the row has not been (`TokensAged`); only the request that rotates a session has it locked (`LocksHeld`); families are numbered by the sessions that began them (`FamiliesNumbered`), so that a new family is new. |
| `Accounts_proofs` | of `PhoneVerification`: `PhoneKept` | The bound on guesses is a sum over requests: while a challenge is open, what it was compared with is a try that was recorded, or about to be by one of the requests that count (`Recording`), or lost (`GuessesCounted`); one registration at a time holds a challenge (`RowsHeld`). |
| `BackOffice_proofs` | `LimitsKept`, `PresenceKept` | What a replica read or has written but not published was saved (`FromTheRow`); until a trim removes what it listed, only visitors it listed have a score no later than its cutoff (`TrimsAgree`). |
| `BackOffice_proofs` | `BankStaysBounded`, `BankKept` | The rows can be counted (`Counted`) and an order names exactly the rows its page showed (`OrdersWhole`). |
| `BackOffice_proofs` | `WritersWereApproved`, `BlogKept` | What a request read is a post, and an edit that read it published keeps its body (`DesksAgree`). Who was not appointed has his role from his applications, and only the review of one that is pending, or an appointment, writes it (`RoleWriters`). |
| `BackOffice_proofs` | `MaterialsKept`, `ContentKept` | A request whose revision is not stale has the current version on its screen and what it checked still holds (`Sees`); versions are numbered and whole where the skill requires it (`RowCounts`); what a version shows is stored, and an upload in flight has an object of its own (`Stored`); what a student starts or is pinned to was public (`Served`). |
| `Learning_proofs` | `PagesKept` | Caches hold of a version exactly what it reads by itself (`CachesExact`), versions link to versions that exist (`VersionsStored`), and a request between two queries has loaded the levels above the one it asks for (`LevelsLoaded`, `VisitHolds`). |
| `Learning_proofs` | of `LearningCycles`: `CyclesKept` | Three facts that the code never writes down. A drill begun under a correction names it, so that a session of the present correction is not older than it (`AfterFix`), and a check belongs to the cycle its drill was begun for (`OwnChecks`); a drill that was not met before differs in family and by itself from all before it, whatever editors do to labels later (`Unmet`); and beside a drill under way its cycle has nothing planned (`PlannedApart`). The last needs `Reconciled`, a loop over all cycles, which keeps `Righted` at each of its steps. |
| `Learning_proofs` | of `Grades`: `GradesKept` | Of attempts (`ObjectiveInv`): a handed-in attempt is `Graded`, all its answers stored with their points and its score their sum, and it counts one task; a request carries answers and what was saved when it looked (`RequestFits`), so that whatever it stores is complete, however old. That only all the points make the greatest score is an argument along the sum (`TotalIs`). Of grading (`GradingInv`): what a student has built up is an answer, and the items of a review have identifiers of their own. From there it is about the graders themselves: two texts are normalised alike exactly when they are `Alike`, and then they are collapsed alike (`NormalizedAlike`); an answer with a point for each option of the key, and no longer than the key, is the key (`EachPointExact`); a letter is resolved to the option it stands for (`LetterResolved`), an identifier that is no other option's letter to itself (`IdentifierResolved`). And about the sort: counting the items before each gives it its place (`PlacesAre`), so that there is an order, and a mistake is open if few enough mistakes are before it, wherever it stood (`OpenIs`). |
| `StudyPlan_proofs` | `PlanKept` | `StudyInv`: an attempt that completes an assignment is one that was handed in, and stands on one day of the plan and in one place of what is left of an old cycle (`ClaimedOnce`, `Unique`); repeats of a material are apart on the days ahead as well as in the past (`Apart`). The planner fills one day after the other: `Filled` is a recursive function of the days, and each of its values keeps what the days so far promise (`FilledFits`). That reading an up-to-date plan changes nothing follows from what the planner is given, which it takes as it was. |
| `SpeakingPipeline_proofs` | `TypeCorrect`, `QueuesSafe`, `NewestTranscript`, `GradedExactlyOnce`, `ImplementsRows` | Four invariants, one per concern, so that a step that touches one of them does not reopen the others: `Recorded` (a queued or claimed transcription has a recording to load), `QueueInv` (`TriesLeft` on every row, `NoJobWhileEditable`, and `AtWorkOnQueued`: who assesses an attempt knows it was queued, and who closes its job that it was graded), `HearsItsRevision` (what is about to be stored was heard in the revision it names) and `GradeInv` (`OwnInput`: a request brings a text for its own attempt, so it cannot change a graded one; `NothingSilent`: what is being evaluated has a text for each part). |

Where a run checks a conjunction of properties, a theorem states the same conjunction:
`QuotasAreKept` (`QuotasHold`), `TabsShare` (`OneAtATime`), `NothingRewritten` (`OrdersKept`),
`SectionsPassInOrder` (`SectionsInOrder`, which run `full_mock` checks of guests), `MocksKept`
(`MocksHold`), `SessionsKept` (`SessionsHold`), `PhoneKept` (`PhoneHolds`), `LimitsKept`
(`LimitsHold`), `PresenceKept` (`PresenceHolds`), `BankKept` (`BankHolds`), `BlogKept`
(`BlogHolds`), `ContentKept` (`MaterialsHold`), `PagesKept` (`PagesHold`), `CyclesKept` (`CyclesHold`),
`PlanKept` (`PlanHolds`), `GradesKept` (`GradesHold`, of an attempt and of the graders, which share no state), `ChainKept`
(`ChainHolds`).

`MocksKept` assumes `Billed`, as its run does: without billing the restart of a curated mock gives up the
session under way before the new one is made (see Findings), so that `NeverDestroyed` holds
with billing only. `MocksAreOne`, everything else that `MocksHold` says, holds either way.

`ImplementsRows`, proved for both pipelines, is what makes `FullMock` say something about the
real queues: `FullMock` has the attempts and jobs of its sections move as `AssessmentJob`
allows, and the pipelines are proved to do nothing else, also when leases are lost and
assessments are put off.

The proofs rest on what the constants are assumed to be. Some of these assumptions were made for
them, all of them true of the code: the sets of requests (`Logins`, `Guessers`, `Guests`,
`MockTxs`) are finite, `OnlineWindow`, `MaxStored`, `MaxVersion` and `MaxDay` are positive, `Drills`, `Materials` and
`ExamDays` are numbers from 1, as 0 stands for the source of the mistake, for a review and for no exam,
no answer is the mark of a blank one or of none (`Blank`, `NoRow`), `Order` has each provider
once, and `ChainBudget` is enough for reading the bank, a turn of every level and the recording of each
call, with a unit for each provider (the code gives 180 s, where these come to less than 100 s). Where a proof needs that a set
of numbers has a least or a greatest member (the last session of a guest, the latest row of an
account), it takes it from the well-foundedness of the natural numbers. So do the facts about
loops, which are recursive functions of a number (of the cycles passed in `Reconciled`, of the days in
`Filled`, of the questions in `Total`, of the providers in `Filtered`): that there is such a function, and that each of its values is
what is claimed of it. Each fails for no number, since it would fail for a least one.

Only model-checked: `GuestSections` and the safety parts of `QueuesServed` that no theorem states
by themselves. Only model-checkable with this prover: the liveness properties (`JobSettles`, the
liveness in `QueuesServed`, `PromiseKept`, `TransactionsEnd` and `RequestsEnd`; `DeadlocksKnown`, the
safety part of `TransactionsEnd`, is only checked too), since liveness
under fairness and ENABLED are out of its reach; and what a sequence that was filtered, sorted or
folded contains (`SelectSeq`, `SortSeq` and the folds are recursive underneath, and
the theorems of the library about them take an operator as a parameter).

## Findings

Three runs expect a violation: the code does something its own comments rule out.

- **A worker that lost its lease overwrites the student's text** (`writing_stale_worker`).
  `Repository.Submit` (`internal/attempts/repository.go:277`) grades an attempt that is
  IN_PROGRESS as well as one that is PROCESSING and does not ask whether the caller still
  owns the job. If the heartbeat of a live worker cannot reach the database for two minutes,
  others may use up the tries and give the attempt back; the student edits and saves; then
  the first worker stores the text it had read and closes the attempt. A comment of
  `internal/attempts/service.go` (354-355) promises that the student's work is left available
  for retry.
- **A session that can no longer be finished** (`fullmock_wedged`). `Finish`
  (`internal/fullmock/repository.go:430`) refuses while any job is QUEUED, PROCESSING or
  FAILED, whatever its attempt. A worker that does not learn that its grade was committed
  fails the try; if the remaining tries fail too, the job ends FAILED under a SUBMITTED
  attempt, which nothing can retry. `internal/fullmock/service.go:249` says that Finish
  closes a session even if sections are blank.
- **Two attempts of one material without the paywall** (`free_usage_off`).
  `Service.Start` (`internal/attempts/service.go:137`) looks for an attempt under way and then
  creates one with nothing locked in between and no unique index. Its comment (125-126)
  says that it returns the existing one. With the paywall on, `CreatePractice` looks again
  under the lock of the account, and the property is proved.

Met while modelling, and left without a run because the text beside the code promises less
clearly, or because nothing but the reader's expectation is hurt:

- A change of role revokes the refresh sessions its statement finds
  (`internal/admin/roles.go:81-85`). A rotation that commits meanwhile leaves a session the
  statement did not see; `README.md:261` and `docs/API.md:349-350` say that all are revoked.
  `Accounts` has the interleaving; `SessionsHold` says only what the tokens of such a session
  may do.
- `Update` of a post checks on the row it has read that its body stays if it is published, and
  then writes whatever the status has become (`internal/blog/repository.go:136-171`): a published
  body does change, though the comment of `internal/blog/service.go:100-102` says that "only
  unpublished posts accept body edits". `PublishedChangesLate` says what is left: only an edit
  that had read the post unpublished, or read the body it had then.
- An application and the role of its account diverge when an administrator sets the role
  (`internal/admin/users.go:243`, `internal/admin/roles.go:68-73`, the login of a super
  administrator), though the comment of `internal/blog/applications.go:95-97` says that they "can
  never diverge"; approving an administrator's application makes him a writer.
- A typed correction that is the identifier of an option is taken for the option whose letter it
  is (`internal/studyplan/learning_questions.go:72-79`): the right answer `i` of nine headings is
  refused, though `internal/studyplan/learning.go:725` says that plain option IDs are accepted.
  `FullMarksAreExact` excepts such identifiers.
- A recording whose upload began in time replaces the one of an attempt that has been handed in,
  graded, or reported meanwhile (`internal/attempts/recordings.go:84-93`): the report of a finished
  session then shows a recording that was not graded. `ReportIsFinal` bounds it.
- Two administrators who grant to each other at the same time, or the deletion of an account under
  a notification, deadlock, and one of the requests fails (`DeadlocksKnown`).
- Audio of a listening test is served if the *published* version uses it
  (`internal/listening/repository.go:374-383`), so an attempt pinned to an older version may
  lose its audio, while `docs/LISTENING_STT_AUDIT_2026-10-03.md:33` says that it stays pinned.
- A restart of an unbilled curated mock gives up the session under way in a statement of its
  own before the new one is made (`internal/fullmock/service.go:108-114`); the generator's comment
  (`generator.go:275-276`) says that a failure never destroys answers, which holds for generated and
  billed ones, the ones `NeverDestroyed` is checked of.
- Grades of a mock's sections are withheld until it is submitted
  (`internal/attempts/review_access.go:9-10`), but the lists of
  `internal/attempts/service.go:471-558` are put together from several reads; `Objective` allows
  a page to be such a mixture.
- The fingerprint taken after a start (`internal/studyplan/service.go:489`) also covers whatever
  else changed during it, which is then taken for known; `QuietReads` leaves those starts out.
- Limits are updated on a replica's copy that is up to three seconds old, so one of two
  administrators' changes may be undone by the other (`internal/ailimits/service.go:88`).
  `LimitsHold` does not exclude it.
- The daily row's mark may stay without its row when the write and the removal of the mark both
  fail (`internal/analytics/tracker.go:124`, the removal uses the context that has expired);
  `orphaned` names these states.
- As many owners of plan locks as the pool has connections can wait for each other for ever;
  `LockAssumption` excludes it.
- A multiple-choice answer may name one option twice (`internal/reading/service.go:357` counts,
  it does not compare), and then no answer earns its points. `Grading` takes keys as sets.
- The publishing of writing material does not bump the revision of its row, and the loser of two
  updates of a listening test is told NOT_FOUND where the documents say 409. Neither loses a
  save.

## What is not modelled

- Of the components modelled: prices, meetings and notes of orders, and what the deletion of an
  account takes with it, such as the entitlements a deleted administrator has granted to others
  (`BillingLocks` has the locks of deletions, not their effect on orders); linking a Google identity, profiles and the
  pending registration token; minutes, budgets and scores of the study plan, the second practice of a long day,
  the keeping back of the last fresh material of a week for a later study day (`deferLast`) and assignments of drills; filters and bands of
  attempts; titles, covers, slugs and the sanitising of posts; the legacy routing row and the encryption of keys.
  `components` in `PROJECT.json` says it part by part.
- `next_attempt_at` and the ticker (they only delay a worker, and
  a model worker may be delayed for any time), the Redis wake-up list (a stutter: the
  claim it leads to is the same conditional update).
- Of Speaking: the assessment by a worker without the speech service (`Service.AssessSpeaking`,
  one queue and no revisions, like Writing), the speech metrics, the deletion of replaced files.
- Text processing (import parsers, previews, sanitising, prompts): functions without state. The
  clients of models and speech (`attempts/openrouter.go`, `providers`): prompts, HTTP, parsing;
  their outcomes are choices of the modules that call them.
- Wiring (`app/app.go`, `config`), HTTP helpers, storage clients, metrics, reporting SQL
  (`analytics`, `dashboard`): pure I/O or reads.
- MCP keys and the waitlist's form: one conditional statement each, with nothing in between.
- The speech service and the alert bridge are processes of their own; the former appears
  as the external call `Transcribe` of `SpeakingPipeline`.

## Running the checks

    tlc -config WritingStalls.cfg MCWritingPipeline.tla     # a run, see PROJECT.json
    tlapm WritingPipeline_proofs.tla                        # the proofs of a module

`PROJECT.json` lists the runs with their properties, the mutants, the lines of the code each
definition stands for (`map`), the hazards with the properties that cover them, and the
theorems. The largest run takes about four minutes, the proofs of a module two to five.
