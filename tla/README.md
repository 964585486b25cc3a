# Formal models of the edu_app backend

TLA+ models of the backend under `src/`, checked with TLC and, for the parts
that matter most, proved with TLAPS. Paths below are relative to `src/src/`
unless they start with `src/`; ER is `features/exams/admin-exam/data/exam.repository.ts`,
LR `features/exams/exam-live/data/prisma-live-exam.repository.ts`, SS
`core/auth/services/session.service.ts`.

## 1. The system

A NestJS server. Any number of instances share one PostgreSQL (through Prisma),
one MongoDB (through mongoose) and, for sockets, one Redis. Within an instance
everything runs on one thread, so what interleaves are the pieces between two
`await`s; between instances everything interleaves, and the database is the only
thing they share. PostgreSQL's default isolation is READ COMMITTED: a
transaction that reads and then writes is protected only by the advisory locks
the code takes, by the `where` of its `updateMany`s and by unique indexes.

| Component | State | Operations | Talks to | What is hard | What must hold |
|---|---|---|---|---|---|
| Live exam (`features/exams/exam-live`) | `exam_attempts`, `exam_attempt_answers`, `exam_attempt_results` | start or resume, save an answer, submit, recover, grade, result | exam access (before the lock), exam content (MongoDB), the exam's advisory lock, realtime publisher | two tabs; access checked before the lock; answers out of order; submission, worker and next start closing the same attempt; the grade computed from rows read earlier; a crash between submit and grade | one open attempt, budget, attempts within the schedule, truthful closing, the grade is that of the closed sheet, everything due is graded |
| Expired-attempts worker (`exam-live/workers`) | a `running` flag per instance | tick: claim expired, then grade pending | live exam repository and grading | several instances; a throwing tick; a row that can never be graded | as above |
| Exam access (`exams/shared`) | none; reads exam, invitations, enrollments | authorize, authorizePractice | institutions, invitations | decision goes stale; the same dates compared in several places | only invited and entitled users start; what is listed as open lets in |
| Exam authoring (`exams/admin-exam`) | exam row (status, version, metadata), `ExamData` documents | create, schedule, edit metadata, edit content | PostgreSQL transaction with MongoDB writes inside it | two stores and no common transaction; timeouts; concurrent partial edits; the first start | the row points at its own content; a scheduled exam is complete; frozen once started |
| Sessions (`core/auth`) | `auth_sessions`, `auth_refresh_tokens`; a cache and an epoch per instance | create, rotate, revoke, revoke or delete for a user, authenticate | login, password changes, HTTP guard, sockets | replayed refresh tokens; a lookup racing a revocation; caches of other instances | one usable token, replay ends the session, revocation is final here and soon elsewhere |
| Password reset and change, login (`features/auth`) | `pass_resets`, `users.password_hash` | request, confirm, change, login | mail, sessions, rate limits | two requests at once; a change overwriting a reset; a session created after all were deleted; a crash before the sessions are deleted | a token works once and not after another change; the last request leaves a link; no older session outlives an answered change |
| Registration | `users`, `institutions` | register | hashing | none beyond the unique index | no duplicates |
| Rate limits (`core/auth/services/rate-limit.service.ts`) | `rate_limit_buckets` | enforce | auth and material controllers | window boundary, races, clocks | at most the limit per window, windows neither cut short nor put off |
| Study materials (`features/Resources`) | materials, files, unlocks, cleanup jobs | create, edit, review, upload, complete, unlock, delete | storage provider, PIN verifier | storage and database without common transaction; leases; late uploads | no file in use deleted, no object forgotten |
| Articles (`features/articles`) | `Article` documents | draft, edit, submit, review, unlock | MongoDB | read, check, update without repeating the check; several readers and an author on one document | a paid article has a PIN, its readers presented it, no unlock is lost, what is submitted changes only under a race |
| Institutions, global administration | institutions, admins, enrollments | register, respond; enroll, pay, review | payment (a dummy) | read, check, upsert; codes collide | one decision, whole; members asked and were admitted |
| Profile pictures (`features/user-profile`) | `profile_picture_uploads`, `users.avatar_url` | request upload, complete, set a URL | storage provider | two completions and a profile update race; the picture before is deleted afterwards | one avatar, and it is stored |
| Exam listing and history (`exams/user-exam`) | none of their own | list, enter, history | exam access, attempts | one rule written as a query and as code; several queries per page | lists, shown status and access agree; results come with their marks, answers stay private |
| Invitations, payment, storage, mail, hashing, configuration, health | none of their own | signed tokens, calls out | | | |

`PROJECT.json` lists each component with its files, what is modelled of it or
why it is not, and each hazard at its line.

## 2. The plan

Most important first; done is marked.

1. **LiveExam** over **ExamContent**, implementing **AttemptLifecycle** (done, proved).
2. **ExamAuthoring**: the two-store protocol behind an exam's content (done, proved).
3. **Session** (done, proved).
4. **Account** (reset, change, login) and **RateLimit** (done, proved).
5. **MaterialFiles**: upload intent, upload, completion, replacement, deletion and
   the cleanup worker's leases (done, proved).
6. **MaterialCatalog**: items, collections, PIN, unlock and the access policy
   (done, proved).
7. **Institution**, **Article**, **ProfilePicture**, **ExamListing** (done, proved).
8. Proofs: every invariant and every action property that a run checks is a theorem (done).
   To come: an abstract specification of a session and of a file's life, and that
   Session and MaterialFiles implement them, as LiveExam implements AttemptLifecycle.

## 3. The modules

### ExamContent, AttemptLifecycle, LiveExam

`ExamContent` holds what all exam modules mean by content: a version has its own
questions (their ids are drawn afresh, `withStableIds`) and an answer key; a
sheet maps questions to the revision and selection saved; `Verdict` is the
comparison of `GradeAttemptUseCase`. Marks, percentage and `passed` are functions
of its three sets.

`AttemptLifecycle` is the promise: an attempt opens blank on one version, its
answers only move to higher revisions while it is open, it closes once, and its
grade is the verdict on the sheet it closed with. Whoever races, and however
often it is graded again, is not visible in it.

`LiveExam` is the code. One exam; its state:

| Variable | Code |
|---|---|
| `exam` | the row of `personal_exams` / `institution_exams`, SCHEDULED throughout (no code moves it on to RUNNING, COMPLETED or CANCELLED) |
| `entitled` | users the enrollment and institution rows let in now |
| `clock` | the database's `now()`; a server's `new Date()` is any of `ServerNow` |
| `attempt`, `answer`, `result` | the rows |
| `call[p]` | the await a handler (or a worker's grading) is at, with what it has read |
| `tick[w]` | the worker of one instance: asleep, claiming, grading, with its batch |
| `lock` | holder of `pg_advisory_xact_lock` for the exam |

| Action | Code |
|---|---|
| `Authorize` | `ExamAccessService.authorize` / `authorizePractice`, before the lock |
| `StartEnds`, `StartReads`, `StartCreates`, `StartOverBudget` | `startOrResumeLocked`: lock, re-check, resume, count; then close the stale ones and insert |
| `ReceiveAnswer`, `SaveAnswer` | `SaveAnswerUseCase` up to taking the time; the transaction of `saveAnswer` |
| `Submit`, `Finalize` | `SubmitAttemptUseCase`, `finalize` (its `updateMany` with status IN_PROGRESS) |
| `GradeReads`, `GradeSkips`, `PersistGrade` | `GradeAttemptUseCase`; the same for handlers and workers |
| `TickStarts`, `ClaimExpired`, `FindPendingGrading`, `GradeNext`, `TickEnds` | `ExpiredAttemptsWorker.tick` |
| `UpdateMetadata`, `UpdateContent`, `EditCommits` | the edits of ER, under the same lock |
| `CallFails`, `TickAborts`, `ChangeEntitlement`, `ClockTicks` | a throwing query or a restart, the institution's rows, time |

A transaction that takes the advisory lock is two steps, so that whatever does
not take the lock can fall between its reads and its writes; a statement that
re-checks in its `where` is one step. Authorize is one step although it makes
several queries: nothing it learns but `mode` is used again, the rest is
re-checked under the lock (`Admits`). A retry after P2034, 40001 or 40P01
(serialization failures and deadlocks, LR:230-241) is a return to
the state before, so it adds no behaviour. Left out, because no property tells
them apart: `lastActivityAt`, `answeredAt`, the marks per answer,
`passPercentage`, IP and user agent. The unique index on the attempt number is
left out on purpose: `AttemptBudget` shows that no insert meets it.

### ExamAuthoring

One exam from its draft on. `exam` is the row, `content[v]` the ExamData document
of version `v` (the unique index `{examId, version}` allows one), `committed` a
history variable: which publication id committed a version. Each `await` of
`scheduleDraft`, `updateMetadata` and `updateContent` is a step: request, lock
and re-read, `deleteOne`, `create`, `updateMany` with commit, `discardPendingContent`
or `publishContent`. `Starts` is a candidate's start, seen from here.

`EditFails` ends a handler at any await (its transaction rolls back, its MongoDB
writes stay). `TxTimesOut` ends a transaction alone: Prisma's interactive
transactions have a default timeout of five seconds, `core/database/prisma.service.ts`
sets no other, and the handler's code goes on until it next uses the
transaction. `Spec` is without it and `LossySpec` with it, so that what holds only
without timeouts can be told apart.

### Session

`session`, `token` and `active` are rows; `cache[i]` and each call's `fresh` are the
`sessionCache` and the `cacheEpoch` of instance `i`. The epoch is only compared
with its value at the beginning of a lookup, so the model keeps that comparison
(`fresh`: not moved since) and no counter. `dead[s]` (when a session was revoked or deleted) and `barred[i]`
(the sessions instance `i` reported dead) are history variables. `rotate`,
`revoke`, `deleteForUser` and `authenticateAccessToken` are split at their awaits. The
answer of a lookup is not kept, only what it caches: one that read the row before a revocation
still lets its own request through (SS:196), also on the instance that revoked. `rotate`'s
transaction is one step, since its two `updateMany`s repeat their conditions. The cache evicts its oldest entry in the code and any entry in the model.
Left out: signatures and the expiry of the access token itself (a request with
an expired one never gets to the session), `lastSeenAt`. One clock serves all
instances. `revokeForUser` is an action although nothing calls it today.

### MaterialFiles

The files of one study material, from `features/Resources` (MS is its
`application/material.service.ts`, MW its `data/material-cleanup.worker.ts`).

| Variable | Code |
|---|---|
| `status`, `managed` | the material's row; whether the uploader may manage it (institution admins come and go) |
| `file`, `job` | `resource_files`, `resource_cleanup_jobs` |
| `left[f]` | `expiresAt` of the intent, as time from now |
| `object[f]`, `issued` | what the storage provider holds; the files whose signed URL was answered |
| `call[p]` | the await a handler is at: storing an intent, compensating, inspecting, attaching, rejecting |
| `tick[w]` | the cleanup worker of one instance, with its claimed batch |

| Action | Code |
|---|---|
| `RequestUpload`, `SaveUpload`, `SaveRefused`, `Compensates` | `upload`: two transactions with the signing between them, and the `catch` (MS:761-822) |
| `Complete`, `Inspects`, `Attaches`, `AttachEnds`, `Rejects` | `complete`: check, inspect at the provider, check again and attach (MS:853-914) |
| `Transition`, `Update`, `Delete` | `transition`, `update` |
| `TickClaims` ... `TickEnds` | `MaterialCleanupWorker.tick`: sweep and claim, then per job re-read, delete, settle or postpone |
| `Uploads`, `ClockTicks`, `ChangeManager`, `CallFails`, `SaveThrows`, `DeleteFails`, `TickAborts` | the client's upload, time, the institution's rows, failing calls, restarts |

Every transaction of the service is serializable, takes one global advisory lock
and is retried on a conflict, so it is one step. Dates are kept relative to now and
the version as "unchanged since the caller saw it" (`fresh`), which keeps the state
space finite without a bound on time. An upload may land up to `LateBy` after its
signature expired: the code gives it between one and two grace periods (one before the
first deletion, another before the second, `features/Resources/README.md:292`), and
`MaterialAssumption` states that as the assumption about the provider. A worker's
name stands for its claim token, since a tick only asks about jobs it claimed
itself. Left out: kinds and sizes of files (`object` is good or bad), `SKIP LOCKED`
(a row locked at that moment is simply claimed a tick later), the access policy and
unlock versions, collections (their cover is a file like any other).

### MaterialCatalog

The other half of study materials: what an item is, who sees and opens it, and the
PIN. `item` is the row (status, policy, PIN, `version`, `unlockVersion`), `members` a
collection's resources, `grant` the unlock grants; `active` and `enrolled` are what
the other components decide. The access policy (`domain/material.policy.ts`) is a set of
operators over them, and so are the catalogue's SQL (`Listed`), the page of a
collection (`ItemListed`) and `deliver`. Every operation is one serializable transaction and
one action; `unlock` is two (`UnlockReads`, `UnlockGrants`), since the PIN is verified
between its transactions. A management call carries the version it read and is
refused when that has moved, so it is taken to see what it changes. `told[x]` is a
history variable: who presented the item's PIN since it, or their own grant, was
last changed.

### Account

One user. A password is named by the change that set it (`era`). Each handler of
`pass-reset` and `login` is split at its awaits, and `replaceActiveReset` between its two
statements: at READ COMMITTED a second request may pass between the `updateMany` that
consumes the older tokens and the insert, so two tokens may be live at once.
`LinkRemains` says what is certain instead: whatever races, the user who asked for a link
has one. A session row has the second in which its newest access token was
issued, because `TokenStands` compares that with `passwordChangedAt`. `done` is the last
change whose handler also deleted the sessions: when the server dies in between the old
sessions go on, and `SurvivorsAreNew` does not exclude that. Module Session has the tokens and
caches of a session; here it is live or not.

### Institution, Article, ProfilePicture, RateLimit, ExamListing

Small components with the same shape: a handler reads, decides and writes later.
`call[p]` is what it has decided; the write (`Writes`, `UpdateWrites`, `Activate`, `Enforces`)
is another action, and repeats a check only where the code's `where` or lock does.

* **Institution**: application (`Register`), a global administrator's answer with its
  retries over codes (`Respond`, `Approves`, `CodeConflicts`), `enroll`, the payment
  dummy and the review of requests, whose `upsert` has no condition.
* **Article**: `updateDraft`, `submitForReview`, `reviewArticle`, `unlockArticle`. mongoose
  leaves undefined keys out of `$set`, so making an article FREE does not take its PIN away:
  that is what keeps `PurchaseHasPin` when an edit to PURCHASE relies on a PIN it read.
* **ProfilePicture**: upload rows, objects, `avatarUrl`. `activate` and the profile
  update write the user's row first, so they are one step each; the inspection before and
  the deletion after are not.
* **RateLimit**: a request takes its server's time (up to `Skew` off), and its statement runs
  later. `admitted` and `opened` are history variables of the bucket's window.
* **ExamListing**: the query's filters, the status shown, `authorize` and `authorizePractice`
  as conditions over one clock, and the history page as three queries with grading, and
  changes of the viewer's rights, between them.

`Platform` puts these five and MaterialCatalog together, and `MCPlatform` checks them in
one run. They share no step of the
code, so a behaviour is a behaviour of one of them: `part` selects it and never changes. What one
needs of another is an action of its own module (`InstitutionChanges`, `Enrolls`, `Schedules`).
Where components do interact, one module has both sides: LiveExam the edits of an
exam, Account the sessions, ExamListing exams, attempts and enrollments.

## 4. The runs

| Run | Shows | Instance |
|---|---|---|
| LiveExamStart | `OneOpenAttempt`, `AttemptBudget`, `ClosedAsDated`, `FirstCloserWins` | 1 candidate, 2 handlers, 1 worker, 3 attempts, window of 2 with duration 1, 1 or 2 attempts allowed, time 0..3 |
| LiveExamEdit | `ScheduleHolds`, `OnlyInvited`, `Inv` | 2 candidates (one invited), 2 handlers, 2 versions, schedules that differ in window, length and mode, server clocks up to 1 off, one fault |
| LiveExamAnswer | `Inv`, `ImplementsLifecycle` | 1 attempt, 2 handlers, 2 workers, revisions 1..2, 2 selections, one fault |
| LiveExamGraded | `EventuallyGraded` under `FairSpec` | 2 attempts, one of them without readable content, batch of 2, one fault |
| ExamAuthoring | `OwnedUnlessTimedOut`, `ScheduleSound`, `PublishedCommitted`, `FrozenOnceStarted` under `LossySpec` | 2 edits at once, 2 versions, 3 publication ids, 3 patches, two faults of which any may be a timeout |
| ExamAuthoringTimeout | `ContentOwned` is violated under `LossySpec` | 2 edits, one timeout |
| MaterialAttach | `AttachedStored`, `OneAttached`, `PublishedReady`, `PendingCap`, `NeverReattached` | 2 files, 2 handlers, 1 worker, 1 pending upload allowed, one fault |
| MaterialCleanup | `CleanupSound`, `NoOrphans` under `FairSpec` | 1 file, 1 handler, 2 workers, uploads up to two grace periods late, two faults |
| Session | `OneUsableToken`, `BarredStaysOut`, `StaleAtMostTtl`, `ReplayEndsSession` under `FairSpec` | 1 session, 2 tokens, 2 calls at a time, 2 instances, one fault |
| SessionRevoked | `RevokedRejected` is violated | 1 session, 2 instances |
| Account | `TokensSound`, `LinkRemains`, `SurvivorsAreNew` | 2 reset tokens, 2 sessions, 2 contexts, 2 handlers, 2 changes, one fault |
| Platform | `InstitutionsSound`, `DecisionsStand`, `ArticlesSound`, `ArticleKept`, `PicturesSound`, `LimitsSound`, `WindowHonoured`, `PinPresented`, `CollectionsSound`, `ListedIsVisible`, `ListingsSound`, `HistorySound` | institutions: 2, one by invitation and one paid, 3 users, 2 codes, 2 tries, 5 calls; article: 2 readers, 2 PINs, 2 edits, 6 calls; 3 pictures; limit 1 of 3 requests on 2 keys, clocks 1 apart; 1 resource in 1 collection, 4 and 3 changes; 2 exams, 2 users, time 0..2 |

A name that ends in `Sound`, and `Inv`, is a conjunction of named parts that are stated one
by one, with a comment each, in the component's module; the type invariant is
one of them. Two properties bound what the code lets happen rather than exclude it:
`DecisionsStand` says that membership is lost only to a handler that had read the row before
the member was admitted, and `ArticleKept` that a submitted text is changed only by an edit
that began before. Both races are real: neither update repeats its check.

Every property of a passing run is broken by at least one plausible bug in the
code (`mutants` in PROJECT.json; the mutated operators stand next to the originals,
as `Name_WhatChanged`).

**What the two violations show.** *ExamAuthoringTimeout*: edit A's
transaction times out while its `deleteOne` (ER:246) or `create` is on its way to
MongoDB; the lock is free, edit B writes and commits the same version; A's write
then lands and removes B's document. The row points at content that is not
there. *SessionRevoked*: a session revoked on one instance is accepted from the
cache of another (SS:163); `features/Resources/README.md:3` says revoked credentials
return 401. `StaleAtMostTtl` says for how long: at most the lifetime of an access
token after the revocation.

**Bounds.** Time: `MaxTime` lets the clock pass every date that matters by at
least one (before the window, in it, after it; a session and a cache entry
alive, at their last moment, and expired). Handlers: the races are between two
actors, plus the worker; two workers where the lease of one can run out.
Attempts: one more than the budget. Versions: the one edited from and the one
edited to. Revisions: an older and a newer one. `MaxFaults` bounds failures, one
at a time being enough to expose each, two in ExamAuthoring since a timeout needs
another failure to matter. `MaxVersion`, the number of tokens, session ids and
publication ids stand for unbounded supplies (a session run simply stops
refreshing when they are used up, an exam is no longer edited, Account and the components
of Platform run out of tokens, calls or changes: these configurations say `CHECK_DEADLOCK FALSE`; LiveExam's and MaterialFiles' never stop, since a call
can always be made).

**Symmetry** is used in safety runs only, over ids that no definition
distinguishes.

**Fairness.** `LiveExam!FairSpec`: weak fairness of each worker's steps and
grading, justified by `setInterval`, which keeps calling `tick`, and by every
awaited call returning or throwing (TickAborts counts as going on). Nothing is
assumed of candidates, handlers or the clock. `EventuallyGraded` therefore needs
a worker, not the submitting handler. It assumes fewer unreadable attempts than
the batch holds: `findPendingGrading` takes the oldest `Limit` rows, and as many that
can never be graded would starve the rest. `Session!FairSpec`: queries of a call under way
return. With a failing call between a lost rotation and its revocation the session
stays live, as nothing retries it; the property excepts behaviours with one. `MaterialFiles!FairSpec`:
the worker's timer keeps firing and its calls return, and time passes; nothing is
assumed of clients or handlers. `NoOrphans` excepts workers that go on losing their
jobs while they are at them (`TakesOver`): two, each always slower than the lease, could
take a job from one another for ever. It cannot see an intent left by a failed `upload`
and a failed compensation: its URL was never answered, so it has no object.

## 5. The proofs

Each `...Proofs` module extends its component's module. What they prove holds for any
constants that satisfy the named ASSUMEs: any number of users, handlers, workers,
instances, exams, files, items and requests, any schedules, any clock skew, any number
of faults. Every safety invariant and every action property of the passing runs is the
conclusion of a theorem.

| Module | Theorems |
|---|---|
| LiveExamProofs | `TypeCorrect`, `InvHolds`, `OneOpenAttemptHolds`, `AttemptBudgetHolds`, `ScheduleHoldsAlways`, `OnlyInvitedHolds`, `ClosedAsDatedHolds`, `FirstCloserWinsHolds`, `LifecycleImplemented` (LiveExam implements AttemptLifecycle) |
| SessionProofs | `TypeCorrect`, `InvHolds`, `OneUsableTokenHolds`, `BarredStaysOutHolds`, `StaleAtMostTtlHolds`, `CacheBoundedHolds` (the cache keeps its limit) |
| ExamAuthoringProofs | of `LossySpec`, with transactions that time out: `SchedulesAreSound`, `ContentIsOwned`, `PublishedIsCommitted`, `RowIsFrozen` |
| AccountProofs | `TokensAreSound`, `ALinkRemains`, `SurvivorsAreNewer` |
| MaterialFilesProofs | `AttachedIsStored`, `OneIsAttached`, `PublishedIsReady`, `PendingIsCapped`, `CleanupIsSound`, `NeverIsReattached` |
| MaterialCatalogProofs | `PinIsPresented`, `CollectionsAreSound`, `ListedIsWhatIsVisible` |
| PlatformProofs | `InstitutionsAreSound`, `DecisionsDoStand`, `ArticlesAreSound`, `ArticlesAreKept`, `PicturesAreSound`, `LimitsAreSound`, `WindowsAreHonoured`, `ListingsAreSound`, `HistoriesAreSound` |

The pattern is the same throughout. A property of the rows is not inductive, because
handlers write what they decided one or more awaits earlier. The inductive invariant `Inv`
of a component, in its own module, adds to the property what every handler under way
may still rely on (`CallOK`), and why: a lock, a condition that only becomes truer, or
a check the write repeats. `Inv` holds initially, and each action keeps it; TLC found each `Inv`
true on the component's run before it was proved.

**Argument, LiveExam.** No row property is inductive alone: an insert is safe
because of what the inserting handler read one step earlier. `Inv` says that it is
still true when it writes. A handler in `create` holds the lock, sees the exam
row as it is, counted the attempts that exist, and found none running
(`CreatesOnFacts`): every other insert and every edit needs the same lock, and
what needs no lock (closing, grading) only makes these facts truer. An editing
handler holds the lock and there is no attempt. A grader holds a verdict on a
sheet that can no longer change, because the attempt is closed
(`GradesOnFacts`, `GradedRight`): so grading twice, or from old reads, gives the same
result, which is what makes a second `PersistGrade` a stutter of the abstract
lifecycle. A worker's batch holds attempts that were expired by its clock, and
expiry dates never move (`TickOK`). The attempt numbers need counting: the
lemmas on `Of` and its cardinality, with finiteness of AttemptId, come first.

**Argument, Session.** A dead session never comes back (`RowsOK`), since ids are
not reused. A lookup that found a session live and still compares equal on the
epoch runs on an instance that has not barred the session (`fresh` in `CallOK`): an
instance that bars one clears its cache and moves its epoch in one step.
Until then what is cached expires at most an access-token lifetime after the
time the lookup began with, which is not after the session died. The cache's bound needs
counting only: a full cache gives up an entry before it takes one, and what is cached
again is not counted twice.

**Argument, ExamAuthoring.** Only the handler with the lock moves the row or the next
version's document. So a handler about to update the row holds the lock and, merged with
the row as it is, its patch passes (`WriteOK`); one between its MongoDB writes has the
lock, the next version, and after `create` that document, unless a transaction has timed
out (`TransactionOK`); and one about to publish names the publication that was committed. A
candidate's start takes the lock too: while it is held, nobody has started. Once a
transaction has timed out, its handler's MongoDB writes may land anywhere, and what is left
of `TransactionOK` is that the plan to be stored fits; the row's update is in the transaction
and fails with it. That is why the schedule and the frozen row are proved with timeouts, and
the content only without.

**Argument, Account.** Nothing names a password that is not set yet: the change a call or a
session goes back to is at most `era`. A call knows a token only once its row is there, and a
token that was not consumed changed nothing (`InOrder`). With that, the consuming statement,
which repeats its conditions, takes a token from 0 uses to 1, and every change of the password
consumes all other tokens in the same step. A request keeps `LinkRemains` by its own insert:
whatever it revokes, the row it adds is live and of the present era. A session is created
in the era it says (`made`), and a deletion removes what was there when it ran, so the
survivors are not older than the change it was for.

**Argument, MaterialCatalog.** `GrantPaid`: no grant is ahead of its item's `unlockVersion`, which moves
with each change of PIN or policy, and whoever holds one that is valid has presented the
PIN; `CallKnows`: so has a user whose unlock is between its transactions, as long as the item
has not changed since it was read. That a collection opens nothing that its own policy does not
pay for (`InvNoLeak`) follows from the compatibility that each transaction checks on its side of
the membership. `Held` adds that what a collection holds exists and is finite: its bounds are proved
with the library's theorems on cardinality.

**Argument, MaterialFiles.** Only an upload whose URL was given out has an object, and a file
with a cleanup job is never attached again (`FileOK`); no call but the one that drew its id
writes a file that is not there yet, and one about to attach a file that is not given up has seen a
good object, which nobody deletes before it is given up (`CallOK`). Cleanup is final because whoever
deletes for the last time (`late`) does so after any upload may land (`TickOK`, `FileOK`). The two
deletions are a grace period apart, and the proof needs `LateBy <= 2 * Grace` at exactly the
step that settles a job: with a larger `LateBy` it fails there. `PendingCap` counts files: that one
more row makes one more is a lemma on cardinality.

**Argument, Platform.** A step of Platform is a step or a stutter of each component
(`Steps`), so each needs its own `Inv`: an institution stays live and requests and approvals
stay on record, which makes the unconditional upsert safe (`Earned`); no update takes a PIN,
a reason or an unlock away; a verified picture is good until it is replaced; a bucket has counted
whatever its window admitted; a graded attempt stays graded.

**Assumptions.** The ASSUMEs say what the code's configuration and types fix (limits are positive,
names of kinds are disjoint, `NoCode` is no code), and one thing about the outside:
`MaterialAssumption`'s bound on late uploads.

**Only model-checked.** Liveness (`EventuallyGraded`, `ReplayEndsSession`, `NoOrphans`):
temporal reasoning with fairness and ENABLED is out of the prover's reach. The
two violated properties are TLC's counterexamples. Induction over data and
RECURSIVE operators are out of reach too; no module has any.

## 6. Not modelled

The components marked not_modelled in PROJECT.json: adapters, wiring and mail, which
keep no state; invitations, which are signed tokens (`LiveExam!Invited` are the users who
hold one); payment, whose gateway no use case that changes state waits for; the realtime
gateway, which calls the use cases that LiveExam models. Within the modelled ones:

* the registration of a user (one insert under a unique index) and all validation;
* the order of questions and options, of items in a collection, and of any listing; paging;
* signatures and expiry of access tokens and invitation tokens; hashing of PINs
  and passwords, which are compared as what they are;
* the preview of a locked article and the listings of articles;
* `createDraft`'s institution check beyond `admin`; the sockets' rooms and events;
* an enrollment's SUSPENDED (which `enroll` would refuse, `Institution!Enrollable`) and an exam's
  RUNNING, COMPLETED and CANCELLED, which no code sets; the listings and the access checks
  name the statuses they hide or let in as the code does, but only DRAFT and SCHEDULED occur;
* the length an article's content must have to be submitted: `Submit` may always go on, or not happen;
* the object a profile picture upload leaves when its row was never saved: nothing in the code
  collects it.

## Running

    tlc -workers 2 -config LiveExamStart.cfg MCLiveExam
    tlapm LiveExamProofs.tla

and so on for the other configurations and `...Proofs` modules. The slowest runs take two to three minutes.
